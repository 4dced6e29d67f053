--------------------------- MODULE PackageSwitchProofs ---------------------------
(***************************************************************************)
(* What PackageSwitch keeps for any nodes, contents, versions and other    *)
(* packages. A plan is sound when it is made, whatever it is made against; *)
(* the journals hold sound plans, and what a journal deletes was shown: so *)
(* a switch that is resumed deletes and removes only what a sound plan     *)
(* the user read names. And what a journal promises of a half-switched     *)
(* package, wherever its switch stopped, leaves the layers served.         *)
(***************************************************************************)
EXTENDS PackageSwitch, TLAPS

\* No plan removes a node that another package contained when it was made, or that a
\* node of the version or a kept one contains.
Sound(plan) ==
  \A n \in plan.removed : /\ n \notin plan.users
                          /\ \A m \in plan.version \cup plan.kept : n \notin Refs[m]

PlansKept ==
  /\ \A v \in Versions : journal[v] # NoPlan => v # {} /\ journal[v].version = v /\ Sound(journal[v])
  /\ shown # NoPlan => shown.version \in Versions \ {{}}
  /\ shown # NoPlan /\ journal[shown.version] # NoPlan => NothingNew(journal[shown.version])
  /\ apply.pc # "idle" => shown # NoPlan /\ shown.version = apply.plan.version

IInv == TypeOK /\ PlansKept /\ PinsAccounted

\* The nodes kept are candidates, among them those other packages contain, and they
\* are closed under containment.
LEMMA KeptClosed ==
  ASSUME NEW version, NEW candidates
  PROVE  /\ KeptNodes(version, candidates) \subseteq candidates
         /\ \A n \in candidates \ KeptNodes(version, candidates) :
              /\ n \notin contained
              /\ \A m \in version \cup KeptNodes(version, candidates) : n \notin Refs[m]
<1> DEFINE Roots == contained \cup UNION {Refs[n] : n \in version}
           Closed(ns) == \A n \in candidates : n \in Roots \/ (\E m \in ns : n \in Refs[m]) => n \in ns
           Kept == {n \in candidates : \A ns \in SUBSET candidates : Closed(ns) => n \in ns}
<1>1. KeptNodes(version, candidates) = Kept
  BY DEF KeptNodes
<1>2. \A n \in candidates : n \in Roots => n \in Kept
  OBVIOUS
<1>3. \A n \in candidates, m \in Kept : n \in Refs[m] => n \in Kept
  OBVIOUS
<1>4. QED
  BY <1>1, <1>2, <1>3

\* The file a claim is at is a path of the package.
LEMMA PathUnderType ==
  ASSUME NEW claims, NEW n \in Names, NEW c \in Contents
  PROVE  PathUnder(claims, n, c) \in Paths
BY DEF PathUnder, Paths

LEMMA PathsOfType ==
  ASSUME NEW claims, NEW c \in Contents
  PROVE  PathsOf(claims, c) \subseteq Paths
BY PathUnderType DEF PathsOf

LEMMA ClaimsOfType ==
  ASSUME NEW ns \in SUBSET Nodes
  PROVE  ClaimsOf(ns) \subseteq Names \X Contents
BY SwitchAssumption DEF SwitchAssumption, ClaimsOf

\* Every plan is one, and sound, whatever is on disk and installed.
LEMMA PlanSound ==
  ASSUME TypeOK, NEW v \in Versions, NEW plan \in PlanSwitches(v)
  PROVE  plan \in Plans /\ plan.version = v /\ Sound(plan)
<1> DEFINE candidates == home \ v
           kept == KeptNodes(v, candidates)
           before == ClaimsOf(home)
           after == After(v)
           From(cl) == PathUnder(before, cl[1], cl[2])
           To(cl) == PathUnder(after, cl[1], cl[2])
           there == {cl \in before : Here(From(cl))}
           stays == Stays(v)
           renames == UNION {{[from |-> From(cl), to |-> t] : t \in {p \in PathsOf(after, cl[2]) : ~Here(p)}} :
                               cl \in there \ after}
           Goes(r) == {cl \in there \ after : \A m \in r : m.from # From(cl)}
           Gone(cl) == [file |-> From(cl), cid |-> cl[2], elsewhere |-> PathsOf(after, cl[2]) \ {From(cl)}]
<1>1. PICK r \in SUBSET (stays \cup renames) :
        plan = [version |-> v, moves |-> r, deletes |-> {Gone(cl) : cl \in Goes(r)},
                removed |-> candidates \ kept, kept |-> kept, users |-> contained]
  BY Zenon DEF PlanSwitches
<1>2. v \in SUBSET Nodes /\ home \in SUBSET Nodes /\ contained \in SUBSET Nodes
  BY SwitchAssumption DEF SwitchAssumption, TypeOK
<1>3. kept \subseteq candidates /\ candidates \subseteq Nodes
  BY <1>2, KeptClosed
<1>4. before \subseteq Names \X Contents
  BY <1>2, ClaimsOfType
<1>5. \A cl \in Names \X Contents : /\ From(cl) \in Paths /\ To(cl) \in Paths
                                    /\ PathsOf(after, cl[2]) \subseteq Paths
  BY PathUnderType, PathsOfType
<1> HIDE DEF before, after, kept, From, To
<1>6. stays \subseteq Moves
  BY <1>4, <1>5 DEF Moves, Stays, before, after, From, To
<1>7. renames \subseteq Moves
  BY <1>4, <1>5 DEF Moves
<1>8. \A cl \in Goes(r) : Gone(cl) \in Deletes
  BY <1>4, <1>5 DEF Deletes
<1> HIDE DEF Goes, Gone, stays, renames
<1>9. plan \in Plans
  <2>1. r \in SUBSET Moves
    BY <1>6, <1>7
  <2>2. {Gone(cl) : cl \in Goes(r)} \in SUBSET Deletes
    BY <1>8
  <2>3. QED
    BY <1>1, <1>2, <1>3, <2>1, <2>2 DEF Plans
<1>10. plan.version = v /\ plan.removed = candidates \ kept /\ plan.kept = kept /\ plan.users = contained
  BY <1>1
<1>11. \A n \in candidates \ kept : n \notin contained /\ \A m \in v \cup kept : n \notin Refs[m]
  BY KeptClosed DEF kept
<1> HIDE DEF candidates
<1>12. QED
  BY <1>9, <1>10, <1>11 DEF Sound

LEMMA InitInv == Init => IInv
<1> SUFFICES ASSUME Init PROVE IInv
  OBVIOUS
<1>1. home \in SUBSET Nodes /\ contained \in SUBSET Nodes
  BY SwitchAssumption DEF Init, SwitchAssumption
<1> DEFINE At(cl) == PathUnder(ClaimsOf(home), cl[1], cl[2])
<1>2. PICK cls \in SUBSET ClaimsOf(home) :
        /\ files = [p \in Paths |-> IF \E cl \in cls : At(cl) = p
                                    THEN (CHOOSE cl \in cls : At(cl) = p)[2] ELSE None]
        /\ ref = [c \in Contents |->
                    LET places == {At(cl) : cl \in {x \in cls : x[2] = c}}
                    IN IF places = {} THEN None ELSE CHOOSE p \in places : TRUE]
  BY DEF Init
<1>3. \A cl \in cls : cl[2] \in Contents /\ At(cl) \in Paths
  <2>1. cls \subseteq Names \X Contents
    BY <1>1, ClaimsOfType
  <2>2. QED
    BY <2>1, PathUnderType
<1> HIDE DEF At
<1>4. files \in [Paths -> Contents \cup {None}]
  BY <1>2, <1>3
<1>5. ref \in [Contents -> Paths \cup {None}]
  <2> SUFFICES ASSUME NEW c \in Contents PROVE ref[c] \in Paths \cup {None}
    BY <1>2
  <2> DEFINE places == {At(cl) : cl \in {x \in cls : x[2] = c}}
  <2>1. places \subseteq Paths
    BY <1>3
  <2>2. ref[c] = IF places = {} THEN None ELSE CHOOSE p \in places : TRUE
    BY <1>2
  <2> HIDE DEF places
  <2>3. QED
    BY <2>1, <2>2
<1>6. TypeOK
  <2>1. landing = {} /\ stage \in [Versions -> SUBSET Nodes] /\ pin \in [Versions -> BOOLEAN]
    BY DEF Init
  <2>2. journal \in [Versions -> Plans \cup {NoPlan}] /\ shown \in Plans \cup {NoPlan}
    BY DEF Init
  <2>3. held = None /\ disturbed = FALSE /\ torn = {} /\ faults \in 0..MaxFaults
    BY SwitchAssumption DEF Init, SwitchAssumption
  <2>4. apply = [pc |-> "idle", plan |-> NoPlan, todo |-> {}, gone |-> None]
    BY DEF Init, Idle
  <2>5. apply \in [pc : {"idle", "move", "delete"}, plan : Plans \cup {NoPlan},
                  todo : SUBSET (Moves \cup Deletes), gone : Deletes \cup {None}]
    BY <2>4
  <2>6. QED
    BY <1>1, <1>4, <1>5, <2>1, <2>2, <2>3, <2>4, <2>5 DEF TypeOK
<1>7. PlansKept /\ PinsAccounted
  BY DEF Init, PlansKept, PinsAccounted, Idle
<1>8. QED
  BY <1>6, <1>7 DEF IInv

LEMMA StagePreserves ==
  ASSUME IInv, NEW v \in Versions, StageUpdate(v)
  PROVE  IInv'
<1>1. v \in SUBSET Nodes
  BY SwitchAssumption DEF SwitchAssumption
<1>2. CASE journal[v] # NoPlan /\ shown' = journal[v] /\ UNCHANGED <<stage, pin, disturbed>>
  <2>1. shown' \in Plans \cup {NoPlan} /\ shown'.version = v
    BY <1>2 DEF IInv, TypeOK, PlansKept
  <2>2. TypeOK'
    BY <1>2, <2>1 DEF IInv, TypeOK, StageUpdate
  <2>3. PlansKept'
    BY <1>2, <2>1 DEF IInv, PlansKept, StageUpdate, NothingNew
  <2>4. QED
    BY <1>2, <2>2, <2>3 DEF IInv, PinsAccounted, StageUpdate
<1>3. CASE /\ journal[v] = NoPlan /\ Fetched(v)
           /\ disturbed' = (disturbed \/ \E w \in Versions : journal[w] # NoPlan)
  <2>1. PICK plan \in PlanSwitches(v) : shown' = plan
    BY <1>3 DEF Fetched
  <2>2. plan \in Plans /\ plan.version = v
    BY PlanSound DEF IInv
  <2>3. TypeOK'
    BY <1>1, <1>3, <2>1, <2>2 DEF IInv, TypeOK, StageUpdate, Fetched
  <2>4. PlansKept'
    BY <1>3, <2>1, <2>2 DEF IInv, PlansKept, StageUpdate, Fetched
  <2>5. PinsAccounted'
    BY <1>3 DEF IInv, TypeOK, PinsAccounted, StageUpdate, Fetched
  <2>6. QED
    BY <2>3, <2>4, <2>5 DEF IInv
<1>4. CASE /\ journal[v] = NoPlan /\ FetchFails(v)
           /\ disturbed' = (disturbed \/ \E w \in Versions : journal[w] # NoPlan)
  <2>1. TypeOK'
    BY <1>4 DEF IInv, TypeOK, StageUpdate, FetchFails
  <2>2. PlansKept'
    BY <1>4 DEF IInv, PlansKept, StageUpdate, FetchFails, NothingNew
  <2>3. PinsAccounted'
    BY <1>4 DEF IInv, TypeOK, PinsAccounted, StageUpdate, FetchFails
  <2>4. QED
    BY <2>1, <2>2, <2>3 DEF IInv
<1>5. QED
  BY <1>2, <1>3, <1>4 DEF StageUpdate

LEMMA DiscardPreserves ==
  ASSUME IInv, DiscardStagedUpdate
  PROVE  IInv'
<1>1. shown.version \in Versions
  BY DEF IInv, PlansKept, DiscardStagedUpdate
<1>2. TypeOK'
  BY <1>1 DEF IInv, TypeOK, DiscardStagedUpdate
<1>3. PlansKept'
  BY <1>1 DEF IInv, TypeOK, PlansKept, DiscardStagedUpdate
<1>4. PinsAccounted'
  BY <1>1 DEF IInv, TypeOK, PinsAccounted, DiscardStagedUpdate
<1>5. QED
  BY <1>2, <1>3, <1>4 DEF IInv

LEMMA BeginPreserves ==
  ASSUME IInv, ApplyBegins
  PROVE  IInv'
<1>1. PICK v \in Versions :
        /\ Ready(v)
        /\ IF journal[v] # NoPlan
           THEN Begins(journal[v]) /\ UNCHANGED <<journal, disturbed>>
           ELSE \E plan \in PlanSwitches(v) :
                  /\ NothingNew(plan) /\ Begins(plan)
                  /\ journal' = [journal EXCEPT ![v] = plan]
                  /\ disturbed' = (disturbed \/ ~(Stays(v) \subseteq plan.moves))
  BY DEF ApplyBegins
<1>2. PICK plan : /\ Begins(plan) /\ NothingNew(plan) /\ plan \in Plans /\ plan # NoPlan
                  /\ plan.version = v /\ Sound(plan)
                  /\ journal' = [journal EXCEPT ![v] = plan]
  <2>1. CASE journal[v] # NoPlan
    <3>1. journal[v] \in Plans /\ journal[v].version = v /\ Sound(journal[v])
      BY <2>1 DEF IInv, TypeOK, PlansKept
    <3>2. NothingNew(journal[v])
      BY <1>1, <2>1 DEF IInv, PlansKept, Ready
    <3>3. journal' = [journal EXCEPT ![v] = journal[v]]
      BY <1>1, <2>1 DEF IInv, TypeOK
    <3>4. QED
      BY <1>1, <2>1, <3>1, <3>2, <3>3
  <2>2. CASE journal[v] = NoPlan
    <3>1. PICK plan \in PlanSwitches(v) :
            NothingNew(plan) /\ Begins(plan) /\ journal' = [journal EXCEPT ![v] = plan]
      BY <1>1, <2>2
    <3>2. plan \in Plans /\ plan.version = v /\ Sound(plan)
      BY PlanSound DEF IInv
    <3>3. v # {}
      BY <1>1 DEF Ready, IInv, PlansKept
    <3>4. plan # NoPlan
      BY <3>2, <3>3 DEF NoPlan
    <3>5. QED
      BY <3>1, <3>2, <3>4
  <2>3. QED
    BY <2>1, <2>2
<1>3. TypeOK'
  <2>1. disturbed' \in BOOLEAN
    BY <1>1 DEF IInv, TypeOK
  <2>2. QED
    BY <1>1, <1>2, <2>1 DEF IInv, TypeOK, ApplyBegins, Begins, Plans
<1>4. PlansKept'
  BY <1>1, <1>2 DEF IInv, TypeOK, PlansKept, ApplyBegins, Begins, Ready, NothingNew, NoPlan
<1>5. PinsAccounted'
  BY DEF IInv, PinsAccounted, ApplyBegins
<1>6. QED
  BY <1>3, <1>4, <1>5 DEF IInv

\* A step that leaves the plans alone, and the files or the nodes within their types.
LEMMA DiskPreserves ==
  ASSUME IInv, UNCHANGED <<landing, stage, journal, pin, held, shown, disturbed, apply, faults>>,
         home' \subseteq Nodes, contained' \subseteq Nodes, files' \in [Paths -> Contents \cup {None}],
         ref' \in [Contents -> Paths \cup {None}], torn' \subseteq Contents
  PROVE  IInv'
<1>1. TypeOK'
  BY DEF IInv, TypeOK
<1>2. PlansKept'
  BY DEF IInv, PlansKept, NothingNew
<1>3. QED
  BY <1>1, <1>2 DEF IInv, PinsAccounted

\* A step of a switch: the plan and the phase it is in stay.
LEMMA ApplyPreserves ==
  ASSUME IInv, UNCHANGED <<contained, landing, stage, journal, pin, held, shown, disturbed, home>>,
         faults' \in 0..MaxFaults, files' \in [Paths -> Contents \cup {None}],
         ref' \in [Contents -> Paths \cup {None}], torn' \subseteq Contents,
         apply.pc # "idle", NEW pc \in {"move", "delete"},
         NEW todo \in SUBSET (IF pc = "move" THEN apply.plan.moves ELSE apply.plan.deletes),
         NEW gone \in Deletes \cup {None},
         apply' = [pc |-> pc, plan |-> apply.plan, todo |-> todo, gone |-> gone]
  PROVE  IInv'
<1>1. apply.plan \in Plans
  BY DEF IInv, TypeOK
<1>2. apply.plan.moves \subseteq Moves /\ apply.plan.deletes \subseteq Deletes
  BY <1>1 DEF Plans
<1>3. apply' \in [pc : {"idle", "move", "delete"}, plan : Plans \cup {NoPlan},
                  todo : SUBSET (Moves \cup Deletes), gone : Deletes \cup {None}]
  BY <1>1, <1>2
<1>4. /\ apply'.pc = "move" => apply'.todo \subseteq apply'.plan.moves
      /\ apply'.pc = "delete" => apply'.todo \subseteq apply'.plan.deletes
      /\ apply'.plan \in Plans /\ apply'.plan # NoPlan /\ journal[apply'.plan.version] = apply'.plan
  BY <1>1 DEF IInv, TypeOK
<1>5. TypeOK'
  BY <1>3, <1>4 DEF IInv, TypeOK
<1>6. PlansKept'
  BY DEF IInv, PlansKept, NothingNew
<1>7. QED
  BY <1>5, <1>6 DEF IInv, PinsAccounted

LEMMA ApplyShape ==
  ASSUME TypeOK
  PROVE  apply = [pc |-> apply.pc, plan |-> apply.plan, todo |-> apply.todo, gone |-> apply.gone]
BY DEF TypeOK

LEMMA MovePreserves ==
  ASSUME IInv, Move
  PROVE  IInv'
<1>1. PICK m \in apply.todo :
        /\ apply' = [apply EXCEPT !.todo = @ \ {m}]
        /\ IF Here(m.from) /\ ~Here(m.to)
           THEN files' = [files EXCEPT ![m.to] = files[m.from], ![m.from] = None]
           ELSE UNCHANGED files
  BY DEF Move
<1>2. apply.pc = "move" /\ apply.plan \in Plans /\ apply.todo \subseteq apply.plan.moves
  BY DEF Move, Step, IInv, TypeOK
<1>3. m \in Moves
  BY <1>2 DEF Plans
<1>4. files' \in [Paths -> Contents \cup {None}]
  BY <1>1, <1>3 DEF IInv, TypeOK, Moves
<1>5. apply' = [pc |-> "move", plan |-> apply.plan, todo |-> apply.todo \ {m}, gone |-> apply.gone]
  BY <1>1, <1>2, ApplyShape DEF IInv
<1>6. apply.gone \in Deletes \cup {None}
  BY DEF IInv, TypeOK
<1>7. ref' \in [Contents -> Paths \cup {None}] /\ torn' \subseteq Contents
  BY DEF IInv, TypeOK, Move
<1>8. /\ UNCHANGED <<contained, landing, stage, journal, pin, held, shown, disturbed, home>>
      /\ faults' \in 0..MaxFaults
  BY DEF Move, Step, IInv, TypeOK
<1> DEFINE todo == apply.todo \ {m}
<1>9. todo \in SUBSET (IF "move" = "move" THEN apply.plan.moves ELSE apply.plan.deletes)
  BY <1>2
<1> HIDE DEF todo
<1>10. QED
  BY <1>2, <1>4, <1>5, <1>6, <1>7, <1>8, <1>9, ApplyPreserves DEF todo

LEMMA FollowPreserves ==
  ASSUME IInv, Follow
  PROVE  IInv'
<1> DEFINE followed == {m \in apply.plan.moves : Here(m.to) /\ ~Here(m.from)}
           moved == {c \in Contents : \E m \in followed : ref[c] = m.from}
<1>1. \/ /\ ref' = [c \in Contents |-> IF c \in moved
                                       THEN (CHOOSE m \in followed : ref[c] = m.from).to ELSE ref[c]]
         /\ UNCHANGED torn
      \/ moved # {} /\ torn' = torn \cup moved /\ UNCHANGED ref
  BY DEF Follow
<1>2. apply.pc = "move" /\ apply.plan \in Plans
  BY DEF Follow, Step, IInv, TypeOK
<1>3. followed \subseteq Moves
  BY <1>2 DEF Plans
<1>4. moved \subseteq Contents
  OBVIOUS
<1>5. \A c \in moved : (CHOOSE m \in followed : ref[c] = m.from).to \in Paths
  BY <1>3 DEF Moves
<1> HIDE DEF followed, moved
<1>6. ref' \in [Contents -> Paths \cup {None}] /\ torn' \subseteq Contents
  BY <1>1, <1>4, <1>5 DEF IInv, TypeOK
<1>7. apply' = [pc |-> "delete", plan |-> apply.plan, todo |-> apply.plan.deletes, gone |-> apply.gone]
  BY ApplyShape DEF IInv, Follow
<1>8. apply.gone \in Deletes \cup {None} /\ files' \in [Paths -> Contents \cup {None}]
  BY DEF IInv, TypeOK, Follow
<1>9. /\ UNCHANGED <<contained, landing, stage, journal, pin, held, shown, disturbed, home>>
      /\ faults' \in 0..MaxFaults
  BY DEF Follow, Step, IInv, TypeOK
<1>10. QED
  BY <1>2, <1>6, <1>7, <1>8, <1>9, ApplyPreserves

\* A file a plan deletes goes, or stays when it cannot be removed.
LEMMA DeleteShape ==
  ASSUME TypeOK, Delete
  PROVE  /\ apply.pc = "delete" /\ apply.plan \in Plans /\ apply.todo \subseteq apply.plan.deletes
         /\ \E d \in apply.todo, gone \in apply.todo \cup {None} :
              /\ \/ files' = [files EXCEPT ![d.file] = None] /\ gone = (IF Here(d.file) THEN d ELSE None)
                 \/ files' = files /\ gone = None
              /\ apply' = [pc |-> "delete", plan |-> apply.plan, todo |-> apply.todo \ {d}, gone |-> gone]
         /\ UNCHANGED <<contained, landing, stage, journal, pin, held, shown, disturbed, home, ref, torn>>
         /\ faults' \in 0..MaxFaults
<1>1. apply.pc = "delete" /\ apply.plan \in Plans /\ apply.todo \subseteq apply.plan.deletes
  BY DEF Delete, Step, TypeOK
<1>2. UNCHANGED <<contained, landing, stage, journal, pin, held, shown, disturbed, home, ref, torn>>
  BY DEF Delete, Step
<1>3. faults' \in 0..MaxFaults
  BY SwitchAssumption DEF Delete, Faulty, TypeOK, SwitchAssumption
<1> DEFINE Gives(d, gone) ==
             /\ \/ files' = [files EXCEPT ![d.file] = None] /\ gone = (IF Here(d.file) THEN d ELSE None)
                \/ files' = files /\ gone = None
             /\ apply' = [pc |-> "delete", plan |-> apply.plan, todo |-> apply.todo \ {d}, gone |-> gone]
<1>4. \E d \in apply.todo, gone \in apply.todo \cup {None} : Gives(d, gone)
  <2>1. PICK d \in apply.todo :
          \/ /\ files' = [files EXCEPT ![d.file] = None]
             /\ apply' = [apply EXCEPT !.todo = @ \ {d}, !.gone = IF Here(d.file) THEN d ELSE None]
          \/ /\ apply' = [apply EXCEPT !.todo = @ \ {d}]
             /\ UNCHANGED files
    BY DEF Delete
  <2> DEFINE gone == IF Here(d.file) THEN d ELSE None
  <2>2. CASE /\ files' = [files EXCEPT ![d.file] = None]
             /\ apply' = [apply EXCEPT !.todo = @ \ {d}, !.gone = gone]
    <3>1. apply' = [pc |-> "delete", plan |-> apply.plan, todo |-> apply.todo \ {d}, gone |-> gone]
      BY <1>1, <2>2, ApplyShape
    <3>2. Gives(d, gone)
      BY <2>2, <3>1
    <3>3. gone \in apply.todo \cup {None}
      OBVIOUS
    <3> HIDE DEF Gives, gone
    <3>4. QED
      BY <3>2, <3>3
  <2>3. CASE apply' = [apply EXCEPT !.todo = @ \ {d}] /\ UNCHANGED files
    <3>1. apply' = [pc |-> "delete", plan |-> apply.plan, todo |-> apply.todo \ {d}, gone |-> None]
      BY <1>1, <2>3, ApplyShape DEF Delete
    <3>2. Gives(d, None)
      BY <2>3, <3>1
    <3> HIDE DEF Gives
    <3>3. QED
      BY <3>2
  <2>4. QED
    BY <2>1, <2>2, <2>3
<1>5. QED
  BY <1>1, <1>2, <1>3, <1>4

LEMMA DeletePreserves ==
  ASSUME IInv, Delete
  PROVE  IInv'
<1>1. PICK d \in apply.todo, gone \in apply.todo \cup {None} :
        /\ \/ files' = [files EXCEPT ![d.file] = None] /\ gone = (IF Here(d.file) THEN d ELSE None)
           \/ files' = files /\ gone = None
        /\ apply' = [pc |-> "delete", plan |-> apply.plan, todo |-> apply.todo \ {d}, gone |-> gone]
  BY DeleteShape DEF IInv
<1>2. apply.pc = "delete" /\ apply.plan \in Plans /\ apply.todo \subseteq apply.plan.deletes
  BY DeleteShape DEF IInv
<1>3. d \in Deletes
  BY <1>2 DEF Plans
<1>4. files' \in [Paths -> Contents \cup {None}]
  BY <1>1, <1>3 DEF IInv, TypeOK, Deletes
<1> DEFINE todo == apply.todo \ {d}
<1>5. apply' = [pc |-> "delete", plan |-> apply.plan, todo |-> todo, gone |-> gone]
  BY <1>1
<1>6. gone \in Deletes \cup {None} /\ todo \in SUBSET apply.plan.deletes
  BY <1>1, <1>2, <1>3
<1>7. ref' \in [Contents -> Paths \cup {None}] /\ torn' \subseteq Contents
  BY DEF IInv, TypeOK, Delete
<1>8. /\ UNCHANGED <<contained, landing, stage, journal, pin, held, shown, disturbed, home>>
      /\ faults' \in 0..MaxFaults
  BY DeleteShape DEF IInv
<1> HIDE DEF todo
<1>9. QED
  BY <1>2, <1>4, <1>5, <1>6, <1>7, <1>8, ApplyPreserves

LEMMA DeletedPreserves ==
  ASSUME IInv, Deleted
  PROVE  IInv'
<1>1. apply.pc = "delete" /\ apply.gone \in Deletes
  BY DEF Deleted, Step, IInv, TypeOK
<1>2. ref' \in [Contents -> Paths \cup {None}]
  <2> DEFINE copies == {p \in apply.gone.elsewhere : files[p] = apply.gone.cid}
  <2>1. copies \subseteq Paths
    BY <1>1 DEF Deletes
  <2>2. ref' = [ref EXCEPT ![apply.gone.cid] =
                  IF ~CidMissing(apply.gone.cid) THEN @
                  ELSE IF copies = {} THEN None ELSE CHOOSE p \in copies : TRUE]
    BY DEF Deleted, Unreference
  <2> HIDE DEF copies
  <2>3. copies # {} => (CHOOSE p \in copies : TRUE) \in Paths
    BY <2>1
  <2>4. QED
    BY <2>2, <2>3 DEF IInv, TypeOK
<1>3. apply' = [pc |-> "delete", plan |-> apply.plan, todo |-> apply.todo, gone |-> None]
  BY <1>1, ApplyShape DEF IInv, Deleted
<1>4. apply.todo \in SUBSET apply.plan.deletes
  BY <1>1 DEF IInv, TypeOK
<1>5. files' \in [Paths -> Contents \cup {None}] /\ torn' \subseteq Contents
  BY DEF IInv, TypeOK, Deleted
<1>6. /\ UNCHANGED <<contained, landing, stage, journal, pin, held, shown, disturbed, home>>
      /\ faults' \in 0..MaxFaults
  BY DEF Deleted, Step, IInv, TypeOK
<1>7. QED
  BY <1>1, <1>2, <1>3, <1>4, <1>5, <1>6, ApplyPreserves

LEMMA NodesPreserve ==
  ASSUME IInv, NodeIn \/ NodeOut
  PROVE  IInv'
<1>1. home' \subseteq Nodes
  <2>1. CASE NodeIn
    <3>1. apply.plan \in Plans
      BY <2>1 DEF NodeIn, Step, IInv, TypeOK
    <3>2. apply.plan.version \subseteq Nodes
      BY <3>1, SwitchAssumption DEF Plans, SwitchAssumption
    <3>3. QED
      BY <2>1, <3>2 DEF NodeIn, IInv, TypeOK
  <2>2. CASE NodeOut
    BY <2>2 DEF NodeOut, IInv, TypeOK
  <2>3. QED
    BY <2>1, <2>2
<1>2. UNCHANGED <<landing, stage, journal, pin, held, shown, disturbed, apply, faults, contained, files, ref, torn>>
  BY DEF NodeIn, NodeOut, Step
<1>3. QED
  BY <1>1, <1>2, DiskPreserves DEF IInv, TypeOK

LEMMA SwitchedPreserves ==
  ASSUME IInv, Switched
  PROVE  IInv'
<1>1. PICK v : v = apply.plan.version
  OBVIOUS
<1>2. v \in Versions /\ apply.plan.kept \subseteq Nodes
  BY <1>1 DEF Switched, IInv, TypeOK, Plans
<1>3. /\ Holds(v)
      /\ stage' = [stage EXCEPT ![v] = {}]
      /\ journal' = [journal EXCEPT ![v] = NoPlan]
  BY <1>1 DEF Switched
<1>4. pin' \in [Versions -> BOOLEAN] /\ held' \in Versions \cup {None}
  <2>1. pin \in [Versions -> BOOLEAN]
    BY DEF IInv, TypeOK
  <2>2. held' = None \/ held' = v
    BY <1>3 DEF Holds
  <2>3. CASE apply.plan.kept = {}
    BY <1>2, <1>3, <2>1, <2>3 DEF Holds
  <2>4. CASE apply.plan.kept # {}
    BY <1>2, <1>3, <2>1, <2>4 DEF Holds
  <2>5. QED
    BY <1>2, <2>2, <2>3, <2>4
<1>5. TypeOK'
  <2>1. apply' \in [pc : {"idle", "move", "delete"}, plan : Plans \cup {NoPlan},
                    todo : SUBSET (Moves \cup Deletes), gone : Deletes \cup {None}]
    BY DEF Switched, Idle
  <2>2. /\ stage' \in [Versions -> SUBSET Nodes] /\ journal' \in [Versions -> Plans \cup {NoPlan}]
        /\ shown' \in Plans \cup {NoPlan}
    BY <1>2, <1>3 DEF Switched, IInv, TypeOK
  <2>3. apply'.pc = "idle"
    BY DEF Switched, Idle
  <2>4. UNCHANGED <<home, contained, files, ref, landing, torn>>
    BY DEF Switched
  <2>5. disturbed' \in BOOLEAN /\ faults' \in 0..MaxFaults
    BY SwitchAssumption DEF Switched, Faulty, IInv, TypeOK, SwitchAssumption
  <2>6. QED
    BY <1>4, <2>1, <2>2, <2>3, <2>4, <2>5 DEF IInv, TypeOK
<1>6. PlansKept'
  BY <1>2, <1>3 DEF Switched, Idle, IInv, TypeOK, PlansKept
<1>7. PinsAccounted'
  <2> SUFFICES ASSUME NEW w \in Versions, pin'[w], stage'[w] = {} PROVE held' = w
    BY DEF PinsAccounted
  <2>1. CASE w = v
    BY <1>2, <1>3, <2>1 DEF Holds, IInv, TypeOK
  <2>2. CASE w # v
    <3>1. stage[w] = {}
      BY <1>2, <1>3, <2>2 DEF IInv, TypeOK
    <3>2. pin[w] /\ w # held
      BY <1>2, <1>3, <2>2 DEF Holds, IInv, TypeOK
    <3>3. QED
      BY <3>1, <3>2 DEF IInv, PinsAccounted
  <2>3. QED
    BY <2>1, <2>2
<1>8. QED
  BY <1>5, <1>6, <1>7 DEF IInv

LEMMA RefusedPreserves ==
  ASSUME IInv, ApplyRefused
  PROVE  IInv'
<1>1. TypeOK'
  BY DEF ApplyRefused, diskVars, IInv, TypeOK
<1>2. PlansKept'
  BY DEF ApplyRefused, diskVars, IInv, PlansKept
<1>3. QED
  BY <1>1, <1>2 DEF ApplyRefused, diskVars, IInv, PinsAccounted

LEMMA StopsPreserves ==
  ASSUME IInv, Stops
  PROVE  IInv'
<1>1. TypeOK'
  <2>1. torn' \subseteq Contents
    BY DEF Stops, IInv, TypeOK, Deletes
  <2>2. faults' \in 0..MaxFaults
    BY SwitchAssumption DEF Stops, Faulty, IInv, TypeOK, SwitchAssumption
  <2>3. apply' \in [pc : {"idle", "move", "delete"}, plan : Plans \cup {NoPlan},
                    todo : SUBSET (Moves \cup Deletes), gone : Deletes \cup {None}]
    BY DEF Stops, Idle
  <2>4. QED
    BY <2>1, <2>2, <2>3 DEF Stops, Idle, diskVars, IInv, TypeOK
<1>2. PlansKept'
  BY DEF Stops, Idle, diskVars, IInv, PlansKept
<1>3. QED
  BY <1>1, <1>2 DEF Stops, diskVars, IInv, PinsAccounted

LEMMA AroundPreserves ==
  ASSUME IInv, Enqueue \/ Land \/ OthersChange
  PROVE  IInv'
<1>1. CASE Enqueue
  <2>1. PICK cl \in ClaimsOf(home) :
          landing' = landing \cup {<<PathUnder(ClaimsOf(home), cl[1], cl[2]), cl[2]>>}
    BY <1>1 DEF Enqueue
  <2>2. cl \in Names \X Contents
    BY ClaimsOfType DEF IInv, TypeOK
  <2>3. PathUnder(ClaimsOf(home), cl[1], cl[2]) \in Paths
    BY <2>2, PathUnderType
  <2>4. landing' \subseteq Paths \X Contents
    BY <2>1, <2>2, <2>3 DEF IInv, TypeOK
  <2>5. faults' \in 0..MaxFaults /\ disturbed' \in BOOLEAN
    BY <1>1, SwitchAssumption DEF Enqueue, Faulty, IInv, TypeOK, SwitchAssumption
  <2>6. TypeOK'
    BY <1>1, <2>4, <2>5 DEF Enqueue, diskVars, IInv, TypeOK
  <2>7. PlansKept'
    BY <1>1 DEF Enqueue, diskVars, IInv, PlansKept, NothingNew
  <2>8. QED
    BY <1>1, <2>6, <2>7 DEF Enqueue, diskVars, IInv, PinsAccounted
<1>2. CASE Land
  <2>1. PICK w \in landing : /\ landing' = landing \ {w}
                             /\ files' = [files EXCEPT ![w[1]] = w[2]]
                             /\ ref' = [ref EXCEPT ![w[2]] = w[1]]
                             /\ torn' = torn \ {w[2]}
    BY <1>2 DEF Land
  <2>2. w \in Paths \X Contents
    BY DEF IInv, TypeOK
  <2>3. TypeOK'
    BY <1>2, <2>1, <2>2 DEF Land, IInv, TypeOK
  <2>4. PlansKept'
    BY <1>2 DEF Land, IInv, PlansKept, NothingNew
  <2>5. QED
    BY <1>2, <2>3, <2>4 DEF Land, IInv, PinsAccounted
<1>3. CASE OthersChange
  <2>1. contained' \subseteq Nodes
    BY <1>3, SwitchAssumption DEF OthersChange, SwitchAssumption
  <2>2. QED
    BY <1>3, <2>1, DiskPreserves DEF OthersChange, diskVars, IInv, TypeOK
<1>4. QED
  BY <1>1, <1>2, <1>3

LEMMA NextPreserves ==
  ASSUME IInv, [Next]_vars
  PROVE  IInv'
<1>1. CASE Next
  BY <1>1, StagePreserves, DiscardPreserves, BeginPreserves, RefusedPreserves, MovePreserves,
     FollowPreserves, DeletePreserves, DeletedPreserves, NodesPreserve, SwitchedPreserves,
     StopsPreserves, AroundPreserves DEF Next
<1>2. CASE UNCHANGED vars
  <2>1. TypeOK'
    BY <1>2 DEF vars, diskVars, IInv, TypeOK
  <2>2. PlansKept'
    BY <1>2 DEF vars, diskVars, IInv, PlansKept, NothingNew
  <2>3. QED
    BY <1>2, <2>1, <2>2 DEF vars, diskVars, IInv, PinsAccounted
<1>3. QED
  BY <1>1, <1>2

--------------------------------------------------------------------------------
\* The invariant the theorems rest on: journals hold sound plans whose deletes the
\* user read.
THEOREM Invariance == Spec => []IInv
<1>1. IInv /\ [Next]_vars => IInv'
  BY NextPreserves
<1>2. QED
  BY <1>1, InitInv, PTL DEF Spec

\* Plans, journals and the switch at work are well formed, and what is at work is
\* written down (ApplyStagedUpdate).
THEOREM TypeCorrect == Spec => []TypeOK
BY Invariance, PTL DEF IInv

\* A folder pinned for a stage that is gone is the version held (the Unpin calls).
THEOREM PinsCorrect == Spec => []PinsAccounted
BY Invariance, PTL DEF IInv

\* Whatever changed since, and however often a switch stopped and was resumed, it
\* deletes only files the user was shown.
THEOREM DeletesCorrect == Spec => DeletesShown
<1> DEFINE Shown == \A p \in Paths : Here(p) /\ ~Here(p)' /\ apply.pc = "delete" =>
                      \E d \in shown.deletes : d.file = p
<1>1. ASSUME IInv, Next PROVE Shown
  <2> SUFFICES ASSUME NEW p \in Paths, Here(p), ~Here(p)', apply.pc = "delete"
               PROVE  \E d \in shown.deletes : d.file = p
    OBVIOUS
  <2>1. files' # files
    BY DEF Here
  <2>2. Delete
    <3>1. ~Land
      <4> SUFFICES ASSUME Land PROVE FALSE
        OBVIOUS
      <4>1. PICK w \in landing : files' = [files EXCEPT ![w[1]] = w[2]]
        BY DEF Land
      <4>2. w \in Paths \X Contents /\ files \in [Paths -> Contents \cup {None}]
        BY <1>1 DEF IInv, TypeOK
      <4>3. w[1] \in Paths /\ w[2] \in Contents /\ w[2] # None
        BY <4>2, SwitchAssumption DEF SwitchAssumption
      <4>4. files'[p] = IF p = w[1] THEN w[2] ELSE files[p]
        BY <4>1, <4>2
      <4>5. QED
        BY <4>3, <4>4 DEF Here
    <3>2. QED
      BY <1>1, <2>1, <3>1 DEF Next, StageUpdate, DiscardStagedUpdate, ApplyBegins, ApplyRefused, Move,
         Follow, Deleted, NodeIn, NodeOut, Switched, Stops, Enqueue, OthersChange, diskVars, Step
  <2>3. PICK d \in apply.todo : files' = [files EXCEPT ![d.file] = None]
    BY <2>1, <2>2 DEF Delete
  <2>4. d.file = p
    BY <1>1, <2>3 DEF Here, IInv, TypeOK
  <2>5. d \in apply.plan.deletes /\ journal[shown.version] = apply.plan /\ apply.plan # NoPlan
    BY <1>1 DEF IInv, TypeOK, PlansKept
  <2>6. QED
    BY <1>1, <2>4, <2>5 DEF IInv, PlansKept, NothingNew
<1> HIDE DEF Shown
<1>2. IInv /\ [Next]_vars => [Shown]_vars
  BY <1>1
<1> USE DEF Shown
<1>3. QED
  BY <1>2, Invariance, PTL DEF Spec, DeletesShown

\* No switch, resumed or not, takes away a node that another package contained when it
\* was planned and still does, or that a node that stays contains.
THEOREM ContainedCorrect == Spec => ContainedStays
<1> DEFINE Held == \A n \in home \ home' :
                      /\ n \notin contained \cap apply.plan.users
                      /\ \A m \in apply.plan.version \cup apply.plan.kept : n \notin Refs[m]
<1>1. ASSUME IInv, Next PROVE Held
  <2> SUFFICES ASSUME NEW n \in home \ home'
               PROVE  /\ n \notin contained \cap apply.plan.users
                      /\ \A m \in apply.plan.version \cup apply.plan.kept : n \notin Refs[m]
    OBVIOUS
  <2>1. NodeOut
    BY <1>1 DEF Next, StageUpdate, DiscardStagedUpdate, ApplyBegins, ApplyRefused, Move, Follow, Delete,
       Deleted, NodeIn, Switched, Stops, Enqueue, Land, OthersChange, diskVars, Step
  <2>2. n \in apply.plan.removed /\ apply.pc = "delete"
    BY <2>1 DEF NodeOut, Step
  <2>3. apply.plan \in Plans /\ apply.plan # NoPlan /\ journal[apply.plan.version] = apply.plan
    BY <1>1, <2>2 DEF IInv, TypeOK
  <2>4. Sound(apply.plan)
    BY <1>1, <2>3 DEF IInv, PlansKept, Plans
  <2>5. QED
    BY <2>2, <2>4 DEF Sound
<1> HIDE DEF Held
<1>2. IInv /\ [Next]_vars => [Held]_vars
  BY <1>1
<1> USE DEF Held
<1>3. QED
  BY <1>2, Invariance, PTL DEF Spec, ContainedStays
--------------------------------------------------------------------------------
(* LayersServed: a switch moves files one at a time and may stop after any; what its *)
(* journal promises of the package meanwhile is OnTheWay.                          *)

FileOf(claims, cl) == PathUnder(claims, cl[1], cl[2])

\* The claims a plan leaves the package with, and the files it deletes.
Left(plan) == ClaimsOf(plan.version \cup plan.kept)
Doomed(plan) == {d.file : d \in plan.deletes}

Journals == {journal[v] : v \in Versions} \ {NoPlan}
Quiet == \A v \in Versions : journal[v] = NoPlan

\* With no journal, every file is where a claim of the package has it, every download
\* goes where a claim has it, and content the package holds is referenced where it is.
InPlace == \A p \in Paths : Here(p) => \E cl \in ClaimsOf(home) : FileOf(ClaimsOf(home), cl) = p /\ files[p] = cl[2]

ComesInPlace ==
  \A w \in landing : \E cl \in ClaimsOf(home) : w = <<FileOf(ClaimsOf(home), cl), cl[2]>>

Referenced ==
  \A c \in Contents \ torn : (\E p \in Paths : files[p] = c) => ref[c] # None /\ files[ref[c]] = c

AtHome == InPlace /\ ComesInPlace /\ Referenced

\* One switch at a time: no download into one, no other stage shown.
Ordered ==
  /\ landing # {} => Quiet
  /\ shown # NoPlan => \A v \in Versions : journal[v] # NoPlan => v = shown.version
  /\ \A v, w \in Versions : journal[v] # NoPlan /\ journal[w] # NoPlan => v = w

\* What a plan moves goes from its own file to its own free one, and is wanted there; what
\* it deletes is neither; and every other file is where it stays.
Distinct(plan) ==
  \A m, n \in plan.moves : m.from # n.to /\ (m # n => m.from # n.from /\ m.to # n.to)

Wanted(plan, p, q) == \E cl \in Left(plan) : FileOf(Left(plan), cl) = q /\ files[p] = cl[2]

ToGo(plan) == \A m \in plan.moves : Here(m.from) => ~Here(m.to) /\ Wanted(plan, m.from, m.to)

Separate(plan) ==
  \A d \in plan.deletes :
    /\ \A m \in plan.moves : d.file # m.from /\ d.file # m.to
    /\ Here(d.file) => files[d.file] = d.cid
    /\ d.elsewhere = PathsOf(Left(plan), d.cid) \ {d.file}

Placed(plan) ==
  \A p \in Paths : Here(p) => \/ \E m \in plan.moves : p = m.from
                              \/ p \in Doomed(plan)
                              \/ Wanted(plan, p, p)

\* The nodes are those of the version, or on the way there.
Between(plan) ==
  /\ home \subseteq plan.version \cup plan.kept \cup plan.removed /\ plan.kept \subseteq home
  /\ (plan.version \cup plan.kept) \cap plan.removed = {}

\* Content that stays is referenced where it is, or the switch has yet to follow its move
\* or to refer to the copy that is left.
Reaches(plan, c) ==
  \/ files[ref[c]] = c
  \/ apply.pc # "delete" /\ \E m \in plan.moves : ref[c] = m.from /\ ~Here(m.from) /\ files[m.to] = c
  \/ apply.gone # None /\ apply.gone.cid = c

Followed(plan) ==
  \A c \in Contents \ torn :
    (\E p \in Paths \ Doomed(plan) : files[p] = c) => ref[c] # None /\ Reaches(plan, c)

OnTheWay(plan) ==
  Distinct(plan) /\ ToGo(plan) /\ Separate(plan) /\ Placed(plan) /\ Between(plan) /\ Followed(plan)

\* What the switch at work has behind it.
Done(plan) ==
  /\ apply.pc = "move" => \A m \in plan.moves \ apply.todo : ~Here(m.from)
  /\ apply.pc = "delete" => /\ \A m \in plan.moves : ~Here(m.from)
                            /\ apply.gone # None => apply.gone \in plan.deletes

Undisturbed ==
  /\ Ordered
  /\ Quiet => AtHome
  /\ \A plan \in Journals : OnTheWay(plan)
  /\ apply.pc # "idle" => Done(apply.plan)

SInv == (apply.pc # "delete" => apply.gone = None) /\ (~disturbed => Undisturbed)

--------------------------------------------------------------------------------
\* Two claims at one path are one.
LEMMA OneClaim ==
  ASSUME NEW claims \in SUBSET (Names \X Contents), NEW x \in claims, NEW y \in claims,
         FileOf(claims, x) = FileOf(claims, y)
  PROVE  x = y
<1>1. PICK n \in Names, c \in Contents : x = <<n, c>>
  OBVIOUS
<1>2. PICK m \in Names, d \in Contents : y = <<m, d>>
  OBVIOUS
<1>3. PathUnder(claims, n, c) = PathUnder(claims, m, d)
  BY <1>1, <1>2 DEF FileOf
<1>4. n = m
  BY <1>3 DEF PathUnder
<1>5. ASSUME c # d PROVE FALSE
  <2>1. PathUnder(claims, n, c) = <<n, c>> /\ PathUnder(claims, m, d) = <<m, d>>
    BY <1>1, <1>2, <1>4, <1>5 DEF PathUnder
  <2>2. <<n, c>> = <<m, d>>
    BY <1>3, <2>1, Zenon
  <2>3. QED
    BY <1>5, <2>2
<1>6. QED
  BY <1>1, <1>2, <1>4, <1>5

\* A name that stays and is bumped, or not any more, goes to a path no claim had before.
LEMMA FreshTarget ==
  ASSUME NEW before \in SUBSET (Names \X Contents), NEW after, NEW x \in before, NEW y \in before,
         FileOf(after, x) # FileOf(before, x)
  PROVE  FileOf(before, y) # FileOf(after, x)
<1> SUFFICES ASSUME FileOf(before, y) = FileOf(after, x) PROVE FALSE
  OBVIOUS
<1>1. x = <<x[1], x[2]>> /\ y = <<y[1], y[2]>> /\ x[2] \in Contents /\ y[2] \in Contents
  OBVIOUS
<1>2. x[1] = y[1]
  BY DEF FileOf, PathUnder
<1>3. Base \notin Contents
  BY SwitchAssumption DEF SwitchAssumption
<1>4. CASE FileOf(after, x) = <<x[1], Base>>
  <2>1. FileOf(before, x) # <<x[1], Base>>
    BY <1>4
  <2>2. PICK d \in Contents \ {x[2]} : <<x[1], d>> \in before
    BY <2>1 DEF FileOf, PathUnder
  <2>3. ~\E e \in Contents \ {y[2]} : <<y[1], e>> \in before
    BY <1>1, <1>3, <1>4 DEF FileOf, PathUnder
  <2>4. QED
    BY <1>1, <1>2, <2>2, <2>3
<1>5. CASE FileOf(after, x) # <<x[1], Base>>
  <2>1. FileOf(after, x) = <<x[1], x[2]>>
    BY <1>5 DEF FileOf, PathUnder
  <2>2. y[2] = x[2]
    BY <1>1, <1>3, <2>1 DEF FileOf, PathUnder
  <2>3. QED
    BY <1>1, <1>2, <2>2
<1>6. QED
  BY <1>4, <1>5

\* Where a claim's content is, among the content's files.
LEMMA AmongPaths ==
  ASSUME NEW claims \in SUBSET (Names \X Contents), NEW x \in claims
  PROVE  FileOf(claims, x) \in PathsOf(claims, x[2]) /\ FileOf(claims, x) \in Paths /\ x[2] \in Contents
<1>1. x = <<x[1], x[2]>> /\ x[1] \in Names /\ x[2] \in Contents
  OBVIOUS
<1>2. x[1] \in {m \in Names : <<m, x[2]>> \in claims}
  BY <1>1
<1>3. QED
  BY <1>1, <1>2, PathUnderType DEF FileOf, PathsOf

LEMMA FromPaths ==
  ASSUME NEW claims \in SUBSET (Names \X Contents), NEW c \in Contents, NEW p \in PathsOf(claims, c)
  PROVE  \E x \in claims : FileOf(claims, x) = p /\ x[2] = c
<1>1. PICK n \in Names : <<n, c>> \in claims /\ p = PathUnder(claims, n, c)
  BY DEF PathsOf
<1>2. <<n, c>>[1] = n /\ <<n, c>>[2] = c
  OBVIOUS
<1>3. QED
  BY <1>1, <1>2 DEF FileOf

LEMMA HomeClaims ==
  ASSUME TypeOK
  PROVE  /\ ClaimsOf(home) \in SUBSET (Names \X Contents)
         /\ \A x \in ClaimsOf(home) : FileOf(ClaimsOf(home), x) \in Paths /\ x[2] \in Contents
<1>1. ClaimsOf(home) \in SUBSET (Names \X Contents)
  BY ClaimsOfType DEF TypeOK
<1>2. QED
  BY <1>1, AmongPaths

LEMMA LeftClaims ==
  ASSUME NEW plan \in Plans
  PROVE  Left(plan) \in SUBSET (Names \X Contents)
<1>1. plan.version \cup plan.kept \in SUBSET Nodes
  BY SwitchAssumption DEF Plans, SwitchAssumption
<1>2. QED
  BY <1>1, ClaimsOfType DEF Left

\* The layers read and serve their content once everything is in place.
LEMMA ServedAtHome ==
  ASSUME IInv, SInv
  PROVE  LayersServed
<1> SUFFICES ASSUME AtRest, ~disturbed PROVE RightBytes /\ ServedStill
  BY DEF LayersServed
<1>1. InPlace /\ Referenced
  BY DEF AtRest, SInv, Undisturbed, Quiet, AtHome
<1> DEFINE claims == ClaimsOf(home)
<1>2. /\ claims \in SUBSET (Names \X Contents)
      /\ \A x \in claims : FileOf(claims, x) \in Paths /\ x[2] \in Contents
  BY HomeClaims DEF IInv
<1>3. files \in [Paths -> Contents \cup {None}] /\ None \notin Contents
  BY SwitchAssumption DEF IInv, TypeOK, SwitchAssumption
<1>4. ASSUME NEW x \in claims PROVE files[FileOf(claims, x)] \in {None, x[2]}
  <2>1. CASE Here(FileOf(claims, x))
    <3>1. PICK y \in claims : FileOf(claims, y) = FileOf(claims, x) /\ files[FileOf(claims, x)] = y[2]
      BY <1>1, <1>2, <2>1 DEF InPlace
    <3>2. y = x
      BY <1>2, <3>1, OneClaim
    <3>3. QED
      BY <3>1, <3>2
  <2>2. QED
    BY <2>1 DEF Here
<1>5. ASSUME NEW x \in claims, files[FileOf(claims, x)] = x[2], x[2] \notin torn
      PROVE  ref[x[2]] # None /\ ~CidMissing(x[2])
  BY <1>1, <1>2, <1>5 DEF Referenced, CidMissing
<1>6. RightBytes
  BY <1>4 DEF RightBytes, FileOf
<1>7. ServedStill
  BY <1>5 DEF ServedStill, FileOf
<1>8. QED
  BY <1>6, <1>7

--------------------------------------------------------------------------------
\* Where a package begins, its files are in place.
LEMMA InitServed == Init => SInv
<1> SUFFICES ASSUME Init PROVE SInv
  OBVIOUS
<1>1. IInv
  BY InitInv
<1> DEFINE claims == ClaimsOf(home)
           Places(cls, c) == {FileOf(claims, x) : x \in {y \in cls : y[2] = c}}
<1>2. PICK cls \in SUBSET claims :
        /\ files = [p \in Paths |-> IF \E x \in cls : FileOf(claims, x) = p
                                    THEN (CHOOSE x \in cls : FileOf(claims, x) = p)[2] ELSE None]
        /\ ref = [c \in Contents |-> IF Places(cls, c) = {} THEN None
                                     ELSE CHOOSE p \in Places(cls, c) : TRUE]
  BY DEF Init, FileOf
<1>3. /\ claims \in SUBSET (Names \X Contents)
      /\ \A x \in claims : FileOf(claims, x) \in Paths /\ x[2] \in Contents
  BY <1>1, HomeClaims DEF IInv
<1> HIDE DEF claims
<1>4. ASSUME NEW p \in Paths, Here(p)
      PROVE  \E x \in cls : FileOf(claims, x) = p /\ files[p] = x[2]
  <2>1. \E x \in cls : FileOf(claims, x) = p
    BY <1>2, <1>4 DEF Here
  <2> DEFINE chosen == CHOOSE x \in cls : FileOf(claims, x) = p
  <2>2. chosen \in cls /\ FileOf(claims, chosen) = p
    BY <2>1
  <2>3. files[p] = chosen[2]
    BY <1>2, <2>1
  <2> HIDE DEF chosen
  <2>4. QED
    BY <2>2, <2>3
<1>5. InPlace
  BY <1>4 DEF InPlace, claims
<1>6. ASSUME NEW c \in Contents, NEW p \in Paths, files[p] = c
      PROVE  ref[c] # None /\ files[ref[c]] = c
  <2>1. Here(p)
    BY <1>6, SwitchAssumption DEF Here, SwitchAssumption
  <2>2. PICK x \in cls : FileOf(claims, x) = p /\ x[2] = c
    BY <1>4, <1>6, <2>1
  <2>3. Places(cls, c) # {}
    BY <2>2
  <2>4. ref[c] \in Places(cls, c)
    <3> DEFINE places == Places(cls, c)
    <3>1. ref[c] = CHOOSE q \in places : TRUE
      BY <1>2, <2>3
    <3> HIDE DEF places
    <3>2. places # {} => ref[c] \in places
      BY <3>1
    <3>3. QED
      BY <2>3, <3>2 DEF places
  <2>5. PICK y \in cls : FileOf(claims, y) = ref[c] /\ y[2] = c
    BY <2>4
  <2>6. ref[c] \in Paths
    BY <1>3, <2>5
  <2>7. files[ref[c]] # None
    <3>1. \E z \in cls : FileOf(claims, z) = ref[c]
      BY <2>5
    <3> DEFINE chosen == CHOOSE z \in cls : FileOf(claims, z) = ref[c]
    <3>2. chosen \in cls /\ files[ref[c]] = chosen[2]
      BY <1>2, <2>6, <3>1
    <3> HIDE DEF chosen
    <3>3. QED
      BY <1>3, <3>2, SwitchAssumption DEF SwitchAssumption
  <2>8. PICK z \in cls : FileOf(claims, z) = ref[c] /\ files[ref[c]] = z[2]
    BY <1>4, <2>6, <2>7 DEF Here
  <2>9. z = y
    BY <1>3, <2>5, <2>8, OneClaim
  <2>10. QED
    BY <2>5, <2>6, <2>8, <2>9, NothingAssumption DEF NothingAssumption
<1>7. Referenced
  BY <1>6 DEF Referenced
<1>8. landing = {} /\ apply = Idle /\ shown = NoPlan /\ Quiet
  BY DEF Init, Quiet
<1>9. QED
  BY <1>5, <1>7, <1>8 DEF SInv, Undisturbed, Ordered, AtHome, ComesInPlace, Journals, Quiet, Idle

--------------------------------------------------------------------------------
\* A plan made of a package in place promises its way, unless a copy takes the place of
\* a file that stays.
LEMMA NewPlan ==
  ASSUME IInv, AtHome, apply.pc # "delete", NEW v \in Versions, NEW plan \in PlanSwitches(v),
         Stays(v) \subseteq plan.moves
  PROVE  OnTheWay(plan)
<1> DEFINE candidates == home \ v
           kept == KeptNodes(v, candidates)
           before == ClaimsOf(home)
           after == After(v)
           there == {cl \in before : Here(FileOf(before, cl))}
           stays == Stays(v)
           renames == UNION {{[from |-> FileOf(before, cl), to |-> t] :
                                t \in {p \in PathsOf(after, cl[2]) : ~Here(p)}} : cl \in there \ after}
           Clash(m, n) == m # n /\ (m.from = n.from \/ m.to = n.to)
           Goes(r) == {cl \in there \ after : \A m \in r : m.from # FileOf(before, cl)}
           Gone(cl) == [file |-> FileOf(before, cl), cid |-> cl[2],
                        elsewhere |-> PathsOf(after, cl[2]) \ {FileOf(before, cl)}]
<1>1. PICK r \in SUBSET (stays \cup renames) :
        /\ plan = [version |-> v, moves |-> r, deletes |-> {Gone(cl) : cl \in Goes(r)},
                   removed |-> candidates \ kept, kept |-> kept, users |-> contained]
        /\ \A m, n \in r : ~Clash(m, n)
  BY Zenon DEF PlanSwitches, FileOf
<1>2. /\ plan.version = v /\ plan.moves = r /\ plan.deletes = {Gone(cl) : cl \in Goes(r)}
      /\ plan.removed = candidates \ kept /\ plan.kept = kept
  BY <1>1
<1>3. Left(plan) = after
  BY <1>2 DEF Left, After
<1>4. /\ before \in SUBSET (Names \X Contents)
      /\ \A cl \in before : FileOf(before, cl) \in Paths /\ cl[2] \in Contents
  BY HomeClaims DEF IInv
<1>5. after \in SUBSET (Names \X Contents)
  <2>1. plan \in Plans
    BY PlanSound DEF IInv
  <2>2. QED
    BY <1>3, <2>1, LeftClaims
<1>6. kept \subseteq candidates
  BY KeptClosed
<1>7. stays = {[from |-> FileOf(before, cl), to |-> FileOf(after, cl)] :
                 cl \in {c \in before \cap after : /\ Here(FileOf(before, c))
                                                   /\ FileOf(after, c) # FileOf(before, c)}}
  BY DEF Stays, FileOf
<1>8. stays \subseteq r
  BY <1>2
<1> HIDE DEF before, after, kept, stays, candidates
<1>9. ASSUME NEW p \in Paths, Here(p)
      PROVE  \E cl \in before : FileOf(before, cl) = p /\ files[p] = cl[2]
  BY <1>9 DEF AtHome, InPlace, before
<1>10. ASSUME NEW cl \in before, Here(FileOf(before, cl))
       PROVE  files[FileOf(before, cl)] = cl[2]
  <2>1. PICK x \in before : FileOf(before, x) = FileOf(before, cl) /\ files[FileOf(before, cl)] = x[2]
    BY <1>4, <1>9, <1>10
  <2>2. x = cl
    BY <1>4, <2>1, OneClaim
  <2>3. QED
    BY <2>1, <2>2
<1>11. ASSUME NEW m \in r
       PROVE  /\ Here(m.from) /\ ~Here(m.to) /\ m.from \in Paths
              /\ \E cl \in after : FileOf(after, cl) = m.to /\ files[m.from] = cl[2]
  <2>1. CASE m \in stays
    <3>1. PICK cl \in before \cap after :
            /\ Here(FileOf(before, cl)) /\ FileOf(after, cl) # FileOf(before, cl)
            /\ m = [from |-> FileOf(before, cl), to |-> FileOf(after, cl)]
      BY <1>7, <2>1
    <3>2. m.from = FileOf(before, cl) /\ m.to = FileOf(after, cl) /\ m.from \in Paths /\ m.to \in Paths
      BY <1>4, <1>5, <3>1, AmongPaths
    <3>3. ASSUME Here(m.to) PROVE FALSE
      <4>1. PICK y \in before : FileOf(before, y) = m.to
        BY <1>9, <3>2, <3>3
      <4>2. QED
        BY <1>4, <3>1, <3>2, <4>1, FreshTarget
    <3>4. files[m.from] = cl[2]
      BY <1>10, <3>1, <3>2
    <3>5. QED
      BY <3>1, <3>2, <3>3, <3>4
  <2>2. CASE m \in renames
    <3>1. PICK cl \in there \ after :
            m \in {[from |-> FileOf(before, cl), to |-> t] : t \in {p \in PathsOf(after, cl[2]) : ~Here(p)}}
      BY <2>2
    <3>2. PICK t \in PathsOf(after, cl[2]) : ~Here(t) /\ m = [from |-> FileOf(before, cl), to |-> t]
      BY <3>1
    <3>3. cl \in before /\ Here(FileOf(before, cl)) /\ m.from = FileOf(before, cl) /\ m.to = t
      BY <3>1, <3>2
    <3>4. cl[2] \in Contents /\ m.from \in Paths /\ files[m.from] = cl[2]
      BY <1>4, <1>10, <3>3
    <3>5. \E x \in after : FileOf(after, x) = t /\ x[2] = cl[2]
      BY <1>5, <3>2, <3>4, FromPaths
    <3>6. QED
      BY <3>2, <3>3, <3>4, <3>5
  <2>3. QED
    BY <2>1, <2>2
<1> HIDE DEF renames
<1>12. Distinct(plan)
  BY <1>1, <1>2, <1>11 DEF Distinct
<1>13. ToGo(plan)
  BY <1>2, <1>3, <1>11 DEF ToGo, Wanted
<1>14. Separate(plan)
  <2> SUFFICES ASSUME NEW d \in plan.deletes
               PROVE  /\ \A m \in plan.moves : d.file # m.from /\ d.file # m.to
                      /\ Here(d.file) => files[d.file] = d.cid
                      /\ d.elsewhere = PathsOf(Left(plan), d.cid) \ {d.file}
    BY DEF Separate
  <2>1. PICK cl \in Goes(r) : d = Gone(cl)
    BY <1>2
  <2>2. d.file = FileOf(before, cl) /\ d.cid = cl[2] /\ d.elsewhere = PathsOf(after, cl[2]) \ {FileOf(before, cl)}
    BY <2>1
  <2>3. cl \in before /\ Here(FileOf(before, cl)) /\ \A m \in r : m.from # FileOf(before, cl)
    BY <2>1
  <2> HIDE DEF Gone, Goes
  <2>4. QED
    BY <1>2, <1>3, <1>10, <1>11, <2>2, <2>3
<1>15. Placed(plan)
  <2> SUFFICES ASSUME NEW p \in Paths, Here(p)
               PROVE  (\E m \in r : p = m.from) \/ p \in Doomed(plan) \/ Wanted(plan, p, p)
    BY <1>2 DEF Placed
  <2>1. PICK cl \in before : FileOf(before, cl) = p /\ files[p] = cl[2]
    BY <1>9
  <2>2. CASE cl \notin after /\ \A m \in r : p # m.from
    <3>1. cl \in Goes(r)
      BY <2>1, <2>2
    <3>2. Gone(cl) \in plan.deletes /\ Gone(cl).file = p
      BY <1>2, <2>1, <3>1
    <3> HIDE DEF Gone
    <3>3. QED
      BY <3>2 DEF Doomed
  <2>3. CASE cl \in after /\ FileOf(after, cl) = p
    BY <1>3, <2>1, <2>3 DEF Wanted
  <2>4. CASE cl \in after /\ FileOf(after, cl) # p
    <3> DEFINE m == [from |-> FileOf(before, cl), to |-> FileOf(after, cl)]
    <3>1. m \in stays
      BY <1>7, <2>1, <2>4
    <3>2. m \in r /\ m.from = p
      BY <1>8, <2>1, <3>1
    <3>3. QED
      BY <3>2
  <2>5. QED
    BY <2>2, <2>3, <2>4
<1>16. Between(plan)
  BY <1>2, <1>6 DEF Between, candidates
<1>17. Followed(plan)
  BY DEF AtHome, Referenced, Followed, Reaches
<1>18. QED
  BY <1>12, <1>13, <1>14, <1>15, <1>16, <1>17 DEF OnTheWay

--------------------------------------------------------------------------------
(* The steps *)

\* Where a plan's files are to be is told from the files alone, and its nodes from home.
LEMMA SameFiles ==
  ASSUME NEW plan, UNCHANGED files
  PROVE  /\ Distinct(plan)' <=> Distinct(plan)
         /\ ToGo(plan)' <=> ToGo(plan)
         /\ Separate(plan)' <=> Separate(plan)
         /\ Placed(plan)' <=> Placed(plan)
         /\ Doomed(plan)' = Doomed(plan)
<1>1. \A p, q : Wanted(plan, p, q)' <=> Wanted(plan, p, q)
  BY DEF Wanted, Left
<1>2. \A p : Here(p)' <=> Here(p)
  BY DEF Here
<1>3. Distinct(plan)' <=> Distinct(plan)
  BY DEF Distinct
<1>4. ToGo(plan)' <=> ToGo(plan)
  BY <1>1, <1>2 DEF ToGo
<1>5. Separate(plan)' <=> Separate(plan)
  BY <1>2 DEF Separate, Left
<1>6. Doomed(plan)' = Doomed(plan)
  BY DEF Doomed
<1>7. Placed(plan)' <=> Placed(plan)
  BY <1>1, <1>2, <1>6 DEF Placed
<1>8. QED
  BY <1>3, <1>4, <1>5, <1>6, <1>7

LEMMA SameNodes ==
  ASSUME NEW plan, UNCHANGED home
  PROVE  Between(plan)' <=> Between(plan)
BY DEF Between

\* While a switch is at work, its journal is the only one, and nothing is to land.
LEMMA AtWork ==
  ASSUME IInv, SInv, ~disturbed, apply.pc # "idle"
  PROVE  /\ ~Quiet /\ landing = {} /\ apply.plan \in Plans
         /\ OnTheWay(apply.plan) /\ Done(apply.plan)
         /\ \A v \in Versions : journal[v] # NoPlan => v = apply.plan.version /\ journal[v] = apply.plan
<1>1. apply.plan \in Plans /\ apply.plan # NoPlan /\ journal[apply.plan.version] = apply.plan
  BY DEF IInv, TypeOK
<1>2. apply.plan.version \in Versions
  BY <1>1 DEF Plans
<1>3. ~Quiet
  BY <1>1, <1>2 DEF Quiet
<1>4. Undisturbed
  BY DEF SInv
<1>5. landing = {}
  BY <1>3, <1>4 DEF Undisturbed, Ordered
<1>6. OnTheWay(apply.plan) /\ Done(apply.plan)
  BY <1>1, <1>2, <1>4 DEF Undisturbed, Journals
<1>7. \A v \in Versions : journal[v] # NoPlan => v = apply.plan.version
  BY <1>1, <1>2, <1>4 DEF Undisturbed, Ordered
<1>8. QED
  BY <1>1, <1>3, <1>5, <1>6, <1>7

\* A step of the switch that keeps the promises keeps the invariant.
LEMMA StepServed ==
  ASSUME IInv, SInv, apply.pc # "idle", UNCHANGED <<journal, disturbed, landing, shown>>,
         NEW plan, plan = apply.plan, apply'.plan = plan, apply'.pc # "delete" => apply'.gone = None,
         ~disturbed => OnTheWay(plan)' /\ Done(plan)'
  PROVE  SInv'
<1> SUFFICES ASSUME ~disturbed PROVE Undisturbed'
  BY DEF SInv
<1>1. ~Quiet /\ Undisturbed /\ \A v \in Versions : journal[v] # NoPlan => journal[v] = plan
  BY AtWork DEF SInv
<1>2. Quiet' = Quiet
  BY DEF Quiet
<1>3. Ordered'
  BY <1>1, <1>2 DEF Undisturbed, Ordered
<1>4. \A p \in Journals' : OnTheWay(p)'
  <2> SUFFICES ASSUME NEW p \in Journals' PROVE OnTheWay(p)'
    OBVIOUS
  <2>1. p = plan
    BY <1>1 DEF Journals
  <2>2. QED
    BY <2>1
<1>5. Done(apply.plan)'
  BY DEF Done
<1>6. QED
  BY <1>1, <1>2, <1>3, <1>4, <1>5 DEF Undisturbed

LEMMA MoveServed ==
  ASSUME IInv, SInv, Move
  PROVE  SInv'
<1>1. PICK m \in apply.todo :
        /\ apply' = [apply EXCEPT !.todo = @ \ {m}]
        /\ IF Here(m.from) /\ ~Here(m.to)
           THEN files' = [files EXCEPT ![m.to] = files[m.from], ![m.from] = None]
           ELSE UNCHANGED files
  BY DEF Move
<1>2. apply.pc = "move" /\ apply.plan \in Plans /\ apply.todo \subseteq apply.plan.moves
  BY DEF Move, Step, IInv, TypeOK
<1>3. /\ UNCHANGED <<journal, disturbed, landing, shown, home, ref, torn>>
      /\ apply'.plan = apply.plan /\ apply'.pc = "move" /\ apply'.gone = apply.gone
      /\ apply'.todo = apply.todo \ {m}
  BY <1>1, <1>2 DEF Move, Step, IInv, TypeOK
<1>4. apply.gone = None
  BY <1>2 DEF SInv
<1> SUFFICES ASSUME NEW plan, plan = apply.plan, ~disturbed PROVE OnTheWay(plan)' /\ Done(plan)'
  BY <1>2, <1>3, <1>4, StepServed
<1>5. OnTheWay(plan) /\ Done(plan)
  BY <1>2, AtWork
<1>6. /\ m \in plan.moves /\ plan.moves \subseteq Moves /\ plan.deletes \subseteq Deletes
      /\ Left(plan)' = Left(plan) /\ Doomed(plan)' = Doomed(plan)
  BY <1>2 DEF Plans, Left, Doomed
<1>7. Distinct(plan)' /\ Between(plan)'
  BY <1>3, <1>5 DEF OnTheWay, Distinct, Between
<1>8. CASE ~(Here(m.from) /\ ~Here(m.to))
  <2>1. files' = files
    BY <1>1, <1>8
  <2>2. ~Here(m.from)
    BY <1>5, <1>6, <1>8 DEF OnTheWay, ToGo
  <2>3. Done(plan)'
    BY <1>2, <1>3, <1>5, <2>1, <2>2 DEF Done, Here
  <2>4. ToGo(plan)' /\ Separate(plan)' /\ Placed(plan)'
    BY <1>5, <1>6, <2>1 DEF OnTheWay, ToGo, Separate, Placed, Wanted, Here
  <2>5. Followed(plan)'
    BY <1>2, <1>3, <1>5, <1>6, <2>1 DEF OnTheWay, Followed, Reaches, Here
  <2>6. QED
    BY <1>7, <2>3, <2>4, <2>5 DEF OnTheWay
<1>9. CASE Here(m.from) /\ ~Here(m.to)
  <2>1. m.from \in Paths /\ m.to \in Paths /\ m.from # m.to
    BY <1>5, <1>6 DEF OnTheWay, Distinct, Moves
  <2>2. /\ files'[m.from] = None /\ files'[m.to] = files[m.from]
        /\ \A p \in Paths \ {m.from, m.to} : files'[p] = files[p]
    BY <1>1, <1>9, <2>1 DEF IInv, TypeOK
  <2>3. ~Here(m.from)' /\ Here(m.to)' /\ \A p \in Paths \ {m.from, m.to} : Here(p)' = Here(p)
    BY <1>9, <2>2 DEF Here
  <2>4. ASSUME NEW n \in plan.moves
        PROVE  /\ n.from \in Paths /\ n.to \in Paths /\ n.from # m.to /\ n.to # m.from
               /\ n # m => n.from # m.from /\ n.to # m.to
    BY <1>5, <1>6 DEF OnTheWay, Distinct, Moves
  <2>5. Done(plan)'
    BY <1>2, <1>3, <1>5, <2>3, <2>4 DEF Done
  <2>6. ToGo(plan)'
    <3> SUFFICES ASSUME NEW n \in plan.moves, Here(n.from)'
                 PROVE  ~Here(n.to)' /\ Wanted(plan, n.from, n.to)'
      BY DEF ToGo
    <3>1. n # m /\ Here(n.from) /\ files'[n.from] = files[n.from]
      BY <2>2, <2>3, <2>4
    <3>2. ~Here(n.to) /\ Wanted(plan, n.from, n.to)
      BY <1>5, <3>1 DEF OnTheWay, ToGo
    <3>3. QED
      BY <1>6, <2>3, <2>4, <3>1, <3>2 DEF Wanted
  <2>7. Separate(plan)'
    <3>1. \A d \in plan.deletes : d.file \in Paths \ {m.from, m.to}
      BY <1>5, <1>6 DEF OnTheWay, Separate, Deletes
    <3>2. QED
      BY <1>5, <1>6, <2>2, <2>3, <3>1 DEF OnTheWay, Separate
  <2>8. Placed(plan)'
    <3> SUFFICES ASSUME NEW p \in Paths, Here(p)'
                 PROVE  (\E n \in plan.moves : p = n.from) \/ p \in Doomed(plan) \/ Wanted(plan, p, p)'
      BY <1>6 DEF Placed
    <3>1. CASE p = m.to
      BY <1>5, <1>6, <1>9, <2>2, <3>1 DEF OnTheWay, ToGo, Wanted
    <3>2. CASE p # m.to
      <4>1. Here(p) /\ files'[p] = files[p]
        BY <2>2, <2>3, <3>2
      <4>2. QED
        BY <1>5, <1>6, <4>1 DEF OnTheWay, Placed, Wanted
    <3>3. QED
      BY <3>1, <3>2
  <2>9. Followed(plan)'
    <3> SUFFICES ASSUME NEW c \in Contents \ torn, NEW p \in Paths \ Doomed(plan), files'[p] = c
                 PROVE  ref[c] # None /\ Reaches(plan, c)'
      BY <1>3, <1>6 DEF Followed
    <3>1. c # None /\ Here(p)'
      BY SwitchAssumption DEF SwitchAssumption, Here
    <3>2. m.from \notin Doomed(plan)
      BY <1>5, <1>6 DEF OnTheWay, Separate, Doomed
    <3>3. \E q \in Paths \ Doomed(plan) : files[q] = c
      BY <2>1, <2>2, <2>3, <3>1, <3>2
    <3>4. ref[c] # None /\ Reaches(plan, c)
      BY <1>5, <3>3 DEF OnTheWay, Followed
    <3>5. ref[c] \in Paths /\ ref'[c] = ref[c] /\ apply'.pc # "delete"
      BY <1>3, <3>4 DEF IInv, TypeOK
    <3>6. CASE files[ref[c]] = c
      <4>1. CASE ref[c] = m.from
        <5>1. files'[m.to] = c /\ ref'[c] = m.from
          BY <2>2, <3>5, <3>6, <4>1
        <5>2. \E n \in plan.moves : ref'[c] = n.from /\ ~Here(n.from)' /\ files'[n.to] = c
          BY <1>6, <2>3, <5>1
        <5>3. QED
          BY <3>4, <3>5, <5>2 DEF Reaches
      <4>2. CASE ref[c] # m.from
        <5>1. files'[ref'[c]] = c
          BY <1>9, <2>2, <3>1, <3>5, <3>6, <4>2 DEF Here
        <5>2. QED
          BY <3>4, <5>1 DEF Reaches
      <4>3. QED
        BY <4>1, <4>2
    <3>7. ASSUME NEW n \in plan.moves, ref[c] = n.from, ~Here(n.from), files[n.to] = c
          PROVE  Reaches(plan, c)'
      <4>1. n.to # m.to
        BY <1>9, <3>1, <3>7 DEF Here
      <4>2. files'[n.to] = c /\ ~Here(n.from)'
        BY <2>2, <2>3, <2>4, <3>7, <4>1
      <4>3. QED
        BY <1>3, <3>7, <4>2 DEF Reaches
    <3>8. QED
      BY <1>4, <3>4, <3>6, <3>7 DEF Reaches
  <2>10. QED
    BY <1>7, <2>5, <2>6, <2>7, <2>8, <2>9 DEF OnTheWay
<1>10. QED
  BY <1>8, <1>9

LEMMA FollowServed ==
  ASSUME IInv, SInv, Follow
  PROVE  SInv'
<1> DEFINE followed == {m \in apply.plan.moves : Here(m.to) /\ ~Here(m.from)}
           moved == {c \in Contents : \E m \in followed : ref[c] = m.from}
<1>1. \/ /\ ref' = [c \in Contents |-> IF c \in moved
                                       THEN (CHOOSE m \in followed : ref[c] = m.from).to ELSE ref[c]]
         /\ UNCHANGED torn
      \/ torn' = torn \cup moved /\ UNCHANGED ref
  BY DEF Follow
<1>2. apply.pc = "move" /\ apply.todo = {} /\ apply.plan \in Plans
  BY DEF Follow, Step, IInv, TypeOK
<1>3. /\ UNCHANGED <<journal, disturbed, landing, shown, home, files>>
      /\ apply'.plan = apply.plan /\ apply'.pc = "delete" /\ apply'.gone = apply.gone
      /\ apply'.todo = apply.plan.deletes
  BY DEF Follow, Step, IInv, TypeOK
<1>4. apply.gone = None
  BY <1>2 DEF SInv
<1> SUFFICES ASSUME NEW plan, plan = apply.plan, ~disturbed PROVE OnTheWay(plan)' /\ Done(plan)'
  BY <1>2, <1>3, <1>4, StepServed
<1>5. OnTheWay(plan) /\ Done(plan)
  BY <1>2, AtWork
<1>6. Done(plan)'
  BY <1>2, <1>3, <1>4, <1>5 DEF Done, Here
<1>7. /\ Distinct(plan)' /\ Between(plan)' /\ ToGo(plan)' /\ Separate(plan)' /\ Placed(plan)'
      /\ Doomed(plan)' = Doomed(plan)
  BY <1>3, <1>5, SameFiles, SameNodes DEF OnTheWay
<1>8. Followed(plan)'
  <2> SUFFICES ASSUME NEW c \in Contents, c \notin torn', NEW p \in Paths \ Doomed(plan), files[p] = c
               PROVE  ref'[c] # None /\ Reaches(plan, c)'
    BY <1>3, <1>7 DEF Followed
  <2>1. c \notin torn /\ c # None
    BY <1>1, SwitchAssumption DEF SwitchAssumption
  <2>2. ref[c] # None /\ Reaches(plan, c)
    BY <1>5, <2>1 DEF OnTheWay, Followed
  <2>3. CASE files[ref[c]] = c
    <3>1. c \notin moved
      BY <2>1, <2>3 DEF Here
    <3>2. ref'[c] = ref[c]
      BY <1>1, <3>1
    <3>3. QED
      BY <1>3, <2>2, <2>3, <3>2 DEF Reaches
  <2>4. ASSUME NEW n \in plan.moves, ref[c] = n.from, ~Here(n.from), files[n.to] = c
        PROVE  ref'[c] # None /\ Reaches(plan, c)'
    <3>1. n \in followed /\ c \in moved
      BY <2>1, <2>4 DEF Here
    <3> DEFINE chosen == CHOOSE m \in followed : ref[c] = m.from
    <3>2. chosen \in followed /\ ref[c] = chosen.from
      BY <2>4, <3>1
    <3>3. ref'[c] = chosen.to
      BY <1>1, <2>1, <3>1
    <3> HIDE DEF chosen
    <3>4. chosen = n
      BY <1>5, <2>4, <3>2 DEF OnTheWay, Distinct
    <3>5. n.to \in Paths
      BY <1>2 DEF Plans, Moves
    <3>6. QED
      BY <1>3, <2>4, <3>3, <3>4, <3>5, NothingAssumption DEF Reaches, NothingAssumption
  <2>5. QED
    BY <1>4, <2>2, <2>3, <2>4 DEF Reaches
<1>9. QED
  BY <1>6, <1>7, <1>8 DEF OnTheWay

LEMMA DeleteServed ==
  ASSUME IInv, SInv, Delete
  PROVE  SInv'
<1>1. PICK d \in apply.todo, gone \in apply.todo \cup {None} :
        /\ \/ files' = [files EXCEPT ![d.file] = None] /\ gone = (IF Here(d.file) THEN d ELSE None)
           \/ files' = files /\ gone = None
        /\ apply' = [pc |-> "delete", plan |-> apply.plan, todo |-> apply.todo \ {d}, gone |-> gone]
  BY DeleteShape DEF IInv
<1>2. /\ apply.pc = "delete" /\ apply.gone = None /\ apply.plan \in Plans
      /\ apply.todo \subseteq apply.plan.deletes
  BY DeleteShape DEF Delete, IInv
<1>3. /\ UNCHANGED <<journal, disturbed, landing, shown, home, ref, torn>>
      /\ apply'.plan = apply.plan /\ apply'.pc = "delete" /\ apply'.gone = gone
  BY <1>1, DeleteShape DEF IInv
<1> SUFFICES ASSUME NEW plan, plan = apply.plan, ~disturbed PROVE OnTheWay(plan)' /\ Done(plan)'
  BY <1>2, <1>3, StepServed
<1>4. OnTheWay(plan) /\ Done(plan)
  BY <1>2, AtWork
<1>5. /\ d \in plan.deletes /\ plan.moves \subseteq Moves /\ plan.deletes \subseteq Deletes
      /\ Left(plan)' = Left(plan) /\ Doomed(plan)' = Doomed(plan)
  BY <1>2 DEF Plans, Left, Doomed
<1>6. d.file \in Paths
  BY <1>5 DEF Deletes
<1>7. /\ \A p \in Paths \ {d.file} : files'[p] = files[p] /\ Here(p)' = Here(p)
      /\ files'[d.file] \in {None, files[d.file]} /\ (Here(d.file)' => Here(d.file))
      /\ Here(d.file) /\ ~Here(d.file)' => gone = d
  BY <1>1, <1>6 DEF IInv, TypeOK, Here
<1>8. \A m \in plan.moves : m.from \in Paths /\ ~Here(m.from)'
  BY <1>2, <1>4, <1>5, <1>7 DEF Done, Moves
<1>9. Done(plan)'
  BY <1>1, <1>3, <1>5, <1>8 DEF Done
<1>10. Distinct(plan)' /\ Between(plan)' /\ ToGo(plan)'
  BY <1>3, <1>4, <1>8 DEF OnTheWay, Distinct, Between, ToGo
<1>11. Separate(plan)'
  <2>1. \A e \in plan.deletes : Here(e.file)' => Here(e.file) /\ files'[e.file] = files[e.file]
    BY <1>5, <1>7 DEF Deletes, Here
  <2>2. QED
    BY <1>4, <1>5, <2>1 DEF OnTheWay, Separate
<1>12. Placed(plan)'
  <2> SUFFICES ASSUME NEW p \in Paths, Here(p)'
               PROVE  (\E n \in plan.moves : p = n.from) \/ p \in Doomed(plan) \/ Wanted(plan, p, p)'
    BY <1>5 DEF Placed
  <2>1. Here(p) /\ files'[p] = files[p]
    BY <1>7 DEF Here
  <2>2. QED
    BY <1>4, <1>5, <2>1 DEF OnTheWay, Placed, Wanted
<1>13. Followed(plan)'
  <2> SUFFICES ASSUME NEW c \in Contents \ torn, NEW p \in Paths \ Doomed(plan), files'[p] = c
               PROVE  ref[c] # None /\ Reaches(plan, c)'
    BY <1>3, <1>5 DEF Followed
  <2>1. files[p] = c /\ ref'[c] = ref[c]
    BY <1>3, <1>7, SwitchAssumption DEF SwitchAssumption
  <2>2. ref[c] # None /\ files[ref[c]] = c
    BY <1>2, <1>4, <2>1 DEF OnTheWay, Followed, Reaches
  <2>3. ref[c] \in Paths /\ Here(ref[c])
    BY <2>2, SwitchAssumption DEF IInv, TypeOK, SwitchAssumption, Here
  <2>4. CASE ref[c] = d.file /\ ~Here(d.file)'
    <3>1. d.cid = c
      BY <1>4, <1>5, <2>2, <2>3, <2>4 DEF OnTheWay, Separate
    <3>2. apply'.gone = d /\ d # None
      BY <1>3, <1>5, <1>7, <2>3, <2>4, NothingAssumption DEF NothingAssumption
    <3>3. QED
      BY <2>2, <3>1, <3>2 DEF Reaches
  <2>5. CASE ref[c] # d.file \/ Here(d.file)'
    <3>1. files'[ref'[c]] = c
      BY <1>7, <2>1, <2>2, <2>3, <2>5 DEF Here
    <3>2. QED
      BY <2>2, <3>1 DEF Reaches
  <2>6. QED
    BY <2>4, <2>5
<1>14. QED
  BY <1>9, <1>10, <1>11, <1>12, <1>13 DEF OnTheWay

LEMMA DeletedServed ==
  ASSUME IInv, SInv, Deleted
  PROVE  SInv'
<1> DEFINE gone == apply.gone
           copies == {p \in gone.elsewhere : files[p] = gone.cid}
<1>1. apply.pc = "delete" /\ gone # None /\ gone \in Deletes /\ apply.plan \in Plans
  BY DEF Deleted, Step, IInv, TypeOK
<1>2. ref' = [ref EXCEPT ![gone.cid] = IF ~CidMissing(gone.cid) THEN @
                                       ELSE IF copies = {} THEN None ELSE CHOOSE p \in copies : TRUE]
  BY DEF Deleted, Unreference
<1>3. /\ UNCHANGED <<journal, disturbed, landing, shown, home, files, torn>>
      /\ apply'.plan = apply.plan /\ apply'.pc = "delete" /\ apply'.gone = None /\ apply'.todo = apply.todo
  BY <1>1 DEF Deleted, Step, IInv, TypeOK
<1> SUFFICES ASSUME NEW plan, plan = apply.plan, ~disturbed PROVE OnTheWay(plan)' /\ Done(plan)'
  BY <1>1, <1>3, StepServed
<1>4. OnTheWay(plan) /\ Done(plan)
  BY <1>1, AtWork
<1>5. gone \in plan.deletes /\ \A m \in plan.moves : ~Here(m.from)
  BY <1>1, <1>4 DEF Done
<1>6. Done(plan)'
  BY <1>1, <1>3, <1>4 DEF Done, Here
<1>7. /\ Distinct(plan)' /\ Between(plan)' /\ ToGo(plan)' /\ Separate(plan)' /\ Placed(plan)'
      /\ Doomed(plan)' = Doomed(plan)
  BY <1>3, <1>4, SameFiles, SameNodes DEF OnTheWay
<1>8. Followed(plan)'
  <2> SUFFICES ASSUME NEW c \in Contents \ torn, NEW p \in Paths \ Doomed(plan), files[p] = c
               PROVE  ref'[c] # None /\ files[ref'[c]] = c
    BY <1>3, <1>7 DEF Followed, Reaches
  <2>1. ref[c] # None /\ (files[ref[c]] = c \/ gone.cid = c)
    BY <1>1, <1>4 DEF OnTheWay, Followed, Reaches
  <2>2. ref \in [Contents -> Paths \cup {None}] /\ gone.cid \in Contents
    BY <1>1 DEF IInv, TypeOK, Deletes
  <2>3. CASE gone.cid # c
    BY <1>2, <2>1, <2>2, <2>3
  <2>4. CASE gone.cid = c /\ ~CidMissing(c)
    <3>1. ref'[c] = ref[c]
      BY <1>2, <2>2, <2>4
    <3>2. QED
      BY <2>1, <2>4, <3>1 DEF CidMissing
  <2>5. CASE gone.cid = c /\ CidMissing(c)
    <3>1. p \in copies
      <4>1. Here(p) /\ p # gone.file
        BY <1>5, SwitchAssumption DEF SwitchAssumption, Here, Doomed
      <4>2. Wanted(plan, p, p)
        BY <1>4, <1>5, <4>1 DEF OnTheWay, Placed
      <4>3. PICK cl \in Left(plan) : FileOf(Left(plan), cl) = p /\ cl[2] = c
        BY <4>2 DEF Wanted
      <4>4. p \in PathsOf(Left(plan), c)
        BY <1>1, <4>3, LeftClaims, AmongPaths
      <4>5. p \in gone.elsewhere
        BY <1>4, <1>5, <2>5, <4>1, <4>4 DEF OnTheWay, Separate
      <4>6. QED
        BY <2>5, <4>5
    <3> DEFINE chosen == CHOOSE q \in copies : TRUE
    <3>2. chosen \in copies
      BY <3>1
    <3>3. ref'[c] = chosen
      BY <1>2, <2>2, <2>5, <3>1
    <3>4. chosen \in Paths /\ files[chosen] = c
      BY <1>1, <2>5, <3>2 DEF Deletes
    <3> HIDE DEF chosen
    <3>5. QED
      BY <3>3, <3>4, NothingAssumption DEF NothingAssumption
  <2>6. QED
    BY <2>3, <2>4, <2>5
<1>9. QED
  BY <1>6, <1>7, <1>8 DEF OnTheWay

LEMMA NodesServed ==
  ASSUME IInv, SInv, NodeIn \/ NodeOut
  PROVE  SInv'
<1>1. apply.pc = "delete"
  BY DEF NodeIn, NodeOut, Step
<1>2. UNCHANGED <<journal, disturbed, landing, shown, files, ref, torn, apply>>
  BY DEF NodeIn, NodeOut, Step
<1> SUFFICES ASSUME NEW plan, plan = apply.plan, ~disturbed PROVE OnTheWay(plan)' /\ Done(plan)'
  BY <1>1, <1>2, StepServed
<1>3. OnTheWay(plan) /\ Done(plan)
  BY <1>1, AtWork
<1>4. Between(plan)'
  BY <1>3 DEF OnTheWay, Between, NodeIn, NodeOut
<1>5. /\ Distinct(plan)' /\ ToGo(plan)' /\ Separate(plan)' /\ Placed(plan)' /\ Done(plan)'
      /\ Doomed(plan)' = Doomed(plan)
  <2>1. Done(plan)'
    BY <1>2, <1>3 DEF Done, Here
  <2>2. QED
    BY <1>2, <1>3, <2>1, SameFiles DEF OnTheWay
<1>6. \A c \in Contents : Reaches(plan, c)' = Reaches(plan, c)
  BY <1>2 DEF Reaches, Here
<1>7. Followed(plan)'
  BY <1>2, <1>3, <1>5, <1>6 DEF OnTheWay, Followed
<1>8. QED
  BY <1>4, <1>5, <1>7 DEF OnTheWay

LEMMA BeginServed ==
  ASSUME IInv, SInv, ApplyBegins
  PROVE  SInv'
<1>1. PICK v \in Versions :
        /\ Ready(v)
        /\ IF journal[v] # NoPlan
           THEN Begins(journal[v]) /\ UNCHANGED <<journal, disturbed>>
           ELSE \E plan \in PlanSwitches(v) :
                  /\ NothingNew(plan) /\ Begins(plan)
                  /\ journal' = [journal EXCEPT ![v] = plan]
                  /\ disturbed' = (disturbed \/ ~(Stays(v) \subseteq plan.moves))
  BY DEF ApplyBegins
<1>2. /\ UNCHANGED <<home, files, ref, landing, shown, torn>> /\ apply.pc = "idle" /\ apply.gone = None
      /\ landing = {} /\ shown # NoPlan /\ v = shown.version
  BY <1>1 DEF ApplyBegins, Ready, SInv
<1>3. apply'.pc = "move" /\ apply'.gone = None /\ apply'.todo = apply'.plan.moves
  BY <1>1 DEF Begins
<1> SUFFICES ASSUME ~disturbed' PROVE Undisturbed'
  BY <1>3 DEF SInv
<1>4. ~disturbed
  BY <1>1
<1>5. Undisturbed
  BY <1>4 DEF SInv
<1>6. Done(apply.plan)'
  BY <1>3 DEF Done
<1>7. \A plan \in Journals : OnTheWay(plan)'
  <2> SUFFICES ASSUME NEW plan \in Journals PROVE OnTheWay(plan)'
    OBVIOUS
  <2>1. OnTheWay(plan)
    BY <1>5 DEF Undisturbed
  <2>2. /\ Distinct(plan)' /\ ToGo(plan)' /\ Separate(plan)' /\ Placed(plan)' /\ Between(plan)'
        /\ Doomed(plan)' = Doomed(plan)
    BY <1>2, <2>1 DEF OnTheWay, Distinct, ToGo, Separate, Placed, Between, Wanted, Here, Left, Doomed
  <2>3. \A c \in Contents : Reaches(plan, c) => Reaches(plan, c)'
    BY <1>2, <1>3 DEF Reaches, Here
  <2>4. Followed(plan)'
    BY <1>2, <2>1, <2>2, <2>3 DEF OnTheWay, Followed
  <2>5. QED
    BY <2>2, <2>4 DEF OnTheWay
<1>8. CASE journal[v] # NoPlan
  <2>1. UNCHANGED journal
    BY <1>1, <1>8
  <2>2. Ordered' /\ ~Quiet' /\ Journals' = Journals
    BY <1>2, <1>5, <1>8, <2>1 DEF Undisturbed, Ordered, Quiet, Journals
  <2>3. QED
    BY <1>6, <1>7, <2>2 DEF Undisturbed
<1>9. CASE journal[v] = NoPlan
  <2>1. PICK plan \in PlanSwitches(v) :
          journal' = [journal EXCEPT ![v] = plan] /\ Stays(v) \subseteq plan.moves
    BY <1>1, <1>9
  <2>2. Quiet
    BY <1>2, <1>5, <1>9 DEF Undisturbed, Ordered, Quiet
  <2>3. OnTheWay(plan)
    <3>1. AtHome /\ apply.pc # "delete"
      BY <1>2, <1>5, <2>2 DEF Undisturbed
    <3>2. QED
      BY <2>1, <3>1, NewPlan
  <2>4. plan # NoPlan
    <3>1. plan.version = v
      BY PlanSound DEF IInv
    <3>2. v # {}
      BY <1>2 DEF IInv, PlansKept
    <3>3. QED
      BY <3>1, <3>2 DEF NoPlan
  <2>5. journal'[v] = plan /\ \A w \in Versions \ {v} : journal'[w] = NoPlan
    BY <2>1, <2>2 DEF IInv, TypeOK, Quiet
  <2>6. Ordered' /\ ~Quiet' /\ Journals' = {plan}
    BY <1>2, <2>4, <2>5 DEF Ordered, Quiet, Journals
  <2>7. OnTheWay(plan)'
    <3>1. /\ Distinct(plan)' /\ ToGo(plan)' /\ Separate(plan)' /\ Placed(plan)' /\ Between(plan)'
          /\ Doomed(plan)' = Doomed(plan)
      BY <1>2, <2>3 DEF OnTheWay, Distinct, ToGo, Separate, Placed, Between, Wanted, Here, Left, Doomed
    <3>2. \A c \in Contents : Reaches(plan, c) => Reaches(plan, c)'
      BY <1>2, <1>3 DEF Reaches, Here
    <3>3. Followed(plan)'
      BY <1>2, <2>3, <3>1, <3>2 DEF OnTheWay, Followed
    <3>4. QED
      BY <3>1, <3>3 DEF OnTheWay
  <2>8. QED
    BY <1>6, <2>6, <2>7 DEF Undisturbed
<1>10. QED
  BY <1>8, <1>9

LEMMA SwitchedServed ==
  ASSUME IInv, SInv, Switched
  PROVE  SInv'
<1> DEFINE plan == apply.plan
           v == plan.version
<1>1. /\ apply.pc = "delete" /\ apply.todo = {} /\ apply.gone = None
      /\ v \subseteq home /\ disturbed' = (disturbed \/ Remains)
      /\ journal' = [journal EXCEPT ![v] = NoPlan]
      /\ apply' = Idle /\ shown' = NoPlan
      /\ UNCHANGED <<home, files, ref, contained, landing, torn>>
  BY DEF Switched
<1> SUFFICES ASSUME ~disturbed, plan.removed \cap home = {}, \A d \in plan.deletes : ~Here(d.file)
             PROVE  Undisturbed'
  BY <1>1 DEF SInv, Idle, Remains
<1>2. /\ landing = {} /\ plan \in Plans /\ OnTheWay(plan) /\ Done(plan)
      /\ \A w \in Versions : journal[w] # NoPlan => w = v
  BY <1>1, AtWork
<1>3. v \in Versions
  BY <1>2 DEF Plans
<1>4. Quiet'
  BY <1>1, <1>2, <1>3 DEF IInv, TypeOK, Quiet
<1>5. home = v \cup plan.kept
  BY <1>1, <1>2 DEF OnTheWay, Between
<1>6. /\ \A m \in plan.moves : ~Here(m.from)
      /\ \A p \in Doomed(plan) : ~Here(p)
  BY <1>1, <1>2 DEF Done, Doomed
<1>7. InPlace
  <2> SUFFICES ASSUME NEW p \in Paths, Here(p) PROVE Wanted(plan, p, p)
    BY <1>5 DEF InPlace, Wanted, Left
  <2>1. QED
    BY <1>2, <1>6 DEF OnTheWay, Placed
<1>8. Referenced
  <2> SUFFICES ASSUME NEW c \in Contents \ torn, NEW p \in Paths, files[p] = c
               PROVE  ref[c] # None /\ files[ref[c]] = c
    BY DEF Referenced
  <2>1. Here(p)
    BY SwitchAssumption DEF SwitchAssumption, Here
  <2>2. p \notin Doomed(plan)
    BY <1>6, <2>1
  <2>3. QED
    BY <1>1, <1>2, <2>2 DEF OnTheWay, Followed, Reaches
<1>9. AtHome'
  BY <1>1, <1>2, <1>7, <1>8 DEF AtHome, InPlace, ComesInPlace, Referenced, Here
<1>10. QED
  BY <1>1, <1>2, <1>4, <1>9 DEF Undisturbed, Ordered, Journals, Quiet, Idle

\* A step that leaves the switch and the package alone.
LEMMA AsideServed ==
  ASSUME IInv, SInv, UNCHANGED <<home, files, ref, landing, torn, apply>>,
         ~disturbed' => ~disturbed /\ Journals' = Journals /\ Quiet' = Quiet /\ Ordered'
  PROVE  SInv'
<1> SUFFICES ASSUME ~disturbed' PROVE Undisturbed'
  BY DEF SInv
<1>1. Undisturbed
  BY DEF SInv
<1>2. ASSUME NEW plan \in Journals PROVE OnTheWay(plan)'
  <2>1. OnTheWay(plan)
    BY <1>1 DEF Undisturbed
  <2>2. /\ Distinct(plan)' /\ ToGo(plan)' /\ Separate(plan)' /\ Placed(plan)' /\ Between(plan)'
        /\ Doomed(plan)' = Doomed(plan)
    BY <2>1 DEF OnTheWay, Distinct, ToGo, Separate, Placed, Between, Wanted, Here, Left, Doomed
  <2>3. \A c \in Contents : Reaches(plan, c)' = Reaches(plan, c)
    BY DEF Reaches, Here
  <2>4. Followed(plan)'
    BY <2>1, <2>2, <2>3 DEF OnTheWay, Followed
  <2>5. QED
    BY <2>2, <2>4 DEF OnTheWay
<1>3. Quiet => AtHome'
  BY <1>1 DEF Undisturbed, AtHome, InPlace, ComesInPlace, Referenced, Here
<1>4. apply.pc # "idle" => Done(apply.plan)'
  BY <1>1 DEF Undisturbed, Done, Here
<1>5. QED
  BY <1>2, <1>3, <1>4 DEF Undisturbed

LEMMA StageServed ==
  ASSUME IInv, SInv, NEW v \in Versions, StageUpdate(v)
  PROVE  SInv'
<1>1. UNCHANGED <<home, files, ref, landing, torn, apply, journal>>
  BY DEF StageUpdate
<1>2. Journals' = Journals /\ Quiet' = Quiet
  BY <1>1 DEF Journals, Quiet
<1>3. ASSUME ~disturbed' PROVE ~disturbed /\ Ordered'
  <2>1. CASE journal[v] # NoPlan /\ shown' = journal[v] /\ UNCHANGED disturbed
    <3>1. shown'.version = v /\ Ordered
      BY <1>3, <2>1 DEF IInv, PlansKept, SInv, Undisturbed
    <3>2. QED
      BY <1>1, <1>2, <1>3, <2>1, <3>1 DEF Ordered
  <2>2. CASE disturbed' = (disturbed \/ \E w \in Versions : journal[w] # NoPlan)
    BY <1>1, <1>2, <1>3, <2>2 DEF Ordered, Quiet
  <2>3. QED
    BY <2>1, <2>2 DEF StageUpdate
<1>4. QED
  BY <1>1, <1>2, <1>3, AsideServed

LEMMA DiscardServed ==
  ASSUME IInv, SInv, DiscardStagedUpdate
  PROVE  SInv'
<1>1. /\ UNCHANGED <<home, files, ref, landing, torn, apply>> /\ shown # NoPlan /\ shown' = NoPlan
      /\ disturbed' = (disturbed \/ journal[shown.version] # NoPlan)
      /\ journal' = [journal EXCEPT ![shown.version] = NoPlan]
  BY DEF DiscardStagedUpdate
<1>2. ASSUME ~disturbed' PROVE ~disturbed /\ Journals' = Journals /\ Quiet' = Quiet /\ Ordered'
  <2>1. journal' = journal
    BY <1>1, <1>2 DEF IInv, TypeOK
  <2>2. ~disturbed /\ Undisturbed
    BY <1>1, <1>2 DEF SInv
  <2>3. QED
    BY <1>1, <2>1, <2>2 DEF Undisturbed, Ordered, Journals, Quiet
<1>3. QED
  BY <1>1, <1>2, AsideServed

LEMMA RefusedServed ==
  ASSUME IInv, SInv, ApplyRefused \/ OthersChange
  PROVE  SInv'
<1>1. UNCHANGED <<home, files, ref, landing, torn, apply, journal, disturbed>> /\ shown' \in {NoPlan, shown}
  BY DEF ApplyRefused, OthersChange, diskVars
<1>2. Journals' = Journals /\ Quiet' = Quiet
  BY <1>1 DEF Journals, Quiet
<1>3. ~disturbed => Ordered'
  BY <1>1, <1>2 DEF SInv, Undisturbed, Ordered
<1>4. QED
  BY <1>1, <1>2, <1>3, AsideServed

LEMMA StopsServed ==
  ASSUME IInv, SInv, Stops
  PROVE  SInv'
<1>1. /\ UNCHANGED <<home, files, ref, journal, disturbed>>
      /\ apply' = Idle /\ shown' = NoPlan /\ landing' = {}
      /\ torn' = IF apply.gone = None THEN torn ELSE torn \cup {apply.gone.cid}
  BY DEF Stops, diskVars
<1>2. apply'.pc = "idle" /\ apply'.gone = None
  BY <1>1 DEF Idle
<1> SUFFICES ASSUME ~disturbed PROVE Undisturbed'
  BY <1>1, <1>2 DEF SInv
<1>3. Undisturbed /\ Journals' = Journals /\ Quiet' = Quiet /\ torn \subseteq torn'
  BY <1>1 DEF SInv, Journals, Quiet
<1>4. Ordered'
  BY <1>1, <1>3 DEF Undisturbed, Ordered
<1>5. Quiet => AtHome'
  BY <1>1, <1>3 DEF Undisturbed, AtHome, InPlace, ComesInPlace, Referenced, Here
<1>6. ASSUME NEW plan \in Journals PROVE OnTheWay(plan)'
  <2>1. OnTheWay(plan)
    BY <1>3 DEF Undisturbed
  <2>2. /\ Distinct(plan)' /\ ToGo(plan)' /\ Separate(plan)' /\ Placed(plan)' /\ Between(plan)'
        /\ Doomed(plan)' = Doomed(plan)
    BY <1>1, <2>1 DEF OnTheWay, Distinct, ToGo, Separate, Placed, Between, Wanted, Here, Left, Doomed
  <2>3. \A c \in Contents : Reaches(plan, c) /\ c \notin torn' => Reaches(plan, c)'
    BY <1>1, <1>2 DEF Reaches, Here
  <2>4. Followed(plan)'
    BY <1>1, <1>3, <2>1, <2>2, <2>3 DEF OnTheWay, Followed
  <2>5. QED
    BY <2>2, <2>4 DEF OnTheWay
<1>7. QED
  BY <1>2, <1>3, <1>4, <1>5, <1>6 DEF Undisturbed

LEMMA EnqueueServed ==
  ASSUME IInv, SInv, Enqueue
  PROVE  SInv'
<1>1. /\ UNCHANGED <<home, files, ref, journal, shown, apply, torn>>
      /\ disturbed' = (disturbed \/ \E v \in Versions : journal[v] # NoPlan)
  BY DEF Enqueue, diskVars
<1>2. PICK cl \in ClaimsOf(home) : landing' = landing \cup {<<FileOf(ClaimsOf(home), cl), cl[2]>>}
  BY DEF Enqueue, FileOf
<1> SUFFICES ASSUME ~disturbed' PROVE Undisturbed'
  BY <1>1 DEF SInv
<1>3. ~disturbed /\ Undisturbed /\ Quiet /\ Quiet' /\ Journals' = {}
  BY <1>1 DEF SInv, Quiet, Journals
<1>4. apply.pc = "idle"
  BY <1>3 DEF IInv, TypeOK, Quiet, Plans
<1>5. ComesInPlace'
  BY <1>1, <1>2, <1>3 DEF Undisturbed, AtHome, ComesInPlace
<1>6. InPlace' /\ Referenced'
  BY <1>1, <1>3 DEF Undisturbed, AtHome, InPlace, Referenced, Here
<1>7. Ordered'
  BY <1>1, <1>3 DEF Ordered, Quiet
<1>8. QED
  BY <1>1, <1>3, <1>4, <1>5, <1>6, <1>7 DEF Undisturbed, AtHome

LEMMA LandServed ==
  ASSUME IInv, SInv, Land
  PROVE  SInv'
<1>1. PICK w \in landing : /\ landing' = landing \ {w}
                           /\ files' = [files EXCEPT ![w[1]] = w[2]]
                           /\ ref' = [ref EXCEPT ![w[2]] = w[1]]
                           /\ torn' = torn \ {w[2]}
  BY DEF Land
<1>2. UNCHANGED <<home, journal, shown, apply, disturbed>>
  BY DEF Land
<1> SUFFICES ASSUME ~disturbed PROVE Undisturbed'
  BY <1>2 DEF SInv
<1>3. Undisturbed /\ Quiet /\ Quiet' /\ Journals' = {}
  BY <1>1, <1>2 DEF SInv, Undisturbed, Ordered, Quiet, Journals
<1>4. apply.pc = "idle"
  BY <1>3 DEF IInv, TypeOK, Quiet, Plans
<1>5. InPlace /\ ComesInPlace /\ Referenced
  BY <1>3 DEF Undisturbed, AtHome
<1> DEFINE claims == ClaimsOf(home)
<1>6. /\ claims \in SUBSET (Names \X Contents)
      /\ \A x \in claims : FileOf(claims, x) \in Paths /\ x[2] \in Contents
  BY HomeClaims DEF IInv
<1>7. PICK cl \in claims : w = <<FileOf(claims, cl), cl[2]>>
  BY <1>5 DEF ComesInPlace
<1>8. w[1] = FileOf(claims, cl) /\ w[2] = cl[2] /\ w[1] \in Paths /\ w[2] \in Contents
  BY <1>6, <1>7
<1>9. /\ files'[w[1]] = w[2] /\ \A p \in Paths \ {w[1]} : files'[p] = files[p]
      /\ ref'[w[2]] = w[1] /\ \A c \in Contents \ {w[2]} : ref'[c] = ref[c]
  BY <1>1, <1>8 DEF IInv, TypeOK
<1>10. InPlace'
  <2> SUFFICES ASSUME NEW p \in Paths, Here(p)'
               PROVE  \E x \in claims : FileOf(claims, x) = p /\ files'[p] = x[2]
    BY <1>2 DEF InPlace
  <2>1. CASE p = w[1]
    BY <1>8, <1>9, <2>1
  <2>2. CASE p # w[1]
    BY <1>5, <1>9, <2>2 DEF InPlace, Here
  <2>3. QED
    BY <2>1, <2>2
<1>11. ComesInPlace'
  BY <1>1, <1>2, <1>5 DEF ComesInPlace
<1>12. Referenced'
  <2> SUFFICES ASSUME NEW c \in Contents, c \notin torn', NEW p \in Paths, files'[p] = c
               PROVE  ref'[c] # None /\ files'[ref'[c]] = c
    BY DEF Referenced
  <2>1. CASE c = w[2]
    BY <1>8, <1>9, <2>1, NothingAssumption DEF NothingAssumption
  <2>2. CASE c # w[2]
    <3>1. c \notin torn /\ files[p] = c
      BY <1>1, <1>9, <2>2
    <3>2. ref[c] # None /\ files[ref[c]] = c /\ ref'[c] = ref[c]
      BY <1>5, <1>9, <2>2, <3>1 DEF Referenced
    <3>3. ref[c] \in Paths /\ Here(ref[c])
      BY <3>2, SwitchAssumption DEF IInv, TypeOK, SwitchAssumption, Here
    <3>4. PICK x \in claims : FileOf(claims, x) = ref[c] /\ c = x[2]
      BY <1>5, <3>2, <3>3 DEF InPlace
    <3>5. ref[c] # w[1]
      <4>1. x # cl
        BY <1>8, <2>2, <3>4
      <4> HIDE DEF claims
      <4>2. QED
        BY <1>6, <1>8, <3>4, <4>1, OneClaim
    <3>6. QED
      BY <1>9, <3>2, <3>3, <3>5
  <2>3. QED
    BY <2>1, <2>2
<1>13. Ordered'
  BY <1>2, <1>3 DEF Undisturbed, Ordered, Quiet
<1>14. QED
  BY <1>2, <1>3, <1>4, <1>10, <1>11, <1>12, <1>13 DEF Undisturbed, AtHome

LEMMA NextServed ==
  ASSUME IInv, SInv, [Next]_vars
  PROVE  SInv'
<1>1. CASE Next
  BY <1>1, StageServed, DiscardServed, BeginServed, RefusedServed, MoveServed, FollowServed, DeleteServed,
     DeletedServed, NodesServed, SwitchedServed, StopsServed, EnqueueServed, LandServed DEF Next
<1>2. CASE UNCHANGED vars
  <2>1. UNCHANGED <<home, files, ref, landing, torn, apply, journal, shown, disturbed>>
    BY <1>2 DEF vars, diskVars
  <2>2. Journals' = Journals /\ Quiet' = Quiet
    BY <2>1 DEF Journals, Quiet
  <2>3. ~disturbed => Ordered'
    BY <2>1, <2>2 DEF SInv, Undisturbed, Ordered
  <2>4. QED
    BY <2>1, <2>2, <2>3, AsideServed
<1>3. QED
  BY <1>1, <1>2

\* What a journal promises holds at every stop of its switch (ApplyStagedUpdate), until
\* a switch ends with a file it could not remove, or the package is disturbed otherwise.
THEOREM SwitchInvariance == Spec => []SInv
<1>1. IInv /\ SInv /\ [Next]_vars => SInv'
  BY NextServed
<1>2. QED
  BY <1>1, InitServed, Invariance, PTL DEF Spec

\* However often a switch stops and is resumed, when it is through and what was to go is
\* gone, each layer of the package reads its own bytes or none, and what it reads is
\* referenced where it is.
THEOREM ServedCorrect == Spec => []LayersServed
<1>1. IInv /\ SInv => LayersServed
  BY ServedAtHome
<1>2. QED
  BY <1>1, Invariance, SwitchInvariance, PTL
================================================================================
