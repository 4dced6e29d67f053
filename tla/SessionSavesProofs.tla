--------------------------- MODULE SessionSavesProofs ---------------------------
(***************************************************************************)
(* Proofs about SessionSaves, for any names, values and bounds: types, that *)
(* a stored save is dropped only if the game removed it or a mount left an  *)
(* empty folder, and that saves only grow.                                  *)
(***************************************************************************)
EXTENDS SessionSaves, TLAPS

--------------------------------------------------------------------------------
(* The inductive invariant *)

There == {Low[n] : n \in In(session.files)}

\* What was seeded is there, or the game removed it, as long as the listing can be
\* trusted.
Accounted ==
  /\ At("mount") \/ At("play") => session.seeded \subseteq There \cup removed
  /\ At("list") /\ session.mount = "up" => session.seeded \subseteq There \cup removed
  /\ At("capture") /\ session.clean => EmptyLeft \/ session.seeded \subseteq There \cup removed

\* Names are captured in the capture only, and one just captured holds what the session
\* has there.
JustCaptured ==
  /\ session.pc # "capture" => session.replaced = None /\ session.todo = {}
  /\ session.replaced # None => /\ session.files[session.replaced] # None
                                /\ store[session.replaced] = session.files[session.replaced]

\* Of a name not stored twice when the session began, nor hidden by the package's own
\* file, the session has one spelling at most, no older than what is stored.
OneSpelling ==
  \A m, n \in Names :
    /\ Low[m] = Low[n] /\ Low[n] \notin unsure
       => /\ At("seed") /\ store[m] # None /\ store[n] # None => m = n
          /\ session.files[m] # None /\ session.files[n] # None => m = n
          /\ session.files[n] # None /\ store[m] # None => store[m] <= session.files[n]

Bounded ==
  \A n \in Names : /\ store[n] # None => store[n] <= saves
                   /\ session.files[n] # None => session.files[n] <= saves

IInv == TypeOK /\ JustCaptured /\ OneSpelling /\ Bounded

LEMMA LowType ==
  ASSUME NEW n \in Names
  PROVE  Low[n] \in Lows
BY DEF Lows

LEMMA InitIInv == Init => IInv /\ Accounted
<1> SUFFICES ASSUME Init PROVE IInv /\ Accounted
  OBVIOUS
<1>1. session = NoSession /\ store = Nothing
  BY DEF Init
<1>2. \A n \in Names : session.files[n] = None /\ store[n] = None
  BY <1>1 DEF NoSession, Nothing
<1>3. NoSession \in Sessions
  BY DEF NoSession, Sessions, Nothing
<1>4. TypeOK
  <2>1. store \in [Names -> Contents \cup {None}]
    BY <1>1 DEF Nothing
  <2>2. kept \in Values \cup {None} /\ option \in Values /\ last \in Values \cup {None} /\ default \in BOOLEAN
    BY SavesAssumption DEF Init, SavesAssumption
  <2>3. session.todo \subseteq In(session.files)
    BY <1>1 DEF NoSession
  <2>4. saves \in 0..MaxSaves /\ choices \in 0..MaxChoices /\ faults \in 0..MaxFaults
    BY SavesAssumption DEF Init, SavesAssumption
  <2>5. QED
    BY <1>1, <1>3, <2>1, <2>2, <2>3, <2>4 DEF Init, TypeOK
<1>5. JustCaptured /\ Accounted
  BY <1>1 DEF JustCaptured, Accounted, NoSession, At
<1>6. OneSpelling /\ Bounded
  BY <1>1, <1>2 DEF OneSpelling, Bounded
<1>7. QED
  BY <1>4, <1>5, <1>6 DEF IInv

--------------------------------------------------------------------------------
(* Each step keeps the invariant *)

\* What neither files nor store nor the counters of saves depend on.
LEMMA OthersPreserve ==
  ASSUME IInv, TypeOK', UNCHANGED <<store, unsure, saves>>,
         session'.files = session.files, session'.replaced = session.replaced,
         session'.todo = session.todo, session'.pc = "seed" => session.pc = "seed",
         session.pc = "capture" => session'.pc = "capture"
  PROVE  IInv'
<1>1. JustCaptured'
  BY DEF IInv, JustCaptured
<1>2. ASSUME NEW m \in Names, NEW n \in Names, Low[m] = Low[n], Low[n] \notin unsure
      PROVE  /\ session'.pc = "seed" /\ store[m] # None /\ store[n] # None => m = n
             /\ session.files[m] # None /\ session.files[n] # None => m = n
             /\ session.files[n] # None /\ store[m] # None => store[m] <= session.files[n]
  <2>1. /\ session.pc = "seed" /\ store[m] # None /\ store[n] # None => m = n
        /\ session.files[m] # None /\ session.files[n] # None => m = n
        /\ session.files[n] # None /\ store[m] # None => store[m] <= session.files[n]
    BY <1>2 DEF IInv, OneSpelling, At
  <2>2. session'.pc = "seed" => session.pc = "seed"
    OBVIOUS
  <2>3. QED
    BY <2>1, <2>2
<1>2a. OneSpelling'
  BY <1>2 DEF OneSpelling, At
<1>3. Bounded'
  BY DEF IInv, Bounded
<1>4. QED
  BY <1>1, <1>2a, <1>3 DEF IInv

\* The session goes: nothing of it is left to relate to the store.
LEMMA EndPreserves ==
  ASSUME IInv, TypeOK', UNCHANGED <<store, saves>>, session' = [NoSession EXCEPT !.pc = session'.pc,
                                                                                 !.chosen = session'.chosen],
         session'.pc = "seed" => \A m, n \in Names : /\ Low[m] = Low[n] /\ Low[n] \notin unsure'
                                                      /\ store[m] # None /\ store[n] # None => m = n
  PROVE  IInv'
<1>0. session'.replaced = None /\ session'.todo = {} /\ session'.files = Nothing
  BY DEF NoSession
<1>1. session'.replaced = None /\ session'.todo = {} /\ \A n \in Names : session'.files[n] = None
  BY <1>0 DEF Nothing
<1>2. JustCaptured' /\ Bounded'
  BY <1>1 DEF IInv, JustCaptured, Bounded
<1>3. OneSpelling'
  BY <1>1 DEF OneSpelling, At
<1>4. QED
  BY <1>2, <1>3 DEF IInv

LEMMA ReadBackType ==
  ASSUME TypeOK, ReadBack
  PROVE  /\ option' \in Values /\ last' \in Values \cup {None} /\ news' \in BOOLEAN
         /\ torn' \in BOOLEAN /\ faults' \in 0..MaxFaults
<1>1. option' \in Values /\ last' \in Values \cup {None} /\ news' \in BOOLEAN /\ torn' \in BOOLEAN
  BY DEF TypeOK, ReadBack
<1>2. faults' \in 0..MaxFaults
  BY SavesAssumption DEF TypeOK, ReadBack, Faulty, Faultless, SavesAssumption
<1>3. QED
  BY <1>1, <1>2

LEMMA OpenWindowPreserves ==
  ASSUME IInv, OpenWindow
  PROVE  IInv'
<1>1. TypeOK'
  BY ReadBackType DEF OpenWindow, IInv, TypeOK, In
<1>2. QED
  BY <1>1, OthersPreserve DEF OpenWindow

LEMMA LaunchPreserves ==
  ASSUME IInv, Launch
  PROVE  IInv'
<1>1. session' = [NoSession EXCEPT !.pc = "seed", !.chosen = option']
  BY DEF Launch
<1>2. session' \in Sessions /\ session'.todo = {} /\ session'.pc = "seed" /\ session'.chosen = option'
  <2>1. option' \in Values
    BY ReadBackType DEF Launch, IInv
  <2>2. QED
    BY <1>1, <2>1 DEF NoSession, Sessions, Nothing
<1>3. unsure' \subseteq Lows /\ removed' \subseteq Lows
  BY DEF Launch
<1>4. TypeOK'
  BY <1>2, <1>3, ReadBackType DEF Launch, IInv, TypeOK, In
<1>5. ASSUME NEW m \in Names, NEW n \in Names, Low[m] = Low[n], Low[n] \notin unsure',
             store[m] # None, store[n] # None
      PROVE  m = n
  <2>1. Low[n] \in Lows /\ m \in Spellings(Low[n]) /\ n \in Spellings(Low[n])
    BY <1>5, LowType DEF Spellings
  <2>2. {m, n} \subseteq In(store)
    BY <1>5 DEF In
  <2>3. QED
    BY <1>5, <2>1, <2>2 DEF Launch
<1>6. QED
  BY <1>1, <1>2, <1>4, <1>5, EndPreserves DEF Launch

LEMMA SeedPreserves ==
  ASSUME IInv, Seed
  PROVE  IInv'
<1>1. PICK missing \in SUBSET In(store), lost \in {FALSE, kept # None} :
        session' = [session EXCEPT
               !.pc = "mount",
               !.files = [n \in Names |-> IF n \in In(store) \ missing THEN store[n]
                             ELSE IF Shows(n, In(store) \ missing) THEN 0 ELSE None],
               !.seeded = {Low[n] : n \in In(store) \ missing},
               !.value = IF kept # None /\ ~lost THEN kept ELSE Shipped,
               !.by = IF kept # None /\ ~lost THEN author ELSE "package"]
        /\ unsure' = unsure \cup
             {Low[n] : n \in {p \in Names : Shows(p, In(store) \ missing) /\ Stored(Low[p])}}
  BY DEF Seed
<1>2. session'.files = [n \in Names |-> IF n \in In(store) \ missing THEN store[n]
                             ELSE IF Shows(n, In(store) \ missing) THEN 0 ELSE None]
      /\ session'.pc = "mount" /\ session'.seeded = {Low[n] : n \in In(store) \ missing}
      /\ session'.replaced = session.replaced /\ session'.todo = session.todo
  BY <1>1 DEF IInv, TypeOK, Sessions
<1>3. unsure' = unsure \cup {Low[n] : n \in {p \in Names : Shows(p, In(store) \ missing) /\ Stored(Low[p])}}
  BY <1>1
<1>4. TypeOK'
  <2>1. {Low[n] : n \in In(store) \ missing} \subseteq Lows
    BY DEF Lows, In
  <2>2. [n \in Names |-> IF n \in In(store) \ missing THEN store[n]
                             ELSE IF Shows(n, In(store) \ missing) THEN 0 ELSE None] \in [Names -> Contents \cup {None}]
    <3>1. store \in [Names -> Contents \cup {None}] /\ 0 \in Contents
      BY SavesAssumption DEF IInv, TypeOK, Contents, SavesAssumption
    <3>2. QED
      BY <3>1
  <2>3. session' \in Sessions
    <3>1. session \in Sessions /\ kept \in Values \cup {None} /\ author \in {"package", "launcher", "game"}
      BY DEF IInv, TypeOK
    <3>2. Shipped \in Values \cup {None}
      BY SavesAssumption DEF SavesAssumption
    <3> DEFINE there == [n \in Names |-> IF n \in In(store) \ missing THEN store[n]
                             ELSE IF Shows(n, In(store) \ missing) THEN 0 ELSE None]
               seeded == {Low[n] : n \in In(store) \ missing}
               value == IF kept # None /\ ~lost THEN kept ELSE Shipped
               by == IF kept # None /\ ~lost THEN author ELSE "package"
    <3>3. value \in Values \cup {None} /\ by \in {"package", "launcher", "game"}
      BY <3>1, <3>2
    <3>4. session' = [session EXCEPT !.pc = "mount", !.files = there, !.seeded = seeded,
                                     !.value = value, !.by = by]
      BY <1>1
    <3>5. there \in [Names -> Contents \cup {None}] /\ seeded \in SUBSET Lows
      BY <2>1, <2>2
    <3> HIDE DEF there, seeded, value, by
    <3>6. QED
      BY <3>1, <3>3, <3>4, <3>5, ZenonT(60) DEF Sessions
  <2>4. session'.todo = {} /\ faults' \in 0..MaxFaults
    BY <1>2, SavesAssumption DEF Seed, At, IInv, JustCaptured, TypeOK, Faulty, Faultless, SavesAssumption
  <2>5. unsure' \subseteq Lows
    BY <1>3 DEF IInv, TypeOK, Lows
  <2>6. QED
    BY <2>3, <2>4, <2>5 DEF Seed, IInv, TypeOK, In
<1>5. UNCHANGED <<store, saves>> /\ session.pc = "seed"
  BY DEF Seed, At
<1>6. \A n \in Names : session'.files[n] # None =>
        \/ n \in In(store) \ missing /\ session'.files[n] = store[n]
        \/ Shows(n, In(store) \ missing) /\ session'.files[n] = 0
  BY <1>2
<1>7. JustCaptured' /\ Bounded'
  <2>1. JustCaptured'
    BY <1>2, <1>5 DEF IInv, JustCaptured
  <2>2. saves \in Nat
    BY SavesAssumption DEF IInv, TypeOK, SavesAssumption
  <2>3. Bounded'
    BY <1>5, <1>6, <2>2 DEF IInv, Bounded
  <2>4. QED
    BY <2>1, <2>3
<1>8. OneSpelling'
  <2> SUFFICES ASSUME NEW m \in Names, NEW n \in Names, Low[m] = Low[n], Low[n] \notin unsure'
               PROVE  /\ session'.files[m] # None /\ session'.files[n] # None => m = n
                      /\ session'.files[n] # None /\ store[m] # None => store[m] <= session'.files[n]
    BY <1>2, <1>5 DEF OneSpelling, At
  <2>1. store[m] # None /\ store[n] # None => m = n
    BY <1>3, <1>5 DEF IInv, OneSpelling, At
  <2>2. store[n] # None => store[n] \in Nat
    BY DEF IInv, TypeOK, Contents
  <2>3. Shows(m, In(store) \ missing) => m \in Packaged /\ m \notin In(store) \ missing /\ n \notin In(store) \ missing
    BY DEF Shows
  <2>4. Shows(n, In(store) \ missing) => n \in Packaged /\ m \notin In(store) \ missing /\ n \notin In(store) \ missing
    BY DEF Shows
  <2>5. session'.files[m] # None /\ session'.files[n] # None => m = n
    <3>1. m \in Packaged /\ n \in Packaged => m = n
      BY SavesAssumption DEF SavesAssumption
    <3>2. m \in In(store) /\ n \in In(store) => m = n
      BY <2>1 DEF In
    <3>3. QED
      BY <1>6, <2>3, <2>4, <3>1, <3>2
  <2>6. Shows(n, In(store) \ missing) => store[m] = None
    <3>1. SUFFICES ASSUME Shows(n, In(store) \ missing), store[m] # None PROVE FALSE
      OBVIOUS
    <3>2. Stored(Low[n])
      BY <3>1 DEF Stored, Spellings
    <3>3. Low[n] \in unsure'
      BY <1>3, <3>1, <3>2
    <3>4. QED
      BY <3>3
  <2>7. session'.files[n] # None /\ store[m] # None => store[m] <= session'.files[n]
    <3>1. SUFFICES ASSUME session'.files[n] # None, store[m] # None PROVE store[m] <= session'.files[n]
      OBVIOUS
    <3>2. n \in In(store) /\ session'.files[n] = store[n]
      BY <1>6, <2>6, <3>1
    <3>3. QED
      BY <2>1, <2>2, <3>1, <3>2 DEF In
  <2>8. QED
    BY <2>5, <2>7
<1>9. QED
  BY <1>4, <1>7, <1>8 DEF IInv

LEMMA MountsPreserves ==
  ASSUME IInv, Mounts
  PROVE  IInv'
<1>1. /\ session'.files = session.files /\ session'.replaced = session.replaced
      /\ session'.todo = session.todo /\ session'.pc = "play" /\ session.pc = "mount"
  BY DEF Mounts, Written, At, IInv, TypeOK, Sessions
<1>2. session' \in Sessions
  <2>1. session \in Sessions
    BY DEF IInv, TypeOK
  <2>2. CASE session' = [session EXCEPT !.pc = "play", !.mount = "up"]
    BY <2>1, <2>2 DEF Sessions
  <2>3. CASE session' = [session EXCEPT !.pc = "play", !.mount = "up",
                                   !.value = session.chosen, !.pending = session.chosen,
                                   !.by = IF session.value = session.chosen THEN @ ELSE "launcher"]
    BY <2>1, <2>3, ZenonT(60) DEF Sessions
  <2>4. QED
    BY <2>2, <2>3 DEF Mounts, Written
<1>3. faults' \in 0..MaxFaults
  BY SavesAssumption DEF Mounts, Written, IInv, TypeOK, Faulty, Faultless, SavesAssumption
<1>4. TypeOK'
  BY <1>1, <1>2, <1>3 DEF Mounts, IInv, TypeOK, ghostVars, In
<1>5. QED
  BY <1>1, <1>4, OthersPreserve DEF Mounts, ghostVars

\* The session loses files, all or some, and goes on to pc, outside the seeding.
LEMMA LosesPreserve ==
  ASSUME IInv, TypeOK', UNCHANGED <<store, unsure, saves>>,
         session'.pc # "seed", session'.replaced = None,
         session'.pc # "capture" => session'.todo = {},
         \A n \in Names : session'.files[n] \in {None, session.files[n]}
  PROVE  IInv'
<1>1. JustCaptured'
  BY DEF JustCaptured
<1>2. ASSUME NEW m \in Names, NEW n \in Names, Low[m] = Low[n], Low[n] \notin unsure
      PROVE  /\ session'.files[m] # None /\ session'.files[n] # None => m = n
             /\ session'.files[n] # None /\ store[m] # None => store[m] <= session'.files[n]
  <2>1. /\ session.files[m] # None /\ session.files[n] # None => m = n
        /\ session.files[n] # None /\ store[m] # None => store[m] <= session.files[n]
    BY <1>2 DEF IInv, OneSpelling
  <2>2. QED
    BY <2>1
<1>3. OneSpelling'
  BY <1>2 DEF OneSpelling, At
<1>4. Bounded'
  BY DEF IInv, Bounded
<1>5. QED
  BY <1>1, <1>3, <1>4 DEF IInv

LEMMA MountFailsPreserves ==
  ASSUME IInv, MountFails
  PROVE  IInv'
<1>1. /\ \A n \in Names : session'.files[n] = None
      /\ session'.replaced = session.replaced /\ session'.todo = session.todo /\ session'.pc = "list"
  BY DEF MountFails, Nothing, IInv, TypeOK, Sessions
<1>2. session.replaced = None /\ session.todo = {}
  BY DEF MountFails, At, IInv, JustCaptured
<1>3. session' \in Sessions /\ faults' \in 0..MaxFaults
  <2>1. session \in Sessions /\ Nothing \in [Names -> Contents \cup {None}]
    BY DEF IInv, TypeOK, Nothing
  <2>2. PICK left \in {"none", "empty"} :
          session' = [session EXCEPT !.pc = "list", !.mount = left, !.files = Nothing, !.value = None]
    BY DEF MountFails
  <2>3. session' \in Sessions
    BY <2>1, <2>2 DEF Sessions
  <2>4. faults' \in 0..MaxFaults
    BY SavesAssumption DEF MountFails, Faulty, IInv, TypeOK, SavesAssumption
  <2>5. QED
    BY <2>3, <2>4
<1>4. TypeOK'
  BY <1>1, <1>2, <1>3 DEF MountFails, IInv, TypeOK, ghostVars, In
<1>5. QED
  BY <1>1, <1>2, <1>4, LosesPreserve DEF MountFails, ghostVars

LEMMA GameEndsPreserves ==
  ASSUME IInv, GameEnds
  PROVE  IInv'
<1>1. /\ \A n \in Names : session'.files[n] \in {None, session.files[n]}
      /\ session'.replaced = session.replaced /\ session'.todo = session.todo /\ session'.pc = "list"
  <2>1. session \in Sessions
    BY DEF IInv, TypeOK
  <2>2. CASE session' = [session EXCEPT !.pc = "list"]
    BY <2>1, <2>2 DEF Sessions
  <2>3. CASE \E left \in {"none", "empty"} :
               session' = [session EXCEPT !.pc = "list", !.mount = left, !.files = Nothing, !.value = None]
    <3>1. session'.files = Nothing /\ session'.replaced = session.replaced
          /\ session'.todo = session.todo /\ session'.pc = "list"
      BY <2>1, <2>3 DEF Sessions
    <3>2. QED
      BY <3>1 DEF Nothing
  <2>4. QED
    BY <2>2, <2>3 DEF GameEnds
<1>2. session.replaced = None /\ session.todo = {}
  BY DEF GameEnds, At, IInv, JustCaptured
<1>3. session' \in Sessions /\ faults' \in 0..MaxFaults
  <2>1. session \in Sessions /\ Nothing \in [Names -> Contents \cup {None}]
    BY DEF IInv, TypeOK, Nothing
  <2>2. ASSUME session' = [session EXCEPT !.pc = "list"]
        PROVE  session' \in Sessions
    BY <2>1, <2>2 DEF Sessions
  <2>3. ASSUME NEW left \in {"none", "empty"},
               session' = [session EXCEPT !.pc = "list", !.mount = left, !.files = Nothing, !.value = None]
        PROVE  session' \in Sessions
    BY <2>1, <2>3 DEF Sessions
  <2>4. session' \in Sessions
    BY <2>2, <2>3 DEF GameEnds
  <2>5. faults' \in 0..MaxFaults
    BY SavesAssumption DEF GameEnds, Faulty, Faultless, IInv, TypeOK, SavesAssumption
  <2>6. QED
    BY <2>4, <2>5
<1>4. TypeOK'
  BY <1>1, <1>2, <1>3 DEF GameEnds, IInv, TypeOK, ghostVars, In
<1>5. QED
  BY <1>1, <1>2, <1>4, LosesPreserve DEF GameEnds, ghostVars

LEMMA GameRemovesPreserves ==
  ASSUME IInv, NEW n \in Names, GameRemoves(n)
  PROVE  IInv'
<1>1. /\ \A m \in Names : session'.files[m] \in {None, session.files[m]}
      /\ session'.replaced = session.replaced /\ session'.todo = session.todo
      /\ session'.pc = session.pc /\ session.pc = "play"
  BY DEF GameRemoves, At, IInv, TypeOK, Sessions
<1>2. session.replaced = None /\ session.todo = {}
  BY <1>1 DEF IInv, JustCaptured
<1>3. session' \in Sessions
  <2>1. session \in Sessions
    BY DEF IInv, TypeOK
  <2> DEFINE less == [session.files EXCEPT ![n] = None]
  <2>2. less \in [Names -> Contents \cup {None}]
    BY <2>1 DEF Sessions
  <2>3. session' = [session EXCEPT !.files = less]
    BY DEF GameRemoves
  <2> HIDE DEF less
  <2>4. QED
    BY <2>1, <2>2, <2>3, ZenonT(60) DEF Sessions
<1>4. TypeOK'
  BY <1>1, <1>2, <1>3, LowType DEF GameRemoves, IInv, TypeOK, In
<1>5. QED
  BY <1>1, <1>2, <1>4, LosesPreserve DEF GameRemoves

LEMMA ListPreserves ==
  ASSUME IInv, List
  PROVE  IInv'
<1>1. session.replaced = None
  BY DEF List, At, IInv, JustCaptured
<1>2. CASE Faultless /\ session' = [session EXCEPT !.pc = "capture", !.todo = In(session.files), !.clean = FolderThere]
  <2>1. session'.files = session.files /\ session'.replaced = None /\ session'.pc = "capture"
        /\ session'.todo = In(session.files)
    <3>1. session \in Sessions
      BY DEF IInv, TypeOK
    <3>2. QED
      BY <1>1, <1>2, <3>1 DEF Sessions
  <2>2. session' \in Sessions
    <3>1. session \in Sessions
      BY DEF IInv, TypeOK
    <3>2. In(session.files) \in SUBSET Names
      BY DEF In
    <3>3. FolderThere \in BOOLEAN
      BY SavesAssumption DEF FolderThere, EmptyLeft, SavesAssumption
    <3>4. QED
      BY <1>2, <3>1, <3>2, <3>3, ZenonT(60) DEF Sessions
  <2>3. TypeOK'
    BY <1>2, <2>1, <2>2 DEF List, IInv, TypeOK, ghostVars, In, Faultless
  <2>4. QED
    BY <2>1, <2>3, LosesPreserve DEF List, ghostVars
<1>3. ASSUME Faulty, NEW part \in SUBSET In(session.files), NEW said \in {session.ok, FALSE},
             session' = [session EXCEPT !.pc = "capture", !.todo = part, !.ok = said, !.clean = FALSE,
                                        !.files = [n \in Names |-> IF n \in part THEN @[n] ELSE None]]
      PROVE  IInv'
  <2>1. session'.files = [n \in Names |-> IF n \in part THEN session.files[n] ELSE None]
        /\ session'.replaced = None /\ session'.pc = "capture" /\ session'.todo = part
    BY <1>1, <1>3 DEF IInv, TypeOK, Sessions
  <2>2. session' \in Sessions
    BY <1>3 DEF IInv, TypeOK, Sessions, In
  <2>3. part \subseteq In(session'.files)
    BY <2>1 DEF In
  <2>4. faults' \in 0..MaxFaults
    BY <1>3, SavesAssumption DEF IInv, TypeOK, Faulty, SavesAssumption
  <2>5. TypeOK'
    BY <2>1, <2>2, <2>3, <2>4 DEF List, IInv, TypeOK, ghostVars
  <2>6. QED
    BY <2>1, <2>5, LosesPreserve DEF List, ghostVars
<1>4. QED
  BY <1>2, <1>3 DEF List

\* A save of the game, newer than all.
LEMMA GameSavesPreserves ==
  ASSUME IInv, NEW n \in Names, GameSaves(n)
  PROVE  IInv'
<1> DEFINE renamed == IF session.files[n] = None THEN Spellings(Low[n]) \ {n} ELSE {}
<1> DEFINE written == [m \in Names |-> IF m = n THEN saves' ELSE IF m \in renamed THEN None ELSE session.files[m]]
<1>1. session \in Sessions /\ session.pc = "play" /\ saves \in 0..MaxSaves /\ saves < MaxSaves /\ saves' = saves + 1
  BY DEF GameSaves, At, IInv, TypeOK
<1>2. session' = [session EXCEPT !.files = written]
  BY DEF GameSaves
<1>3. saves' \in 0..MaxSaves /\ saves' \in Nat /\ MaxSaves \in Nat
  BY <1>1, SavesAssumption DEF SavesAssumption
<1>4. written \in [Names -> Contents \cup {None}]
  BY <1>1, <1>3 DEF Sessions, Contents
<1>5. session' \in Sessions /\ session'.files = written /\ session'.replaced = session.replaced
      /\ session'.todo = session.todo /\ session'.pc = "play"
  BY <1>1, <1>2, <1>4 DEF Sessions
<1>6. session.replaced = None /\ session.todo = {}
  BY <1>1 DEF IInv, JustCaptured
<1>7. UNCHANGED <<store, kept, option, last, default, choices, faults, removed, unsure, author, news, torn>>
  BY DEF GameSaves, ghostVars
<1>8. TypeOK'
  BY <1>3, <1>5, <1>6, <1>7 DEF IInv, TypeOK, In
<1>9. JustCaptured'
  BY <1>5, <1>6 DEF JustCaptured
<1>10. \A m \in Names : /\ store[m] # None => store[m] \in Nat /\ store[m] <= saves
                        /\ session.files[m] # None => session.files[m] \in Nat /\ session.files[m] <= saves
  BY <1>1 DEF IInv, Bounded, TypeOK, Sessions, Contents
<1>11. Bounded'
  <2>1. ASSUME NEW m \in Names
        PROVE  /\ store[m] # None => store[m] <= saves'
               /\ written[m] # None => written[m] <= saves'
    BY <1>1, <1>3, <1>10
  <2>2. QED
    BY <2>1, <1>5, <1>7 DEF Bounded
<1>12. OneSpelling'
  <2>1. ASSUME NEW m \in Names, NEW k \in Names, Low[m] = Low[k], Low[k] \notin unsure
        PROVE  /\ written[m] # None /\ written[k] # None => m = k
               /\ written[k] # None /\ store[m] # None => store[m] <= written[k]
    <3>1. /\ session.files[m] # None /\ session.files[k] # None => m = k
          /\ session.files[k] # None /\ store[m] # None => store[m] <= session.files[k]
      BY <2>1 DEF IInv, OneSpelling
    <3>2. Low[k] = Low[n] /\ session.files[n] # None =>
            /\ session.files[k] # None => k = n
            /\ session.files[m] # None => m = n
      BY <2>1 DEF IInv, OneSpelling
    <3>3. \A j \in Names : Low[j] = Low[n] /\ session.files[n] = None /\ j # n => written[j] = None
      BY DEF Spellings
    <3>4. written[m] # None /\ written[k] # None => m = k
      <4>1. CASE Low[k] # Low[n]
        BY <2>1, <3>1, <4>1
      <4>2. CASE Low[k] = Low[n] /\ session.files[n] = None
        BY <2>1, <3>3, <4>2
      <4>3. CASE Low[k] = Low[n] /\ session.files[n] # None
        BY <2>1, <3>2, <4>3
      <4>4. QED
        BY <4>1, <4>2, <4>3
    <3>5. written[k] # None /\ store[m] # None => store[m] <= written[k]
      <4>1. CASE k = n
        BY <1>1, <1>3, <1>10, <4>1
      <4>2. CASE k # n
        BY <3>1, <4>2
      <4>3. QED
        BY <4>1, <4>2
    <3>6. QED
      BY <3>4, <3>5
  <2>2. QED
    BY <2>1, <1>5, <1>7 DEF OneSpelling, At
<1>13. QED
  BY <1>8, <1>9, <1>11, <1>12 DEF IInv

LEMMA GameSetsPreserves ==
  ASSUME IInv, NEW v \in Values \cup {None}, GameSets(v)
  PROVE  IInv'
<1>1. session \in Sessions /\ session.pc = "play"
      /\ session' = [session EXCEPT !.value = v, !.by = "game", !.changed = TRUE]
  BY DEF GameSets, At, IInv, TypeOK
<1>2. session' \in Sessions /\ session'.files = session.files /\ session'.replaced = session.replaced
      /\ session'.todo = session.todo /\ session'.pc = "play"
  BY <1>1 DEF Sessions
<1>3. choices' \in 0..MaxChoices
  BY SavesAssumption DEF GameSets, IInv, TypeOK, SavesAssumption
<1>4. UNCHANGED <<store, kept, option, last, default, saves, faults, removed, unsure, author, news, torn>>
  BY DEF GameSets, ghostVars
<1>5. TypeOK'
  BY <1>2, <1>3, <1>4 DEF IInv, TypeOK, In
<1>6. QED
  BY <1>1, <1>2, <1>4, <1>5, OthersPreserve

LEMMA LauncherSetsPreserves ==
  ASSUME IInv, NEW v \in Values, LauncherSets(v)
  PROVE  IInv'
<1>1. choices' \in 0..MaxChoices
  BY SavesAssumption DEF LauncherSets, IInv, TypeOK, SavesAssumption
<1>2. UNCHANGED <<store, kept, last, default, session, saves, faults, removed, unsure, author, torn>>
      /\ option' = v /\ news' = FALSE
  BY DEF LauncherSets
<1>3. TypeOK'
  BY <1>1, <1>2 DEF IInv, TypeOK, In
<1>4. QED
  BY <1>2, <1>3, OthersPreserve

LEMMA CaptureSettingsPreserves ==
  ASSUME IInv, CaptureSettings
  PROVE  IInv'
<1>1. session \in Sessions
  BY DEF IInv, TypeOK
<1>2. /\ session' \in Sessions /\ session'.files = session.files /\ session'.replaced = session.replaced
      /\ session'.todo = session.todo /\ session'.pc = session.pc
  <2>1. CASE session' = [session EXCEPT !.settings = "none"]
    BY <1>1, <2>1 DEF Sessions
  <2>2. CASE session' = [session EXCEPT !.settings = "stored"]
    BY <1>1, <2>2 DEF Sessions
  <2>3. CASE session' = [session EXCEPT !.settings = "none", !.ok = FALSE]
    BY <1>1, <2>3 DEF Sessions
  <2>4. QED
    BY <2>1, <2>2, <2>3 DEF CaptureSettings
<1>3. faults' \in 0..MaxFaults
  BY SavesAssumption DEF CaptureSettings, IInv, TypeOK, Faulty, Faultless, SavesAssumption
<1>4. UNCHANGED <<store, option, last, default, saves, choices, removed, unsure, torn>>
  BY DEF CaptureSettings
<1>5. ASSUME session.value # None
      PROVE  session.value \in Values
  BY <1>1, <1>5 DEF Sessions
<1>6. kept' \in Values \cup {None} /\ author' \in {"package", "launcher", "game"} /\ news' \in BOOLEAN
  BY <1>1, <1>5 DEF CaptureSettings, IInv, TypeOK, Sessions
<1>7. TypeOK'
  BY <1>2, <1>3, <1>4, <1>6 DEF IInv, TypeOK, In
<1>8. QED
  BY <1>2, <1>4, <1>7, OthersPreserve

LEMMA CapturePreserves ==
  ASSUME IInv, NEW n \in Names, Capture(n)
  PROVE  IInv'
<1>1. /\ session \in Sessions /\ session.pc = "capture" /\ n \in session.todo /\ session.replaced = None
      /\ session.files[n] # None /\ session.files[n] \in Contents /\ store \in [Names -> Contents \cup {None}]
  BY DEF Capture, At, IInv, TypeOK, In, Sessions
<1>2. UNCHANGED <<kept, option, last, default, saves, choices, removed, unsure, author, news, torn>>
  BY DEF Capture, ghostVars
<1>3. \/ /\ store' = [store EXCEPT ![n] = session.files[n]] /\ Faultless
         /\ session' = [session EXCEPT !.todo = @ \ {n}, !.replaced = n]
      \/ /\ store' = [store EXCEPT ![n] = store[n]] /\ Faulty
         /\ session' = [session EXCEPT !.todo = @ \ {n}, !.ok = FALSE, !.clean = FALSE]
  <2>1. PICK copy \in {[ok |-> TRUE, to |-> session.files[n]], [ok |-> FALSE, to |-> store[n]]} :
          /\ store' = [store EXCEPT ![n] = copy.to]
          /\ IF copy.ok
             THEN Faultless /\ session' = [session EXCEPT !.todo = @ \ {n}, !.replaced = n]
             ELSE Faulty /\ session' = [session EXCEPT !.todo = @ \ {n}, !.ok = FALSE, !.clean = FALSE]
    BY DEF Capture, Copied
  <2>2. CASE copy = [ok |-> TRUE, to |-> session.files[n]]
    BY <2>1, <2>2
  <2>3. CASE copy = [ok |-> FALSE, to |-> store[n]]
    BY <2>1, <2>3
  <2>4. QED
    BY <2>1, <2>2, <2>3
<1>4. session' \in Sessions /\ session'.files = session.files /\ session'.pc = "capture"
      /\ session'.todo = session.todo \ {n}
  <2>1. CASE session' = [session EXCEPT !.todo = @ \ {n}, !.replaced = n]
    BY <1>1, <2>1, ZenonT(60) DEF Sessions
  <2>2. CASE session' = [session EXCEPT !.todo = @ \ {n}, !.ok = FALSE, !.clean = FALSE]
    BY <1>1, <2>2, ZenonT(60) DEF Sessions
  <2>3. QED
    BY <1>3, <2>1, <2>2
<1>5. /\ store' \in [Names -> Contents \cup {None}]
      /\ \A m \in Names : m # n => store'[m] = store[m]
      /\ store'[n] \in {store[n], session.files[n]}
      /\ session'.replaced \in {None, n}
      /\ session'.replaced = n => store'[n] = session.files[n]
  <2>1. n # None
    BY SavesAssumption DEF SavesAssumption
  <2>2. QED
    BY <1>1, <1>3, <2>1 DEF Sessions
<1>6. faults' \in 0..MaxFaults
  BY <1>3, SavesAssumption DEF IInv, TypeOK, Faulty, Faultless, SavesAssumption
<1>7. TypeOK'
  BY <1>2, <1>4, <1>5, <1>6 DEF IInv, TypeOK, In
<1>8. JustCaptured'
  BY <1>1, <1>4, <1>5 DEF JustCaptured
<1>9. Bounded'
  BY <1>1, <1>2, <1>4, <1>5 DEF IInv, Bounded
<1>10. OneSpelling'
  <2>1. ASSUME NEW m \in Names, NEW k \in Names, Low[m] = Low[k], Low[k] \notin unsure
        PROVE  /\ session.files[m] # None /\ session.files[k] # None => m = k
               /\ session.files[k] # None /\ store'[m] # None => store'[m] <= session.files[k]
    <3>1. /\ session.files[m] # None /\ session.files[k] # None => m = k
          /\ session.files[k] # None /\ store[m] # None => store[m] <= session.files[k]
      BY <2>1 DEF IInv, OneSpelling
    <3>2. m = n /\ session.files[k] # None /\ store'[m] = session.files[n] => store'[m] <= session.files[k]
      BY <1>1, <3>1 DEF Contents
    <3>3. m = n => store'[m] = store[m] \/ store'[m] = session.files[n]
      BY <1>5
    <3>4. m # n => store'[m] = store[m]
      BY <1>5
    <3>5. QED
      BY <3>1, <3>2, <3>3, <3>4
  <2>2. QED
    BY <2>1, <1>2, <1>4 DEF OneSpelling, At
<1>11. QED
  BY <1>7, <1>8, <1>9, <1>10 DEF IInv

\* Stored files go, and nothing else changes but where the capture stands.
LEMMA StoreShrinksPreserve ==
  ASSUME IInv, TypeOK', UNCHANGED <<unsure, saves>>,
         session'.files = session.files, session'.pc # "seed", session'.replaced = None,
         session'.pc # "capture" => session'.todo = {},
         \A n \in Names : store'[n] \in {None, store[n]}
  PROVE  IInv'
<1>1. JustCaptured'
  BY DEF JustCaptured
<1>2. Bounded'
  BY DEF IInv, Bounded
<1>3. ASSUME NEW m \in Names, NEW n \in Names, Low[m] = Low[n], Low[n] \notin unsure
      PROVE  /\ session.files[m] # None /\ session.files[n] # None => m = n
             /\ session.files[n] # None /\ store'[m] # None => store'[m] <= session.files[n]
  <2>1. /\ session.files[m] # None /\ session.files[n] # None => m = n
        /\ session.files[n] # None /\ store[m] # None => store[m] <= session.files[n]
    BY <1>3 DEF IInv, OneSpelling
  <2>2. QED
    BY <2>1
<1>4. OneSpelling'
  BY <1>3 DEF OneSpelling, At
<1>5. QED
  BY <1>1, <1>2, <1>4 DEF IInv

LEMMA ReplacePreserves ==
  ASSUME IInv, Replace
  PROVE  IInv'
<1>1. session \in Sessions /\ session.pc = "capture" /\ session' = [session EXCEPT !.replaced = None]
  BY DEF Replace, At, IInv, TypeOK
<1>2. session' \in Sessions /\ session'.files = session.files /\ session'.pc = "capture"
      /\ session'.todo = session.todo /\ session'.replaced = None
  BY <1>1 DEF Sessions
<1>3. store' \in [Names -> Contents \cup {None}] /\ \A n \in Names : store'[n] \in {None, store[n]}
  BY DEF Replace, IInv, TypeOK
<1>4. UNCHANGED <<kept, option, last, default, saves, choices, faults, removed, unsure, author, news, torn>>
  BY DEF Replace, ghostVars
<1>5. TypeOK'
  BY <1>2, <1>3, <1>4 DEF IInv, TypeOK, In
<1>6. QED
  BY <1>2, <1>3, <1>4, <1>5, StoreShrinksPreserve

LEMMA DropPreserves ==
  ASSUME IInv, Drop
  PROVE  IInv'
<1>1. session \in Sessions /\ session.todo = {} /\ session.replaced = None
      /\ session' = [session EXCEPT !.pc = "note"]
  BY DEF Drop, IInv, TypeOK
<1>2. session' \in Sessions /\ session'.files = session.files /\ session'.pc = "note"
      /\ session'.todo = {} /\ session'.replaced = None
  BY <1>1 DEF Sessions
<1>3. store' \in [Names -> Contents \cup {None}] /\ \A n \in Names : store'[n] \in {None, store[n]}
  BY DEF Drop, IInv, TypeOK
<1>4. UNCHANGED <<kept, option, last, default, saves, choices, faults, removed, unsure, author, news, torn>>
  BY DEF Drop, ghostVars
<1>5. TypeOK'
  BY <1>2, <1>3, <1>4 DEF IInv, TypeOK, In
<1>6. QED
  BY <1>2, <1>3, <1>4, <1>5, StoreShrinksPreserve

LEMMA NoSessionType ==
  /\ NoSession \in Sessions /\ NoSession.todo = {} /\ NoSession.replaced = None /\ NoSession.pc = "idle"
  /\ \A n \in Names : NoSession.files[n] = None
BY DEF NoSession, Sessions, Nothing

\* The session ends, however it ended.
LEMMA OverPreserves ==
  ASSUME IInv, session' = NoSession, UNCHANGED <<store, kept, option, default, saves, choices, removed, unsure, author, news>>,
         faults' \in 0..MaxFaults, last' \in Values \cup {None}, torn' \in BOOLEAN
  PROVE  IInv'
<1>1. TypeOK'
  BY NoSessionType DEF IInv, TypeOK, In
<1>2. JustCaptured' /\ Bounded'
  BY NoSessionType DEF IInv, JustCaptured, Bounded
<1>3. OneSpelling'
  BY NoSessionType DEF OneSpelling, At
<1>4. QED
  BY <1>1, <1>2, <1>3 DEF IInv

LEMMA NotePreserves ==
  ASSUME IInv, Note
  PROVE  IInv'
<1>1. session' = NoSession /\ UNCHANGED <<store, kept, option, default, saves, choices, removed, unsure, author, news>>
  BY DEF Note
<1>2. faults' \in 0..MaxFaults
  BY SavesAssumption DEF Note, IInv, TypeOK, Faulty, Faultless, SavesAssumption
<1>3. last' \in Values \cup {None} /\ torn' \in BOOLEAN
  <2>1. session.pending \in Values \cup {None}
    BY DEF IInv, TypeOK, Sessions
  <2>2. QED
    BY <2>1 DEF Note, IInv, TypeOK, Unnoted
<1>4. QED
  BY <1>1, <1>2, <1>3, OverPreserves

LEMMA CrashPreserves ==
  ASSUME IInv, Crash
  PROVE  IInv'
<1>1. session' = NoSession /\ UNCHANGED <<store, kept, option, last, default, saves, choices, removed, unsure, author, news>>
  BY DEF Crash
<1>2. faults' \in 0..MaxFaults
  BY SavesAssumption DEF Crash, IInv, TypeOK, Faulty, SavesAssumption
<1>3. last' \in Values \cup {None} /\ torn' \in BOOLEAN
  BY DEF Crash, IInv, TypeOK, Unnoted
<1>4. QED
  BY <1>1, <1>2, <1>3, OverPreserves

LEMMA StutterPreserves ==
  ASSUME IInv, UNCHANGED vars
  PROVE  IInv'
<1>1. UNCHANGED <<store, kept, option, last, default, session, saves, choices, faults, removed, unsure, author, news, torn>>
  BY DEF vars, ghostVars
<1>2. TypeOK'
  BY <1>1 DEF IInv, TypeOK, In
<1>3. QED
  BY <1>1, <1>2, OthersPreserve

LEMMA NextIInv == IInv /\ [Next]_vars => IInv'
<1> SUFFICES ASSUME IInv, [Next]_vars PROVE IInv'
  OBVIOUS
<1>1. CASE OpenWindow \/ Launch \/ Seed \/ Mounts \/ MountFails \/ GameEnds
  BY <1>1, OpenWindowPreserves, LaunchPreserves, SeedPreserves, MountsPreserves, MountFailsPreserves,
     GameEndsPreserves
<1>2. CASE \E n \in Names : GameSaves(n) \/ GameRemoves(n) \/ Capture(n)
  BY <1>2, GameSavesPreserves, GameRemovesPreserves, CapturePreserves
<1>3. CASE (\E v \in Values \cup {None} : GameSets(v)) \/ (\E v \in Values : LauncherSets(v))
  BY <1>3, GameSetsPreserves, LauncherSetsPreserves
<1>4. CASE List \/ Replace \/ Drop \/ CaptureSettings \/ Note \/ Crash
  BY <1>4, ListPreserves, ReplacePreserves, DropPreserves, CaptureSettingsPreserves, NotePreserves, CrashPreserves
<1>5. CASE UNCHANGED vars
  BY <1>5, StutterPreserves
<1>6. QED
  BY <1>1, <1>2, <1>3, <1>4, <1>5 DEF Next

\* Types hold throughout, for any names, values and bounds.
THEOREM TypeCorrect == Spec => []TypeOK
<1>1. IInv => TypeOK
  BY DEF IInv
<1>2. QED
  BY InitIInv, NextIInv, <1>1, PTL DEF Spec

--------------------------------------------------------------------------------
(* What the captures do to the store *)

\* The store changes in the capture, one name at a time, or by what Replace and Drop
\* take away.
LEMMA StoreChanges ==
  ASSUME IInv, [Next]_vars
  PROVE  \/ store' = store
         \/ /\ session.pc = "capture" /\ unsure' = unsure
            /\ \E n \in Names : /\ session.files[n] # None
                                /\ store' = [store EXCEPT ![n] = session.files[n]]
         \/ Replace \/ Drop
<1>1. CASE OpenWindow \/ Launch \/ Seed \/ Mounts \/ MountFails \/ GameEnds
  BY <1>1 DEF OpenWindow, Launch, Seed, Mounts, MountFails, GameEnds
<1>2. CASE (\E n \in Names : GameSaves(n) \/ GameRemoves(n)) \/ (\E v \in Values \cup {None} : GameSets(v))
           \/ (\E v \in Values : LauncherSets(v))
  BY <1>2 DEF GameSaves, GameRemoves, GameSets, LauncherSets
<1>3. ASSUME NEW n \in Names, Capture(n)
      PROVE  \/ store' = store
             \/ /\ session.pc = "capture" /\ unsure' = unsure
                /\ session.files[n] # None /\ store' = [store EXCEPT ![n] = session.files[n]]
  <2>1. PICK copy \in {[ok |-> TRUE, to |-> session.files[n]], [ok |-> FALSE, to |-> store[n]]} :
          store' = [store EXCEPT ![n] = copy.to]
    BY <1>3 DEF Capture, Copied
  <2>2. session.pc = "capture" /\ unsure' = unsure /\ session.files[n] # None
        /\ store \in [Names -> Contents \cup {None}]
    BY <1>3 DEF Capture, At, ghostVars, IInv, TypeOK, In
  <2>3. CASE copy = [ok |-> TRUE, to |-> session.files[n]]
    BY <2>1, <2>2, <2>3
  <2>4. CASE copy = [ok |-> FALSE, to |-> store[n]]
    <3>1. store' = [store EXCEPT ![n] = store[n]]
      BY <2>1, <2>4
    <3>2. QED
      BY <2>2, <3>1
  <2>5. QED
    BY <2>3, <2>4
<1>4. CASE List \/ CaptureSettings \/ Note \/ Crash \/ UNCHANGED vars
  BY <1>4 DEF List, CaptureSettings, Note, Crash, vars
<1>5. QED
  BY <1>1, <1>2, <1>3, <1>4 DEF Next

\* A stored save is replaced by newer ones only, except where two spellings of it were
\* stored when the session began, or it was not seeded and the package's own file showed.
THEOREM SavesGrowCorrect == Spec => SavesGrow
<1> DEFINE Grows == \A b \in Lows \ unsure : \A n \in Spellings(b) :
                      store[n] # None /\ Stored(b)' =>
                        \E m \in Spellings(b) : store'[m] # None /\ store'[m] >= store[n]
<1>1. ASSUME IInv, [Next]_vars
      PROVE  Grows
  <2> SUFFICES ASSUME NEW b \in Lows \ unsure, NEW n \in Spellings(b), store[n] # None, Stored(b)'
               PROVE  \E m \in Spellings(b) : store'[m] # None /\ store'[m] >= store[n]
    OBVIOUS
  <2>1. n \in Names /\ Low[n] = b /\ store[n] \in Nat
    BY <1>1 DEF Spellings, IInv, TypeOK, Contents
  <2>2. ASSUME store'[n] = store[n]
        PROVE  \E m \in Spellings(b) : store'[m] # None /\ store'[m] >= store[n]
    BY <2>1, <2>2
  <2>3. \A m \in Names : Low[m] = b /\ session.files[m] # None =>
           session.files[m] \in Nat /\ store[n] <= session.files[m]
    BY <1>1, <2>1 DEF IInv, OneSpelling, TypeOK, Sessions, Contents
  <2>4. ASSUME NEW k \in Names, session.files[k] # None, store' = [store EXCEPT ![k] = session.files[k]]
        PROVE  \E m \in Spellings(b) : store'[m] # None /\ store'[m] >= store[n]
    <3>1. store \in [Names -> Contents \cup {None}]
      BY <1>1 DEF IInv, TypeOK
    <3>2. CASE k = n
      BY <2>1, <2>3, <2>4, <3>1, <3>2
    <3>3. CASE k # n
      BY <2>1, <2>2, <2>4, <3>1, <3>3
    <3>4. QED
      BY <3>2, <3>3
  <2>5. ASSUME Replace
        PROVE  \E m \in Spellings(b) : store'[m] # None /\ store'[m] >= store[n]
    <3>1. session.replaced \in Names /\ session.files[session.replaced] # None
          /\ store[session.replaced] = session.files[session.replaced]
      BY <1>1, <2>5 DEF Replace, IInv, TypeOK, Sessions, JustCaptured
    <3>2. store' = [m \in Names |-> IF m # session.replaced /\ Low[m] = Low[session.replaced] THEN None
                                    ELSE store[m]]
      BY <2>5 DEF Replace
    <3>3. CASE n # session.replaced /\ Low[n] = Low[session.replaced]
      <4>1. session.replaced \in Spellings(b)
        BY <2>1, <3>1, <3>3 DEF Spellings
      <4>2. store'[session.replaced] = session.files[session.replaced]
        BY <3>1, <3>2
      <4>3. session.files[session.replaced] \in Nat /\ store[n] <= session.files[session.replaced]
        BY <2>1, <2>3, <3>1, <3>3
      <4>4. QED
        BY <2>1, <3>1, <4>1, <4>2, <4>3
    <3>4. CASE ~(n # session.replaced /\ Low[n] = Low[session.replaced])
      BY <2>1, <2>2, <3>2, <3>4
    <3>5. QED
      BY <3>3, <3>4
  <2>6. ASSUME Drop
        PROVE  \E m \in Spellings(b) : store'[m] # None /\ store'[m] >= store[n]
    <3>1. \/ store' = store
          \/ \E gone : store' = [m \in Names |-> IF Low[m] \in gone THEN None ELSE store[m]]
      BY <2>6 DEF Drop
    <3>2. ASSUME NEW gone, store' = [m \in Names |-> IF Low[m] \in gone THEN None ELSE store[m]]
          PROVE  store'[n] = store[n]
      <4>1. PICK m \in Spellings(b) : store'[m] # None
        BY DEF Stored
      <4>2. m \in Names /\ Low[m] = b
        BY <4>1 DEF Spellings
      <4>3. b \notin gone
        BY <3>2, <4>1, <4>2
      <4>4. QED
        BY <2>1, <3>2, <4>3
    <3>3. QED
      BY <2>2, <3>1, <3>2
  <2>7. QED
    BY <1>1, <2>2, <2>4, <2>5, <2>6, StoreChanges
<1>2. ASSUME IInv, [Next]_vars
      PROVE  [Grows]_vars
  BY <1>1, <1>2
<1>3. QED
  BY InitIInv, NextIInv, <1>2, PTL DEF Spec, SavesGrow

--------------------------------------------------------------------------------
(* What was seeded is accounted for *)

LEMMA NextAccounted == IInv /\ Accounted /\ [Next]_vars => Accounted'
<1> SUFFICES ASSUME IInv, Accounted, [Next]_vars PROVE Accounted'
  OBVIOUS
<1>0. session \in Sessions
  BY DEF IInv, TypeOK
<1>1. CASE OpenWindow \/ (\E v \in Values : LauncherSets(v)) \/ UNCHANGED vars
  <2>1. UNCHANGED <<session, removed>>
    BY <1>1 DEF OpenWindow, LauncherSets, vars, ghostVars
  <2>2. QED
    BY <2>1 DEF Accounted, There, In, At, EmptyLeft
<1>2. CASE Launch \/ Note \/ Crash
  <2>1. session'.pc \in {"seed", "idle"}
    BY <1>2, NoSessionType DEF Launch, Note, Crash, NoSession
  <2>2. QED
    BY <2>1 DEF Accounted, At
<1>3. CASE Seed
  <2>1. PICK there \in SUBSET Names :
          /\ there \subseteq In(store) /\ session'.pc = "mount"
          /\ session'.seeded = {Low[n] : n \in there}
          /\ session'.files = [n \in Names |-> IF n \in there THEN store[n]
                                              ELSE IF Shows(n, there) THEN 0 ELSE None]
    <3>1. PICK missing \in SUBSET In(store), lost \in {FALSE, kept # None} :
            session' = [session EXCEPT
               !.pc = "mount",
               !.files = [n \in Names |-> IF n \in In(store) \ missing THEN store[n]
                             ELSE IF Shows(n, In(store) \ missing) THEN 0 ELSE None],
               !.seeded = {Low[n] : n \in In(store) \ missing},
               !.value = IF kept # None /\ ~lost THEN kept ELSE Shipped,
               !.by = IF kept # None /\ ~lost THEN author ELSE "package"]
      BY <1>3 DEF Seed
    <3>2. In(store) \ missing \in SUBSET Names
      BY DEF In
    <3>3. QED
      BY <1>0, <3>1, <3>2 DEF Sessions
  <2>2. there \subseteq In(session'.files)
    BY <2>1 DEF In
  <2>3. session'.seeded \subseteq There'
    BY <2>1, <2>2 DEF There
  <2>4. QED
    BY <2>1, <2>3 DEF Accounted, At
<1>4. CASE Mounts \/ (\E v \in Values \cup {None} : GameSets(v)) \/ CaptureSettings
  <2>1. /\ session'.files = session.files /\ session'.seeded = session.seeded /\ removed' = removed
        /\ session'.clean = session.clean
        /\ \/ session.pc = "mount" /\ session'.pc = "play"
           \/ session'.pc = session.pc /\ session'.mount = session.mount
    <3>1. CASE Mounts
      BY <1>0, <3>1 DEF Mounts, Written, At, Sessions, ghostVars
    <3>2. CASE \E v \in Values \cup {None} : GameSets(v)
      BY <1>0, <3>2 DEF GameSets, At, Sessions, ghostVars
    <3>3. CASE CaptureSettings
      BY <1>0, <3>3 DEF CaptureSettings, At, Sessions
    <3>4. QED
      BY <1>4, <3>1, <3>2, <3>3
  <2>2. QED
    BY <2>1 DEF Accounted, There, In, At, EmptyLeft
<1>5. CASE MountFails
  <2>1. session'.pc = "list" /\ session'.mount # "up"
    BY <1>0, <1>5 DEF MountFails, Sessions
  <2>2. QED
    BY <2>1 DEF Accounted, At
<1>6. CASE GameEnds
  <2>1. /\ session.pc = "play" /\ session'.pc = "list" /\ removed' = removed
        /\ \/ session'.mount # "up"
           \/ session'.files = session.files /\ session'.seeded = session.seeded
    BY <1>0, <1>6 DEF GameEnds, At, Sessions, ghostVars
  <2>2. QED
    BY <2>1 DEF Accounted, There, In, At, EmptyLeft
<1>7. ASSUME NEW n \in Names, GameSaves(n)
      PROVE  Accounted'
  <2>1. /\ session.pc = "play" /\ session'.pc = "play" /\ session'.seeded = session.seeded /\ removed' = removed
        /\ saves' = saves + 1 /\ saves \in Nat
        /\ session'.files = [m \in Names |->
             IF m = n THEN saves'
             ELSE IF m \in (IF session.files[n] = None THEN Spellings(Low[n]) \ {n} ELSE {}) THEN None
             ELSE session.files[m]]
    BY <1>0, <1>7 DEF GameSaves, At, Sessions, ghostVars, IInv, TypeOK
  <2>2. saves' # None
    BY <2>1, SavesAssumption DEF SavesAssumption
  <2>3. n \in In(session'.files)
    BY <2>1, <2>2 DEF In
  <2>4. \A m \in Names : m \in In(session.files) => m \in In(session'.files) \/ Low[m] = Low[n]
    BY <2>1, <2>2 DEF In, Spellings
  <2>5. There \subseteq There'
    BY <2>3, <2>4 DEF There, In
  <2>6. QED
    BY <2>1, <2>5 DEF Accounted, At
<1>8. ASSUME NEW n \in Names, GameRemoves(n)
      PROVE  Accounted'
  <2>1. /\ session.pc = "play" /\ session'.pc = "play" /\ session'.seeded = session.seeded
        /\ removed' = removed \cup {Low[n]}
        /\ session'.files = [session.files EXCEPT ![n] = None]
        /\ session.files \in [Names -> Contents \cup {None}]
    BY <1>0, <1>8 DEF GameRemoves, At, Sessions
  <2>2. \A m \in Names : m \in In(session.files) => m \in In(session'.files) \/ m = n
    BY <2>1 DEF In
  <2>3. There \subseteq There' \cup {Low[n]}
    BY <2>2 DEF There, In
  <2>4. QED
    BY <2>1, <2>3 DEF Accounted, At
<1>9. CASE List
  <2>1. \/ /\ session.pc = "list" /\ session'.pc = "capture" /\ session'.clean = FolderThere
           /\ session'.mount = session.mount
           /\ session'.files = session.files /\ session'.seeded = session.seeded /\ removed' = removed
        \/ session'.pc = "capture" /\ session'.clean = FALSE
    BY <1>0, <1>9 DEF List, At, Sessions, ghostVars
  <2>2. FolderThere => session.mount = "up" \/ EmptyLeft
    BY DEF FolderThere
  <2>3. QED
    BY <2>1, <2>2 DEF Accounted, There, In, At, EmptyLeft
<1>10. ASSUME NEW n \in Names, Capture(n)
       PROVE  Accounted'
  <2>1. /\ session.pc = "capture" /\ session'.pc = "capture" /\ (session'.clean => session.clean)
        /\ session'.mount = session.mount
        /\ session'.files = session.files /\ session'.seeded = session.seeded /\ removed' = removed
    <3>1. \/ session' = [session EXCEPT !.todo = @ \ {n}, !.replaced = n]
          \/ session' = [session EXCEPT !.todo = @ \ {n}, !.ok = FALSE, !.clean = FALSE]
      BY <1>10 DEF Capture
    <3>2. session.pc = "capture" /\ removed' = removed
      BY <1>10 DEF Capture, At, ghostVars
    <3>3. QED
      BY <1>0, <3>1, <3>2 DEF Sessions
  <2>2. QED
    BY <2>1 DEF Accounted, There, In, At, EmptyLeft
<1>11. CASE Replace \/ Drop
  <2>1. /\ session'.pc \in {"capture", "note"} /\ session'.clean = session.clean /\ session.pc = "capture"
        /\ session'.mount = session.mount
        /\ session'.files = session.files /\ session'.seeded = session.seeded /\ removed' = removed
    BY <1>0, <1>11 DEF Replace, Drop, At, Sessions, ghostVars
  <2>2. QED
    BY <2>1 DEF Accounted, There, In, At, EmptyLeft
<1>12. QED
  BY <1>1, <1>2, <1>3, <1>4, <1>5, <1>6, <1>7, <1>8, <1>9, <1>10, <1>11 DEF Next

\* A stored save is dropped only when the game removed it in this session, or a
\* mount left an empty folder in its place, whatever else failed.
THEOREM DropsCorrect == Spec => DropsOnlyRemoved
<1> DEFINE Dropped == \A b \in Lows : Stored(b) /\ ~Stored(b)' => b \in removed \/ EmptyLeft
<1>1. ASSUME IInv, Accounted, [Next]_vars
      PROVE  Dropped
  <2> SUFFICES ASSUME NEW b \in Lows, Stored(b), ~Stored(b)' PROVE b \in removed \/ EmptyLeft
    OBVIOUS
  <2>1. PICK n \in Spellings(b) : store[n] # None
    BY DEF Stored
  <2>2. n \in Names /\ Low[n] = b /\ store \in [Names -> Contents \cup {None}]
    BY <1>1, <2>1 DEF Spellings, IInv, TypeOK
  <2>3. \A m \in Names : Low[m] = b => store'[m] = None
    BY DEF Stored, Spellings
  <2>4. store' # store
    BY <2>1, <2>2, <2>3
  <2>5. ~\E k \in Names : session.files[k] # None /\ store' = [store EXCEPT ![k] = session.files[k]]
    <3> SUFFICES ASSUME NEW k \in Names, session.files[k] # None, store' = [store EXCEPT ![k] = session.files[k]]
                 PROVE  FALSE
      OBVIOUS
    <3>1. store'[k] # None /\ \A m \in Names : m # k => store'[m] = store[m]
      BY <2>2
    <3>2. QED
      BY <2>1, <2>2, <2>3, <3>1
  <2>6. ~Replace
    <3> SUFFICES ASSUME Replace PROVE FALSE
      OBVIOUS
    <3>1. session.replaced \in Names /\ store[session.replaced] # None
      BY <1>1 DEF Replace, IInv, TypeOK, Sessions, JustCaptured
    <3>2. store' = [m \in Names |-> IF m # session.replaced /\ Low[m] = Low[session.replaced] THEN None
                                    ELSE store[m]]
      BY DEF Replace
    <3>3. Low[n] = Low[session.replaced] /\ n # session.replaced
      BY <2>1, <2>2, <2>3, <3>2
    <3>4. store'[session.replaced] = store[session.replaced]
      BY <3>1, <3>2
    <3>5. QED
      BY <2>2, <2>3, <3>1, <3>3, <3>4
  <2>7. Drop
    BY <1>1, <2>4, <2>5, <2>6, StoreChanges
  <2>8. session.clean /\ b \in session.seeded /\ b \notin There
    <3>1. session.clean /\ store' = [m \in Names |->
             IF Low[m] \in session.seeded \ {Low[k] : k \in In(session.files)} THEN None ELSE store[m]]
      BY <2>4, <2>7 DEF Drop
    <3>2. b \in session.seeded \ {Low[k] : k \in In(session.files)}
      BY <2>1, <2>2, <2>3, <3>1
    <3>3. QED
      BY <3>1, <3>2 DEF There
  <2>9. EmptyLeft \/ session.seeded \subseteq There \cup removed
    BY <1>1, <2>7, <2>8 DEF Drop, Accounted
  <2>10. QED
    BY <2>8, <2>9
<1>2. ASSUME IInv, Accounted, [Next]_vars
      PROVE  [Dropped]_vars
  BY <1>1, <1>2
<1>3. IInv /\ Accounted /\ [Next]_vars => Accounted'
  BY NextAccounted
<1>4. QED
  BY InitIInv, NextIInv, <1>2, <1>3, PTL DEF Spec, DropsOnlyRemoved

--------------------------------------------------------------------------------
(* The option and the settings file *)

\* Nothing is written before the mount, and nothing captured before the game has ended.
Stages ==
  /\ session.pc \in {"idle", "seed", "mount"} => session.pending = None
  /\ session.settings # "todo" => session.pc \in {"list", "capture", "note"}

\* A value of the launcher's is the one this session wrote, or was stored before.
LaunchersValue ==
  session.by = "launcher" /\ session.value # None =>
    \/ session.pending # None /\ session.value = session.pending
    \/ session.pending = None /\ session.value = kept /\ author = "launcher"

\* A stored value of the launcher's is noted, or what is still to be noted.
LaunchersNoted ==
  author = "launcher" =>
    /\ Unnoted => kept = session.pending
    /\ ~torn /\ ~default /\ kept # None /\ ~Unnoted => last = kept

\* What was written is what was chosen, and still is where there is news.
ChosenWritten ==
  /\ session.pending \in {None, session.chosen}
  /\ news /\ ~default /\ ~At("idle") => option = session.chosen

\* News is stored, and the launcher's value is the one noted beside it.
NewsTakes ==
  news => /\ kept # None
          /\ ~default /\ ~torn /\ ~Unnoted => option = kept \/ last \in {None, option}

Settled == Stages /\ LaunchersValue /\ LaunchersNoted /\ ChosenWritten /\ NewsTakes

\* Steps that leave the settings alone.
LEMMA AlonePreserves ==
  ASSUME Settled, UNCHANGED <<kept, option, last, default, author, news, torn>>,
         session'.value = session.value, session'.by = session.by, session'.pending = session.pending,
         session'.chosen = session.chosen, session'.settings = session.settings,
         \/ session'.pc = session.pc
         \/ session.pc = "mount" /\ session'.pc \in {"play", "list"}
         \/ session.pc = "play" /\ session'.pc = "list"
         \/ session.pc = "seed" /\ session'.pc = "mount"
         \/ session.pc \in {"list", "capture"} /\ session'.pc \in {"capture", "note"}
  PROVE  Settled'
BY DEF Settled, Stages, LaunchersValue, LaunchersNoted, ChosenWritten, NewsTakes, Unnoted, At

\* The same, where the value is lost with the mount.
LEMMA LostPreserves ==
  ASSUME Settled, UNCHANGED <<kept, option, last, default, author, news, torn>>,
         session'.value = None, session'.by = session.by, session'.pending = session.pending,
         session'.chosen = session.chosen, session'.settings = session.settings,
         session.pc \in {"mount", "play"} /\ session'.pc = "list"
  PROVE  Settled'
BY DEF Settled, Stages, LaunchersValue, LaunchersNoted, ChosenWritten, NewsTakes, Unnoted, At

\* No session, before and after, or one that has just begun: the read-back settles it.
LEMMA ReadBackSettles ==
  ASSUME IInv, Settled, At("idle"), ReadBack, UNCHANGED <<kept, default, author>>,
         session'.value = None, session'.pending = None, session'.settings = "todo",
         \/ session'.pc = "idle"
         \/ session'.pc = "seed" /\ session'.chosen = option'
  PROVE  Settled'
<1>1. ~Unnoted /\ ~Unnoted'
  BY DEF Settled, Stages, Unnoted, At
<1>2. Stages' /\ LaunchersValue' /\ ChosenWritten'
  BY DEF Stages, LaunchersValue, ChosenWritten, At
<1>3. CASE Faultless /\ kept # None
  <2>1. news' = FALSE /\ last' = (IF default \/ last = None \/ Takes(kept) THEN kept ELSE last)
        /\ torn' = (torn /\ last' # kept)
    BY <1>3 DEF ReadBack, Faultless, Faulty, IInv, TypeOK
  <2>2. ~torn' /\ ~default => last' = kept \/ (~torn /\ last' = last)
    BY <2>1 DEF IInv, TypeOK
  <2>3. LaunchersNoted'
    BY <1>1, <1>3, <2>2 DEF Settled, LaunchersNoted
  <2>4. QED
    BY <1>2, <2>1, <2>3 DEF Settled, NewsTakes
<1>4. CASE kept = None
  <2>1. news' = FALSE
    BY <1>4 DEF ReadBack
  <2>2. QED
    BY <1>1, <1>2, <1>4, <2>1 DEF Settled, LaunchersNoted, NewsTakes
<1>5. CASE kept # None /\ UNCHANGED <<option, last, news, torn>>
  BY <1>1, <1>2, <1>5 DEF Settled, LaunchersNoted, NewsTakes
<1>6. QED
  BY <1>3, <1>4, <1>5 DEF ReadBack

\* The session is over, and what it stored was noted, or counts as torn.
LEMMA OverSettles ==
  ASSUME Settled, UNCHANGED <<kept, option, default, author, news>>, session' = NoSession,
         \/ /\ session.pending # None /\ last' = session.pending /\ session.settings # "todo"
            /\ session.pc # "idle"
            /\ torn' = (session.settings = "none" /\ kept \notin {None, session.pending})
         \/ last' = last /\ torn' = (torn \/ Unnoted),
         session.settings \in {"todo", "none", "stored"}, torn \in BOOLEAN
  PROVE  Settled'
<1>1. session'.pc = "idle" /\ session'.pending = None /\ session'.settings = "todo" /\ session'.value = None
  BY DEF NoSession
<1>2. Stages' /\ LaunchersValue' /\ ChosenWritten' /\ ~Unnoted'
  BY <1>1 DEF Stages, LaunchersValue, ChosenWritten, Unnoted, At
<1>3. CASE /\ session.pending # None /\ last' = session.pending /\ session.settings # "todo"
           /\ session.pc # "idle"
           /\ torn' = (session.settings = "none" /\ kept \notin {None, session.pending})
  <2>1. LaunchersNoted'
    BY <1>2, <1>3 DEF Settled, LaunchersNoted, Unnoted
  <2>2. NewsTakes'
    BY <1>2, <1>3 DEF Settled, NewsTakes, ChosenWritten, At
  <2>3. QED
    BY <1>2, <2>1, <2>2 DEF Settled
<1>4. CASE last' = last /\ torn' = (torn \/ Unnoted)
  BY <1>2, <1>4 DEF Settled, LaunchersNoted, NewsTakes
<1>5. QED
  BY <1>3, <1>4

LEMMA NextSettled == IInv /\ Settled /\ [Next]_vars => Settled'
<1> SUFFICES ASSUME IInv, Settled, [Next]_vars PROVE Settled'
  OBVIOUS
<1>0. session \in Sessions
  BY DEF IInv, TypeOK
<1>1. CASE OpenWindow
  <2>1. session.pending = None /\ session.settings = "todo"
    BY <1>0, <1>1 DEF OpenWindow, Settled, Stages, At
  <2>2. Unnoted = FALSE
    BY <2>1 DEF Unnoted
  <2>3. LaunchersValue' /\ Stages' /\ session' = session
    BY <1>1 DEF OpenWindow, Settled, LaunchersValue, Stages
  <2>4. ChosenWritten'
    BY <1>1 DEF OpenWindow, Settled, ChosenWritten, At
  <2>5. LaunchersNoted' /\ NewsTakes'
    <3>1. ReadBack /\ UNCHANGED <<kept, default, author>> /\ ~Unnoted'
      BY <1>1, <2>1 DEF OpenWindow, Unnoted
    <3>2. CASE Faultless /\ kept # None
      <4>1. news' = FALSE /\ last' = (IF default \/ last = None \/ Takes(kept) THEN kept ELSE last)
            /\ torn' = (torn /\ last' # kept)
        BY <3>1, <3>2 DEF ReadBack, Faultless, Faulty, IInv, TypeOK
      <4>2. ~torn' /\ ~default => last' = kept \/ (~torn /\ last' = last)
        BY <4>1 DEF IInv, TypeOK
      <4>3. QED
        BY <2>2, <3>1, <3>2, <4>1, <4>2 DEF Settled, LaunchersNoted, NewsTakes
    <3>3. CASE kept = None
      BY <2>2, <3>1, <3>3 DEF ReadBack, Settled, LaunchersNoted, NewsTakes
    <3>4. CASE kept # None /\ UNCHANGED <<option, last, news, torn>>
      BY <2>2, <3>1, <3>4 DEF Settled, LaunchersNoted, NewsTakes
    <3>5. QED
      BY <3>1, <3>2, <3>3, <3>4 DEF ReadBack
  <2>6. QED
    BY <2>3, <2>4, <2>5 DEF Settled
<1>2. CASE Launch
  <2>1. /\ session'.value = None /\ session'.pending = None /\ session'.settings = "todo"
        /\ session'.pc = "seed" /\ session'.chosen = option'
    BY <1>2 DEF Launch, NoSession
  <2>2. QED
    BY <1>2, <2>1, ReadBackSettles DEF Launch
<1>3. CASE Seed
  <2>1. PICK missing \in SUBSET In(store), lost \in {FALSE, kept # None} :
        session' = [session EXCEPT
               !.pc = "mount",
               !.files = [n \in Names |-> IF n \in In(store) \ missing THEN store[n]
                                         ELSE IF Shows(n, In(store) \ missing) THEN 0 ELSE None],
               !.seeded = {Low[n] : n \in In(store) \ missing},
               !.value = IF kept # None /\ ~lost THEN kept ELSE Shipped,
               !.by = IF kept # None /\ ~lost THEN author ELSE "package"]
    BY <1>3 DEF Seed
  <2>2. /\ session'.pc = "mount" /\ session'.pending = session.pending /\ session'.chosen = session.chosen
        /\ session'.settings = session.settings
        /\ \/ session'.value = kept /\ session'.by = author
           \/ session'.by = "package"
    BY <1>0, <2>1 DEF Sessions
  <2>3. UNCHANGED <<kept, option, last, default, author, news, torn>> /\ session.pc = "seed"
    BY <1>3 DEF Seed, ghostVars, At
  <2>4. QED
    BY <2>2, <2>3 DEF Settled, Stages, LaunchersValue, LaunchersNoted, ChosenWritten, NewsTakes, Unnoted, At
<1>4. CASE Mounts
  <2>1. UNCHANGED <<kept, option, last, default, author, news, torn>> /\ session.pc = "mount"
    BY <1>4 DEF Mounts, ghostVars, At
  <2>2. CASE session' = [session EXCEPT !.pc = "play", !.mount = "up"]
    <3>1. /\ session'.value = session.value /\ session'.by = session.by /\ session'.pending = session.pending
          /\ session'.chosen = session.chosen /\ session'.settings = session.settings /\ session'.pc = "play"
      BY <1>0, <2>2 DEF Sessions
    <3>2. QED
      BY <2>1, <3>1, AlonePreserves
  <2>3. CASE session' = [session EXCEPT !.pc = "play", !.mount = "up",
                                   !.value = session.chosen, !.pending = session.chosen,
                                   !.by = IF session.value = session.chosen THEN @ ELSE "launcher"]
    <3>1. /\ session'.value = session.chosen /\ session'.pending = session.chosen
          /\ session'.chosen = session.chosen /\ session'.settings = session.settings /\ session'.pc = "play"
      BY <1>0, <2>3 DEF Sessions
    <3>2. session.settings = "todo"
      BY <1>0, <2>1 DEF Settled, Stages, Sessions
    <3>3. QED
      BY <2>1, <3>1, <3>2
         DEF Settled, Stages, LaunchersValue, LaunchersNoted, ChosenWritten, NewsTakes, Unnoted, At
  <2>4. QED
    BY <1>4, <2>2, <2>3 DEF Mounts, Written
<1>5. CASE MountFails
  <2>1. PICK left \in {"none", "empty"} :
          session' = [session EXCEPT !.pc = "list", !.mount = left, !.files = Nothing, !.value = None]
    BY <1>5 DEF MountFails
  <2>2. /\ session'.value = None /\ session'.by = session.by /\ session'.pending = session.pending
        /\ session'.chosen = session.chosen /\ session'.settings = session.settings /\ session'.pc = "list"
    BY <1>0, <2>1 DEF Sessions
  <2>3. QED
    BY <1>5, <2>2, LostPreserves DEF MountFails, ghostVars, At
<1>6. CASE GameEnds
  <2>1. UNCHANGED <<kept, option, last, default, author, news, torn>> /\ session.pc = "play"
    BY <1>6 DEF GameEnds, ghostVars, At
  <2>2. CASE session' = [session EXCEPT !.pc = "list"]
    <3>1. /\ session'.value = session.value /\ session'.by = session.by /\ session'.pending = session.pending
          /\ session'.chosen = session.chosen /\ session'.settings = session.settings /\ session'.pc = "list"
      BY <1>0, <2>2 DEF Sessions
    <3>2. QED
      BY <2>1, <3>1, AlonePreserves
  <2>3. CASE \E left \in {"none", "empty"} :
               session' = [session EXCEPT !.pc = "list", !.mount = left, !.files = Nothing, !.value = None]
    <3>1. /\ session'.value = None /\ session'.by = session.by /\ session'.pending = session.pending
          /\ session'.chosen = session.chosen /\ session'.settings = session.settings /\ session'.pc = "list"
      BY <1>0, <2>3 DEF Sessions
    <3>2. QED
      BY <2>1, <3>1, LostPreserves
  <2>4. QED
    BY <1>6, <2>2, <2>3 DEF GameEnds
<1>7. CASE \E n \in Names : GameSaves(n) \/ GameRemoves(n) \/ Capture(n)
  <2>1. PICK n \in Names : GameSaves(n) \/ GameRemoves(n) \/ Capture(n)
    BY <1>7
  <2>2. UNCHANGED <<kept, option, last, default, author, news, torn>>
    BY <2>1 DEF GameSaves, GameRemoves, Capture, ghostVars
  <2>3. /\ session'.value = session.value /\ session'.by = session.by /\ session'.pending = session.pending
        /\ session'.chosen = session.chosen /\ session'.settings = session.settings /\ session'.pc = session.pc
    <3>1. CASE GameSaves(n)
      BY <1>0, <3>1 DEF GameSaves, Sessions
    <3>2. CASE GameRemoves(n)
      BY <1>0, <3>2 DEF GameRemoves, Sessions
    <3>3. CASE Capture(n)
      <4>1. \/ session' = [session EXCEPT !.todo = @ \ {n}, !.replaced = n]
            \/ session' = [session EXCEPT !.todo = @ \ {n}, !.ok = FALSE, !.clean = FALSE]
        BY <3>3 DEF Capture
      <4>2. QED
        BY <1>0, <4>1 DEF Sessions
    <3>4. QED
      BY <2>1, <3>1, <3>2, <3>3
  <2>4. QED
    BY <2>2, <2>3, AlonePreserves
<1>8. ASSUME NEW v \in Values \cup {None}, GameSets(v)
      PROVE  Settled'
  <2>1. UNCHANGED <<kept, option, last, default, author, news, torn>>
    BY <1>8 DEF GameSets, ghostVars
  <2>2. /\ session'.by = "game" /\ session'.pending = session.pending /\ session'.chosen = session.chosen
        /\ session'.settings = session.settings /\ session'.pc = session.pc
    BY <1>0, <1>8 DEF GameSets, Sessions
  <2>3. QED
    BY <2>1, <2>2 DEF Settled, Stages, LaunchersValue, LaunchersNoted, ChosenWritten, NewsTakes, Unnoted, At
<1>9. ASSUME NEW v \in Values, LauncherSets(v)
      PROVE  Settled'
  <2>1. UNCHANGED <<kept, last, default, session, author, torn>> /\ news' = FALSE
    BY <1>9 DEF LauncherSets
  <2>2. QED
    BY <2>1 DEF Settled, Stages, LaunchersValue, LaunchersNoted, ChosenWritten, NewsTakes, Unnoted, At
<1>10. CASE List \/ Replace \/ Drop
  <2>1. UNCHANGED <<kept, option, last, default, author, news, torn>>
    BY <1>10 DEF List, Replace, Drop, ghostVars
  <2>2. /\ session'.value = session.value /\ session'.by = session.by /\ session'.pending = session.pending
        /\ session'.chosen = session.chosen /\ session'.settings = session.settings
        /\ session.pc \in {"list", "capture"} /\ session'.pc \in {"capture", "note"}
    <3>1. CASE List
      BY <1>0, <3>1, ZenonT(60) DEF List, At, Sessions
    <3>2. CASE Replace
      BY <1>0, <3>2, ZenonT(60) DEF Replace, At, Sessions
    <3>3. CASE Drop
      BY <1>0, <3>3, ZenonT(60) DEF Drop, At, Sessions
    <3>4. QED
      BY <1>10, <3>1, <3>2, <3>3
  <2>3. QED
    BY <2>1, <2>2, AlonePreserves
<1>11. CASE CaptureSettings
  <2>1. /\ UNCHANGED <<option, last, default, torn>> /\ session.settings = "todo"
        /\ session.pc \in {"list", "note"}
    BY <1>11 DEF CaptureSettings, At
  <2>2. CASE UNCHANGED <<kept, author, news>> /\ session'.settings = "none"
             /\ session' \in {[session EXCEPT !.settings = "none"], [session EXCEPT !.settings = "none", !.ok = FALSE]}
    <3>1. /\ session'.value = session.value /\ session'.by = session.by /\ session'.pending = session.pending
          /\ session'.chosen = session.chosen /\ session'.pc = session.pc
      BY <1>0, <2>2 DEF Sessions
    <3>2. QED
      BY <2>1, <2>2, <3>1
         DEF Settled, Stages, LaunchersValue, LaunchersNoted, ChosenWritten, NewsTakes, Unnoted, At
  <2>3. CASE /\ session.value # None /\ kept' = session.value /\ author' = session.by
             /\ news' = (session.changed /\ (default \/ option = session.pending))
             /\ session' = [session EXCEPT !.settings = "stored"]
    <3>1. /\ session'.value = session.value /\ session'.by = session.by /\ session'.pending = session.pending
          /\ session'.chosen = session.chosen /\ session'.pc = session.pc /\ session'.settings = "stored"
      BY <1>0, <2>3 DEF Sessions
    <3>2. option # None
      BY SavesAssumption DEF IInv, TypeOK, SavesAssumption
    <3>3. Stages' /\ LaunchersValue'
      BY <2>1, <2>3, <3>1 DEF Settled, Stages, LaunchersValue
    <3>4. LaunchersNoted'
      BY <2>1, <2>3, <3>1 DEF Settled, LaunchersValue, LaunchersNoted, Unnoted
    <3>5. ChosenWritten' /\ NewsTakes'
      BY <2>1, <2>3, <3>1, <3>2 DEF Settled, ChosenWritten, NewsTakes, Unnoted, At
    <3>6. QED
      BY <3>3, <3>4, <3>5 DEF Settled
  <2>4. ASSUME \/ session' = [session EXCEPT !.settings = "none"]
               \/ session' = [session EXCEPT !.settings = "none", !.ok = FALSE]
        PROVE  session'.settings = "none"
    BY <1>0, <2>4 DEF Sessions
  <2>5. QED
    BY <1>11, <2>2, <2>3, <2>4 DEF CaptureSettings
<1>12. CASE Note
  <2>1. /\ UNCHANGED <<kept, option, default, author, news>> /\ session' = NoSession
        /\ session.settings # "todo" /\ session.pc = "note"
        /\ \/ session.pending # None /\ last' = session.pending
              /\ torn' = (session.settings = "none" /\ kept \notin {None, session.pending})
           \/ last' = last /\ torn' = (torn \/ Unnoted)
    BY <1>12 DEF Note, At
  <2>2. session.settings \in {"todo", "none", "stored"} /\ torn \in BOOLEAN
    BY <1>0 DEF Sessions, IInv, TypeOK
  <2>3. QED
    BY <2>1, <2>2, OverSettles
<1>13. CASE Crash
  <2>1. /\ UNCHANGED <<kept, option, default, author, news>> /\ session' = NoSession
        /\ last' = last /\ torn' = (torn \/ Unnoted)
    BY <1>13 DEF Crash
  <2>2. session.settings \in {"todo", "none", "stored"} /\ torn \in BOOLEAN
    BY <1>0 DEF Sessions, IInv, TypeOK
  <2>3. QED
    BY <2>1, <2>2, OverSettles
<1>14. CASE UNCHANGED vars
  <2>1. UNCHANGED <<kept, option, last, default, author, news, torn, session>>
    BY <1>14 DEF vars, ghostVars
  <2>2. QED
    BY <2>1, AlonePreserves
<1>15. QED
  BY <1>1, <1>2, <1>3, <1>4, <1>5, <1>6, <1>7, <1>8, <1>9, <1>10, <1>11, <1>12, <1>13, <1>14 DEF Next

LEMMA InitSettled == Init => Settled
BY DEF Init, NoSession, Settled, Stages, LaunchersValue, LaunchersNoted, ChosenWritten, NewsTakes, Unnoted, At

\* The read-back takes what the game changed, and nothing of the launcher's own.
THEOREM ReadBackCorrect == Spec => TakesGamesChanges
<1> DEFINE Taken == At("idle") /\ ~torn /\ faults' = faults =>
                      /\ option' # option /\ choices' = choices => default \/ author # "launcher"
                      /\ news /\ session'.pc = "seed" => option' = kept
<1>1. ASSUME IInv, Settled, Next
      PROVE  Taken
  <2> SUFFICES ASSUME At("idle"), ~torn, faults' = faults
               PROVE  /\ option' # option /\ choices' = choices => default \/ author # "launcher"
                      /\ news /\ session'.pc = "seed" => option' = kept
    OBVIOUS
  <2>1. ~Unnoted /\ session.pc = "idle"
    BY <1>1 DEF Settled, Stages, Unnoted, At
  <2>2. faults \in Nat /\ choices \in Nat
    BY <1>1 DEF IInv, TypeOK
  <2>3. ASSUME ReadBack
        PROVE  /\ option' # option => default \/ author # "launcher"
               /\ news => option' = kept
    <3>1. Faultless /\ IF kept = None THEN UNCHANGED <<option, last>>
                       ELSE option' = IF Takes(kept) THEN kept ELSE option
      BY <2>2, <2>3 DEF ReadBack, Faulty
    <3>2. option' # option => default \/ author # "launcher"
      BY <1>1, <2>1, <3>1 DEF Settled, LaunchersNoted, Takes
    <3>3. news => option' = kept
      BY <1>1, <2>1, <3>1 DEF Settled, NewsTakes, Takes
    <3>4. QED
      BY <3>2, <3>3
  <2>4. ASSUME ~ReadBack
        PROVE  /\ option' # option => choices' # choices
               /\ session'.pc = session.pc
    <3>1. PICK v : LauncherSets(v)
      BY <1>1, <2>1, <2>4 DEF Next, OpenWindow, Launch, Seed, Mounts, MountFails, GameEnds, GameSaves, GameRemoves,
         Capture, GameSets, List, Replace, Drop, CaptureSettings, Note, Crash, At
    <3>2. QED
      BY <2>2, <3>1 DEF LauncherSets
  <2>5. QED
    BY <2>1, <2>3, <2>4
<1> HIDE DEF Taken
<1>2. IInv /\ Settled /\ [Next]_vars => [Taken]_vars
  BY <1>1
<1> USE DEF Taken
<1>3. QED
  BY InitIInv, InitSettled, NextIInv, NextSettled, <1>2, PTL DEF Spec, TakesGamesChanges

================================================================================
