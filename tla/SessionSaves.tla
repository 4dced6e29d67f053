------------------------------ MODULE SessionSaves ------------------------------
(***************************************************************************)
(* What an instance keeps of its sessions: the files stored and seeded     *)
(* again (src/src/persistlayer.cpp), the option that goes both ways        *)
(* through a kept settings file (src/src/optionreadback.cpp), and the      *)
(* parts of a launch that call them, in order (containerwrapper.cpp,       *)
(* launchresolver.cpp).                                                    *)
(*                                                                         *)
(* One instance, one session at a time (SessionLock). It keeps the files   *)
(* of one pattern, by name, and one settings file, of which the option's   *)
(* value is all that is told.                                              *)
(***************************************************************************)
EXTENDS Naturals

CONSTANTS Names, Low,       \* file names of the pattern, each with its spelling folded
          Packaged,         \* the names of the pattern that the package has a file of its own for
          Values,           \* of the option
          Shipped,          \* the value in the package's own settings file; or None
          Imported,         \* values an instance brought from elsewhere may have stored
          AtRoot,           \* the pattern's folder is the runtime's root
          MaxSaves,         \* bound: files saved
          MaxChoices,       \* bound: values chosen, in the launcher or the game
          MaxFaults,        \* bound: failures and crashes
          None

ASSUME SavesAssumption ==
  /\ Low \in [Names -> Names] /\ Packaged \subseteq Names
  /\ \A m, n \in Packaged : Low[m] = Low[n] => m = n
  /\ None \notin Values \cup Names \cup Nat /\ Shipped \in Values \cup {None} /\ Imported \subseteq Values
  /\ AtRoot \in BOOLEAN
  /\ MaxSaves \in Nat /\ MaxChoices \in Nat /\ MaxFaults \in Nat

\* A file's content is the number of the save that wrote it; 0 is that of no save: the
\* package's own, or a torn copy.
Contents == 0..MaxSaves

VARIABLES
  store,    \* the stored files of the pattern
  kept,     \* the value in the stored settings file; None: not stored
  option,   \* the option's value in the instance
  last,     \* LAST_IN_FILE
  default,  \* the settings edit is IF_UNSAVED: the package's default only
  session,  \* the session that is on
  saves, choices, faults,
  removed,  \* of this session: the names the game removed
  unsure,   \* names stored in two spellings when a session began, and those whose stored
            \* file was not seeded over the package's own
  author,   \* who wrote the value in the stored settings file
  news,     \* that value is the game's and no launch, nor choice, came after it
  torn      \* the settings file and LAST_IN_FILE were not stored together

ghostVars == <<removed, unsure, author, news, torn>>
vars == <<store, kept, option, last, default, session, saves, choices, faults, ghostVars>>

Faulty == faults < MaxFaults /\ faults' = faults + 1
Faultless == UNCHANGED faults

Lows == {Low[n] : n \in Names}
Spellings(b) == {n \in Names : Low[n] = b}
Nothing == [n \in Names |-> None]
In(files) == {n \in Names : files[n] # None}
Stored(b) == \E n \in Spellings(b) : store[n] # None

\* pc: of the launch and the cleanup. mount: what is at the runtime path. files, value:
\* what the runtime holds. by: who wrote the value. seeded: SeededPatternFiles.
\* chosen: the option's value in this launch. pending: PendingWritten. changed: the game
\* changed the value. todo: names to capture. replaced: the name just captured. settings:
\* the settings file's capture. clean, ok: of the listing, of the capture.
NoSession == [pc |-> "idle", mount |-> "none", files |-> Nothing, value |-> None, by |-> "package",
              seeded |-> {}, chosen |-> None, pending |-> None, changed |-> FALSE, todo |-> {}, replaced |-> None,
              settings |-> "todo", clean |-> TRUE, ok |-> TRUE]

At(pc) == session.pc = pc

--------------------------------------------------------------------------------
(* The launch *)

\* Whether the value found is taken (Adopt): a default always follows its file; so does
\* a first sight; else only a change in the game, when the launcher's own has not
\* changed since.
Takes(found) ==
  /\ option # found
  /\ default \/ last = None \/ (last # found /\ option = last)

\* The instance takes the value, or cannot be written.
ReadBack ==
  \/ /\ Faultless
     /\ IF kept = None THEN UNCHANGED <<option, last>>
        ELSE /\ option' = IF Takes(kept) THEN kept ELSE option
             /\ last' = IF default \/ last = None \/ Takes(kept) THEN kept ELSE last
     /\ news' = FALSE /\ torn' = (torn /\ last' # kept)
  \/ kept # None /\ Faulty /\ UNCHANGED <<option, last, news, torn>>

\* The launch window reads back and stops there.
OpenWindow ==
  /\ At("idle") /\ ReadBack
  /\ UNCHANGED <<store, kept, default, session, saves, choices, removed, unsure, author>>

Launch ==
  /\ At("idle") /\ ReadBack
  /\ session' = [NoSession EXCEPT !.pc = "seed", !.chosen = option']
  /\ removed' = {}
  /\ unsure' = {b \in Lows : \E m, n \in Spellings(b) : m # n /\ {m, n} \subseteq In(store)}
  /\ UNCHANGED <<store, kept, default, saves, choices, author>>

\* The package's own file is what the game sees, unless one that was seeded shadows it.
Shows(n, there) == n \in Packaged /\ \A m \in there : Low[m] # Low[n]

\* SeedPersistFiles: what cannot be copied is left out, and the launch goes on.
Seed ==
  /\ At("seed")
  /\ \E missing \in SUBSET In(store), lost \in {FALSE, kept # None} :
       /\ IF missing = {} /\ ~lost THEN Faultless ELSE Faulty
       /\ LET there == In(store) \ missing
          IN /\ session' = [session EXCEPT
                  !.pc = "mount",
                  !.files = [n \in Names |-> IF n \in there THEN store[n]
                                             ELSE IF Shows(n, there) THEN 0 ELSE None],
                  !.seeded = {Low[n] : n \in there},
                  !.value = IF kept # None /\ ~lost THEN kept ELSE Shipped,
                  !.by = IF kept # None /\ ~lost THEN author ELSE "package"]
             /\ unsure' = unsure \cup {Low[n] : n \in {p \in Names : Shows(p, there) /\ Stored(Low[p])}}
  /\ UNCHANGED <<store, kept, option, last, default, saves, choices, removed, author, news, torn>>

\* MountVFS, and the override edits: the option is written, unless it is a default and
\* the user has a copy; Written looks whether it landed.
Written ==
  \/ default /\ kept # None /\ Faultless /\ session' = [session EXCEPT !.pc = "play", !.mount = "up"]
  \/ /\ ~(default /\ kept # None) /\ Faultless
     /\ session' = [session EXCEPT !.pc = "play", !.mount = "up",
                                   !.value = session.chosen, !.pending = session.chosen,
                                   !.by = IF session.value = session.chosen THEN @ ELSE "launcher"]
  \/ /\ ~(default /\ kept # None) /\ session.value # session.chosen /\ Faulty
     /\ session' = [session EXCEPT !.pc = "play", !.mount = "up"]

\* mutant: what was written is noted at once
MountsNoting ==
  /\ At("mount") /\ Written
  /\ last' = IF session'.pending = None THEN last ELSE session'.pending
  /\ UNCHANGED <<store, kept, option, default, saves, choices, ghostVars>>

Mounts ==
  /\ At("mount") /\ Written
  /\ UNCHANGED <<store, kept, option, last, default, saves, choices, ghostVars>>

\* The build fails, perhaps when the helper does not mount: then an empty folder is left
\* at the runtime path. The launch ends with the usual cleanup.
MountFails ==
  /\ At("mount") /\ Faulty
  /\ \E left \in {"none", "empty"} :
       session' = [session EXCEPT !.pc = "list", !.mount = left, !.files = Nothing, !.value = None]
  /\ UNCHANGED <<store, kept, option, last, default, saves, choices, ghostVars>>

\* The game ends; or its mount goes under it: the helper dies, and nothing can be read at
\* the runtime path, or it unmounts, and the empty folder it was mounted on is there.
GameEnds ==
  /\ At("play")
  /\ \/ Faultless /\ session' = [session EXCEPT !.pc = "list"]
     \/ /\ Faulty
        /\ \E left \in {"none", "empty"} :
             session' = [session EXCEPT !.pc = "list", !.mount = left, !.files = Nothing, !.value = None]
  /\ UNCHANGED <<store, kept, option, last, default, saves, choices, ghostVars>>

--------------------------------------------------------------------------------
(* The game, and the user in the launch window *)

\* A name there in another spelling is the same file for the game.
GameSaves(n) ==
  /\ At("play") /\ saves < MaxSaves /\ saves' = saves + 1
  /\ LET renamed == IF session.files[n] = None THEN Spellings(Low[n]) \ {n} ELSE {}
     IN session' = [session EXCEPT !.files = [m \in Names |-> IF m = n THEN saves'
                                                             ELSE IF m \in renamed THEN None ELSE @[m]]]
  /\ UNCHANGED <<store, kept, option, last, default, choices, faults, ghostVars>>

GameRemoves(n) ==
  /\ At("play") /\ session.files[n] # None
  /\ session' = [session EXCEPT !.files[n] = None]
  /\ removed' = removed \cup {Low[n]}
  /\ UNCHANGED <<store, kept, option, last, default, saves, choices, faults, unsure, author, news, torn>>

\* None: it removes the settings file.
GameSets(v) ==
  /\ At("play") /\ v # session.value /\ choices < MaxChoices /\ choices' = choices + 1
  /\ session' = [session EXCEPT !.value = v, !.by = "game", !.changed = TRUE]
  /\ UNCHANGED <<store, kept, option, last, default, saves, faults, ghostVars>>

LauncherSets(v) ==
  /\ v # option /\ choices < MaxChoices /\ choices' = choices + 1
  /\ option' = v /\ news' = FALSE
  /\ UNCHANGED <<store, kept, last, default, session, saves, faults, removed, unsure, author, torn>>

--------------------------------------------------------------------------------
(* Cleanup: CapturePersistFiles, then the note of what was written *)

\* mutant: a file that fails to copy is torn
CopyOver(to, from) == {[ok |-> TRUE, to |-> from], [ok |-> FALSE, to |-> 0]}

\* CopyIntoPlace: beside the destination, and renamed over it when complete.
Copied(to, from) == {[ok |-> TRUE, to |-> from], [ok |-> FALSE, to |-> to]}

EmptyLeft == AtRoot /\ session.mount = "empty"
FolderThere == session.mount = "up" \/ EmptyLeft

\* mutant: a folder not all of which was listed counts as listed
ListsAnyhow ==
  /\ At("list")
  /\ \E part \in SUBSET In(session.files) :
       /\ IF part = In(session.files) THEN Faultless ELSE Faulty
       /\ session' = [session EXCEPT !.pc = "capture", !.todo = part, !.clean = FolderThere,
                                     !.files = [n \in Names |-> IF n \in part THEN @[n] ELSE None]]
  /\ UNCHANGED <<store, kept, option, last, default, saves, choices, ghostVars>>

\* With no folder to read, and after a listing in part, nothing stored is dropped. A name
\* that cannot be examined is passed over without an error.
List ==
  /\ At("list")
  /\ \/ /\ Faultless
        /\ session' = [session EXCEPT !.pc = "capture", !.todo = In(session.files), !.clean = FolderThere]
     \/ /\ FolderThere /\ Faulty
        /\ \E part \in SUBSET In(session.files), said \in {session.ok, FALSE} :
             session' = [session EXCEPT !.pc = "capture", !.todo = part, !.ok = said, !.clean = FALSE,
                                        !.files = [n \in Names |-> IF n \in part THEN @[n] ELSE None]]
  /\ UNCHANGED <<store, kept, option, last, default, saves, choices, ghostVars>>

Capture(n) ==
  /\ At("capture") /\ n \in session.todo /\ session.replaced = None
  /\ \E copy \in Copied(store[n], session.files[n]) :
       /\ store' = [store EXCEPT ![n] = copy.to]
       /\ IF copy.ok
          THEN Faultless /\ session' = [session EXCEPT !.todo = @ \ {n}, !.replaced = n]
          ELSE Faulty /\ session' = [session EXCEPT !.todo = @ \ {n}, !.ok = FALSE, !.clean = FALSE]
  /\ UNCHANGED <<kept, option, last, default, saves, choices, ghostVars>>

\* A stored name in another spelling goes once the new one is there.
Replace ==
  /\ At("capture") /\ session.replaced # None
  /\ store' = [n \in Names |-> IF n # session.replaced /\ Low[n] = Low[session.replaced] THEN None ELSE store[n]]
  /\ session' = [session EXCEPT !.replaced = None]
  /\ UNCHANGED <<kept, option, last, default, saves, choices, faults, ghostVars>>

\* What this session seeded and the game removed.
Drop ==
  /\ At("capture") /\ session.todo = {} /\ session.replaced = None
  /\ LET gone == session.seeded \ {Low[n] : n \in In(session.files)}
     IN store' = IF session.clean THEN [n \in Names |-> IF Low[n] \in gone THEN None ELSE store[n]] ELSE store
  /\ session' = [session EXCEPT !.pc = "note"]
  /\ UNCHANGED <<kept, option, last, default, saves, choices, faults, ghostVars>>

\* The settings file, before the pattern or after it.
CaptureSettings ==
  /\ At("list") \/ At("note")
  /\ session.settings = "todo"
  /\ \/ /\ session.value = None /\ Faultless
        /\ session' = [session EXCEPT !.settings = "none"]
        /\ UNCHANGED <<kept, author, news>>
     \/ /\ session.value # None /\ Faultless
        /\ kept' = session.value /\ author' = session.by
        /\ news' = (session.changed /\ (default \/ option = session.pending))
        /\ session' = [session EXCEPT !.settings = "stored"]
     \/ /\ session.value # None /\ Faulty
        /\ session' = [session EXCEPT !.settings = "none", !.ok = FALSE]
        /\ UNCHANGED <<kept, author, news>>
  /\ UNCHANGED <<store, option, last, default, saves, choices, removed, unsure, torn>>

Unnoted == session.settings = "stored" /\ session.pending # None

\* Commit, only when everything was captured; the instance may not be written.
Note ==
  /\ At("note") /\ session.settings # "todo"
  /\ \/ /\ session.ok /\ session.pending # None /\ Faultless
        /\ last' = session.pending
        /\ torn' = (session.settings = "none" /\ kept \notin {None, session.pending})
     \/ /\ IF session.ok /\ session.pending # None THEN Faulty ELSE Faultless
        /\ UNCHANGED last
        /\ torn' = (torn \/ Unnoted)
  /\ session' = NoSession
  /\ UNCHANGED <<store, kept, option, default, saves, choices, removed, unsure, author, news>>

\* The program ends at any step; the next launch's sweep clears what it left.
Crash ==
  /\ ~At("idle") /\ Faulty
  /\ session' = NoSession
  /\ torn' = (torn \/ Unnoted)
  /\ UNCHANGED <<store, kept, option, last, default, saves, choices, removed, unsure, author, news>>

--------------------------------------------------------------------------------
Init ==
  /\ store = Nothing /\ kept \in Imported \cup {None} /\ option \in Values
  /\ last = None /\ default \in BOOLEAN /\ session = NoSession
  /\ saves = 0 /\ choices = 0 /\ faults = 0
  /\ removed = {} /\ unsure = {} /\ news = FALSE /\ torn = FALSE
  /\ author = "game"

Next ==
  \/ OpenWindow \/ Launch \/ Seed \/ Mounts \/ MountFails \/ GameEnds
  \/ \E n \in Names : GameSaves(n) \/ GameRemoves(n) \/ Capture(n)
  \/ \E v \in Values \cup {None} : GameSets(v)
  \/ \E v \in Values : LauncherSets(v)
  \/ List \/ Replace \/ Drop \/ CaptureSettings \/ Note \/ Crash

Spec == Init /\ [][Next]_vars

--------------------------------------------------------------------------------
(* Correctness *)

Sessions == [pc : {"idle", "seed", "mount", "play", "list", "capture", "note"},
             mount : {"none", "up", "empty"}, files : [Names -> Contents \cup {None}],
             value : Values \cup {None}, by : {"package", "launcher", "game"}, seeded : SUBSET Lows,
             chosen : Values \cup {None}, pending : Values \cup {None}, changed : BOOLEAN,
             todo : SUBSET Names, replaced : Names \cup {None},
             settings : {"todo", "none", "stored"}, clean : BOOLEAN, ok : BOOLEAN]

\* Types; and what is to be captured is there.
TypeOK ==
  /\ store \in [Names -> Contents \cup {None}] /\ kept \in Values \cup {None}
  /\ option \in Values /\ last \in Values \cup {None} /\ default \in BOOLEAN
  /\ session \in Sessions
  /\ session.todo \subseteq In(session.files)
  /\ saves \in 0..MaxSaves /\ choices \in 0..MaxChoices /\ faults \in 0..MaxFaults
  /\ removed \subseteq Lows /\ unsure \subseteq Lows
  /\ author \in {"package", "launcher", "game"} /\ news \in BOOLEAN /\ torn \in BOOLEAN

\* "A stored file is dropped only when THIS session seeded it and the game then removed
\* it": whatever failed in the launch, the listing or the copies; except where a mount
\* that failed, or went under the game, left an empty folder that is the pattern's.
DropsOnlyRemoved ==
  [][\A b \in Lows : Stored(b) /\ ~Stored(b)' => b \in removed \/ EmptyLeft]_vars

\* A save that is stored is replaced by newer ones only, whatever fails or stops on the
\* way; except where two spellings of it were stored when the session began, or it could
\* not be seeded and the package's own file took its place.
SavesGrow ==
  [][\A b \in Lows \ unsure : \A n \in Spellings(b) :
       store[n] # None /\ Stored(b)' =>
         \E m \in Spellings(b) : store'[m] # None /\ store'[m] >= store[n]]_vars

\* What the read-back takes for a change made in the game is one: never the launcher's
\* own value come back from the file. And a change the game made that was stored is
\* taken by the next launch, unless the option was changed in the launcher since.
TakesGamesChanges ==
  [][At("idle") /\ ~torn /\ faults' = faults =>
       /\ option' # option /\ choices' = choices => default \/ author # "launcher"
       /\ news /\ session'.pc = "seed" => option' = kept]_vars
================================================================================
