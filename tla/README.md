# VidyaGod in TLA+

VidyaGod (`src/`) is a C++/Qt game library: packages are JSON manifests whose content lies on an embedded IPFS
node, and a launch assembles a package's layers into a mounted runtime, plays the game in it and stores what the game
saved. These modules model the parts of it where threads, processes, friends and the filesystem meet, check them with
TLC on small instances, and prove theorems about them with TLAPS. Source paths below leave out `src/src/`.

| read this | for |
|---|---|
| `FetchQueue.tla` | what the download queue promises, which its users rely on |
| `DownloadQueue.tla` (`DestFiles.tla`) | the download queue, its workers and waiters, the files it writes |
| `DownloadManager.tla` | the cards' downloads over that promise: cancel, purge, exit, crash, resume |
| `ReceivedShares.tla` | what a friend shares: snapshots, stubs, landing passes |
| `PackageSwitch.tla` | switching an installed package to a friend's version of it |
| `PackageDocument.tla` | the package editor: undo, redo, the save that renames nodes, drafts |
| `SessionSaves.tla` | what an instance keeps of its sessions: saves, and an option the game can change |
| `SessionLock.tla` (`SessionOwner.tla`) | who owns a game's session folder, between threads and processes |
| `LaunchQuit.tla` | the live sessions of one process and everything that ends them |
| `*Proofs.tla` | what is proved for every value of the constants |
| `MC*.tla`, `*.cfg` | the instances TLC runs |

`PROJECT.json` maps each definition to the lines it stands for and lists the runs, mutants, hazards, findings and
theorems.

## 1. The system

### Components

| component | state it keeps | operations | talks to |
|---|---|---|---|
| **DownloadQueue** (`downloadqueue.cpp`) | `Q()`: jobs by CID (state, destinations, priority, order, backoff, verify, forgotten paths), `TopPriority`, `Preempting`, `UserCancelled`, `Closed`, `Moved`, one mutex, one condition variable | `EnqueueBatch`, `WaitBatch`, dispatcher loop, `RunJob`, `CancelDownload`, `PrioritizeDownload`, `CloseQueue`, `OpenQueue`, `RedirectDestsUnder`, `DropRedirectsUnder`, `ForgetDestsUnder` | the node (`FetchOnce`, cancel flags, download slots), the disk; called by everything that fetches |
| **IpfsWrapper** (`ipfswrapper.cpp`) | download slots, cancel flags, node handle | fetch, pin, references, peers, LAN | the Go node (not in `src/`) |
| **DownloadManager** (`downloadmanager.cpp`) | keys in flight and cancelling, two maps between keys and CIDs, the persisted record of active downloads | start, cancel and purge, resume, exit | the queue, adoption |
| **Received packages** (`appmodel.cpp`, `packagecatalog.cpp`) | the record of what a friend shares, its stubs in CATALOG, a landing pass, a handful of flags | apply a snapshot, reconcile, land, prune, drop, adopt | catalog, queue |
| **Package versions** (`packagecatalog.cpp`, `contentfile.cpp`) | stages, the journal of a switch, pinned folders, file references | stage, plan, switch, resume, discard | queue, node |
| **PackageCatalog**, the rest | the index and its cache, sources | index, cards, publish, sync | queue, AppModel |
| **Package editor document** (`pkgdoc.cpp`, `packageeditor*.cpp`) | nodes, undo and redo stacks, drafts | edit, undo, redo, save, restore a draft | other packages, instances |
| **Session folders** (`vfsmount.cpp`) | on disk: `<root>/<package>/<instance>`, `<instance>.lock`, mounts | `ClaimSession`, `ReleaseSession`, `SessionOwned`, `SweepDeadSessions`, `CleanStaleRuntime`, `Mounter` | the kernel, other VidyaGods |
| **Launch session and quit** (`containerwrapper.cpp`, `launchthread.cpp`, `quitsignals.cpp`, `commands/cmd_launch.cpp`) | `g_LiveWrappers`, `g_Stopping`, `ActiveRunProcess`, `Built()` | build, execute, cleanup, kill, `StopAll`, `WaitNoneLive`, `launch build / teardown / stop` | session folders, sandbox, the Qt event loop |
| **Session saves** (`persistlayer.cpp`, `optionreadback.cpp`) | the instance's stored files, the names seeded this session, `LAST_IN_FILE` and `PendingWritten` | seed, capture, drop; read back, adopt, note | the runtime, the instance's configuration |
| **Launch runtime**, the rest (`registrylayer.cpp`, `fileedits.cpp`, ...) | write layer, registry | compose, edit, capture keys | the session folder |
| **LaunchResolver** | none (a pure resolution) | chain search, variables, the call of the read-back | NodeGraph, InstanceStore |
| **NodeGraph** (`nodegraph.cpp`, `fold.cpp`, ...) | the parsed graph | parse, closure, fold | catalog, resolver |
| **IpfsModel** | transfer rows, watchdog | refresh, detached workers | IpfsWrapper |
| **CoverCache** | misses and pending covers | sweep, completion | queue |
| **InstanceStore, AppPaths** | instance configurations, the single-instance lock | load, save, lock | launches, windows |
| **AuthoringSession** | a bare runtime and its capture | start, capture, discard | launch session |
| **CommandServer** (`commands/`) | sockets, running commands | dispatch, answer, background | everything |
| **AsyncWork, ParallelFor** | a lifetime guard; a work index | detach, post back; run all | windows, catalog |
| windows and pages, sandbox, CLI, utilities, vendored code | presentation, command lines, helpers | | |

### What is hard, and what correct means

* **DownloadQueue.** Callers, one dispatcher, detached workers and the user's control calls share one lock, but the
  fetch, the slot and the late placements happen outside it; each worker writes its *own copy* of the destinations. A
  cancel and a preemption are the same node flag and are told apart by two sets. Correct: nobody sleeps past a notify;
  a CID is fetched once at a time; a path belongs to one CID; success means the bytes are there; a cancel sticks, a
  preemption does not fail; a dropped folder stays dropped; closing releases every waiter; no job starves.
* **DownloadManager.** Cards share CIDs, each at its own path, while a job is one for all paths. A cancel aborts only
  what no other card needs, and at its end purges what is then unfinished and needed by none, deciding both by two maps
  that are filled and emptied as downloads overlap; the record on disk must say exactly what was interrupted. Correct:
  the maps and the record agree with the downloads in flight, through crashes and resumes; neither a cancel nor its
  purge touches what others in flight have; what a card has finished is not purged (section 6: it may be); the
  exit ends.
* **Received packages.** Snapshots arrive late, twice and out of order while a landing pass works from an older one and
  the queue still brings what was asked for. Correct: two generations of a package never mix; once receiving is off
  nothing comes back; what is shared arrives whole.
* **Package versions.** A switch renames, deletes and adds files one by one, and may stop anywhere and be finished
  later, in a library that has changed. One file name may stand for several contents, one content for several names.
  Correct: a layer reads its own bytes and they stay referenced; only what the user was shown is deleted; what
  something contains stays; no folder stays pinned for nothing.
* **Package editor.** A node's name is the hash of its bytes, so a save renames nodes, what contains them in this and
  other packages, and what instances remember, and undo goes back across it. Correct: clean means saved; instances
  always name what is there; a failed save is undone; a node has one name in all the history.
* **Session saves.** The same files are copied into the runtime and back by steps any of which may fail or be the
  last, and "not there" must not be taken for "deleted"; one option is chosen in the launcher and changed in the game,
  and only a note of what was last written tells which. Correct: a save is dropped only if the game removed it, and
  replaced only by a newer one; the read-back takes what the game changed, and nothing else.
* **Session folders.** The lock file is *unlinked* at release, so a lock can be taken on a file that is no longer at
  its path; processes die at any step and leave mounts; a sweep and a launch may want one folder. Correct: one owner;
  a running game's folder is never touched; nothing is removed under a mount, because what is under it is the user's
  saves.
* **Launch session and quit.** A quit signal, `launch stop`, the user's Stop and the window's close meet a launch at any
  step, before its process has a pid or after its thread has gone into cleanup. Correct: no game outlives the stop;
  no session is cut off; what is mounted is in the live set; the quit ends.
* **Windows and server** (planned). Detached work that posts to an object that may be gone; answers out of order.

## 2. The plan

In place: (1) the queue and its files; (2) session folders and their abstract owner; (3) the quit; (4) `FetchQueue`,
the queue's promise, the proof that `DownloadQueue` keeps it, and `DownloadManager` over it; (5) received packages;
(6) package switches; (7) the editor's document; (8) what sessions store.

Next, most important first:

1. The inside of adoption: references, rename, redirect, each a step a crash may fall before
   (`packagecatalog.cpp:1632`), and a request for the old path in between.
2. The rest of what a launch stores: registry keys (`registrylayer.cpp`), folders kept live, the dry run's write layer
   (`launchthread.cpp:236`), the composition of `SessionSaves` with `SessionLock`.
3. `Fold` and `RunnerChain`: the closure, expansion and chain search as functions, against reference definitions.
4. Publishing and source sync of the catalog, also under an open editor.
5. `CoverCache` (`covercache.cpp:163`), `IpfsModel`'s rows and watchdog (`ipfsmodel.cpp:417`), `AsyncWork`,
   `CommandServer` (`commandserver.cpp:81`), `AuthoringSession`, the single-instance lock; `ParallelFor` against the
   plain loop it replaces (the exception of the first failing item and the log lines up to it, `parallel.h:36-70`).

Compositions: `DownloadManager` uses `FetchQueue`; `ReceivedShares` and `PackageSwitch` use the part of it they can
see (a job lands later, or never); `SessionSaves` takes from `SessionLock` that an instance has one session at a time;
`LaunchQuit` uses the outcome of `SessionLock`'s claim, as a choice. Theorems next in
line: what the queue writes (`SuccessMeansLanded`, `FilesFollowJobs`), which needs a history of the paths that changed
hands and of the late placements that failed, to say of which places the code keeps it.

## 3. The modules

### DownloadQueue and DestFiles

One action is one critical section of `Q().Mu`, or one step outside it.

| code | model |
|---|---|
| `EnqueueBatch` | `EnqueueBegin`, then one `EnqueueTarget` per target while `mu` names the caller (other threads change the disk meanwhile), `EnqueueEnd`; outside the lock `LatePlace` (done-joins) and `EnqueueNotify` |
| `WaitBatch` | `WaitCheck` (predicate, sleep or return), `WaitTimesOut`; `Reuse` is the caller going on |
| dispatcher loop | `DispatcherCheck`, `AcquireSlot` (blocks without the lock), `Dispatch` or `NothingReady`, `BackoffElapses` (`wait_until`) |
| `RunJob`, `FetchOnce` | `StartFetch` (primary, shortcut), `FetchReturns`, `PlaceNext` (link or copy), `Finish` (outcome, rotation, late landings undone), `Retire` (notify, slot) |
| `CancelDownload`, `PrioritizeDownload`, `CloseQueue`, `OpenQueue`, `RedirectDestsUnder`, `DropRedirectsUnder`, `ForgetDestsUnder`, `SetMaxConcurrentDownloads` | the actions of these names; `Bump` is the prioritization inside a launch's `FetchToPath` |
| the rest of the program | `RemoveFolder`, `RequestCancel` |

Abstractions. A batch is a set of targets, placed in any order. A folder of destinations stands for a path prefix
(`FolderOf`); `Moved` maps folders. `Attempts` is `tried` (the code asks whether it is 0), `ReadyAt` is `ready`, `Seq`
is the order `before`. The node's `HasLocal` answer is either one. Choosing the primary destination and looking at its
shortcut are one step. A file is the content it holds and the paths that are links of its inode, because a copy over a
hard link changes them all; `Torn` is a half-written copy. Left out: spurious wakeups (they only re-run the
predicates), the UI callback and `DebugResetQueue` (tests).

### FetchQueue and DownloadManager

`FetchQueue` is the queue as those who use it may see it: a job's state per CID, the CID each slot fetches (`at`), the
CIDs cancelled while they are fetched (`doomed`), the node's cancel flags, and whether the queue is closed.
`DownloadQueue` implements it (`KeepsPromise`): only a dispatch makes a job active, and only the worker it was given to
settles it, once, failing it if it was cancelled. What can change an active job beside its worker has steps of its own:
a late placement that failed (`Spoil`), and a request to a closed queue. The worker then still settles the job, whatever
it has become, and asked for again the CID may have two fetches at once.

`DownloadManager` extends `FetchQueue`. A card asks for a CID at a path (`PathOf`), and whether it is here is asked of
the path, not of the CID (`packagecatalog.cpp:3181`). So it adds to the queue's steps the destinations of each job
(`dests`), those a fetch copied when it started and will write (`copied`), and the paths whose files are there
(`landed`). A job that is done is asked for again at another path: where one of its files is there, the new one is placed
late, which may fail (`PlaceLate`); where none is, it is queued again.

| code | model |
|---|---|
| `startDownload`, `beginDownload`, `resumeActiveDownloads` | `StartDownload`, `Begun`, `ResumeAll` |
| the worker thread: gate and dry run, adoption, content targets, `EnqueueBatch`, `WaitBatch` | `Check`, `Adopt`, `Collect`, `AskNext`, `PlaceLate`, `FetchEnds` |
| `cancelDownload`, `CancellableCids` | `CancelKey`, `CancellableCids` |
| `onDownloadFinished`, `forgetCids`, the purge's `DropCached` | `Ended`, `Forgets`, `PurgeOnCancel`, `Drop` |
| the destructor; a crash and the next start | `CloseManager`, `Joined`; `Crash`, `Restart` |

A slot of the GUI thread is one action. Adoption is one step here. Left out: sizes and progress, the dialog's choices
other than the key, and messages.

### ReceivedShares

One friend. A package folder's CID names one generation of a package and lists its node files; a stub is that folder
as it lands in CATALOG.

| code | model |
|---|---|
| `applyFriendLibrarySnapshot` | `ApplySnapshot` (the record changes), `ApplyQuietly` (the same or an empty one) |
| `reconcileReceivedFriend`; the receive switch | `Reconcile`; `ReceiveOn`, `ReceiveOff` |
| `dropReceivedStubs`, `enqueueReceivedShares`, `completeReceivedClosures` | `Dropped`, `Enqueued`, `Completes`: parts of the actions that call them |
| `onFriendBlockLanded` and the timer | `Lands`, `TimerFires` |
| `LandReceivedPackages` and its end | `PassLists`, `PassLands`, `PassWaits`, `PassPosts`; `PassEnded` |
| `PruneStaleReceived`, `ReceivedPackagesIncomplete`, `PlanReceivedFetches` | `Pruned`, `ReceivedPackagesIncomplete`, `Plan` |
| adoption, as it ends; the end of the process | `Install`; `Crash` |

`late` and `torn` are history: node files a pass gave up waiting for after its ten minutes; and a drop that found
nothing to go by, or a process that ended before a drop was made good. A snapshot has one folder of a package at most
(its stubs lie in one place, `DestCid`, `packagecatalog.cpp:1399`). `StubsAreShared` speaks of rest, which is only
while the node is up: until then nothing is asked for. Content inside stubs, and publishing to the friend, are left
out.

### PackageSwitch

One installed package. A name a node's layers give a content becomes a file name by `PathUnder` (a name claimed for
several contents is bumped).

| code | model |
|---|---|
| `StageUpdate`, `DiscardStagedUpdate` | the actions of these names |
| `PlanSwitch`, `KeptNodes` | `PlanSwitches` (any order of claims), `KeptNodes` (the least closed set) |
| `ApplyStagedUpdate` | `ApplyBegins` or `ApplyRefused`; `Move`, `Follow` (references), `Delete` (a file that cannot be removed stays) and `Deleted` (`RemoveLandedNode`), `NodeIn`, `NodeOut`, `Switched` (node files that could not be removed stay) |
| a failing rename or write, the end of the process | `Stops` |
| downloads into the package; other packages | `Enqueue`, `Land`; `OthersChange` |

`disturbed` is history: a half-switched package was planned anew or downloaded into, a copy that goes took the place of
a file that stays, or a switch ended with something it could not remove (section 6). `torn` names the contents whose
reference a crash or a failed, only logged, move of references left behind. Two packages switched at once, node file
parsing and the cache of claims are left out.

### PackageDocument

A CID is the node itself: its content and the names it refers to, so that a rename of what it contains is a rename of
it. A node made in this session has a draft handle until a save. Of two nodes of one handle in a draft the last is
restored.

| code | model |
|---|---|
| the document's edits | `Replace`, `Add`, `RemoveNode`, `Link`, `MergeInto` |
| `Commit`, `Undo`, `Redo`, the snapshots' cap | `Commit`, `Undo`, `Redo`, `Capped` |
| `Save`: the plan (names, cascade, instances, removals, refusals) | `SaveBegins`, `NewNames`, `Pending`, `Circle`, `Plan` |
| `Save`: the disk, forward, back and on to the removals | `Write`, `WriteFails`, `WriteUndone`, `SaveFailed`, `WritesLanded`, `Gone`, `Saved` |
| the draft, closing, restoring, a crash | `WriteDraft`, `Reopen`, `Restored`, `Crash` |

Left out: positions and order of nodes, labels, validation, coalescing of keystrokes (an edit is one step, `Commit`
ends a group), and the order of writes within one of the three groups is any.

### SessionSaves

One instance, one session at a time. It keeps the files of one pattern, by name, and one settings file, of which only
the value of the option is told. A content is the number of the save that wrote it, 0 that of no save:
the package's own file or a torn copy.

| code | model |
|---|---|
| `InitializeFromNode`, `Adopt` | `ReadBack`, `Takes`, in `OpenWindow` (the launch window stops there) and `Launch` |
| `SeedPersistFiles` | `Seed` (any of the files may fail to be copied; `Shows`: the package's own file of that name is then in view) |
| `MountVFS`, the override edits, `Written` | `Mounts`, `Written`; `MountFails` (nothing, or an empty folder, is left) |
| `CapturePersistFiles`: list, copy, replace the other spelling, drop | `List`, `Capture`, `Replace`, `Drop`; `CaptureSettings` for the single file, before or after |
| `CopyIntoPlace` | `Copied`: a temporary copy, renamed over the old file |
| `Commit` | `Note` |
| the game and the user | `GameSaves`, `GameRemoves`, `GameSets`, `GameEnds`, `LauncherSets` |
| a crash | `Crash`, at any step |

`GameEnds` has the mount going under the game, with nothing or an empty folder left.

`removed`, `unsure`, `author`, `news` and `torn` are history: what the game removed in this session, which names were
stored in two spellings when it began or are hidden by the package's own file, who wrote the stored value, whether it is
a change of the game's that no launch and no choice came after, and whether a session stopped between storing the
settings file and the note of it. Left out: links, which are never followed; folders kept live; several options or
several places of one; a removal of a stored file that itself fails; the Windows box.

### SessionOwner and SessionLock

`SessionOwner` is the promise of `vfsmount.h:84`: a folder has one owner at most, only the owner makes or removes what
is in it, and whoever dies owns nothing. `SessionLock` is how the code keeps it.

| code | model |
|---|---|
| `ClaimSession` | `MakeDir`, `Open`, `Flock`, `Check` (the file at the path is still mine), up to `Tries` times; `Refused` |
| `ReleaseSession` | `Unlink`, `Close` |
| `SessionOwned` | `Probe`, `ProbeLocks` (takes the lock, and lets it go) |
| `CleanStaleRuntime` | `Detach`, `Wipe` |
| a launch's build, game and `Cleanup` | `Build`, `Mount`, `GameEnds`, `Unmount`, `Remove` |
| `SweepDeadSessions` | `SweepPackage`, `SweepSession`, `SweepLooks`, `PackageDone` |
| `launch running --sweep` | a sweep with role `command`, then `ClearRoot`, `EraseRoot` |
| the machine | `Die` (a process, at any step), `MountGoes` (watchdog or lazy detach) |

A lock file is an inode; `holder` is the advisory lock, `path` the name. Actors of one process die together.
Left out: the Windows branch, helper command lines, and lock files of an older build.

### LaunchQuit

| code | model |
|---|---|
| `BuildContainerRuntime` | `Enter` (latch and live set under `g_LiveMtx`), `Claim`, `Sources`, `Mount` |
| `Execute` | `Execute`, `Check`, `StartGame`, `Recheck`, `GameEnds`, `Finished` |
| `LaunchThread::run`, `Cleanup`, `LeaveLive` | `CloseDialog` ("Inspect runtime"), `Cleanup`, `Leave` |
| `launch build`, `launch teardown` | `Ask`, `Keep`; `Teardown`, `TornDown` |
| `StopAll`, `WaitNoneLive` | `Latch`, `Lock`, `Kill`, `Unlock`, `NoneLive`, for two callers: the signal's thread and `launch stop` |
| `QuitSignals` `Handle`, `QuitGui` | `Count`, `Quit` |
| the user | `Launch`, `UserStops`, `CloseWindow` |

`KillGame` is atomic (it holds `ActiveRunMutex`); the outcome of the claim is a choice; a condition variable's wait is a
guard. Left out: the headless launch, a second signal (it ends the process), an authoring session (`NotAGame`, never in
the live set), and what a destroyed wrapper does when `launch build` replaces one whose `Cleanup` is running on the main
thread (undefined behaviour, not followed).

## 4. The runs

| run | bounds | what it shows |
|---|---|---|
| `queue_schedule` | 2 CIDs, 2 callers, 1 slot, 2 batches, 3 bumps | A bulk batch and a launch that wants its optional file now: preemption, cancels by the user and by a card, close and open. `TypeOK`, `NobodyOversleeps`, `JobsHaveWorkers`, `CancelSticks`, `PreemptedNotFailed`. |
| `queue_live` | 2 CIDs, 2 callers, 1 slot, 2 batches | Under fairness: `CloseReleasesWaiters`, `QueuedGetsTurn`. |
| `queue_verify` | 2 CIDs, of which one is wanted at 2 paths, foreign or torn files there, copy and link may fail, 3 batches | `SuccessMeansLanded`, and `KeepsPromise`, the refinement of `FetchQueue`. |
| `queue_folders` | 3 CIDs, 4 paths in 2 folders, 2 batches, copies may fail | A file and a folder job, their folder dropped, removed or moved: `PathHasOneOwner`, `FilesFollowJobs`. |
| `download_cards` | 2 games that want one CID at a path each, one of which has a further CID as its chain; 1 package, 2 slots, 2 processes | Downloads, cancels, joins, late placements, an exit or a crash at any step and what is resumed of it: `TypeOK`, `KeptTogether`, `CancelSparesOthers`, `PurgeSparesOthers`; under fairness `ExitEnds`. |
| `received_shares` | 2 packages, one in 2 generations, 2 snapshots, 2 toggles (switches, installs, crashes) | `TypeOK`, `StubsAreShared`; under fairness `SharesArrive`. |
| `package_switch` | 4 nodes, 2 names, 2 contents, 2 versions, other packages containing one node or none, 2 faults | `TypeOK`, `LayersServed`, `PinsAccounted`, `DeletesShown`, `ContainedStays`. |
| `editor_save` | a package of 2 nodes, another package's node that contains one, an instance; 2 edits, 2 saves, 1 undo step, 1 fault | `TypeOK`, `CleanMeansSaved`, `InstancesResolve`, `OneName`, `FailedSaveUndone`. |
| `session_saves` | 1 name in 2 spellings, 3 option values, 2 saves, 2 choices, 2 faults | Launches with failures and crashes at every step: `DropsOnlyRemoved`, `SavesGrow`, `TakesGamesChanges`. |
| `session_lock` | 3 processes, one session folder and one other, 3 lock files | Launches, probes and sweeps with deaths at every step: `TypeOK`, `RuntimeIntact`, `WipesOnlyUnmounted`, and `KeepsPromise`, the refinement of `SessionOwner`: one owner. |
| `launch_quit` | 2 launches (one inspected), 1 `launch build` | A signal, `launch stop`, Stop and close at any moment: `TypeOK`, `UpIsLive`, `QuitLeavesNoGame`; under fairness `QuitEnds`. |
| `gap_join` | 1 CID, 2 paths, 2 batches, no fault | A disagreement of the code with its own header, section 6. |

Why the bounds are enough.

* *Queue.* Every hazard is a meeting of two: two callers, two workers, a caller and a control call; one slot makes the
  fetches queue, two let them overlap, and a third batch is the request after the first two. `MaxBumps` counts priority
  bumps; `PrioritizeDownload` leaves the last ones to the batches, so that the bound never blocks a launch. `Calls` are
  the control calls a run is about, `Faults` what the disk may refuse, `StartFiles` what an earlier run may have left.
* *Cards.* The two keys share their own content, each at a path of its own, and only one fetches a chain with it. Each
  of the cancel's two cases occurs, since the CID is aborted exactly when the other key is not in flight. Two slots let
  two fetches of one CID overlap, and the second process finds what the first one left. With two cards a card never
  waits for a job whose fetch began before a late placement failed it, so `ExitEnds` does not meet the departure of a
  closed queue that section 6 tells of.
* *Shares.* Two snapshots are an old one and a new one, each of which may arrive again after the other; the new one
  replaces a generation and adds a package. `MaxToggles` is 2: off and on again, or one of them and a crash.
* *Switch.* One name for two contents (bumped in one version, plain in another), one content under two names, a node
  contained by a node that leaves; two faults are a stop in a switch and one in its resumption, or a
  removal that fails and a stop after it.
* *Editor.* The chain instance, other package, package, node is the shortest in which a save cascades through all three
  kinds of file. One undo step is enough to reach the cap.
* *Saves.* Two saves are an old one and a new one, or one in each spelling; two choices are one in the launcher and one
  in the game, in either order; two faults are one in a session and one in the next. `AtRoot` is TRUE, the case in which
  an empty folder is a folder the capture can list. One of the values is the package's, one comes with the instance; the
  package has a file of its own in one of the two spellings.
* *Locks and quit.* Three lock files are one at the path, one orphaned, one created in place of it, and three actors
  are an owner leaving, a claimer late and a claimer early. Each launch of `LaunchQuit` is made once and `launch stop`
  asked for once; only the first signal is modelled.

Deadlock is checked for `SessionLock`, `SessionSaves`, `PackageSwitch` and `PackageDocument`, where something can
always go on (an actor begins again, a session is launched, other packages change, the editor is reopened). The other
runs stop for good where the system does: batches and processes are bounded, so an idle queue has nothing to do; a
friend who shares nothing new leaves all at rest; after `main = "gone"` the process is over.

Symmetry is used in safety runs only: callers and slots of the queue, and the actors that do the same and the
lock files. The runs with liveness use none.

### Fairness

* *Queue.* Weak fairness of the dispatcher, of each worker, of each backoff, and of each caller inside `EnqueueBatch`
  or `WaitBatch`: each is a thread of its own or a timer, the lock is only held for bounded work, and an attempt of
  the node ends, with bytes or through its stall detection. No fairness of beginning a batch, of a timeout or of a
  control call.
* *Cards.* Only while the application closes: its threads run, the GUI thread joins those that have ended, and a fetch
  of a closed queue ends (the queue's own `CloseReleasesWaiters`). A fetch of an open queue owes nothing: nobody may
  provide its CID.
* *Shares.* The friend is online and provides what it shares, so that what is wanted lands; the timer fires, the pass's
  thread runs, its end is handled, the node comes up. `SharesArrive` also asks that receiving stays on.
* *Quit.* Weak fairness of each launch's thread, of each caller of `StopAll`, and of the main thread coming to a
  finished teardown and to a posted quit. Neither the user nor a game owes anything: a game nobody kills may run for
  ever. `QuitEnds` therefore asks that the user does not keep a runtime or a dialog open for ever; a game that runs is
  killed by the stop.

## 5. The theorems

All for any sets of callers, slots, CIDs, paths, actors, lock files, launches, keys, packages, nodes, versions, names
and values, from the named assumptions of the modules (`QueueAssumption`, `LockAssumption`, `QuitAssumption`,
`ManagerAssumption`, `SharesAssumption`, `SwitchAssumption`, `NothingAssumption`, `DocumentAssumption`,
`StartsWhole`, `SavesAssumption`), which TLC evaluates on every run. They say that placeholders are not elements, that
maps have the right domains, that `Slots` and the packages on disk are finite, that a snapshot has one folder of a
package, that draft handles are not given twice, that what instances remember and nodes contain is on disk to begin
with (`StartsWhole`: a name that leads nowhere before the editor is opened is none of its saves'), and that bounds are
numbers. A theorem with a hypothesis beside these says so
below.

**Queue** (`DownloadQueueProofs`). `TypeCorrect` needs `Aimed` beside the types: a worker that places has a primary
destination, which one learns only from the step before. `FetchesHaveWorkers` is proved with
`Worked == TypeOK /\ ActiveHasWorker /\ MarksHaveWorker`, which is inductive, because a mark is made only on an active
job and the worker that settles the job removes the marks in the same critical section; the one step that could break it
is `Finish`, which needs that only it settles an active job into something else. `OneOwner` is inductive with
`TypeOK`: a path is added to a job only by `EnqueueTarget`, after `ClaimDest` took it from every other.

*The queue keeps its promise.* Each action of the queue changes the state of one job
at most, or fails every queued one (`CloseQueue`). `EntryAsked` says what a request does to a job, whatever target,
destination and disk; `FinishSettles` that a worker's end fails the job if its CID was cancelled, and takes the mark;
`LatePlaceSpoils` that a late placement changes a job only by failing it; `WorkerGoesOn` that a worker is at one CID
until then. The other lemmas say the same of the dispatch and the control calls. Everything else stutters.

*Nobody oversleeps.* `CallsInStep` ties what a caller holds to where it is: a waiter asleep has released the lock, and
one inside `EnqueueBatch` has it and owes a notify. `Alarmed` says that while the dispatcher sleeps, every job that is
queued and ready has a notify on its way, and every backoff its alarm; with it `DispatcherWakes` holds without
condition. Waiters need more: a job may only become settled by a step that notifies, or by one whose notify is owed. A
step without either changes no job but by the end of a backoff, by a dispatch, or by a request to a closed queue,
which fails what is queued (`QuietJob`). `NobodySleepsOn` is therefore proved from `[]ClosedStaysEmpty`, and
`ClosedQueueEmpties` proves that in turn for a queue that is not opened again and whose late placements do not fail a
fetch in flight (`LateSparesActive`; section 6 says what happens otherwise). It rests on `InFlight`: once the queue is
closed every fetch in flight has been told to abort, and by `FetchedOnce` none of them has a twin whose end would take
the mark away.

*Cancels.* What a step may do to a job whose fetch is in flight is `Drifts` (it stays active, or a late placement fails
it) unless its own worker ends, `Settles`. So `CancelledFetchFails` and `PreemptedFetchStays` need to look only at
`Finish`, where the marks decide the outcome.

*Not proved: the files.* `SuccessMeansLanded` and `FilesFollowJobs` are model-checked only. Neither is an invariant of
every queue: a destination joined in flight is missed (`gap_join`), a file whose bytes are not verified is taken on
trust, a place in a dropped folder may have passed to another CID while a worker still writes it, and a late placement
may fail a job in flight (section 6).

**Cards** (`DownloadManagerProofs`). The properties together are inductive, `IInv`. `CancelCorrect` rests on
`MapsAgree`: a cancel raises the flags of those CIDs whose needers are the cancelled key alone, and a flag is cleared
when the last needer goes or the CID is asked for again, so a flag is never up for content some other download waits for.
`PurgeCorrect` rests on it too: what is needed by no other key at a card's end is no content of a card in flight,
whatever joined it since the cancel, and whether its job is done or not.

**Received packages** (`ReceivedSharesProofs`). What lies in CATALOG is wrong for a while whenever something arrives
or stops, so `StubsAreShared` speaks of rest, and the inductive invariant says for each way a stub may be wrong what
is still to come that rights it. `Stopped`: with receiving off, stubs or folder jobs are left only while a pass in
flight is marked dirty, or under the exceptions. `MixedForNow`: a node file of another generation is there only before
the node is up, while its folder is wanted, the timer runs, or a pass does. `Followed`: what is recorded is installed,
listed or asked for. `Asked`, `Waited`, `InFolders` and `Installed` are what these need of jobs, passes and stubs. At
rest nothing is still to come, so `SharesInvariant` gives `NothingMixedOrLeft`.

**Package switches** (`PackageSwitchProofs`). `PlansKept` is the strengthening: a plan in a journal is `Sound` (it
keeps what is contained at any depth, by `KeptClosed`, and removes none of it) and of its journal's version; where the
version shown has a journal, that deletes nothing the plan shown does not; the switch at work is of the version shown.
`ContainedCorrect` and `DeletesCorrect` follow, across stops and resumptions, because the plan at work is always its
journal's (`TypeOK`). `PinsCorrect` is inductive with the types. `LayersServed` (`ServedCorrect`) has an invariant of
its own, `SInv`, in two halves. While no journal is there the package is `AtHome`: each file is where a claim has it,
each download goes where a claim has it, content is referenced where it is. While a switch is half done, at any stop,
its journal's plan is `OnTheWay`: what is still to move is at its own source and its target is free (`ToGo`); no two
moves share a file, nor does one move to where another begins (`Distinct`: `FreshTarget` picks such targets, which is
why the order of moves does not matter); what goes is neither (`Separate`), and every other file is already where it
stays (`Placed`); each content that stays is referenced where it is, or the switch has yet to follow its move or to
refer to the copy that is left (`Followed`). `Done` says what the switch at work has behind it, so that its end, if
nothing remains of what was to go, is `AtHome` for the new version; a removal that failed in an attempt that stopped
does no harm, because its file is still one that goes. `Ordered` keeps a second switch out.

**Package editor** (`PackageDocumentProofs`). A sequence of entries is over no fixed set, so `IsSeq` says that it is
one of its own values. `OneRevision` says that a revision number is one document, also in the history; `SavedKept`
that the revision last saved is what this package's files were when no save was at work (`Base`). While one is,
`Planned` says that the plan is for the document as it is; `Writing` that the disk is what it was and what has been
written so far; `Removing` that all that is claimed is there; and `Undoable` that, as long as nothing is stuck, taking
away what was written gives back what was. The invariant gives `DocumentTyped`, `CleanIsSaved` (a save may end, fail,
or be cut by a crash, and undo may bring back any revision) and `FailedSaveLeavesNothing`. `OneNameForEach` adds
`NamesApart`: a node has one handle in all the revisions there are, and no handle there is still to be given. A save
applies one map to all of them. That no name made of content is a draft handle (`CidsAreNoDrafts`) follows from what a
save calls its nodes (`NewNamesForm`, `MapsToNodes`); the theorem's one hypothesis, `NoDraftIsNode`, is about the
constant `Drafts`: a draft handle begins with "draft-" (`pkgdoc.cpp:520`), so it is no CID. TLC cannot evaluate it (it
is about all nodes); in the run draft handles are model values.

*Instances resolve.* `InstancesAlwaysResolve` is the longest argument, in three parts. First the names: `NewNames` is a
recursive function over what a node contains, so that it is one at all has to be shown, and it is not where nodes
contain each other in a circle. `NamesMade` shows that there is such a function when `Circle` finds none: where two
namings of parts of the nodes differed, a node that contains none of those they differ on could not be one of them
(`SomeFirst`), so all of them together are one naming, and a node it left out could be added. `NewNamesForm` then says
all that the rest needs of it: a new name is the node's content with the new names of what it contains. Second the plan:
`PlanNames` and `PlanKeeps` say what becomes of every node, here, elsewhere, or deleted; `PlanWhole` that what the plan
leaves on disk contains only what it leaves on disk, and that every instance's new name is part of it. Third the
inductive invariant `RInv`, which adds to `IInv`:

* `Shaped`: what is on disk, in the document, in its history and in the draft are nodes;
* `WorkWithin`: what is edited, can come back by undo or waits in a draft contains only itself and what is elsewhere;
* `Resting`: with no save at work, what instances name is on disk with all it contains;
* `Renaming`: a save moves other packages' nodes to the names it gives them, and removes none of these;
* `Following`: while files are written, each instance has its old name or its new one; the old ones are there until
  the removals, and the new ones are there before the first instance has one, since instances are written last
  (`Rank`) and undone first, which is what a crash between any two of the writes needs;
* `Clearing`: what is still to be removed is named by no instance and contained in nothing that stays.

`RInv` was checked by TLC, on the run's instance, before it was proved.

**Session saves** (`SessionSavesProofs`). `IInv` adds to the types that of a name not stored twice when the session
began, nor hidden by the package's own file, the session has one spelling at most, no older than what is stored
(`OneSpelling`), and that a name just captured is what the session has there (`JustCaptured`): from them
`SavesGrowCorrect`. `Accounted` says that as long as the listing can be trusted, what was seeded is there or was removed
by the game, up to a folder left empty by a mount that failed or went: from it `DropsCorrect`. `Settled` follows the
option: a launcher's value in the file is the one this session wrote or one noted before (`LaunchersValue`,
`LaunchersNoted`), and the launcher's value is the noted one as long as the game's news has not been taken
(`NewsTakes`): from it `ReadBackCorrect`. `TypeOK` of this module is proved, not run.

**Session lock** (`SessionLockProofs`). `Shapely` says which role, folder and lock file an actor has at each step.
`Owned` adds that an actor past its check holds the lock of the file at its folder's path, and that this is what
nobody but it changes (`Locked`, `Placed`): two owners would hold one lock. From it `SessionHasOneOwner`. `Safe` adds
that a folder whose owner has cleared it bears no other's mount, and that a running launch's folder and mount are there;
it gives `RuntimeStaysIntact` and `NeverWipesMounted`, both under `~Stuck` (a stale mount detaches), which is needed
(section 6). `LockKeepsPromise` is the refinement: `Check` that succeeds on a session
is `Claim`, `Unlink` is `Release`, what an owner does to the folder is `Work`, `Die` is `Die`, and every other step
stutters.

**Quit** (`LaunchQuitProofs`). `Invariant` is the strengthening: which launches can be at which step (`Shape`), that
the latch is set once a caller has begun (`Latched`), that a launch between its entry and its leave is live
(`Joined`), and that while the signal's `StopAll` kills, every running game is either still to be killed or about to
look at the latch itself (`Doomed`). `QuitCutsOffNothing` follows. `UpStaysLive` assumes one `launch build` at a time,
which is needed (section 6).

**Left to TLC.** Liveness (`CloseReleasesWaiters`, `QueuedGetsTurn`, `ExitEnds`, `SharesArrive`, `QuitEnds`) and
anything about `ENABLED` are outside what the prover does. So are the library's induction theorems, whose parameter is
an operator; where an induction was needed (`Max` of a set, the recursive function of `Reached`), a least
counterexample took its place (`LeastOf`, by `WFMin` of the library on the naturals).

## 6. Where the code and its comments disagree

* `gap_join` (`downloadqueue.cpp:340`). A destination joined while its CID is in flight is added to the job, not to the
  worker's copy; the job becomes Done and the batch succeeds without the file. The header promises that the CID is
  "materialized (hard-link / copy) to every destination that wants it".

Other departures, met while modelling, that no run repeats:

* A content file that a switch cannot delete (`packagecatalog.cpp:2040`; `RemoveLandedNode` returns at once) is only
  logged; the version's nodes come in, the stage goes with the plan in it, and the switch reports success. The old
  bytes then lie at a name that a layer of the new version reads, and nothing tries again, though names are bumped "so
  no version ever reads another's bytes" (`contentfile.h:15`). A node file that cannot be removed
  (`packagecatalog.cpp:2060`) stays the same way, beside the version that replaced it. `LayersServed` and the theorems
  about it except a switch that ended so (`disturbed`); without the exception TLC finds it.
* What a cancel purges is decided at the card's end by the job of each CID it aborted: "a finished or never-fetched file
  is kept" (`downloadmanager.cpp:84`). But a job is one for all the paths its CID goes to. A game is cancelled before it
  has asked for the CID; its worker asks for it all the same, another card joins, and the fetch lands the other card's
  file, but the copy to the game's own path fails, and so does the job. The other card ends and needs the CID no more;
  then the game's end purges it, though the comment at line 607 is there because "purging a shared CID wiped another
  card's just-finished files". TLC finds this when asked that nothing purged is at the path of a card that has ended;
  `PurgeSparesOthers` says what holds: cards still in flight are spared.
* A pattern of saves at the root of the game's folder, and a mount that does not come up (`vfsmount.cpp:640`): the
  launch fails after it has seeded, its cleanup lists the empty folder made for the mount, without an error, and drops
  every stored file of the pattern, though the game removed none ("A stored file is dropped only when THIS session
  seeded it and the game then removed it", `persistlayer.cpp:210`). A mount taken down under the game leaves the same
  folder. `DropsOnlyRemoved` excepts both (`EmptyLeft`).
* The note of what was written is made when the capture reports no failure, but a settings file that is not there, or
  a runtime that is gone, is none (`persistlayer.cpp:275`): then the note names a value the stored file does not hold,
  and the next launch takes the user's older saved value for a change of the game's, which is what the comment at
  `containerwrapper.cpp:807` is there to prevent. A crash between the capture and the note does the opposite.
  `TakesGamesChanges` excepts both (`torn`).
* A file that goes can take the place of one that stays. `PlanSwitch` (`packagecatalog.cpp:1795`) plans a move for
  every file whose name the new claims change, in name order, also for a second copy of content that is claimed once:
  when such a copy comes first it takes the target, `Targets.insert(To)` then refuses the one that stays
  (`packagecatalog.cpp:1805`), and that one is neither moved nor deleted. It lies there under its old bumped name,
  makes a later rename be refused ("is already there (left as it is)", `packagecatalog.cpp:2018`), and in the end a
  layer reads another's bytes: with the nodes A (name n, content c), D (n, d) and K (another name, c), the versions
  {A, D, K}, {A}, {A, D}, {D} in this order leave c at n, though D claims d there, which is what bumped names are to
  prevent. `LayersServed` excepts it (`disturbed`).
* Stubs can stay after receiving is switched off, against "whenever that snapshot goes away or is replaced, the stubs
  go with it" (`appmodel.cpp:785`). The drop goes by the record, and does nothing when all that is recorded is
  installed (`packagecatalog.cpp:1416`, `appmodel.cpp:807`) or when an empty snapshot has erased the record
  (`appmodel.cpp:659`). `StubsAreShared` excepts both (`torn`).
* "Every queued job fails, every active fetch is aborted [...] so every WaitBatch returns" (`downloadqueue.h:39`) has
  an exception. A late placement that fails marks its job failed though it is fetched; `CloseQueue` aborts only what
  is active; the fetch ends with an error that can be retried, and the job is queued in the closed queue, where its
  waiters sleep until it is opened. Where the queue is opened again (`downloadmanager.cpp:57`, `cmd_ipfs.cpp:545`) a
  fetch aborted by the closing may be joined by a second one of its CID. `NobodySleepsOn` and `ClosedQueueEmpties` say
  under which conditions neither happens; `queue_schedule` has neither a late placement that fails nor two workers.
* Undo across a save (`pkgdoc.cpp:846`) can bring a node back beside one that the save gave its name. Two nodes then
  have one handle, and the next save, whose map goes by handle, gives one of them the other's name: it is clean with a
  handle that is not its CID, against the comment above the save's last step (`pkgdoc.cpp:840`).
* After the same undo a save can remove a file that an instance names, against "deleted here, kept on disk: something
  still names it" (`pkgdoc.h:55`). Two nodes exchange their contents and are saved, so that each now has the name
  the other had; undo gives each its old content back, but `RenameIn` (`pkgdoc.cpp:525`) has renamed the handles in
  the history and not the files, so each gives as its file the other's. One of the two is merged into the other, and
  the next save counts the file of the one that stays as replaced (`pkgdoc.cpp:752`), so that it never asks whether
  something names it (`pkgdoc.cpp:769`): the file goes, though an instance names it. `InstancesResolve` excepts it
  (`stale`); without the exception TLC finds it, in 13 states.
* `launch running --sweep` (`commands/cmd_launch.cpp:276`) sweeps the data folder, not the session root: what lies two
  levels under it is cleared as a dead session, and then the folder itself. It also asks `SessionOwned` of mount paths
  (`cmd_launch.cpp:278`), where no lock lies, so that it always says no.
* A stale mount that does not detach (`containerwrapper.cpp:193`, `vfsmount.cpp:1094`) is left in the folder; the launch
  goes on and its cleanup, which knows only its own mounts, removes the folder under it. `WipesOnlyUnmounted` and
  `RuntimeIntact` are checked and proved with `Stuck = FALSE`.
* `launch stop` (`commands/cmd_launch.cpp:290`) waits on the main thread for a kept runtime, which only the main thread
  takes down.
* Two `launch build` at once (`commands/cmd_launch.cpp:253`): the second replaces the first one's wrapper, whose runtime
  stays mounted and leaves the live set. `UpIsLive` is checked and proved with one.

### Limits of the code that a reader of the properties should know

The models include these where not said otherwise, and the properties are stated around them.

*Queue.*

* A CID asked for again while its cancelled fetch is in flight shares that fetch's fate: `UserCancelled` is not
  cleared by the new request, and the new batch fails.
* `EnqueueBatch` on a closed queue fails queued jobs without a notify; the waiters of the batch itself look before they
  sleep, and nothing is queued in a closed queue but for the departure above.
* Presence is trusted for a destination that is not reusable: other bytes, or a torn copy, at its path count as the
  file. `SuccessMeansLanded` is therefore checked for reusable destinations, with every kind of file at them.
* A copy over an existing hard link changes the other links; a worker of the old CID may still write a path another
  CID has claimed, and the undo of a late landing looks only at its own job's destinations.
* A late placement that fails marks the job failed whatever it has become: asked for again, a CID in flight is then
  fetched by a second worker beside the first, and is not marked when its folder is dropped under it:
  `ClosedQueueEmpties` says that it needs neither to happen (`LateSparesActive`). A late placement may also land in a
  folder forgotten meanwhile (`downloadqueue.cpp:388`), so `FilesFollowJobs` speaks of what workers land.

*Cards.*

* A cancel spares what other cards need by a map that names their own content, not the runner chain they fetch with it
  (`downloadmanager.cpp:504`): cancelling a runner's card aborts a fetch its game waits for. `CancelSparesOthers` says
  so of own content only.
* A card's cancel raises only the node's flag; a preemption of the same fetch clears it (`downloadmanager.cpp:77`), and
  the download goes on until cancelled again.
* What to purge is decided, and dropped on another thread a moment later; a card may begin in between, and its file may
  land first (`PurgeSparesOthers` speaks of the decision). A card that joins a fetch already aborted fails with it.
* Nothing deletes a file under the cards in the model; what deletes them meets the queue in `DownloadQueue`.

*Received packages.*

* A stub of a package no longer shared stays after a crash between the record and the drop (`appmodel.cpp:786`).
* A pass that gave up after ten minutes leaves jobs that land when nobody waits; a crash in a pass after a drop forgets
  that it has to drop again. `StubsAreShared` excepts these (`late`, `torn`).
* A node file that arrives but fails its check starts one pass after the other for ever (not modelled).

*Package versions.*

* A failed attempt to stage a version again unpins its folder, though nodes are held beyond it
  (`packagecatalog.cpp:1953`): `PinsAccounted` says which folders may be pinned, not that the held one is.
* A node may go though a package installed after the plan was made contains it (`packagecatalog.cpp:1999`);
  `ContainedStays` speaks of those installed at the plan.
* What lands in a half-switched package, or is planned anew there, goes by names that are neither version's
  (`disturbed`). A crash after a file is deleted and before its reference is dropped, and a failed move of references,
  leave a reference to nothing (`torn`).
* Two names swapped between two contents by a version are both deleted and fetched again.
* A launch may begin after the switch has looked for live runtimes (not modelled).

*Editor.*

* A crash between a save's removals and the drop of its draft offers a draft whose names are gone
  (`packageeditor.cpp:240`); a crash among the writes leaves nodes that name ones not written (`cut`).
* A draft of changes that were undone is kept and offered after a clean close.
* A deleted node that something names is kept on disk, and may name a removed one; an old version that could not be
  removed may be wired to. `InstancesResolve` says `cut` for both.
* Two nodes undo has given one name can make a save refuse a graph as a circle that is none.
* `PublishPackage` under an open editor leaves old and new versions side by side (not modelled).

*Saves.*

* What could not be seeded only warns, on Linux (`persistlayer.cpp:193`): the game starts without it. What it
  then writes is stored over the user's file: `SavesGrow` holds, since that is newer. But where the package has a file
  of that name itself, nothing shadows it (`persistlayer.h:15-16`), and the capture stores the package's file over the
  save though the game wrote nothing (`persistlayer.cpp:230-239`): `SavesGrow` excepts such names (`unsure`). The
  capture never takes a file whose seed failed for deleted (`persistlayer.cpp:210-213`); it has no such care here.
* A crash after a new spelling is stored and before the old one is removed leaves both; which of them a later capture
  keeps is decided by the order of a listing (`persistlayer.cpp:243`). `SavesGrow` excepts such names too.
* The launcher's choice is compared by value: changed and changed back between two launches, it counts as unchanged.
* A `.vgcopy` left by a crash can match a pattern that ends in `*`, and is then a save like any other (not modelled).

*Sessions and quit.*

* A probe or a sweep holds a session's lock for a moment, and a launch in that moment is refused. A claim may fail
  because a sweep removes the package folder between the claim's mkdir and its open.
* A sweep that finds a mounted folder without a lock leaves it, and so does every later sweep.
* The user's Stop is lost before the process has a pid and during the build.
* The tray's Quit and the window's last close end the process with games running (`mainwindow.cpp:244`); the next
  start's sweep takes down what they leave. `QuitLeavesNoGame` is about signals.
* A signal while a runtime is kept waits for its teardown, or for a second signal. After `launch stop` no launch starts
  for the rest of the process.
* A dry run removes its write layer after `Cleanup` has released the lock (`launchthread.cpp:233-239`, not modelled).

## 7. What is not modelled

The Go node behind `IpfsWrapper` is external: its answers are choices in `FetchReturns`. Parsing, hashing, lowering and
variable substitution are data shaping without state; the fold and the runner chain are planned as functions.
Registry, patch and file formats, command lines of bubblewrap, wine and Sandboxie, drawing, layout of the graph, and
the Qt windows hold no protocol of their own. Most of the repository's lines are of this kind, which is why the map
covers a small part of them. The planned components of section 2 are listed in `PROJECT.json` as not modelled.
