---------------------------- MODULE Launcher_proofs ----------------------------
(***************************************************************************)
(* The desktop launcher for any set of releases and any number of starts:  *)
(* LauncherInv is inductive, and what was installed stays runnable.        *)
(***************************************************************************)
EXTENDS Launcher, TLAPS

\* What the invariant says of files, images, containers and the quit: all of it
\* but the types.
Sound == StaysRunnable /\ CleanQuitStops /\ UpdateInOrder /\ QuitInOrder

\* A boot that is not under way has a type and names nothing.
LEMMA NotBootingParts ==
  /\ NotBooting \in [pc : BootPc, version : Maybe]
  /\ NotBooting.pc = "idle" /\ NotBooting.version = NoVersion
BY DEF NotBooting, BootPc, Maybe

\* One that begins waits for Docker's answer.
LEMMA BeginParts ==
  ASSUME NEW b, b = [NotBooting EXCEPT !.pc = "probe"]
  PROVE  b \in [pc : BootPc, version : Maybe] /\ b.pc = "probe"
BY DEF NotBooting, BootPc, Maybe

\* One that goes on keeps its version.
LEMMA GotoParts ==
  ASSUME LauncherTypeOK, NEW pc \in BootPc, Goto(pc)
  PROVE  /\ boot' \in [pc : BootPc, version : Maybe]
         /\ boot'.pc = pc /\ boot'.version = boot.version
BY DEF LauncherTypeOK, Goto

\* Watch loops have a state whatever is done to one.
LEMMA LoopsSet ==
  ASSUME NEW ls \in [Loop -> {"off", "armed", "probing"}], NEW l \in Loop,
         NEW st \in {"off", "armed", "probing"}
  PROVE  [ls EXCEPT ![l] = st] \in [Loop -> {"off", "armed", "probing"}]
OBVIOUS

LEMMA StopWatchingType ==
  ASSUME NEW ls \in [Loop -> {"off", "armed", "probing"}], NEW w \in Loop \cup {NoLoop}
  PROVE  StopWatching(ls, w) \in [Loop -> {"off", "armed", "probing"}]
BY DEF StopWatching

\* Nothing the invariant relates changes.
LEMMA SoundStays ==
  ASSUME Sound,
         UNCHANGED <<stack, pulled, composeFile, nextFile, saved, boot, started, leaving, down>>
  PROVE  Sound'
BY DEF Sound, StaysRunnable, CleanQuitStops, UpdateInOrder, QuitInOrder, Quitting

\* A boot that is none, or has only begun, needs nothing of the files.
LEMMA SoundElsewhere ==
  ASSUME Sound,
         boot'.pc \notin {"fetch", "pull", "rename", "save", "up"},
         leaving = "clean" => boot'.pc = "idle",
         UNCHANGED <<stack, pulled, composeFile, saved, started, leaving, down>>
  PROVE  Sound'
BY DEF Sound, StaysRunnable, CleanQuitStops, UpdateInOrder, QuitInOrder, Quitting

LEMMA Initially == LauncherInit => LauncherInv
<1> SUFFICES ASSUME LauncherInit PROVE LauncherInv
  OBVIOUS
<1>1. boot \in [pc : BootPc, version : Maybe] /\ boot.pc = "probe"
  BY BeginParts DEF LauncherInit
<1>2. LauncherTypeOK
  BY <1>1 DEF LauncherInit, LauncherTypeOK, Maybe, Phase
<1>3. StaysRunnable /\ CleanQuitStops /\ UpdateInOrder /\ QuitInOrder
  BY <1>1 DEF LauncherInit, StaysRunnable, CleanQuitStops, UpdateInOrder, QuitInOrder
<1> QED
  BY <1>2, <1>3 DEF LauncherInv

-----------------------------------------------------------------------------
(* Around the boot.                                                        *)

LEMMA DockerChangesKeeps == ASSUME LauncherInv, DockerChanges PROVE LauncherInv'
<1>1. LauncherTypeOK'
  BY DEF LauncherInv, LauncherTypeOK, DockerChanges, disk
<1>2. Sound'
  BY SoundStays DEF LauncherInv, Sound, DockerChanges, disk
<1> QED
  BY <1>1, <1>2 DEF LauncherInv, Sound

LEMMA PublishedKeeps == ASSUME LauncherInv, Published PROVE LauncherInv'
<1>1. LauncherTypeOK'
  BY DEF LauncherInv, LauncherTypeOK, Published, disk
<1>2. Sound'
  BY SoundStays DEF LauncherInv, Sound, Published, disk
<1> QED
  BY <1>1, <1>2 DEF LauncherInv, Sound

\* Entering boot, or not, keeps the invariant.
LEMMA EnterBootKeeps ==
  ASSUME LauncherInv, NEW ls \in [Loop -> {"off", "armed", "probing"}],
         NEW w \in Loop \cup {NoLoop}, EnterBoot(ls, w),
         UNCHANGED <<machine, stack, pulled, disk, alive, launches, started, leaving, down>>
  PROVE  LauncherInv'
<1>1. UNCHANGED <<dockerIs, latest, stack, pulled, composeFile, nextFile, saved, alive,
                  launches, started, leaving, down>>
  BY DEF machine, disk
<1>2. CASE boot.pc # "idle" \/ leaving # "no"
  <2>1. loops' = ls /\ watch' = w /\ UNCHANGED <<phase, page, boot>>
    BY <1>2 DEF EnterBoot
  <2>2. LauncherTypeOK'
    BY <1>1, <2>1 DEF LauncherInv, LauncherTypeOK
  <2>3. Sound'
    BY <1>1, <2>1, SoundStays DEF LauncherInv, Sound
  <2> QED
    BY <2>2, <2>3 DEF LauncherInv, Sound
<1>3. CASE boot.pc = "idle" /\ leaving = "no"
  <2>1. /\ loops' = StopWatching(ls, w) /\ watch' = NoLoop /\ phase' = "checking"
        /\ page' = ToStatusPage /\ boot' = [NotBooting EXCEPT !.pc = "probe"]
    BY <1>3 DEF EnterBoot
  <2>2. boot' \in [pc : BootPc, version : Maybe] /\ boot'.pc = "probe"
    BY <2>1, BeginParts
  <2>3. loops' \in [Loop -> {"off", "armed", "probing"}]
    BY <2>1, StopWatchingType
  <2>4. LauncherTypeOK'
    BY <1>1, <2>1, <2>2, <2>3 DEF LauncherInv, LauncherTypeOK, Phase, ToStatusPage
  <2>5. Sound'
    BY <1>1, <1>3, <2>2, SoundElsewhere DEF LauncherInv, Sound
  <2> QED
    BY <2>4, <2>5 DEF LauncherInv, Sound
<1> QED
  BY <1>2, <1>3

LEMMA RetryKeeps == ASSUME LauncherInv, Retry PROVE LauncherInv'
<1>1. loops \in [Loop -> {"off", "armed", "probing"}] /\ watch \in Loop \cup {NoLoop}
  BY DEF LauncherInv, LauncherTypeOK
<1> QED
  BY <1>1, EnterBootKeeps DEF Retry

LEMMA OpenDashboardKeeps == ASSUME LauncherInv, OpenDashboard PROVE LauncherInv'
<1>1. LauncherTypeOK'
  BY DEF LauncherInv, LauncherTypeOK, OpenDashboard, disk, machine
<1>2. Sound'
  BY SoundStays DEF LauncherInv, Sound, OpenDashboard, disk
<1> QED
  BY <1>1, <1>2 DEF LauncherInv, Sound

LEMMA ShowStatusKeeps == ASSUME LauncherInv, ShowStatus PROVE LauncherInv'
<1>1. LauncherTypeOK'
  BY DEF LauncherInv, LauncherTypeOK, ShowStatus, disk, machine
<1>2. Sound'
  BY SoundStays DEF LauncherInv, Sound, ShowStatus, disk
<1> QED
  BY <1>1, <1>2 DEF LauncherInv, Sound

LEMMA PollFiresKeeps ==
  ASSUME NEW l \in Loop, LauncherInv, PollFires(l) PROVE LauncherInv'
<1>1. loops' \in [Loop -> {"off", "armed", "probing"}] /\ watch' \in Loop \cup {NoLoop}
  BY LoopsSet DEF LauncherInv, LauncherTypeOK, PollFires
<1>2. LauncherTypeOK'
  BY <1>1 DEF LauncherInv, LauncherTypeOK, PollFires, disk, machine
<1>3. Sound'
  BY SoundStays DEF LauncherInv, Sound, PollFires, disk
<1> QED
  BY <1>2, <1>3 DEF LauncherInv, Sound

LEMMA PollAnsweredKeeps ==
  ASSUME NEW l \in Loop, LauncherInv, PollAnswered(l) PROVE LauncherInv'
<1>1. UNCHANGED <<machine, stack, pulled, disk, alive, launches, started, leaving, down>>
  BY DEF PollAnswered
<1>2. loops \in [Loop -> {"off", "armed", "probing"}]
  BY DEF LauncherInv, LauncherTypeOK
<1>3. CASE dockerIs = "running"
  <2>1. [loops EXCEPT ![l] = "off"] \in [Loop -> {"off", "armed", "probing"}]
    BY <1>2, LoopsSet
  <2>2. EnterBoot([loops EXCEPT ![l] = "off"], NoLoop)
    BY <1>3 DEF PollAnswered
  <2> QED
    BY <1>1, <2>1, <2>2, EnterBootKeeps
<1>4. CASE dockerIs # "running"
  <2>1. /\ loops' = [loops EXCEPT ![l] = "armed"] /\ watch' = l
        /\ phase' \in {phase, PhaseOf(dockerIs)} /\ UNCHANGED <<page, boot>>
    BY <1>4 DEF PollAnswered
  <2>2. loops' \in [Loop -> {"off", "armed", "probing"}]
    BY <1>2, <2>1, LoopsSet
  <2>3. LauncherTypeOK'
    BY <1>1, <2>1, <2>2 DEF LauncherInv, LauncherTypeOK, Phase, PhaseOf, machine, disk
  <2>4. Sound'
    BY <1>1, <2>1, SoundStays DEF LauncherInv, Sound, disk
  <2> QED
    BY <2>3, <2>4 DEF LauncherInv, Sound
<1> QED
  BY <1>3, <1>4

-----------------------------------------------------------------------------
(* boot().                                                                 *)

\* A step of boot that calls compose up with an installed release, or ends, is
\* sound.
LEMMA SettleSound ==
  ASSUME LauncherInv, Settle, leaving # "clean",
         UNCHANGED <<stack, pulled, composeFile, saved, leaving, down>>
  PROVE  /\ boot' \in [pc : BootPc, version : Maybe]
         /\ phase' \in Phase /\ started' \in BOOLEAN /\ page' = page
         /\ Sound'
<1>1. CASE Runnable
  <2>1. boot' = [pc |-> "up", version |-> saved] /\ phase' = "starting" /\ started' /\ page' = page
    BY <1>1 DEF Settle, CallUp
  <2>2. started' \in BOOLEAN /\ page' = page /\ phase' \in Phase
    BY <1>1 DEF Settle, CallUp, Phase
  <2>3. /\ boot' \in [pc : BootPc, version : Maybe]
        /\ boot'.pc = "up" /\ boot'.version = saved
    BY <2>1 DEF BootPc, LauncherInv, LauncherTypeOK
  <2>4. StaysRunnable'
    BY <1>1, <2>3 DEF LauncherInv, StaysRunnable, Runnable
  <2>5. CleanQuitStops' /\ UpdateInOrder'
    BY <2>3 DEF LauncherInv, CleanQuitStops, UpdateInOrder
  <2>6. QuitInOrder'
    BY <1>1 DEF LauncherInv, QuitInOrder, Quitting, Runnable
  <2> QED
    BY <2>2, <2>3, <2>4, <2>5, <2>6 DEF Sound
<1>2. CASE ~Runnable
  <2>1. boot' = NotBooting /\ phase' = "error" /\ page' = page /\ started' = started
    BY <1>2 DEF Settle, Leave
  <2>2. boot' \in [pc : BootPc, version : Maybe] /\ boot'.pc = "idle"
    BY <2>1, NotBootingParts
  <2>3. started' \in BOOLEAN /\ phase' \in Phase
    BY <2>1 DEF LauncherInv, LauncherTypeOK, Phase
  <2>4. Sound'
    BY <2>1, <2>2, SoundElsewhere DEF LauncherInv, Sound
  <2> QED
    BY <2>1, <2>2, <2>3, <2>4
<1> QED
  BY <1>1, <1>2

\* While boot is under way no quit is clean.
LEMMA BootIsNotClean == ASSUME LauncherInv, boot.pc # "idle" PROVE leaving # "clean"
BY DEF LauncherInv, QuitInOrder

\* Ending boot without touching anything else keeps the invariant.
LEMMA LeaveKeeps ==
  ASSUME LauncherInv, NEW p \in Phase, Leave(p), NEW ls \in [Loop -> {"off", "armed", "probing"}],
         NEW w \in Loop \cup {NoLoop}, loops' = ls, watch' = w,
         UNCHANGED <<machine, stack, pulled, disk, alive, launches, started, leaving, down>>
  PROVE  LauncherInv'
<1>1. boot' = NotBooting /\ phase' = p /\ page' = page
  BY DEF Leave
<1>2. boot' \in [pc : BootPc, version : Maybe] /\ boot'.pc = "idle"
  BY <1>1, NotBootingParts
<1>3. LauncherTypeOK'
  BY <1>1, <1>2 DEF LauncherInv, LauncherTypeOK, machine, disk
<1>4. Sound'
  BY <1>2, SoundElsewhere DEF LauncherInv, Sound, disk
<1> QED
  BY <1>3, <1>4 DEF LauncherInv, Sound

\* Going on to a step that needs nothing of the files keeps the invariant.
LEMMA GotoKeeps ==
  ASSUME LauncherInv, boot.pc # "idle", NEW pc \in {"compose", "release", "health", "logs"}, Goto(pc),
         phase' \in Phase, stack' \in Maybe,
         UNCHANGED <<machine, pulled, disk, alive, launches, page, started, leaving, down, loops,
                     watch>>
  PROVE  LauncherInv'
<1>1. boot' \in [pc : BootPc, version : Maybe] /\ boot'.pc = pc
  <2>1. pc \in BootPc
    BY DEF BootPc
  <2> QED
    BY <2>1, GotoParts DEF LauncherInv
<1>2. leaving # "clean"
  BY BootIsNotClean
<1>3. LauncherTypeOK'
  BY <1>1 DEF LauncherInv, LauncherTypeOK, machine, disk
<1>4. StaysRunnable' /\ CleanQuitStops' /\ UpdateInOrder' /\ QuitInOrder'
  BY <1>1, <1>2 DEF LauncherInv, StaysRunnable, CleanQuitStops, UpdateInOrder, QuitInOrder,
                    Quitting, disk
<1> QED
  BY <1>3, <1>4 DEF LauncherInv

LEMMA ProbedKeeps == ASSUME LauncherInv, Probed PROVE LauncherInv'
<1>1. /\ boot.pc = "probe"
      /\ UNCHANGED <<machine, stack, pulled, disk, alive, launches, started, leaving, down>>
  BY DEF Probed, At
<1>2. CASE dockerIs = "running"
  <2>1. Goto("compose") /\ UNCHANGED <<phase, page, loops, watch>>
    BY <1>2 DEF Probed
  <2>2. phase' \in Phase /\ stack' \in Maybe
    BY <1>1, <2>1 DEF LauncherInv, LauncherTypeOK
  <2> QED
    BY <1>1, <2>1, <2>2, GotoKeeps
<1>3. CASE dockerIs # "running"
  <2>1. Leave(PhaseOf(dockerIs)) /\ PhaseOf(dockerIs) \in Phase
    BY <1>3 DEF Probed, PhaseOf, Phase
  <2>2. loops' \in [Loop -> {"off", "armed", "probing"}] /\ watch' \in Loop \cup {NoLoop}
    BY <1>3, LoopsSet DEF Probed, LauncherInv, LauncherTypeOK
  <2> QED
    BY <1>1, <2>1, <2>2, LeaveKeeps
<1> QED
  BY <1>2, <1>3

LEMMA ComposeCheckedKeeps ==
  ASSUME NEW ok \in BOOLEAN, LauncherInv, ComposeChecked(ok) PROVE LauncherInv'
<1>1. /\ boot.pc = "compose"
      /\ UNCHANGED <<machine, stack, pulled, disk, alive, launches, started, leaving, down, loops,
                     watch>>
  BY DEF ComposeChecked, At
<1>2. CASE ok
  <2>1. Goto("release") /\ phase' = "checking" /\ UNCHANGED page
    BY <1>2 DEF ComposeChecked
  <2>2. phase' \in Phase /\ stack' \in Maybe
    BY <1>1, <2>1 DEF LauncherInv, LauncherTypeOK, Phase
  <2> QED
    BY <1>1, <2>1, <2>2, GotoKeeps
<1>3. CASE ~ok
  <2>1. Leave("error") /\ "error" \in Phase
    BY <1>3 DEF ComposeChecked, Phase
  <2>2. loops' \in [Loop -> {"off", "armed", "probing"}] /\ watch' \in Loop \cup {NoLoop}
    BY <1>1 DEF LauncherInv, LauncherTypeOK
  <2> QED
    BY <1>1, <2>1, <2>2, LeaveKeeps
<1> QED
  BY <1>2, <1>3

\* What a step of an update that settles leaves is sound and typed.
LEMMA SettleKeeps ==
  ASSUME LauncherInv, Settle, boot.pc # "idle", nextFile' \in {nextFile, NoVersion},
         UNCHANGED <<machine, stack, pulled, composeFile, saved, alive, launches, leaving, down,
                     loops, watch>>
  PROVE  LauncherInv'
<1>1. /\ boot' \in [pc : BootPc, version : Maybe]
      /\ phase' \in Phase /\ started' \in BOOLEAN /\ page' = page
      /\ Sound'
  BY BootIsNotClean, SettleSound
<1>2. LauncherTypeOK'
  BY <1>1 DEF LauncherInv, LauncherTypeOK, machine, Maybe
<1> QED
  BY <1>1, <1>2 DEF LauncherInv, Sound

LEMMA ReleaseCheckedKeeps ==
  ASSUME NEW a, LauncherInv, ReleaseChecked(a) PROVE LauncherInv'
<1>1. /\ boot.pc = "release"
      /\ UNCHANGED <<machine, stack, pulled, disk, alive, launches, leaving, down, loops, watch>>
  BY DEF ReleaseChecked, At
<1>2. CASE Settle
  BY <1>1, <1>2, SettleKeeps DEF disk
<1>3. CASE /\ boot' = [pc |-> "fetch", version |-> latest] /\ phase' = "updating"
           /\ UNCHANGED <<page, started>>
  <2>1. latest \in Version /\ latest # NoVersion
    BY LauncherConstants DEF LauncherInv, LauncherTypeOK
  <2>2. /\ boot' \in [pc : BootPc, version : Maybe]
        /\ boot'.pc = "fetch" /\ boot'.version # NoVersion
    BY <1>3, <2>1 DEF BootPc, Maybe
  <2>3. LauncherTypeOK'
    BY <1>1, <1>3, <2>2 DEF LauncherInv, LauncherTypeOK, Phase, machine, disk
  <2>4. leaving # "clean"
    BY <1>1, BootIsNotClean
  <2>5. StaysRunnable' /\ CleanQuitStops' /\ UpdateInOrder' /\ QuitInOrder'
    BY <1>1, <1>3, <2>2, <2>4 DEF LauncherInv, StaysRunnable, CleanQuitStops, UpdateInOrder,
                                  QuitInOrder, Quitting, disk
  <2> QED
    BY <2>3, <2>5 DEF LauncherInv
<1> QED
  BY <1>2, <1>3 DEF ReleaseChecked

LEMMA FetchedKeeps ==
  ASSUME NEW ok \in BOOLEAN, LauncherInv, Fetched(ok) PROVE LauncherInv'
<1>1. /\ boot.pc = "fetch"
      /\ UNCHANGED <<machine, stack, pulled, composeFile, saved, alive, launches, leaving, down,
                     loops, watch>>
  BY DEF Fetched, At
<1>2. CASE ~ok
  BY <1>1, <1>2, SettleKeeps DEF Fetched
<1>3. CASE ok
  <2>1. nextFile' = boot.version /\ Goto("pull") /\ UNCHANGED <<phase, page, started>>
    BY <1>3 DEF Fetched
  <2>2. /\ boot' \in [pc : BootPc, version : Maybe]
        /\ boot'.pc = "pull" /\ boot'.version = boot.version
    BY <2>1, GotoParts DEF LauncherInv, BootPc
  <2>3. LauncherTypeOK'
    BY <1>1, <2>1, <2>2 DEF LauncherInv, LauncherTypeOK, machine
  <2>4. leaving # "clean"
    BY <1>1, BootIsNotClean
  <2>5. StaysRunnable' /\ CleanQuitStops' /\ UpdateInOrder' /\ QuitInOrder'
    BY <1>1, <2>1, <2>2, <2>4 DEF LauncherInv, StaysRunnable, CleanQuitStops, UpdateInOrder,
                                  QuitInOrder, Quitting
  <2> QED
    BY <2>3, <2>5 DEF LauncherInv
<1> QED
  BY <1>2, <1>3

LEMMA PulledKeeps ==
  ASSUME NEW ok \in BOOLEAN, LauncherInv, Pulled(ok) PROVE LauncherInv'
<1>1. /\ boot.pc = "pull"
      /\ UNCHANGED <<machine, stack, composeFile, saved, alive, launches, leaving, down, loops,
                     watch>>
  BY DEF Pulled, At
<1>2. CASE ~ok
  BY <1>1, <1>2, SettleKeeps DEF Pulled
<1>3. CASE ok
  <2>1. /\ pulled' = pulled \cup {boot.version} /\ Goto("rename")
        /\ UNCHANGED <<nextFile, phase, page, started>>
    BY <1>3 DEF Pulled
  <2>2. /\ boot' \in [pc : BootPc, version : Maybe]
        /\ boot'.pc = "rename" /\ boot'.version = boot.version
    BY <2>1, GotoParts DEF LauncherInv, BootPc
  <2>3. boot.version \in Version
    BY <1>1 DEF LauncherInv, LauncherTypeOK, UpdateInOrder, Maybe
  <2>4. LauncherTypeOK'
    BY <1>1, <2>1, <2>2, <2>3 DEF LauncherInv, LauncherTypeOK, machine
  <2>5. leaving # "clean"
    BY <1>1, BootIsNotClean
  <2>6. StaysRunnable' /\ CleanQuitStops' /\ UpdateInOrder' /\ QuitInOrder'
    BY <1>1, <2>1, <2>2, <2>5 DEF LauncherInv, StaysRunnable, CleanQuitStops, UpdateInOrder,
                                  QuitInOrder, Quitting
  <2> QED
    BY <2>4, <2>6 DEF LauncherInv
<1> QED
  BY <1>2, <1>3

LEMMA RenamedKeeps ==
  ASSUME NEW ok \in BOOLEAN, LauncherInv, Renamed(ok) PROVE LauncherInv'
<1>1. /\ boot.pc = "rename" /\ nextFile' = NoVersion
      /\ UNCHANGED <<machine, stack, pulled, saved, alive, launches, leaving, down, loops, watch>>
  BY DEF Renamed, At
<1>2. CASE ~ok
  BY <1>1, <1>2, SettleKeeps DEF Renamed
<1>3. CASE ok
  <2>1. composeFile' = nextFile /\ Goto("save") /\ UNCHANGED <<phase, page, started>>
    BY <1>3 DEF Renamed
  <2>2. /\ boot' \in [pc : BootPc, version : Maybe]
        /\ boot'.pc = "save" /\ boot'.version = boot.version
    BY <2>1, GotoParts DEF LauncherInv, BootPc
  <2>3. LauncherTypeOK'
    BY <1>1, <2>1, <2>2 DEF LauncherInv, LauncherTypeOK, machine, Maybe
  <2>4. leaving # "clean"
    BY <1>1, BootIsNotClean
  <2>5. StaysRunnable' /\ CleanQuitStops' /\ UpdateInOrder' /\ QuitInOrder'
    BY <1>1, <2>1, <2>2, <2>4 DEF LauncherInv, StaysRunnable, CleanQuitStops, UpdateInOrder,
                                  QuitInOrder, Quitting
  <2> QED
    BY <2>3, <2>5 DEF LauncherInv
<1> QED
  BY <1>2, <1>3

LEMMA SavedKeeps ==
  ASSUME NEW ok \in BOOLEAN, LauncherInv, Saved(ok) PROVE LauncherInv'
<1>1. /\ boot.pc = "save"
      /\ UNCHANGED <<machine, stack, pulled, composeFile, nextFile, alive, launches, leaving, down,
                     loops, watch>>
  BY DEF Saved, At
<1>2. CASE ~ok
  BY <1>1, <1>2, SettleKeeps DEF Saved
<1>3. CASE ok
  <2>1. /\ saved' = boot.version /\ boot' = [pc |-> "up", version |-> boot.version]
        /\ phase' = "starting" /\ page' = page
    BY <1>3 DEF Saved, CallUp
  <2>2. started' = TRUE
    BY <1>3 DEF Saved, CallUp
  <2>3. boot.version \in Maybe
    BY DEF LauncherInv, LauncherTypeOK
  <2>4. /\ boot' \in [pc : BootPc, version : Maybe]
        /\ boot'.pc = "up" /\ boot'.version = boot.version
    BY <2>1, <2>3 DEF BootPc
  <2>5. started' \in BOOLEAN
    BY <2>2
  <2>6. LauncherTypeOK'
    BY <1>1, <2>1, <2>3, <2>4, <2>5 DEF LauncherInv, LauncherTypeOK, machine, Phase
  <2>7. leaving # "clean"
    BY <1>1, BootIsNotClean
  <2>8. StaysRunnable' /\ CleanQuitStops' /\ UpdateInOrder' /\ QuitInOrder'
    BY <1>1, <2>1, <2>4, <2>7 DEF LauncherInv, StaysRunnable, CleanQuitStops, UpdateInOrder,
                                  QuitInOrder, Quitting
  <2> QED
    BY <2>6, <2>8 DEF LauncherInv
<1> QED
  BY <1>2, <1>3

LEMMA UpKeeps == ASSUME NEW ok \in BOOLEAN, LauncherInv, Up(ok) PROVE LauncherInv'
<1>1. /\ boot.pc = "up"
      /\ UNCHANGED <<machine, pulled, disk, alive, launches, started, leaving, down, loops, watch>>
  BY DEF Up
<1>2. stack' \in Maybe
  BY DEF Up, LauncherInv, LauncherTypeOK
<1>3. CASE Goto("health") /\ phase' = "waiting" /\ UNCHANGED page
  <2>1. phase' \in Phase
    BY <1>3 DEF Phase
  <2> QED
    BY <1>1, <1>2, <1>3, <2>1, GotoKeeps
<1>4. CASE boot' = NotBooting /\ phase' \in {phase, "error"} /\ UNCHANGED page
  <2>1. boot' \in [pc : BootPc, version : Maybe] /\ boot'.pc = "idle"
    BY <1>4, NotBootingParts
  <2>2. LauncherTypeOK'
    BY <1>1, <1>2, <1>4, <2>1 DEF LauncherInv, LauncherTypeOK, machine, disk, Phase
  <2>3. leaving # "clean"
    BY <1>1, BootIsNotClean
  <2>4. StaysRunnable' /\ CleanQuitStops' /\ UpdateInOrder' /\ QuitInOrder'
    BY <1>1, <2>1, <2>3 DEF LauncherInv, StaysRunnable, CleanQuitStops, UpdateInOrder, QuitInOrder,
                            Quitting, disk
  <2> QED
    BY <2>2, <2>4 DEF LauncherInv
<1> QED
  BY <1>3, <1>4 DEF Up, Leave

LEMMA HealthyKeeps == ASSUME LauncherInv, Healthy PROVE LauncherInv'
<1>1. /\ boot' = NotBooting /\ phase' = "ready" /\ page' \in {page, "dashboard"}
      /\ UNCHANGED <<machine, stack, pulled, disk, alive, launches, started, leaving, down, loops,
                     watch>>
  BY DEF Healthy
<1>2. boot' \in [pc : BootPc, version : Maybe] /\ boot'.pc = "idle"
  BY <1>1, NotBootingParts
<1>3. LauncherTypeOK'
  BY <1>1, <1>2 DEF LauncherInv, LauncherTypeOK, machine, disk, Phase
<1>4. Sound'
  BY <1>1, <1>2, SoundElsewhere DEF LauncherInv, Sound, disk
<1> QED
  BY <1>3, <1>4 DEF LauncherInv, Sound

LEMMA GaveUpKeeps == ASSUME LauncherInv, GaveUp PROVE LauncherInv'
<1>1. /\ boot.pc = "health"
      /\ UNCHANGED <<machine, stack, pulled, disk, alive, launches, started, leaving, down, loops,
                     watch>>
  BY DEF GaveUp, At
<1>2. /\ phase \in Phase /\ stack' \in Maybe
      /\ loops' \in [Loop -> {"off", "armed", "probing"}] /\ watch' \in Loop \cup {NoLoop}
  BY <1>1 DEF LauncherInv, LauncherTypeOK
<1>3. CASE Leave(phase)
  BY <1>1, <1>2, <1>3, LeaveKeeps
<1>4. CASE Goto("logs") /\ UNCHANGED <<phase, page>>
  <2>1. phase' \in Phase
    BY <1>2, <1>4
  <2> QED
    BY <1>1, <1>2, <1>4, <2>1, GotoKeeps
<1> QED
  BY <1>3, <1>4 DEF GaveUp

LEMMA LoggedKeeps == ASSUME LauncherInv, Logged PROVE LauncherInv'
<1>1. UNCHANGED <<machine, stack, pulled, disk, alive, launches, started, leaving, down, loops,
                  watch>>
  BY DEF Logged
<1>2. loops' \in [Loop -> {"off", "armed", "probing"}] /\ watch' \in Loop \cup {NoLoop}
  BY <1>1 DEF LauncherInv, LauncherTypeOK
<1>3. Leave("error") /\ "error" \in Phase
  BY DEF Logged, Phase
<1> QED
  BY <1>1, <1>2, <1>3, LeaveKeeps

LEMMA BootStepKeeps == ASSUME LauncherInv, BootStep PROVE LauncherInv'
BY ProbedKeeps, HealthyKeeps, GaveUpKeeps, LoggedKeeps, ComposeCheckedKeeps, FetchedKeeps,
   PulledKeeps, RenamedKeeps, SavedKeeps, UpKeeps, ReleaseCheckedKeeps DEF BootStep

-----------------------------------------------------------------------------
(* Leaving.                                                                *)

\* What is left of a process that is gone.
LEMMA GoneParts ==
  ASSUME LauncherInv, Gone
  PROVE  /\ alive' \in BOOLEAN /\ page' = "closed" /\ watch' = NoLoop
         /\ loops' \in [Loop -> {"off", "armed", "probing"}]
         /\ boot' \in [pc : BootPc, version : Maybe]
         /\ boot' = boot \/ boot'.pc = "idle"
<1>1. alive' \in BOOLEAN
  BY DEF Gone
<1>2. boot' = boot \/ boot' = NotBooting
  BY DEF Gone
<1>3. boot' \in [pc : BootPc, version : Maybe] /\ (boot' = boot \/ boot'.pc = "idle")
  BY <1>2, NotBootingParts DEF LauncherInv, LauncherTypeOK
<1>4. loops' \in [Loop -> {"off", "armed", "probing"}] /\ page' = "closed" /\ watch' = NoLoop
  BY DEF Gone
<1> QED
  BY <1>1, <1>3, <1>4

\* The process going, whatever else goes on, keeps the invariant.
LEMMA GoneKeeps ==
  ASSUME LauncherInv, Gone,
         UNCHANGED <<machine, stack, pulled, disk, launches, phase, started, leaving, down>>
  PROVE  LauncherInv'
<1>1. LauncherTypeOK'
  BY GoneParts DEF LauncherInv, LauncherTypeOK, machine, disk
<1>2. Sound'
  <2>1. CASE boot' = boot
    BY <2>1, SoundStays DEF LauncherInv, Sound, disk
  <2>2. CASE boot'.pc = "idle"
    BY <2>2, SoundElsewhere DEF LauncherInv, Sound, disk
  <2> QED
    BY <2>1, <2>2, GoneParts
<1> QED
  BY <1>1, <1>2 DEF LauncherInv, Sound

LEMMA QuitKeeps == ASSUME NEW c \in BOOLEAN, LauncherInv, Quit(c) PROVE LauncherInv'
<1>1. UNCHANGED <<machine, stack, pulled, disk, launches, started>>
  BY DEF Quit
<1>2. CASE Gone /\ UNCHANGED <<phase, leaving, down>>
  BY <1>1, <1>2, GoneKeeps
<1>3. CASE leaving = "no" /\ started
  <2>1. /\ leaving' = IF boot.pc = "idle" THEN "clean" ELSE "busy"
        /\ phase' = "stopping" /\ down' = "called"
        /\ page' = IF c THEN "closed" ELSE ToStatusPage
        /\ UNCHANGED <<alive, boot, loops, watch>>
    BY <1>3 DEF Quit
  <2>2. page' \in {"status", "dashboard", "closed"}
    BY <2>1 DEF ToStatusPage, LauncherInv, LauncherTypeOK
  <2>3. LauncherTypeOK'
    BY <1>1, <2>1, <2>2 DEF LauncherInv, LauncherTypeOK, Phase, machine, disk
  <2>4. StaysRunnable' /\ UpdateInOrder'
    BY <1>1, <2>1 DEF LauncherInv, StaysRunnable, UpdateInOrder, disk
  <2>5. CleanQuitStops' /\ QuitInOrder'
    BY <1>1, <2>1 DEF LauncherInv, CleanQuitStops, QuitInOrder, Quitting, disk
  <2> QED
    BY <2>3, <2>4, <2>5 DEF LauncherInv
<1> QED
  BY <1>2, <1>3 DEF Quit

LEMMA DownKeeps == ASSUME NEW ok \in BOOLEAN, LauncherInv, Down(ok) PROVE LauncherInv'
<1>1. /\ down = "called" /\ down' = (IF ok THEN "done" ELSE "none")
      /\ stack' = (IF ok THEN NoVersion ELSE stack)
      /\ UNCHANGED <<machine, pulled, disk, launches, phase, started, leaving>>
  BY DEF Down
<1>2. /\ alive' \in BOOLEAN /\ page' \in {page, "closed"} /\ watch' \in {watch, NoLoop}
      /\ loops' \in [Loop -> {"off", "armed", "probing"}]
      /\ boot' \in [pc : BootPc, version : Maybe]
      /\ boot' = boot \/ boot'.pc = "idle"
  <2>1. CASE Gone
    BY <2>1, GoneParts
  <2>2. CASE UNCHANGED <<alive, page, boot, loops, watch>>
    BY <2>2 DEF LauncherInv, LauncherTypeOK
  <2> QED
    BY <2>1, <2>2 DEF Down
<1>3. LauncherTypeOK'
  BY <1>1, <1>2 DEF LauncherInv, LauncherTypeOK, machine, disk, Maybe
<1>4. StaysRunnable' /\ UpdateInOrder'
  BY <1>1, <1>2 DEF LauncherInv, StaysRunnable, UpdateInOrder, disk
<1>5. CleanQuitStops' /\ QuitInOrder'
  BY <1>1, <1>2 DEF LauncherInv, CleanQuitStops, QuitInOrder, Quitting, disk
<1> QED
  BY <1>3, <1>4, <1>5 DEF LauncherInv

LEMMA LaunchKeeps == ASSUME LauncherInv, Launch PROVE LauncherInv'
<1>1. /\ launches' = launches + 1 /\ phase' = "checking" /\ page' = "status"
      /\ boot' = [NotBooting EXCEPT !.pc = "probe"] /\ leaving' = "no" /\ down' = "none"
      /\ UNCHANGED <<machine, stack, pulled, disk, loops, watch>>
  BY DEF Launch
<1>2. alive' \in BOOLEAN /\ started' \in BOOLEAN /\ ~started'
  BY DEF Launch
<1>3. boot' \in [pc : BootPc, version : Maybe] /\ boot'.pc = "probe"
  BY <1>1, BeginParts
<1>4. LauncherTypeOK'
  BY <1>1, <1>2, <1>3 DEF LauncherInv, LauncherTypeOK, machine, disk, Phase
<1>5. StaysRunnable' /\ CleanQuitStops' /\ UpdateInOrder' /\ QuitInOrder'
  BY <1>1, <1>2, <1>3 DEF LauncherInv, StaysRunnable, CleanQuitStops, UpdateInOrder, QuitInOrder,
                          Quitting, disk
<1> QED
  BY <1>4, <1>5 DEF LauncherInv

-----------------------------------------------------------------------------
(* Every step, and what follows.                                           *)

LEMMA StutterKeeps == ASSUME LauncherInv, UNCHANGED launcherVars PROVE LauncherInv'
<1>1. LauncherTypeOK'
  BY DEF LauncherInv, LauncherTypeOK, launcherVars, machine, disk
<1>2. Sound'
  BY SoundStays DEF LauncherInv, Sound, launcherVars, disk
<1> QED
  BY <1>1, <1>2 DEF LauncherInv, Sound

LEMMA NextKeeps == LauncherInv /\ [LauncherNext]_launcherVars => LauncherInv'
<1> SUFFICES ASSUME LauncherInv, [LauncherNext]_launcherVars PROVE LauncherInv'
  OBVIOUS
<1>1. CASE DockerChanges \/ Published \/ Retry \/ OpenDashboard \/ ShowStatus
  BY <1>1, DockerChangesKeeps, PublishedKeeps, RetryKeeps, OpenDashboardKeeps, ShowStatusKeeps
<1>2. CASE BootStep
  BY <1>2, BootStepKeeps
<1>3. CASE \E l \in Loop : PollFires(l) \/ PollAnswered(l)
  BY <1>3, PollFiresKeeps, PollAnsweredKeeps
<1>4. CASE (\E c \in BOOLEAN : Quit(c)) \/ (\E ok \in BOOLEAN : Down(ok))
  BY <1>4, QuitKeeps, DownKeeps
<1>5. CASE Killed
  BY <1>5, GoneKeeps DEF Killed
<1>6. CASE Launch
  BY <1>6, LaunchKeeps
<1>7. CASE UNCHANGED launcherVars
  BY <1>7, StutterKeeps
<1> QED
  BY <1>1, <1>2, <1>3, <1>4, <1>5, <1>6, <1>7 DEF LauncherNext

\* Files, images, containers and the quit agree, whatever is clicked, fails or is
\* killed while boot() waits.
THEOREM LauncherAlways == LauncherSpec => []LauncherInv
<1>1. LauncherInit => LauncherInv
  BY Initially
<1>2. LauncherInv /\ [LauncherNext]_launcherVars => LauncherInv'
  BY NextKeeps
<1> QED
  BY <1>1, <1>2, PTL DEF LauncherSpec

\* A release that was installed stays runnable through every failed, killed or
\* repeated update: resolveVersion pulls the images before it renames the file,
\* and writes state.json last.
THEOREM InstalledStaysRunnable == LauncherSpec => []StaysRunnable
<1>1. LauncherInv => StaysRunnable
  BY DEF LauncherInv
<1> QED
  BY <1>1, LauncherAlways, PTL

\* After a quit with no boot in flight whose compose down succeeded no container
\* is left: boot() looks at quitting first.
THEOREM CleanQuitsStop == LauncherSpec => []CleanQuitStops
<1>1. LauncherInv => CleanQuitStops
  BY DEF LauncherInv
<1> QED
  BY <1>1, LauncherAlways, PTL

=============================================================================
