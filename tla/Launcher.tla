------------------------------ MODULE Launcher ------------------------------
(***************************************************************************)
(* The desktop launcher (desktop/main.js): it waits for Docker, downloads  *)
(* a release, brings the containers up, shows the dashboard, and takes     *)
(* them down when the person quits.                                        *)
(*                                                                         *)
(* One event loop, but every await lets something else in: clicks on Retry *)
(* and Restart, the Docker watcher's timer, a quit, a closed window.  The  *)
(* docker commands are processes of their own and outlive the launcher.    *)
(* The launcher may be killed anywhere; its three files survive.           *)
(***************************************************************************)
EXTENDS Naturals, FiniteSets

CONSTANTS
  Version,      \* releases that are ever published
  NoVersion,    \* no file, no state, no containers
  Loop,         \* identities of Docker watch loops
  NoLoop,       \* dockerWatch is null
  MaxLaunches   \* bound: how often the launcher is started

ASSUME LauncherConstants ==
  /\ NoVersion \notin Version
  /\ NoLoop \notin Loop
  /\ IsFiniteSet(Loop)
  /\ MaxLaunches \in Nat

VARIABLES
  dockerIs,     \* the machine: what dockerState would say ("missing" and
                \* "stopped" also stand for a probe that times out)
  latest,       \* GitHub: the version of the latest release
  stack,        \* Docker: the compose file whose containers are up
  pulled,       \* Docker: versions whose images are on this machine
  composeFile,  \* disk: compose.yml, by the release it came with
  nextFile,     \* disk: compose.next.yml
  saved,        \* disk: state.json
  alive,        \* whether the launcher's process runs
  launches,     \* how often it was started
  phase,        \* status.phase
  page,         \* what the window shows: "status", "dashboard", "closed"
  boot,         \* where boot() is: its pc, and the version it resolved
  started,      \* stackStarted
  leaving,      \* "no", or quitting: "clean" when no boot was in flight, "busy"
  down,         \* the compose down of a quit: "none", "called", "done"
  loops,        \* each watch loop: "off", "armed" (timer set) or "probing"
  watch         \* dockerWatch: the loop whose timer was set last

machine  == <<dockerIs, latest>>
disk     == <<composeFile, nextFile, saved>>
launcherVars == <<machine, stack, pulled, disk, alive, launches, phase, page, boot,
                  started, leaving, down, loops, watch>>

Phase == {"checking", "no-docker", "docker-stopped", "updating", "starting",
          "waiting", "ready", "error", "stopping"}
BootPc == {"idle", "probe", "compose", "release", "fetch", "pull", "rename",
           "save", "up", "health", "logs"}

NotBooting == [pc |-> "idle", version |-> NoVersion]
At(pc)     == boot.pc = pc /\ alive
Maybe      == Version \cup {NoVersion}

LauncherTypeOK ==
  /\ dockerIs \in {"missing", "stopped", "running"}
  /\ latest \in Version
  /\ stack \in Maybe
  /\ pulled \subseteq Version
  /\ composeFile \in Maybe /\ nextFile \in Maybe /\ saved \in Maybe
  /\ alive \in BOOLEAN
  /\ launches \in Nat
  /\ phase \in Phase
  /\ page \in {"status", "dashboard", "closed"}
  /\ boot \in [pc : BootPc, version : Maybe]
  /\ started \in BOOLEAN
  /\ leaving \in {"no", "clean", "busy"}
  /\ down \in {"none", "called", "done"}
  /\ loops \in [Loop -> {"off", "armed", "probing"}]
  /\ watch \in Loop \cup {NoLoop}

\* A computer on which IASG was never started; whenReady has just called boot.
LauncherInit ==
  /\ dockerIs \in {"missing", "stopped", "running"}
  /\ latest \in Version
  /\ stack = NoVersion
  /\ pulled = {}
  /\ composeFile = NoVersion /\ nextFile = NoVersion /\ saved = NoVersion
  /\ alive = TRUE
  /\ launches = 1
  /\ phase = "checking"
  /\ page = "status"
  /\ boot = [NotBooting EXCEPT !.pc = "probe"]
  /\ started = FALSE
  /\ leaving = "no"
  /\ down = "none"
  /\ loops = [l \in Loop |-> "off"]
  /\ watch = NoLoop

-----------------------------------------------------------------------------
(* The machine and GitHub. *)

\* Docker is installed, started, stopped, or too slow to answer in time.
DockerChanges ==
  /\ dockerIs' \in {"missing", "stopped", "running"} \ {dockerIs}
  /\ UNCHANGED <<latest, stack, pulled, disk, alive, launches, phase, page, boot,
                 started, leaving, down, loops, watch>>

Published ==
  /\ latest' \in Version \ {latest}
  /\ UNCHANGED <<dockerIs, stack, pulled, disk, alive, launches, phase, page, boot,
                 started, leaving, down, loops, watch>>

-----------------------------------------------------------------------------
(* boot(), and the ways into it. *)

\* stopWatchingDocker: clearTimeout reaches a timer that is set, not a poll that
\* is waiting for its probe.
StopWatching(ls, w) ==
  IF w # NoLoop /\ ls[w] = "armed" THEN [ls EXCEPT ![w] = "off"] ELSE ls

ToStatusPage == IF page = "dashboard" THEN "status" ELSE page

\* Mutant: a poll that was waiting for its probe boots during a quit.
EnterBootQuitting(ls, w) ==
  IF boot.pc # "idle"
  THEN /\ loops' = ls
       /\ watch' = w
       /\ UNCHANGED <<phase, page, boot>>
  ELSE /\ loops' = StopWatching(ls, w)
       /\ watch' = NoLoop
       /\ phase' = "checking"
       /\ page' = ToStatusPage
       /\ boot' = [NotBooting EXCEPT !.pc = "probe"]

\* boot() with the watcher as the caller left it, up to its first await; it does
\* nothing while another boot is in flight or the launcher is quitting.
EnterBoot(ls, w) ==
  IF boot.pc # "idle" \/ leaving # "no"
  THEN /\ loops' = ls
       /\ watch' = w
       /\ UNCHANGED <<phase, page, boot>>
  ELSE /\ loops' = StopWatching(ls, w)
       /\ watch' = NoLoop
       /\ phase' = "checking"
       /\ page' = ToStatusPage
       /\ boot' = [NotBooting EXCEPT !.pc = "probe"]

\* Retry on the status page, or Restart in the menu of any page.
Retry ==
  /\ alive
  /\ page # "closed"
  /\ EnterBoot(loops, watch)
  /\ UNCHANGED <<machine, stack, pulled, disk, alive, launches, started, leaving,
                 down>>

OpenDashboard ==
  /\ alive
  /\ phase = "ready"
  /\ page' = IF page = "closed" THEN page ELSE "dashboard"
  /\ UNCHANGED <<machine, stack, pulled, disk, alive, launches, phase, boot, started,
                 leaving, down, loops, watch>>

ShowStatus ==
  /\ alive
  /\ page = "dashboard"
  /\ page' = "status"
  /\ UNCHANGED <<machine, stack, pulled, disk, alive, launches, phase, boot, started,
                 leaving, down, loops, watch>>

\* What showDockerState puts on the screen.
PhaseOf(state) == IF state = "missing" THEN "no-docker" ELSE "docker-stopped"

Leave(p) ==
  /\ phase' = p
  /\ boot' = NotBooting
  /\ UNCHANGED page

Goto(pc) == boot' = [boot EXCEPT !.pc = pc]

\* dockerState has answered: carry on, or watch for Docker unless someone is.
Probed ==
  /\ At("probe")
  /\ IF dockerIs = "running"
     THEN Goto("compose") /\ UNCHANGED <<phase, page, loops, watch>>
     ELSE /\ Leave(PhaseOf(dockerIs))
          /\ IF watch # NoLoop
             THEN UNCHANGED <<loops, watch>>
             ELSE \E l \in Loop : /\ loops[l] = "off"
                                  /\ loops' = [loops EXCEPT ![l] = "armed"]
                                  /\ watch' = l
  /\ UNCHANGED <<machine, stack, pulled, disk, alive, launches, started, leaving,
                 down>>

ComposeChecked(ok) ==
  /\ At("compose")
  /\ IF ok THEN Goto("release") /\ phase' = "checking" /\ UNCHANGED page
           ELSE Leave("error")
  /\ UNCHANGED <<machine, stack, pulled, disk, alive, launches, started, leaving,
                 down, loops, watch>>

Runnable == saved # NoVersion /\ composeFile # NoVersion

\* resolveVersion returned v: compose up is called.
CallUp(v) ==
  /\ boot' = [pc |-> "up", version |-> v]
  /\ phase' = "starting"
  /\ started' = TRUE
  /\ UNCHANGED page

\* The end of resolveVersion without an update: what ran last time, or nothing.
Settle ==
  IF Runnable THEN CallUp(saved) ELSE Leave("error") /\ UNCHANGED started

NeedsDownload == latest # saved \/ composeFile = NoVersion

\* The releases API answers, fails, or names a release without a compose file.
ReleaseChecked(answer) ==
  /\ At("release")
  /\ IF answer = "asset" /\ NeedsDownload
     THEN /\ boot' = [pc |-> "fetch", version |-> latest]
          /\ phase' = "updating"
          /\ UNCHANGED <<page, started>>
     ELSE Settle
  /\ UNCHANGED <<machine, stack, pulled, disk, alive, launches, leaving, down,
                 loops, watch>>

\* The compose file is downloaded beside the one in use.
Fetched(ok) ==
  /\ At("fetch")
  /\ IF ok THEN /\ nextFile' = boot.version
                /\ Goto("pull")
                /\ UNCHANGED <<phase, page, started>>
           ELSE nextFile' = NoVersion /\ Settle
  /\ UNCHANGED <<machine, stack, pulled, composeFile, saved, alive, launches,
                 leaving, down, loops, watch>>

Pulled(ok) ==
  /\ At("pull")
  /\ IF ok THEN /\ pulled' = pulled \cup {boot.version}
                /\ Goto("rename")
                /\ UNCHANGED <<nextFile, phase, page, started>>
           ELSE nextFile' = NoVersion /\ Settle /\ UNCHANGED pulled
  /\ UNCHANGED <<machine, stack, composeFile, saved, alive, launches, leaving,
                 down, loops, watch>>

\* The new file takes the place of the one in use, or the rename throws.
Renamed(ok) ==
  /\ At("rename")
  /\ nextFile' = NoVersion
  /\ IF ok THEN composeFile' = nextFile /\ Goto("save") /\ UNCHANGED <<phase, page, started>>
           ELSE Settle /\ UNCHANGED composeFile
  /\ UNCHANGED <<machine, stack, pulled, saved, alive, launches, leaving, down, loops,
                 watch>>

\* state.json is written after the rename; when that throws, what was read from
\* it before is run.
Saved(ok) ==
  /\ At("save")
  /\ IF ok THEN saved' = boot.version /\ CallUp(boot.version)
           ELSE Settle /\ UNCHANGED saved
  /\ UNCHANGED <<machine, stack, pulled, composeFile, nextFile, alive, launches,
                 leaving, down, loops, watch>>

\* docker compose up ends, in a launcher that is still there or not.
Up(ok) ==
  /\ boot.pc = "up"
  /\ ok => dockerIs = "running"
  /\ stack' \in IF ok THEN {composeFile} ELSE {stack, composeFile}
  /\ IF ~alive THEN boot' = NotBooting /\ UNCHANGED <<phase, page>>
     ELSE IF ok THEN Goto("health") /\ phase' = "waiting" /\ UNCHANGED page
     ELSE Leave("error")
  /\ UNCHANGED <<machine, pulled, disk, alive, launches, started, leaving, down,
                 loops, watch>>

\* waitForDashboard: a probe already under way may answer after a quit.
Healthy ==
  /\ At("health")
  /\ stack # NoVersion /\ dockerIs = "running"
  /\ phase' = "ready"
  /\ page' = IF page = "closed" THEN page ELSE "dashboard"
  /\ boot' = NotBooting
  /\ UNCHANGED <<machine, stack, pulled, disk, alive, launches, started, leaving,
                 down, loops, watch>>

\* Five minutes have passed, or a quit began: unless quitting, the log is fetched
\* before the error is shown.
GaveUp ==
  /\ At("health")
  /\ IF leaving # "no" THEN Leave(phase) ELSE Goto("logs") /\ UNCHANGED <<phase, page>>
  /\ UNCHANGED <<machine, stack, pulled, disk, alive, launches, started, leaving,
                 down, loops, watch>>

Logged ==
  /\ At("logs")
  /\ Leave("error")
  /\ UNCHANGED <<machine, stack, pulled, disk, alive, launches, started, leaving,
                 down, loops, watch>>

BootStep ==
  \/ Probed \/ Healthy \/ GaveUp \/ Logged
  \/ \E ok \in BOOLEAN : ComposeChecked(ok) \/ Fetched(ok) \/ Pulled(ok)
                         \/ Renamed(ok) \/ Saved(ok) \/ Up(ok)
  \/ \E a \in {"asset", "bare", "offline"} : ReleaseChecked(a)

-----------------------------------------------------------------------------
(* The Docker watcher. *)

\* A timer fires: the poll ends at once when quitting, else it probes.
PollFires(l) ==
  /\ alive
  /\ loops[l] = "armed"
  /\ IF leaving # "no" THEN watch' = NoLoop /\ loops' = [loops EXCEPT ![l] = "off"]
     ELSE loops' = [loops EXCEPT ![l] = "probing"] /\ UNCHANGED watch
  /\ UNCHANGED <<machine, stack, pulled, disk, alive, launches, phase, page, boot,
                 started, leaving, down>>

\* Mutant: the poll stops when it has something new to say.
PollAnsweredOnce(l) ==
  /\ alive
  /\ loops[l] = "probing"
  /\ IF dockerIs = "running"
     THEN EnterBoot([loops EXCEPT ![l] = "off"], NoLoop)
     ELSE /\ IF dockerIs = (IF phase = "no-docker" THEN "missing" ELSE "stopped")
             THEN /\ loops' = [loops EXCEPT ![l] = "armed"]
                  /\ watch' = l
                  /\ UNCHANGED phase
             ELSE /\ phase' = PhaseOf(dockerIs)
                  /\ loops' = [loops EXCEPT ![l] = "off"]
                  /\ watch' = NoLoop
          /\ UNCHANGED <<page, boot>>
  /\ UNCHANGED <<machine, stack, pulled, disk, alive, launches, started, leaving,
                 down>>

\* The probe has answered: boot, or say what changed and set the timer again.
PollAnswered(l) ==
  /\ alive
  /\ loops[l] = "probing"
  /\ IF dockerIs = "running"
     THEN EnterBoot([loops EXCEPT ![l] = "off"], NoLoop)
     ELSE /\ loops' = [loops EXCEPT ![l] = "armed"]
          /\ watch' = l
          /\ phase' = IF dockerIs = (IF phase = "no-docker" THEN "missing" ELSE "stopped")
                      THEN phase ELSE PhaseOf(dockerIs)
          /\ UNCHANGED <<page, boot>>
  /\ UNCHANGED <<machine, stack, pulled, disk, alive, launches, started, leaving,
                 down>>

-----------------------------------------------------------------------------
(* Leaving. *)

\* The process is gone; a compose up that was called goes on without it.
Gone ==
  /\ alive' = FALSE
  /\ page' = "closed"
  /\ boot' = IF boot.pc = "up" THEN boot ELSE NotBooting
  /\ loops' = [l \in Loop |-> "off"]
  /\ watch' = NoLoop

\* Quit from the menu, or the window is closed, which quits: before-quit holds
\* the exit back for compose down, once, and only when containers were started.
Quit(closing) ==
  /\ alive
  /\ IF leaving # "no" \/ ~started
     THEN Gone /\ UNCHANGED <<phase, leaving, down>>
     ELSE /\ leaving' = IF boot.pc = "idle" THEN "clean" ELSE "busy"
          /\ phase' = "stopping"
          /\ page' = IF closing THEN "closed" ELSE ToStatusPage
          /\ down' = "called"
          /\ UNCHANGED <<alive, boot, loops, watch>>
  /\ UNCHANGED <<machine, stack, pulled, disk, launches, started>>

\* compose down ends, and with it a launcher that still waits for it.
Down(ok) ==
  /\ down = "called"
  /\ ok => dockerIs = "running" /\ saved # NoVersion /\ composeFile # NoVersion
  /\ down' = IF ok THEN "done" ELSE "none"
  /\ stack' = IF ok THEN NoVersion ELSE stack
  /\ IF alive THEN Gone ELSE UNCHANGED <<alive, page, boot, loops, watch>>
  /\ UNCHANGED <<machine, pulled, disk, launches, phase, started, leaving>>

\* The launcher is killed, anywhere.
Killed ==
  /\ alive
  /\ Gone
  /\ UNCHANGED <<machine, stack, pulled, disk, launches, phase, started, leaving,
                 down>>

\* Started again, once no command of the last one is running.
Launch ==
  /\ ~alive
  /\ launches < MaxLaunches
  /\ boot.pc = "idle" /\ down # "called"
  /\ alive' = TRUE
  /\ launches' = launches + 1
  /\ phase' = "checking"
  /\ page' = "status"
  /\ boot' = [NotBooting EXCEPT !.pc = "probe"]
  /\ started' = FALSE
  /\ leaving' = "no"
  /\ down' = "none"
  /\ UNCHANGED <<machine, stack, pulled, disk, loops, watch>>

LauncherNext ==
  \/ DockerChanges \/ Published
  \/ Retry \/ OpenDashboard \/ ShowStatus
  \/ BootStep
  \/ \E l \in Loop : PollFires(l) \/ PollAnswered(l)
  \/ \E c \in BOOLEAN : Quit(c)
  \/ \E ok \in BOOLEAN : Down(ok)
  \/ Killed \/ Launch

\* Timers fire, docker commands, downloads and health checks have an end.
LauncherSpec ==
  /\ LauncherInit
  /\ [][LauncherNext]_launcherVars
  /\ WF_launcherVars(BootStep)
  /\ \A l \in Loop : WF_launcherVars(PollFires(l)) /\ WF_launcherVars(PollAnswered(l))

-----------------------------------------------------------------------------
(* Properties. *)

Quitting == leaving # "no"

\* Whatever fails or is killed during an update, a release that was installed
\* stays runnable: its compose file is there and its images are on the machine,
\* and nothing else is ever brought up.
StaysRunnable ==
  /\ saved # NoVersion => composeFile # NoVersion /\ saved \in pulled
  /\ composeFile # NoVersion => composeFile \in pulled
  /\ boot.pc = "up" => boot.version \in pulled /\ composeFile # NoVersion

\* A quit that no boot was in flight for leaves no container behind when its
\* compose down succeeds: nothing that was waiting when the quit began, neither
\* a poll nor a click, brings them up again.
CleanQuitStops ==
  leaving = "clean" /\ down = "done" => stack = NoVersion

\* An update names a release, has its file beside the one in use until its images
\* are there, and then in its place.
UpdateInOrder ==
  /\ boot.pc \in {"fetch", "pull", "rename", "save"} => boot.version # NoVersion
  /\ boot.pc = "pull" => nextFile = boot.version
  /\ boot.pc = "rename" => nextFile = boot.version /\ boot.version \in pulled
  /\ boot.pc = "save" => composeFile = boot.version /\ boot.version \in pulled

\* compose down is called by a quit, and a clean one has no boot beside it.
QuitInOrder ==
  /\ leaving = "clean" => boot.pc = "idle"
  /\ down # "none" => Quitting
  /\ started => saved # NoVersion

\* What every step preserves, and the two follow from.
LauncherInv ==
  /\ LauncherTypeOK
  /\ StaysRunnable
  /\ CleanQuitStops
  /\ UpdateInOrder
  /\ QuitInOrder

\* While nobody quits, a launcher that waits for Docker carries on by itself
\* once Docker runs for good: it gets past the Docker screens without a click.
CarriesOn ==
  <>[](alive /\ ~Quitting /\ dockerIs = "running") =>
    []<>(phase \notin {"no-docker", "docker-stopped"})
=============================================================================
