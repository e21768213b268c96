----------------------------- MODULE PdfBrowser -----------------------------
(***************************************************************************)
(* The Chromium that renders a PDF when WeasyPrint cannot                  *)
(* (ComplaintEmailPdfService), and the part of the server's lifespan       *)
(* (main.py) that starts it before the schedulers and stops it after them. *)
(* One browser is shared by all requests and by the complaint scheduler.   *)
(* It is started, and replaced when it is gone, under a lock; a task that  *)
(* finds it connected takes it without the lock.                           *)
(*                                                                         *)
(* Tasks interleave where they await.  Playwright is external: a driver    *)
(* process, which has one Chromium and takes it along when it ends.        *)
(***************************************************************************)
EXTENDS Naturals, FiniteSets

CONSTANTS
    Renderers,      \* tasks that render: requests, and the complaint scheduler
    Scheduler,      \* the latter, the only one that is ever cancelled
    Server,         \* the task of the lifespan
    MaxLaunches,    \* bound: drivers started
    MaxFaults,      \* bound: processes that die, calls of Playwright that fail
    None

ASSUME BrowserAssumption ==
    /\ Scheduler \in Renderers
    /\ Server \notin Renderers
    /\ MaxLaunches \in Nat /\ MaxFaults \in Nat
    /\ None \notin Renderers \cup {Server} \cup Nat

Tasks == Renderers \cup {Server}
Launches == 1..MaxLaunches

VARIABLES
    stage,      \* of the server: "off", "startup", "serving", "cancelling", "stopping", "down"
    pwLock,     \* _pw_lock: the task that holds it
    driver,     \* _playwright: the number of a launch
    browser,    \* _browser
    step,       \* step[t]: what task t awaits
    held,       \* held[t]: the browser on which t has a page
    \* the processes
    drivers,    \* the drivers that run
    chromiums,  \* the launches whose Chromium runs
    launched,   \* how many drivers were started
    faults,     \* how many faults happened
    lost        \* drivers that would not stop, or whose start was cancelled

codeVars == <<stage, pwLock, driver, browser, step, held>>
processVars == <<drivers, chromiums, launched, faults, lost>>
browserVars == <<codeVars, processVars>>

BrowserInit ==
    /\ stage = "off"
    /\ pwLock = None /\ driver = None /\ browser = None
    /\ step = [t \in Tasks |-> "idle"]
    /\ held = [t \in Tasks |-> None]
    /\ drivers = {} /\ chromiums = {} /\ launched = 0 /\ faults = 0 /\ lost = {}

\* _browser is not None and _browser.is_connected()
Connected == browser # None /\ browser \in chromiums

\* The lifespan wants the browser started, or stopped; a renderer wants to use it.
Stopping(t) == t = Server /\ stage = "stopping"

\* A stage of the server follows on the one before.
StageAfter(t) ==
    CASE t # Server -> stage
      [] stage = "startup" -> "serving"
      [] stage = "stopping" -> "down"
      [] OTHER -> stage

\* t has what it came for: the lifespan goes on, a renderer opens a page on b.
Served(t, b) ==
    /\ stage' = StageAfter(t)
    /\ step' = [step EXCEPT ![t] = IF t = Server THEN "idle" ELSE "page"]
    /\ held' = [held EXCEPT ![t] = IF t = Server THEN None ELSE b]

\* An exception: the lifespan logs it and goes on, the renderer's request fails.
Fails(t) ==
    /\ stage' = StageAfter(t)
    /\ step' = [step EXCEPT ![t] = "idle"]
    /\ UNCHANGED held

Fault == faults < MaxFaults /\ faults' = faults + 1
-----------------------------------------------------------------------------
(* The lifespan *)

\* start_playwright_browser
Boot ==
    /\ stage = "off"
    /\ stage' = "startup"
    /\ step' = [step EXCEPT ![Server] = "wait"]
    /\ UNCHANGED <<pwLock, driver, browser, held, processVars>>

\* A shutdown begins when the requests, with their background tasks, are answered: the
\* complaint scheduler is cancelled, and awaited.
StopScheduler ==
    /\ stage = "serving"
    /\ \A t \in Renderers \ {Scheduler} : step[t] = "idle"
    /\ stage' = "cancelling"
    /\ UNCHANGED <<pwLock, driver, browser, step, held, processVars>>

\* a variant: the browser is stopped without waiting for the scheduler
StopBrowserFirst ==
    /\ stage = "cancelling"
    /\ stage' = "stopping"
    /\ step' = [step EXCEPT ![Server] = "wait"]
    /\ UNCHANGED <<pwLock, driver, browser, held, processVars>>

\* stop_playwright_browser, once the scheduler's task has ended.
StopBrowser ==
    /\ stage = "cancelling"
    /\ step[Scheduler] = "idle"
    /\ stage' = "stopping"
    /\ step' = [step EXCEPT ![Server] = "wait"]
    /\ UNCHANGED <<pwLock, driver, browser, held, processVars>>

\* CancelledError is raised where the scheduler awaits, and releases the lock.  A driver
\* or a Chromium that is being started may be there all the same.
Cancelled ==
    /\ stage = "cancelling" /\ step[Scheduler] # "idle"
    /\ step' = [step EXCEPT ![Scheduler] = "idle"]
    /\ held' = [held EXCEPT ![Scheduler] = None]
    /\ pwLock' = IF pwLock = Scheduler THEN None ELSE pwLock
    /\ \/ UNCHANGED processVars
       \/ /\ step[Scheduler] = "spawn" /\ launched < MaxLaunches
          /\ launched' = launched + 1
          /\ drivers' = drivers \cup {launched'} /\ lost' = lost \cup {launched'}
          /\ UNCHANGED <<chromiums, faults>>
       \/ /\ step[Scheduler] = "launch"
          /\ chromiums' = chromiums \cup {driver}
          /\ UNCHANGED <<drivers, launched, faults, lost>>
    /\ UNCHANGED <<stage, driver, browser>>
-----------------------------------------------------------------------------
(* Rendering, starting and stopping *)

\* WeasyPrint has failed, and _ensure_browser takes a look without the lock.
Begin(t) ==
    /\ step[t] = "idle"
    /\ stage = "serving"
    /\ IF Connected
       THEN Served(t, browser)
       ELSE /\ step' = [step EXCEPT ![t] = "wait"]
            /\ UNCHANGED <<stage, held>>
    /\ UNCHANGED <<pwLock, driver, browser, processVars>>

\* a variant: _ensure_browser and start do not look again
ConnectedForNone(t) == FALSE

\* Another task may have started the browser while t waited for the lock.
ConnectedFor(t) == Connected /\ ~ Stopping(t)

\* a variant: a browser is started without the lock
AcquireFreely(t) ==
    /\ step[t] = "wait"
    /\ IF ConnectedFor(t)
       THEN Served(t, browser) /\ UNCHANGED pwLock
       ELSE /\ pwLock' = t
            /\ step' = [step EXCEPT ![t] = "close"]
            /\ UNCHANGED <<stage, held>>
    /\ UNCHANGED <<driver, browser, processVars>>

\* The lock is taken; when nothing is to be done it is released at once.
Acquire(t) ==
    /\ step[t] = "wait" /\ pwLock = None
    /\ IF ConnectedFor(t)
       THEN Served(t, browser) /\ UNCHANGED pwLock
       ELSE /\ pwLock' = t
            /\ step' = [step EXCEPT ![t] = "close"]
            /\ UNCHANGED <<stage, held>>
    /\ UNCHANGED <<driver, browser, processVars>>

\* _shutdown_playwright_unlocked: the browser is closed, whose failure is swallowed,
Close(t) ==
    /\ step[t] = "close"
    /\ browser' = None
    /\ step' = [step EXCEPT ![t] = "quit"]
    /\ \/ chromiums' = chromiums \ {browser} /\ UNCHANGED faults
       \/ browser # None /\ Fault /\ UNCHANGED chromiums
    /\ UNCHANGED <<stage, pwLock, driver, held, drivers, launched, lost>>

\* and then the driver is stopped, likewise.  That is all of a stop; a start goes on.
Quit(t) ==
    /\ step[t] = "quit"
    /\ driver' = None
    /\ \/ /\ drivers' = drivers \ {driver} /\ chromiums' = chromiums \ {driver}
          /\ UNCHANGED <<faults, lost>>
       \/ /\ driver # None /\ Fault
          /\ lost' = lost \cup {driver}
          /\ UNCHANGED <<drivers, chromiums>>
    /\ IF Stopping(t)
       THEN /\ pwLock' = None
            /\ Served(t, None)
       ELSE /\ step' = [step EXCEPT ![t] = "spawn"]
            /\ UNCHANGED <<stage, pwLock, held>>
    /\ UNCHANGED <<browser, launched>>

\* _start_playwright_unlocked: the driver is started,
Spawn(t) ==
    /\ step[t] = "spawn" /\ launched < MaxLaunches
    /\ launched' = launched + 1
    /\ drivers' = drivers \cup {launched'}
    /\ driver' = launched'
    /\ step' = [step EXCEPT ![t] = "launch"]
    /\ UNCHANGED <<stage, pwLock, browser, held, chromiums, faults, lost>>

\* and the driver launches Chromium.  Between the release of the lock and the return of
\* _browser nothing is awaited.
Launch(t) ==
    /\ step[t] = "launch" /\ driver \in drivers
    /\ chromiums' = chromiums \cup {driver}
    /\ browser' = driver
    /\ pwLock' = None
    /\ Served(t, driver)
    /\ UNCHANGED <<driver, drivers, launched, faults, lost>>

\* One of the two raises: the driver, if there is one, is left for the next start.
StartFails(t) ==
    /\ step[t] \in {"spawn", "launch"}
    /\ Fault
    /\ pwLock' = None
    /\ Fails(t)
    /\ UNCHANGED <<driver, browser, drivers, chromiums, launched, lost>>

\* _render_playwright ends, with a PDF or, when the browser is gone, without.
EndPage(t) ==
    /\ step[t] = "page"
    /\ step' = [step EXCEPT ![t] = "idle"]
    /\ held' = [held EXCEPT ![t] = None]
    /\ UNCHANGED <<stage, pwLock, driver, browser, processVars>>

\* A Chromium dies, alone or with its driver.
Dies(n) ==
    /\ n \in chromiums
    /\ Fault
    /\ chromiums' = chromiums \ {n}
    /\ drivers' \in {drivers, drivers \ {n}}
    /\ UNCHANGED <<codeVars, launched, lost>>
-----------------------------------------------------------------------------
BrowserStep(t) ==
    Acquire(t) \/ Close(t) \/ Quit(t) \/ Spawn(t) \/ Launch(t) \/ StartFails(t) \/ EndPage(t)

BrowserNext ==
    \/ Boot \/ StopScheduler \/ StopBrowser \/ Cancelled
    \/ \E t \in Renderers : Begin(t)
    \/ \E t \in Tasks : BrowserStep(t)
    \/ \E n \in Launches : Dies(n)

BrowserSpec == BrowserInit /\ [][BrowserNext]_browserVars
-----------------------------------------------------------------------------
\* Types, and that a task with a page has the browser of some launch.
BrowserTypeOK ==
    /\ stage \in {"off", "startup", "serving", "cancelling", "stopping", "down"}
    /\ pwLock \in Tasks \cup {None}
    /\ driver \in Launches \cup {None}
    /\ browser \in Launches \cup {None}
    /\ step \in [Tasks -> {"idle", "wait", "close", "quit", "spawn", "launch", "page"}]
    /\ held \in [Tasks -> Launches \cup {None}]
    /\ drivers \subseteq Launches /\ chromiums \subseteq Launches /\ lost \subseteq Launches
    /\ launched \in 0..MaxLaunches /\ faults \in 0..MaxFaults

\* However requests, the scheduler, failures and the shutdown interleave, at most one
\* Chromium runs, that of the driver the code refers to, and none when the server is
\* down, unless a driver would not stop.
OneChromiumAtMost ==
    /\ chromiums \ lost \subseteq {driver}
    /\ stage = "down" => chromiums \subseteq lost

\* A browser in use is never closed by a task that starts one, only by its own death.
BrowserInUseStays ==
    [][ \A t \in Renderers :
          step[t] = "page" /\ held[t] \in chromiums /\ held[t] \notin chromiums'
            => \E n \in Launches : Dies(n) ]_browserVars
=============================================================================
