---------------------------- MODULE Server_proofs ----------------------------
(***************************************************************************)
(* What runs beside the requests.  The shared Chromium, for any number of  *)
(* renderers, launches and faults: at most one runs, none when the server  *)
(* is down, and no task closes the one another task renders with.  And the *)
(* policy sync, for any hour, interval and look-back that fit together,    *)
(* any clock of the host and any number of troubles: no day is missed.     *)
(* And the offline scripts of the complaint corpus, for any file of rows,   *)
(* batch size and number of workers: when the load is done every chunk is  *)
(* there once, and the file of vectors has every row that can be embedded. *)
(* Nothing visible of a document is lost where it is cut into chunks, for  *)
(* any document and sizes.  And the department a petition goes to is the   *)
(* one that the texts found for it speak of, whatever they are.            *)
(***************************************************************************)
EXTENDS PdfBrowser, Schedules, Departments, Chunking, FiniteSetTheorems, SequenceTheorems, WellFoundedInduction, TLAPS

\* What a task awaits with the lock held.
Critical == {"close", "quit", "spawn", "launch"}

\* The lock is held by the one task that replaces the browser.
LockInv == \A t \in Tasks : step[t] \in Critical <=> pwLock = t

\* Every number in use is that of a launch that was made: the next one is new.
NumbersInv ==
    /\ drivers \subseteq 1..launched /\ chromiums \subseteq 1..launched /\ lost \subseteq 1..launched
    /\ driver # None => driver \in 1..launched
    /\ browser # None => browser \in 1..launched
    /\ \A t \in Tasks : held[t] # None => held[t] \in 1..launched

\* What the two attributes say while the lock is held, and when it is not.
AttributesInv ==
    /\ browser \in {None, driver}
    /\ \A t \in Tasks :
         /\ step[t] \in {"quit", "spawn", "launch"} => browser = None
         /\ step[t] = "spawn" => driver = None
         /\ step[t] = "launch" => driver # None

\* The server works only where its lifespan stands, and alone once it stops.
StagesInv ==
    /\ stage \in {"off", "serving", "cancelling", "down"} => step[Server] = "idle"
    /\ stage = "stopping" => step[Server] \in {"wait", "close", "quit"}
    /\ step[Server] # "page"
    /\ stage \in {"off", "startup", "stopping", "down"} => \A t \in Renderers : step[t] = "idle"
    /\ stage = "cancelling" => \A t \in Renderers \ {Scheduler} : step[t] = "idle"

\* A page is on the browser that is in use, unless that one is gone; and a browser is
\* closed only when it is gone, or when the server stops.
PagesInv ==
    /\ \A t \in Tasks : step[t] = "page" /\ held[t] \in chromiums => held[t] = browser
    /\ \A t, u \in Tasks : step[t] = "page" /\ step[u] = "launch" => held[t] # driver
    /\ \A u \in Tasks : step[u] = "close" /\ ~ Stopping(u) => ~ Connected

BrowserInv ==
    /\ BrowserTypeOK
    /\ LockInv /\ NumbersInv /\ AttributesInv /\ StagesInv /\ PagesInv
    /\ OneChromiumAtMost
-----------------------------------------------------------------------------
\* Who the tasks are, and that None is none of them, and no number.
LEMMA TheTasks ==
    /\ Server \in Tasks /\ Scheduler \in Tasks /\ Scheduler # Server
    /\ \A t \in Renderers : t \in Tasks /\ t # Server
    /\ None \notin Tasks /\ None \notin Nat /\ None \notin Launches
    /\ MaxLaunches \in Nat /\ MaxFaults \in Nat
  BY BrowserAssumption DEF Tasks, Launches

\* Only the lifespan's task moves the stage on, from startup and from stopping.
LEMMA StageMoves ==
    ASSUME BrowserTypeOK, StagesInv, NEW t \in Tasks, step[t] # "idle"
    PROVE  /\ t # Server => StageAfter(t) = stage
           /\ t = Server => \/ stage = "startup" /\ StageAfter(t) = "serving"
                            \/ stage = "stopping" /\ StageAfter(t) = "down"
<1>1. t = Server => stage \in {"startup", "stopping"}  BY DEF StagesInv, BrowserTypeOK
<1>2. CASE t # Server
  <2>1. stage \notin {"startup", "stopping"}  BY <1>2 DEF StagesInv, Tasks
  <2>. QED  BY <1>2, <2>1 DEF StageAfter
<1>3. CASE t = Server /\ stage = "startup"  BY <1>3 DEF StageAfter
<1>4. CASE t = Server /\ stage = "stopping"  BY <1>4 DEF StageAfter
<1>. QED  BY <1>1, <1>2, <1>3, <1>4

\* The lifespan starts the browser: nobody is at work yet.
LEMMA BootKeeps == ASSUME BrowserInv, Boot PROVE BrowserInv'
<1>. USE TheTasks DEF Boot, processVars
<1>1. BrowserTypeOK'  BY DEF BrowserInv, BrowserTypeOK, Launches
<1>2. LockInv'  BY DEF BrowserInv, BrowserTypeOK, LockInv, StagesInv, Critical
<1>3. NumbersInv'  BY DEF BrowserInv, BrowserTypeOK, NumbersInv, AttributesInv, Launches
<1>4. AttributesInv'  BY DEF BrowserInv, BrowserTypeOK, LockInv, NumbersInv, AttributesInv, Critical
<1>5. StagesInv'  BY DEF BrowserInv, BrowserTypeOK, LockInv, StagesInv, Critical
<1>6. PagesInv'
  BY DEF BrowserInv, BrowserTypeOK, LockInv, NumbersInv, AttributesInv, StagesInv, PagesInv, Connected,
     Stopping, Critical, Launches
<1>7. OneChromiumAtMost'
  BY DEF BrowserInv, BrowserTypeOK, LockInv, AttributesInv, StagesInv, OneChromiumAtMost, Critical
<1>. QED  BY <1>1, <1>2, <1>3, <1>4, <1>5, <1>6, <1>7 DEF BrowserInv

\* The shutdown begins.
LEMMA StopSchedulerKeeps == ASSUME BrowserInv, StopScheduler PROVE BrowserInv'
<1>. USE TheTasks DEF StopScheduler, processVars
<1>1. BrowserTypeOK'  BY DEF BrowserInv, BrowserTypeOK, Launches
<1>2. LockInv'  BY DEF BrowserInv, BrowserTypeOK, LockInv, Critical
<1>3. NumbersInv'  BY DEF BrowserInv, BrowserTypeOK, NumbersInv, AttributesInv, Launches
<1>4. AttributesInv'  BY DEF BrowserInv, BrowserTypeOK, LockInv, NumbersInv, AttributesInv, Critical
<1>5. StagesInv'  BY DEF BrowserInv, BrowserTypeOK, LockInv, StagesInv, Critical
<1>6. PagesInv'
  BY DEF BrowserInv, BrowserTypeOK, LockInv, NumbersInv, AttributesInv, StagesInv, PagesInv, Connected,
     Stopping, Critical, Launches
<1>7. OneChromiumAtMost'
  BY DEF BrowserInv, BrowserTypeOK, LockInv, AttributesInv, StagesInv, OneChromiumAtMost, Critical
<1>. QED  BY <1>1, <1>2, <1>3, <1>4, <1>5, <1>6, <1>7 DEF BrowserInv

\* The browser is stopped once the scheduler has ended: nobody is at work any more.
LEMMA StopBrowserKeeps == ASSUME BrowserInv, StopBrowser PROVE BrowserInv'
<1>. USE TheTasks DEF StopBrowser, processVars
<1>1. BrowserTypeOK'  BY DEF BrowserInv, BrowserTypeOK, Launches
<1>2. LockInv'  BY DEF BrowserInv, BrowserTypeOK, LockInv, StagesInv, Critical
<1>3. NumbersInv'  BY DEF BrowserInv, BrowserTypeOK, NumbersInv, AttributesInv, Launches
<1>4. AttributesInv'  BY DEF BrowserInv, BrowserTypeOK, LockInv, NumbersInv, AttributesInv, Critical
<1>5. StagesInv'  BY DEF BrowserInv, BrowserTypeOK, LockInv, StagesInv, Critical
<1>6. PagesInv'
  BY DEF BrowserInv, BrowserTypeOK, LockInv, NumbersInv, AttributesInv, StagesInv, PagesInv, Connected,
     Stopping, Critical, Launches
<1>7. OneChromiumAtMost'
  BY DEF BrowserInv, BrowserTypeOK, LockInv, AttributesInv, StagesInv, OneChromiumAtMost, Critical
<1>. QED  BY <1>1, <1>2, <1>3, <1>4, <1>5, <1>6, <1>7 DEF BrowserInv

\* The scheduler is cancelled where it awaits: what it was starting is lost, or is that of
\* the driver the code refers to.
LEMMA CancelledKeeps == ASSUME BrowserInv, Cancelled PROVE BrowserInv'
<1>. USE TheTasks DEF Cancelled, processVars
<1>1. BrowserTypeOK'
  <2>1. launched < MaxLaunches => launched + 1 \in 0..MaxLaunches /\ launched + 1 \in Launches
    BY DEF BrowserInv, BrowserTypeOK, Launches
  <2>2. step[Scheduler] = "launch" => driver \in Launches
    BY DEF BrowserInv, BrowserTypeOK, AttributesInv
  <2>. QED  BY <2>1, <2>2 DEF BrowserInv, BrowserTypeOK
<1>2. LockInv'  BY DEF BrowserInv, BrowserTypeOK, LockInv, Critical
<1>3. NumbersInv'
  <2>1. launched \in Nat /\ (driver # None => driver \in 1..launched)
    BY DEF BrowserInv, BrowserTypeOK, NumbersInv
  <2>2. \A t \in Tasks : held'[t] # None => held'[t] \in 1..launched
    BY DEF BrowserInv, BrowserTypeOK, NumbersInv
  <2>3. CASE UNCHANGED processVars  BY <2>2, <2>3 DEF BrowserInv, NumbersInv
  <2>4. CASE launched' = launched + 1 /\ UNCHANGED chromiums
             /\ drivers' = drivers \cup {launched'} /\ lost' = lost \cup {launched'}
    BY <2>1, <2>2, <2>4 DEF BrowserInv, NumbersInv
  <2>5. CASE step[Scheduler] = "launch" /\ chromiums' = chromiums \cup {driver} /\ UNCHANGED <<drivers,
     launched, lost>>
    <3>1. driver \in 1..launched  BY <2>1, <2>5 DEF BrowserInv, AttributesInv
    <3>. QED  BY <2>1, <2>2, <2>5, <3>1 DEF BrowserInv, NumbersInv
  <2>. QED  BY <2>3, <2>4, <2>5
<1>4. AttributesInv'  BY DEF BrowserInv, BrowserTypeOK, LockInv, NumbersInv, AttributesInv, Critical
<1>5. StagesInv'  BY DEF BrowserInv, BrowserTypeOK, LockInv, StagesInv, Critical
<1>6. PagesInv'
  BY DEF BrowserInv, BrowserTypeOK, LockInv, NumbersInv, AttributesInv, StagesInv, PagesInv, Connected,
     Stopping, Critical, Launches
<1>7. OneChromiumAtMost'
  BY DEF BrowserInv, BrowserTypeOK, LockInv, AttributesInv, StagesInv, OneChromiumAtMost, Critical
<1>. QED  BY <1>1, <1>2, <1>3, <1>4, <1>5, <1>6, <1>7 DEF BrowserInv

\* A renderer takes the browser that is connected, or waits for the lock.
LEMMA BeginKeeps == ASSUME BrowserInv, NEW t \in Renderers, Begin(t) PROVE BrowserInv'
<1>. USE TheTasks DEF Begin, Served, Connected, processVars
<1>1. BrowserTypeOK'  BY DEF BrowserInv, BrowserTypeOK, Launches, StageAfter
<1>2. LockInv'  BY DEF BrowserInv, BrowserTypeOK, LockInv, Critical
<1>3. NumbersInv'  BY DEF BrowserInv, BrowserTypeOK, NumbersInv, AttributesInv, Launches
<1>4. AttributesInv'  BY DEF BrowserInv, BrowserTypeOK, LockInv, NumbersInv, AttributesInv, Critical
<1>5. StagesInv'  BY DEF BrowserInv, BrowserTypeOK, LockInv, StagesInv, Critical, StageAfter
<1>6. PagesInv'
  BY DEF BrowserInv, BrowserTypeOK, LockInv, NumbersInv, AttributesInv, StagesInv, PagesInv, Connected,
     Stopping, Critical, Launches, StageAfter
<1>7. OneChromiumAtMost'
  BY DEF BrowserInv, BrowserTypeOK, LockInv, AttributesInv, StagesInv, OneChromiumAtMost, Critical,
     StageAfter
<1>. QED  BY <1>1, <1>2, <1>3, <1>4, <1>5, <1>6, <1>7 DEF BrowserInv

\* The lock is taken by a task that finds no browser connected, or by the one that stops it.
LEMMA AcquireKeeps == ASSUME BrowserInv, NEW t \in Tasks, Acquire(t) PROVE BrowserInv'
<1>. USE TheTasks DEF Acquire, Served, ConnectedFor, Connected, Stopping, processVars
<1>0. step[t] # "idle" OBVIOUS
<1>1. BrowserTypeOK'  BY <1>0, StageMoves DEF BrowserInv, BrowserTypeOK, Launches
<1>2. LockInv'  BY DEF BrowserInv, BrowserTypeOK, LockInv, Critical
<1>3. NumbersInv'  BY DEF BrowserInv, BrowserTypeOK, NumbersInv, AttributesInv, Launches
<1>4. AttributesInv'  BY DEF BrowserInv, BrowserTypeOK, LockInv, NumbersInv, AttributesInv, Critical
<1>5. StagesInv'  BY <1>0, StageMoves DEF BrowserInv, BrowserTypeOK, LockInv, StagesInv, Critical
<1>6. PagesInv'
  BY <1>0, StageMoves
     DEF BrowserInv, BrowserTypeOK, LockInv, NumbersInv, AttributesInv, StagesInv, PagesInv, Critical,
        Launches
<1>7. OneChromiumAtMost'
  BY <1>0, StageMoves
     DEF BrowserInv, BrowserTypeOK, LockInv, AttributesInv, StagesInv, OneChromiumAtMost, Critical
<1>. QED  BY <1>1, <1>2, <1>3, <1>4, <1>5, <1>6, <1>7 DEF BrowserInv

\* The browser that is closed is gone already, or the server stops and nobody renders.
LEMMA CloseKeeps == ASSUME BrowserInv, NEW t \in Tasks, Close(t) PROVE BrowserInv'
<1>. USE TheTasks DEF Close, Fault
<1>1. BrowserTypeOK'
  <2>1. chromiums' \subseteq chromiums  OBVIOUS
  <2>2. faults' \in 0..MaxFaults  BY DEF BrowserInv, BrowserTypeOK
  <2>3. step' \in [Tasks -> {"idle", "wait", "close", "quit", "spawn", "launch", "page"}]
    BY DEF BrowserInv, BrowserTypeOK
  <2>. QED  BY <2>1, <2>2, <2>3 DEF BrowserInv, BrowserTypeOK
<1>2. LockInv'  BY DEF BrowserInv, BrowserTypeOK, LockInv, Critical
<1>3. NumbersInv'  BY DEF BrowserInv, BrowserTypeOK, NumbersInv, AttributesInv, Launches
<1>4. AttributesInv'  BY DEF BrowserInv, BrowserTypeOK, LockInv, NumbersInv, AttributesInv, Critical
<1>5. StagesInv'  BY DEF BrowserInv, BrowserTypeOK, LockInv, StagesInv, Critical
<1>6. PagesInv'
  <2>. USE DEF Connected, Stopping
  <2>1. CASE Stopping(t)
    <3>1. \A u \in Tasks : step'[u] # "page"  BY <2>1 DEF BrowserInv, BrowserTypeOK, StagesInv, Tasks
    <3>2. \A u \in Tasks : step'[u] # "close"  BY DEF BrowserInv, BrowserTypeOK, LockInv, Critical
    <3>. QED  BY <3>1, <3>2 DEF PagesInv
  <2>2. CASE ~ Stopping(t)
    <3>1. ~ Connected  BY <2>2 DEF BrowserInv, PagesInv
    <3>2. \A u \in Tasks : step'[u] \notin {"close", "launch"}
      BY DEF BrowserInv, BrowserTypeOK, LockInv, Critical
    <3>3. \A u \in Tasks : step'[u] = "page" => step[u] = "page" /\ held[u] \notin chromiums
      <4>1. None \notin chromiums BY DEF BrowserInv, BrowserTypeOK
      <4>. QED BY <3>1, <4>1 DEF BrowserInv, BrowserTypeOK, PagesInv
    <3>. QED  BY <3>2, <3>3 DEF PagesInv
  <2>. QED  BY <2>1, <2>2
<1>7. OneChromiumAtMost'
  BY DEF BrowserInv, BrowserTypeOK, LockInv, AttributesInv, StagesInv, OneChromiumAtMost, Critical
<1>. QED  BY <1>1, <1>2, <1>3, <1>4, <1>5, <1>6, <1>7 DEF BrowserInv

\* The driver that is stopped takes its Chromium along, or is lost with it.
LEMMA QuitKeeps == ASSUME BrowserInv, NEW t \in Tasks, Quit(t) PROVE BrowserInv'
<1>. USE TheTasks DEF Quit, Fault, Served, Stopping
<1>0. step[t] # "idle" OBVIOUS
<1>1. BrowserTypeOK'
  <2>1. drivers' \subseteq drivers /\ chromiums' \subseteq chromiums  OBVIOUS
  <2>2. faults' \in 0..MaxFaults /\ lost' \subseteq Launches  BY DEF BrowserInv, BrowserTypeOK
  <2>3. /\ stage' \in {"off", "startup", "serving", "cancelling", "stopping", "down"}
        /\ step' \in [Tasks -> {"idle", "wait", "close", "quit", "spawn", "launch", "page"}]
        /\ held' \in [Tasks -> Launches \cup {None}]
        /\ pwLock' \in Tasks \cup {None}
    BY <1>0, StageMoves DEF BrowserInv, BrowserTypeOK
  <2>. QED  BY <2>1, <2>2, <2>3 DEF BrowserInv, BrowserTypeOK
<1>2. LockInv'  BY DEF BrowserInv, BrowserTypeOK, LockInv, Critical
<1>3. NumbersInv'  BY DEF BrowserInv, BrowserTypeOK, NumbersInv, AttributesInv, Launches
<1>4. AttributesInv'  BY DEF BrowserInv, BrowserTypeOK, LockInv, NumbersInv, AttributesInv, Critical
<1>5. StagesInv'  BY <1>0, StageMoves DEF BrowserInv, BrowserTypeOK, LockInv, StagesInv, Critical
<1>6. PagesInv'
  BY <1>0, StageMoves
     DEF BrowserInv, BrowserTypeOK, LockInv, NumbersInv, AttributesInv, StagesInv, PagesInv, Critical,
        Launches
<1>7. OneChromiumAtMost'
  BY <1>0, StageMoves
     DEF BrowserInv, BrowserTypeOK, LockInv, AttributesInv, StagesInv, OneChromiumAtMost, Critical
<1>. QED  BY <1>1, <1>2, <1>3, <1>4, <1>5, <1>6, <1>7 DEF BrowserInv

\* The next driver has a new number, on which nobody has a page.
LEMMA SpawnKeeps == ASSUME BrowserInv, NEW t \in Tasks, Spawn(t) PROVE BrowserInv'
<1>. USE TheTasks DEF Spawn
<1>1. BrowserTypeOK'  BY DEF BrowserInv, BrowserTypeOK, Launches
<1>2. LockInv'  BY DEF BrowserInv, BrowserTypeOK, LockInv, Critical
<1>3. NumbersInv'  BY DEF BrowserInv, BrowserTypeOK, NumbersInv, AttributesInv, Launches
<1>4. AttributesInv'  BY DEF BrowserInv, BrowserTypeOK, LockInv, NumbersInv, AttributesInv, Critical
<1>5. StagesInv'  BY DEF BrowserInv, BrowserTypeOK, LockInv, StagesInv, Critical
<1>6. PagesInv'
  BY DEF BrowserInv, BrowserTypeOK, LockInv, NumbersInv, AttributesInv, StagesInv, PagesInv, Connected,
     Stopping, Critical, Launches
<1>7. OneChromiumAtMost'
  BY DEF BrowserInv, BrowserTypeOK, LockInv, AttributesInv, StagesInv, OneChromiumAtMost, Critical
<1>. QED  BY <1>1, <1>2, <1>3, <1>4, <1>5, <1>6, <1>7 DEF BrowserInv

\* The one Chromium is that of the new driver.
LEMMA LaunchKeeps == ASSUME BrowserInv, NEW t \in Tasks, Launch(t) PROVE BrowserInv'
<1>. USE TheTasks DEF Launch, Served
<1>0. step[t] # "idle" OBVIOUS
<1>1. BrowserTypeOK'  BY <1>0, StageMoves DEF BrowserInv, BrowserTypeOK, Launches
<1>2. LockInv'  BY DEF BrowserInv, BrowserTypeOK, LockInv, Critical
<1>3. NumbersInv'  BY DEF BrowserInv, BrowserTypeOK, NumbersInv, AttributesInv, Launches
<1>4. AttributesInv'  BY DEF BrowserInv, BrowserTypeOK, LockInv, NumbersInv, AttributesInv, Critical
<1>5. StagesInv'  BY <1>0, StageMoves DEF BrowserInv, BrowserTypeOK, LockInv, StagesInv, Critical
<1>6. PagesInv'
  BY <1>0, StageMoves
     DEF BrowserInv, BrowserTypeOK, LockInv, NumbersInv, AttributesInv, StagesInv, PagesInv, Critical,
        Launches
<1>7. OneChromiumAtMost'
  <2>1. chromiums' \ lost' \subseteq {driver'}  BY DEF BrowserInv, OneChromiumAtMost
  <2>2. stage' # "down"  BY <1>0, StageMoves DEF BrowserInv, BrowserTypeOK, StagesInv, Tasks
  <2>. QED  BY <2>1, <2>2 DEF OneChromiumAtMost
<1>. QED  BY <1>1, <1>2, <1>3, <1>4, <1>5, <1>6, <1>7 DEF BrowserInv

\* A start that fails leaves a driver, and no browser.
LEMMA StartFailsKeeps == ASSUME BrowserInv, NEW t \in Tasks, StartFails(t) PROVE BrowserInv'
<1>. USE TheTasks DEF StartFails, Fault, Fails
<1>0. step[t] # "idle" OBVIOUS
<1>1. BrowserTypeOK'  BY <1>0, StageMoves DEF BrowserInv, BrowserTypeOK, Launches
<1>2. LockInv'  BY DEF BrowserInv, BrowserTypeOK, LockInv, Critical
<1>3. NumbersInv'  BY DEF BrowserInv, BrowserTypeOK, NumbersInv, AttributesInv, Launches
<1>4. AttributesInv'  BY DEF BrowserInv, BrowserTypeOK, LockInv, NumbersInv, AttributesInv, Critical
<1>5. StagesInv'  BY <1>0, StageMoves DEF BrowserInv, BrowserTypeOK, LockInv, StagesInv, Critical
<1>6. PagesInv'
  BY <1>0, StageMoves
     DEF BrowserInv, BrowserTypeOK, LockInv, NumbersInv, AttributesInv, StagesInv, PagesInv, Critical,
        Launches
<1>7. OneChromiumAtMost'
  BY <1>0, StageMoves
     DEF BrowserInv, BrowserTypeOK, LockInv, AttributesInv, StagesInv, OneChromiumAtMost, Critical
<1>. QED  BY <1>1, <1>2, <1>3, <1>4, <1>5, <1>6, <1>7 DEF BrowserInv

\* A page is closed.
LEMMA EndPageKeeps == ASSUME BrowserInv, NEW t \in Tasks, EndPage(t) PROVE BrowserInv'
<1>. USE TheTasks DEF EndPage, processVars
<1>1. BrowserTypeOK'  BY DEF BrowserInv, BrowserTypeOK, Launches
<1>2. LockInv'  BY DEF BrowserInv, BrowserTypeOK, LockInv, Critical
<1>3. NumbersInv'  BY DEF BrowserInv, BrowserTypeOK, NumbersInv, AttributesInv, Launches
<1>4. AttributesInv'  BY DEF BrowserInv, BrowserTypeOK, LockInv, NumbersInv, AttributesInv, Critical
<1>5. StagesInv'  BY DEF BrowserInv, BrowserTypeOK, LockInv, StagesInv, Critical
<1>6. PagesInv'
  BY DEF BrowserInv, BrowserTypeOK, LockInv, NumbersInv, AttributesInv, StagesInv, PagesInv, Connected,
     Stopping, Critical, Launches
<1>7. OneChromiumAtMost'
  BY DEF BrowserInv, BrowserTypeOK, LockInv, AttributesInv, StagesInv, OneChromiumAtMost, Critical
<1>. QED  BY <1>1, <1>2, <1>3, <1>4, <1>5, <1>6, <1>7 DEF BrowserInv

\* A browser that dies is in use no more.
LEMMA DiesKeeps == ASSUME BrowserInv, NEW n \in Launches, Dies(n) PROVE BrowserInv'
<1>. USE TheTasks DEF Dies, Fault, codeVars
<1>1. BrowserTypeOK'  BY DEF BrowserInv, BrowserTypeOK, Launches
<1>2. LockInv'  BY DEF BrowserInv, BrowserTypeOK, LockInv, Critical
<1>3. NumbersInv'  BY DEF BrowserInv, BrowserTypeOK, NumbersInv, AttributesInv, Launches
<1>4. AttributesInv'  BY DEF BrowserInv, BrowserTypeOK, LockInv, NumbersInv, AttributesInv, Critical
<1>5. StagesInv'  BY DEF BrowserInv, BrowserTypeOK, LockInv, StagesInv, Critical
<1>6. PagesInv'
  BY DEF BrowserInv, BrowserTypeOK, LockInv, NumbersInv, AttributesInv, StagesInv, PagesInv, Connected,
     Stopping, Critical, Launches
<1>7. OneChromiumAtMost'
  BY DEF BrowserInv, BrowserTypeOK, LockInv, AttributesInv, StagesInv, OneChromiumAtMost, Critical
<1>. QED  BY <1>1, <1>2, <1>3, <1>4, <1>5, <1>6, <1>7 DEF BrowserInv

\* The inductive invariant holds throughout.
LEMMA BrowserInvariant == BrowserSpec => []BrowserInv
<1>1. BrowserInit => BrowserInv
  BY TheTasks DEF BrowserInit, BrowserInv, BrowserTypeOK, LockInv, NumbersInv, AttributesInv, StagesInv,
     PagesInv, OneChromiumAtMost, Critical, Launches, Connected
<1>2. BrowserInv /\ [BrowserNext]_browserVars => BrowserInv'
  <2>. SUFFICES ASSUME BrowserInv, [BrowserNext]_browserVars PROVE BrowserInv'
    OBVIOUS
  <2>1. CASE Boot \/ StopScheduler \/ StopBrowser \/ Cancelled
    BY <2>1, BootKeeps, StopSchedulerKeeps, StopBrowserKeeps, CancelledKeeps
  <2>2. ASSUME NEW t \in Renderers, Begin(t) PROVE BrowserInv'  BY <2>2, BeginKeeps
  <2>3. ASSUME NEW t \in Tasks, BrowserStep(t) PROVE BrowserInv'
    BY <2>3, AcquireKeeps, CloseKeeps, QuitKeeps, SpawnKeeps, LaunchKeeps, StartFailsKeeps, EndPageKeeps
       DEF BrowserStep
  <2>4. ASSUME NEW n \in Launches, Dies(n) PROVE BrowserInv'  BY <2>4, DiesKeeps
  <2>5. CASE UNCHANGED browserVars
    BY <2>5 DEF browserVars, codeVars, processVars, BrowserInv, BrowserTypeOK, LockInv, NumbersInv,
       AttributesInv, StagesInv, PagesInv, OneChromiumAtMost, Connected, Stopping
  <2>. QED  BY <2>1, <2>2, <2>3, <2>4, <2>5 DEF BrowserNext
<1>. QED  BY <1>1, <1>2, PTL DEF BrowserSpec

\* The types of the shared browser (ComplaintEmailPdfService) and of its processes.
THEOREM BrowserTypeCorrect == BrowserSpec => []BrowserTypeOK
<1>1. BrowserInv => BrowserTypeOK  BY DEF BrowserInv
<1>. QED  BY <1>1, BrowserInvariant, PTL

\* However requests, the scheduler, failures and the shutdown interleave, at most one
\* Chromium runs, that of _playwright, and none once the lifespan is over, but for those
\* of drivers that would not stop.
THEOREM OneChromium == BrowserSpec => []OneChromiumAtMost
<1>1. BrowserInv => OneChromiumAtMost  BY DEF BrowserInv
<1>. QED  BY <1>1, BrowserInvariant, PTL

\* A browser in use ends only by dying: neither a start, nor the shutdown, nor a
\* cancelled scheduler takes it from under a page.
THEOREM InUseStays == BrowserSpec => BrowserInUseStays
<1>1. BrowserInv /\ [BrowserNext]_browserVars =>
        [ \A t \in Renderers :
            step[t] = "page" /\ held[t] \in chromiums /\ held[t] \notin chromiums'
              => \E n \in Launches : Dies(n) ]_browserVars
  <2>. SUFFICES ASSUME BrowserInv, BrowserNext, NEW t \in Renderers,
                       step[t] = "page", held[t] \in chromiums, held[t] \notin chromiums'
                PROVE  \E n \in Launches : Dies(n)
    OBVIOUS
  <2>0. t \in Tasks /\ t # Server /\ None \notin chromiums
    BY TheTasks DEF BrowserInv, BrowserTypeOK
  <2>1. held[t] = browser /\ browser = driver /\ Connected
    BY <2>0 DEF BrowserInv, PagesInv, AttributesInv, Connected
  <2>2. ASSUME NEW u \in Tasks, Close(u) PROVE FALSE
    <3>1. Stopping(u)  BY <2>1, <2>2 DEF Close, BrowserInv, PagesInv
    <3>. QED  BY <3>1 DEF Stopping, BrowserInv, StagesInv
  <2>3. ASSUME NEW u \in Tasks, Quit(u) PROVE FALSE
    BY <2>0, <2>1, <2>3 DEF Quit, BrowserInv, AttributesInv, Connected
  <2>4. ASSUME Boot \/ StopScheduler \/ StopBrowser \/ Cancelled PROVE FALSE
    BY <2>4 DEF Boot, StopScheduler, StopBrowser, Cancelled, processVars
  <2>5. ASSUME NEW u \in Tasks,
     Acquire(u) \/ Spawn(u) \/ Launch(u) \/ StartFails(u) \/ EndPage(u) \/ Begin(u)
        PROVE  FALSE
    BY <2>5 DEF Acquire, Spawn, Launch, StartFails, EndPage, Begin, processVars
  <2>. QED  BY <2>2, <2>3, <2>4, <2>5, TheTasks DEF BrowserNext, BrowserStep
<1>. QED  BY <1>1, BrowserInvariant, PTL DEF BrowserSpec, BrowserInUseStays
-----------------------------------------------------------------------------
(* The policy sync *)

\* A window reaches back to the end of the one before it.  It ends on the day of the sync
\* by the date of the host, which is the day before where the host is that far behind; at the
\* very hour where its date changes a sync is of either day.  A sync an hour early must not
\* be on another day.
WindowsAbut ==
    /\ Hour[Policy] # 0
    /\ IntervalDays + (IF Hour[Policy] = Behind THEN 1 ELSE 0) <= LookbackDays

\* By how many days a window may end before the day of its sync.
Lag == IF Hour[Policy] > Behind THEN 0 ELSE 1

\* The hour of the policy sync on a day.
HourOf(day) == 24 * day + Hour[Policy]

\* The policy loop sleeps until its hour, and begins then or an hour early.
WakesInv ==
    /\ loop[Policy] # "off" => \E day \in Nat : wake[Policy] = HourOf(day)
    /\ loop[Policy] = "asleep" => now <= wake[Policy]
    /\ Running => began \in {wake[Policy] - 1, wake[Policy]} /\ began <= now

\* While nothing is disturbed, a sync takes at most an hour, and has asked for something.
SyncsInv ==
    ~ disturbed =>
      /\ Running => now <= began + 1
      /\ loop[Policy] = "rest" => asked # {}
      /\ asked = {} => lastSync = Never

\* The days asked for have no gap, and end about `day', that of the last sync.  It wrote its
\* time within the hour, and the next one comes later, and within the interval.
NextSyncFits(first, last, day) ==
    /\ first <= last /\ asked = first..last /\ last \in (day - Lag)..day
    /\ lastSync # Never => lastSync <= HourOf(day) + 1
    /\ HourOf(day) - 1 <= now
    /\ loop[Policy] = "off" => now <= HourOf(day + IntervalDays)
    /\ loop[Policy] \in {"asleep", "search"} => wake[Policy] \in HourOf(day)..HourOf(day + IntervalDays)
    /\ loop[Policy] = "rest" => wake[Policy] = HourOf(day)

DaysInv ==
    ~ disturbed /\ asked # {} => \E first, last \in Int, day \in Nat : NextSyncFits(first, last, day)

ScheduleInv == ScheduleTypeOK /\ WakesInv /\ SyncsInv /\ DaysInv

\* Hours and days.
LEMMA HoursOfDays ==
    /\ Hour[Policy] \in 0..23 /\ IntervalDays \in Nat \ {0} /\ LookbackDays \in Nat \ {0} /\ Behind \in 0..23
    /\ Policy \in Loops
    /\ \A day \in Nat : HourOf(day) \in Nat /\ HourOf(day) \div 24 = day /\ HourOf(day) % 24 = Hour[Policy]
    /\ \A c, d \in Nat : c < d => HourOf(c) + 24 <= HourOf(d)
    /\ \A d, n \in Nat : HourOf(d + n) = HourOf(d) + 24 * n
  BY ScheduleAssumption DEF HourOf, Loops

\* _seconds_until_next_schedule_kst: the next hour of the loop, within a day; no other of
\* its hours is skipped.
LEMMA NextRunIsNext ==
    ASSUME now \in Nat
    PROVE  /\ \A s \in Loops : NextRun(s) \in Nat
           /\ now < NextRun(Policy) /\ NextRun(Policy) <= now + 24
           /\ \E day \in Nat : NextRun(Policy) = HourOf(day)
           /\ \A day \in Nat : now < HourOf(day) => NextRun(Policy) <= HourOf(day)
  <1>1. /\ now \div 24 \in Nat /\ 24 * (now \div 24) <= now /\ now < 24 * (now \div 24) + 24
    OBVIOUS
  <1>2. \A s \in Loops : Hour[s] \in 0..23
    BY ScheduleAssumption
  <1>3. \A s \in Loops : NextRun(s) \in Nat
    BY <1>1, <1>2 DEF NextRun
  <1>4. NextRun(Policy) = IF now >= HourOf(now \div 24) THEN HourOf(now \div 24 + 1) ELSE HourOf(now \div 24)
    BY <1>1, HoursOfDays DEF NextRun, HourOf
  <1>. DEFINE q == now \div 24
  <1>5. /\ q \in Nat /\ q + 1 \in Nat /\ HourOf(q) = 24 * q + Hour[Policy] /\ HourOf(q + 1) = 24 * q + 24 + Hour[Policy]
        /\ 24 * q <= now /\ now < 24 * q + 24 /\ Hour[Policy] \in 0..23
        /\ NextRun(Policy) = IF now >= HourOf(q) THEN HourOf(q + 1) ELSE HourOf(q)
    BY <1>1, <1>4, HoursOfDays DEF HourOf
  <1>. HIDE DEF q
  <1>6. now < NextRun(Policy) /\ NextRun(Policy) <= now + 24 /\ \E day \in Nat : NextRun(Policy) = HourOf(day)
    BY <1>5
  <1>7. ASSUME NEW day \in Nat, now < HourOf(day)
        PROVE  NextRun(Policy) <= HourOf(day)
    <2>1. HourOf(day) = 24 * day + Hour[Policy]
      BY DEF HourOf
    <2>2. q <= day /\ (now >= HourOf(q) => q + 1 <= day)
      BY <1>5, <1>7, <2>1
    <2>. QED BY <1>5, <2>1, <2>2
  <1>. QED BY <1>3, <1>6, <1>7

\* The first day of a range.
LEMMA MinOfRange ==
    ASSUME NEW lo \in Int, NEW hi \in Int, lo <= hi
    PROVE  Min(lo..hi) = lo
  <1>1. lo \in lo..hi /\ \A y \in lo..hi : lo <= y
    OBVIOUS
  <1>2. \A x \in lo..hi : (\A y \in lo..hi : x <= y) => x = lo
    BY <1>1
  <1>. QED BY <1>1, <1>2 DEF Min

\* iter_date_chunks leaves out no day.
LEMMA ChunksCover ==
    ASSUME NEW lo \in Int, NEW hi \in Int, lo <= hi
    PROVE  UNION Chunks(lo..hi) = lo..hi
  <1>1. Min(lo..hi) = lo
    BY MinOfRange
  <1>2. UNION Chunks(lo..hi) \subseteq lo..hi
    BY DEF Chunks
  <1>3. ASSUME NEW d \in lo..hi
        PROVE  d \in UNION Chunks(lo..hi)
    <2>. DEFINE first == d - ((d - lo) % 3)
    <2>1. first \in lo..hi /\ (first - lo) % 3 = 0 /\ d >= first /\ d < first + 3
      OBVIOUS
    <2>. HIDE DEF first
    <2>2. {e \in lo..hi : e >= first /\ e < first + ChunkDays} \in Chunks(lo..hi)
      BY <1>1, <2>1 DEF Chunks, ChunkDays
    <2>3. d \in {e \in lo..hi : e >= first /\ e < first + ChunkDays}
      BY <2>1 DEF ChunkDays
    <2>. QED BY <2>2, <2>3
  <1>. QED BY <1>2, <1>3

\* What a sync that begins at the hour of `day', or an hour early, asks for.
LEMMA WindowReaches ==
    ASSUME WindowsAbut, NEW day \in Nat, NEW time \in Int, time \in {HourOf(day) - 1, HourOf(day)}
    PROVE  \E first, last \in Int : /\ first <= last /\ last \in (day - Lag)..day
                                    /\ first <= day - Lag - IntervalDays + 1
                                    /\ UNION Chunks(Window(time)) = first..last
  <1>. DEFINE today == (time - Behind) \div 24
              first == today - LookbackDays + 1
  <1>1. /\ Hour[Policy] \in 1..23 /\ Behind \in 0..23 /\ LookbackDays \in Nat \ {0} /\ IntervalDays \in Nat \ {0}
        /\ IntervalDays + (IF Hour[Policy] = Behind THEN 1 ELSE 0) <= LookbackDays
        /\ time \in {24 * day + Hour[Policy] - 1, 24 * day + Hour[Policy]}
    <2>1. /\ Hour[Policy] \in 0..23 /\ Behind \in 0..23 /\ LookbackDays \in Nat \ {0}
          /\ IntervalDays \in Nat \ {0}
      BY HoursOfDays
    <2>2. Hour[Policy] # 0 /\ IntervalDays + (IF Hour[Policy] = Behind THEN 1 ELSE 0) <= LookbackDays
      BY DEF WindowsAbut
    <2>3. time \in {24 * day + Hour[Policy] - 1, 24 * day + Hour[Policy]}
      BY <2>1 DEF HourOf
    <2>. QED BY <2>1, <2>2, <2>3
  <1>2. today \in {day - 1, day} /\ (Hour[Policy] < Behind => today = day - 1) /\ (Hour[Policy] > Behind => today = day)
    <2>1. /\ 24 * (day - 1) <= time - Behind /\ time - Behind < 24 * day + 24
          /\ (Hour[Policy] < Behind => time - Behind < 24 * day)
          /\ (Hour[Policy] > Behind => time - Behind >= 24 * day)
      BY <1>1
    <2>2. today \in Int /\ 24 * today <= time - Behind /\ time - Behind < 24 * today + 24
      BY <1>1
    <2>. HIDE DEF today
    <2>. QED BY <2>1, <2>2, <1>1
  <1>3. Window(time) = first..today
    BY DEF Window
  <1>. HIDE DEF today
  <1>4. /\ today \in Int /\ first \in Int /\ first <= today /\ today \in (day - Lag)..day
        /\ first <= day - Lag - IntervalDays + 1
    BY <1>1, <1>2 DEF Lag
  <1>. HIDE DEF first
  <1>5. UNION Chunks(Window(time)) = first..today
    BY <1>3, <1>4, ChunksCover
  <1>. QED BY <1>4, <1>5

\* Days are numbers, and those that are over were asked for.
LEMMA DaysAreNumbers ==
    ASSUME NEW time
    PROVE  /\ Window(time) \subseteq Int /\ UNION Chunks(Window(time)) \subseteq Int
           /\ \A days : Over(days, time) \subseteq days
  <1>1. Window(time) \subseteq Int
    BY DEF Window
  <1>2. \A c \in Chunks(Window(time)) : c \subseteq Window(time)
    BY DEF Chunks
  <1>3. \A days : Over(days, time) \subseteq days
    BY DEF Over
  <1>. QED BY <1>1, <1>2, <1>3

\* Types, and what the policy loop is at, after every step.
LEMMA ScheduleTypeStep == ScheduleTypeOK /\ WakesInv /\ [ScheduleNext]_scheduleVars => ScheduleTypeOK'
  <1>. SUFFICES ASSUME ScheduleTypeOK, WakesInv, [ScheduleNext]_scheduleVars PROVE ScheduleTypeOK'
    OBVIOUS
  <1>. USE ScheduleAssumption DEF ScheduleTypeOK
  <1>1. /\ now \in Nat /\ \A s \in Loops : NextRun(s) \in Nat
    BY NextRunIsNext
  <1>2. Policy \in Loops /\ Policy \notin Others
    BY DEF Loops
  <1>3. CASE UNCHANGED scheduleVars
    BY <1>3 DEF scheduleVars, Running
  <1>4. CASE StartLoops
    BY <1>1, <1>2, <1>4 DEF StartLoops, Running
  <1>5. CASE StopLoops
    BY <1>2, <1>5 DEF StopLoops, Trouble, Running
  <1>6. CASE WakePolicy
    BY <1>1, <1>2, <1>6 DEF WakePolicy, Trouble, Running
  <1>7. CASE Search
    <2>1. /\ now' = now /\ wake' = wake /\ began' = began /\ lastSync' = lastSync
          /\ loop' = [loop EXCEPT ![Policy] = "rest"] /\ loop[Policy] = "search"
          /\ disturbed' \in BOOLEAN /\ troubles' \in 0..MaxTroubles
      BY <1>7 DEF Search, Trouble
    <2>2. began \in Nat /\ began <= now
      BY <2>1 DEF Running, WakesInv
    <2>3. \A d \in fetched' : d \in fetched \/ 24 * (d + 1) <= began
      BY <1>7 DEF Search, Over
    <2>4. \A d \in fetched' : 24 * (d + 1) <= now
      <3>. SUFFICES ASSUME NEW d \in fetched' PROVE 24 * (d + 1) <= now
        OBVIOUS
      <3>1. CASE d \in fetched
        BY <3>1
      <3>2. CASE d \notin fetched
        <4>1. d \in Int
          BY <1>7, <3>2 DEF Search, Over, Chunks, Window
        <4>. QED BY <2>2, <2>3, <3>2, <4>1
      <3>. QED BY <3>1, <3>2
    <2>5. asked' \subseteq Int /\ fetched' \subseteq asked'
      <3>1. PICK failed : /\ asked' = asked \cup UNION (Chunks(Window(began)) \ failed)
                          /\ fetched' = fetched \cup UNION {Over(c, began) : c \in Chunks(Window(began)) \ failed}
        BY <1>7 DEF Search
      <3>2. asked \subseteq Int /\ fetched \subseteq asked
        OBVIOUS
      <3>3. UNION Chunks(Window(began)) \subseteq Int /\ \A c : Over(c, began) \subseteq c
        BY DaysAreNumbers
      <3>. HIDE DEF ScheduleTypeOK
      <3>4. asked' \subseteq Int
        BY <3>1, <3>2, <3>3
      <3>5. fetched' \subseteq asked'
        BY <3>1, <3>2, <3>3
      <3>. QED BY <3>4, <3>5
    <2>. QED BY <1>2, <2>1, <2>4, <2>5 DEF Running
  <1>8. CASE SyncEnds
    BY <1>1, <1>2, <1>8 DEF SyncEnds, Running
  <1>9. CASE SyncFails
    BY <1>1, <1>2, <1>9 DEF SyncFails, Trouble, Running
  <1>10. CASE SyncByHand
    <2>1. \A d \in fetched' : 24 * (d + 1) <= now
      BY <1>10 DEF SyncByHand, Over
    <2>2. asked' \subseteq Int /\ fetched' \subseteq asked'
      <3>1. asked' = asked \cup Window(now) /\ fetched' = fetched \cup Over(Window(now), now)
        BY <1>10 DEF SyncByHand
      <3>2. Window(now) \subseteq Int /\ Over(Window(now), now) \subseteq Window(now)
        BY DaysAreNumbers
      <3>. QED BY <3>1, <3>2
    <2>. QED BY <1>10, <2>1, <2>2 DEF SyncByHand, Trouble, Running
  <1>11. CASE Tick
    <2>1. \A d \in fetched : 24 * (d + 1) <= now + 1
      <3>1. \A d \in fetched : d \in Int /\ 24 * (d + 1) <= now
        OBVIOUS
      <3>. QED BY <1>1, <3>1
    <2>. QED BY <1>11, <2>1 DEF Tick, Trouble, Running
  <1>12. ASSUME NEW s \in Others, WakeOther(s)
        PROVE  ScheduleTypeOK'
    BY <1>1, <1>12 DEF WakeOther, Loops, Running
  <1>. QED BY <1>3, <1>4, <1>5, <1>6, <1>7, <1>8, <1>9, <1>10, <1>11, <1>12 DEF ScheduleNext

\* And the hours it wakes at.
LEMMA WakesStep == ScheduleTypeOK /\ WakesInv /\ [ScheduleNext]_scheduleVars => WakesInv'
  <1>. SUFFICES ASSUME ScheduleTypeOK, WakesInv, [ScheduleNext]_scheduleVars PROVE WakesInv'
    OBVIOUS
  <1>. USE ScheduleAssumption DEF ScheduleTypeOK, WakesInv, Running
  <1>1. /\ now \in Nat /\ NextRun(Policy) \in Nat /\ now < NextRun(Policy)
        /\ \E day \in Nat : NextRun(Policy) = HourOf(day)
    BY NextRunIsNext DEF Loops
  <1>2. Policy \in Loops /\ Policy \notin Others
    BY DEF Loops
  <1>3. CASE UNCHANGED scheduleVars
    BY <1>3 DEF scheduleVars
  <1>4. CASE StartLoops
    BY <1>1, <1>2, <1>4 DEF StartLoops
  <1>5. CASE StopLoops
    BY <1>2, <1>5 DEF StopLoops
  <1>6. CASE WakePolicy
    BY <1>1, <1>2, <1>6 DEF WakePolicy
  <1>7. CASE Search
    BY <1>2, <1>7 DEF Search
  <1>8. CASE SyncEnds
    BY <1>1, <1>2, <1>8 DEF SyncEnds
  <1>9. CASE SyncFails
    BY <1>1, <1>2, <1>9 DEF SyncFails
  <1>10. CASE SyncByHand
    BY <1>10 DEF SyncByHand
  <1>11. CASE Tick
    BY <1>2, <1>11 DEF Tick
  <1>12. ASSUME NEW s \in Others, WakeOther(s)
        PROVE  WakesInv'
    BY <1>2, <1>12 DEF WakeOther
  <1>. QED BY <1>3, <1>4, <1>5, <1>6, <1>7, <1>8, <1>9, <1>10, <1>11, <1>12 DEF ScheduleNext

\* While nothing is disturbed: syncs are short, and each asks for something.
LEMMA SyncsStep ==
    ScheduleTypeOK /\ WakesInv /\ SyncsInv /\ WindowsAbut /\ [ScheduleNext]_scheduleVars => SyncsInv'
  <1>. SUFFICES ASSUME ScheduleTypeOK, WakesInv, SyncsInv, WindowsAbut, [ScheduleNext]_scheduleVars,
                       ~ disturbed'
                PROVE  SyncsInv'
    BY DEF SyncsInv
  <1>. USE DEF ScheduleTypeOK, SyncsInv, Running
  <1>1. Policy \in Loops /\ Policy \notin Others
    BY ScheduleAssumption DEF Loops
  <1>2. now \in Nat /\ Never \notin Nat
    BY ScheduleAssumption
  <1>3. CASE UNCHANGED scheduleVars
    BY <1>3 DEF scheduleVars
  <1>4. CASE StartLoops
    BY <1>1, <1>4 DEF StartLoops
  <1>5. CASE StopLoops
    BY <1>1, <1>5 DEF StopLoops
  <1>6. CASE WakePolicy
    BY <1>1, <1>2, <1>6 DEF WakePolicy
  <1>7. CASE Search
    <2>1. ~ disturbed /\ loop[Policy] = "search" /\ UNCHANGED <<now, began>>
          /\ asked' = asked \cup UNION Chunks(Window(began))
      BY <1>7 DEF Search
    <2>2. \E day \in Nat : began \in {HourOf(day) - 1, HourOf(day)} /\ began \in Int
      BY <2>1, <1>2 DEF WakesInv
    <2>3. UNION Chunks(Window(began)) # {}
      <3>1. PICK first, last \in Int : first <= last /\ UNION Chunks(Window(began)) = first..last
        BY <2>2, WindowReaches
      <3>2. first \in first..last
        BY <3>1
      <3>. QED BY <3>1, <3>2
    <2>. QED BY <1>1, <1>7, <2>1, <2>3 DEF Search
  <1>8. CASE SyncEnds
    BY <1>1, <1>8 DEF SyncEnds
  <1>9. CASE SyncFails
    BY <1>1, <1>9 DEF SyncFails
  <1>10. CASE SyncByHand
    BY <1>10 DEF SyncByHand
  <1>11. CASE Tick
    <2>1. ~ disturbed /\ now' = now + 1 /\ UNCHANGED <<loop, began, lastSync, asked>>
      BY <1>11 DEF Tick
    <2>2. Running => began \in Nat /\ ~ (now > began)
      BY <1>11 DEF Tick
    <2>3. Running => now + 1 <= began + 1
      BY <1>2, <2>2
    <2>. QED BY <2>1, <2>3
  <1>12. ASSUME NEW s \in Others, WakeOther(s)
         PROVE  SyncsInv'
    BY <1>1, <1>12 DEF WakeOther
  <1>. QED BY <1>3, <1>4, <1>5, <1>6, <1>7, <1>8, <1>9, <1>10, <1>11, <1>12 DEF ScheduleNext

\* The sync that is at work, or is next, is due by then.
LEMMA DueInTime ==
    ASSUME ScheduleTypeOK, NEW first \in Int, NEW last \in Int, NEW day \in Nat,
           NextSyncFits(first, last, day),
           now = HourOf(day + IntervalDays)
    PROVE  Due
  <1>1. HourOf(day + IntervalDays) = HourOf(day) + 24 * IntervalDays /\ HourOf(day) \in Nat /\ IntervalDays \in Nat
    BY HoursOfDays
  <1>2. CASE lastSync = Never
    BY <1>2 DEF Due
  <1>3. CASE lastSync # Never
    BY <1>1, <1>3 DEF NextSyncFits, Due, ScheduleTypeOK
  <1>. QED BY <1>2, <1>3

\* What was true of the days asked for stays true unless a search adds to them.
LEMMA DaysStep ==
    ScheduleTypeOK /\ WakesInv /\ SyncsInv /\ DaysInv /\ WindowsAbut /\ [ScheduleNext]_scheduleVars => DaysInv'
  <1>. SUFFICES ASSUME ScheduleTypeOK, WakesInv, SyncsInv, DaysInv, WindowsAbut, [ScheduleNext]_scheduleVars,
                       ~ disturbed', asked' # {}
                PROVE  \E first, last \in Int, day \in Nat : NextSyncFits(first, last, day)'
    BY DEF DaysInv
  <1>1. Policy \in Loops /\ Policy \notin Others /\ now \in Nat /\ IntervalDays \in Nat \ {0} /\ Hour[Policy] \in 0..23
    BY HoursOfDays, ScheduleAssumption DEF ScheduleTypeOK
  <1>2. /\ now < NextRun(Policy) /\ NextRun(Policy) \in Nat
        /\ \A day \in Nat : now < HourOf(day) => NextRun(Policy) <= HourOf(day)
    BY <1>1, NextRunIsNext
  <1>3. ~ disturbed
    BY DEF ScheduleNext, scheduleVars, StartLoops, StopLoops, WakePolicy, Search, SyncEnds, SyncFails, SyncByHand, Tick,
           WakeOther, ScheduleTypeOK
  <1>4. CASE Search
    <2>1. /\ loop[Policy] = "search" /\ loop'[Policy] = "rest" /\ UNCHANGED <<now, wake, began, lastSync>>
          /\ asked' = asked \cup UNION Chunks(Window(began))
      BY <1>1, <1>4 DEF Search, ScheduleTypeOK
    <2>2. began \in {wake[Policy] - 1, wake[Policy]} /\ began \in Int /\ began <= now
      BY <1>1, <2>1 DEF WakesInv, Running, ScheduleTypeOK
    <2>3. PICK day \in Nat : wake[Policy] = HourOf(day)
      BY <2>1 DEF WakesInv
    <2>4. PICK first, last \in Int : /\ first <= last /\ last \in (day - Lag)..day
                                     /\ first <= day - Lag - IntervalDays + 1
                                     /\ UNION Chunks(Window(began)) = first..last
      BY <2>2, <2>3, WindowReaches
    <2>5. Lag \in {0, 1}
      BY DEF Lag
    <2>6. ASSUME NEW f \in Int, NEW l \in Int, NEW d \in Nat, NextSyncFits(f, l, d)
          PROVE  d <= day /\ day <= d + IntervalDays
      <3>1. HourOf(day) \in HourOf(d)..HourOf(d + IntervalDays)
        BY <2>1, <2>3, <2>6 DEF NextSyncFits
      <3>. QED BY <1>1, <3>1 DEF HourOf
    <2>7. lastSync # Never => lastSync <= HourOf(day) + 1
      <3>1. CASE asked = {}
        BY <1>3, <3>1 DEF SyncsInv
      <3>2. CASE asked # {}
        <4>1. PICK f, l \in Int, d \in Nat : NextSyncFits(f, l, d)
          BY <1>3, <3>2 DEF DaysInv
        <4>2. HourOf(d) <= HourOf(day) /\ HourOf(d) \in Nat /\ HourOf(day) \in Nat
          <5>1. d <= day
            BY <2>6, <4>1
          <5>. QED BY <1>1, <5>1 DEF HourOf
        <4>3. (lastSync # Never => lastSync <= HourOf(d) + 1) /\ (lastSync # Never => lastSync \in Nat)
          BY <4>1 DEF NextSyncFits, ScheduleTypeOK
        <4>. QED BY <4>2, <4>3
      <3>. QED BY <3>1, <3>2
    <2>8. \E f, l \in Int : f <= l /\ l \in (day - Lag)..day /\ asked' = f..l
      <3>1. CASE asked = {}
        BY <2>1, <2>4, <3>1
      <3>2. CASE asked # {}
        <4>1. PICK f, l \in Int, d \in Nat : NextSyncFits(f, l, d)
          BY <1>3, <3>2 DEF DaysInv
        <4>2. f <= l /\ asked = f..l /\ l \in (d - Lag)..d
          BY <4>1 DEF NextSyncFits
        <4>3. d <= day /\ day <= d + IntervalDays
          BY <2>6, <4>1
        <4>4. first <= l + 1 /\ f <= last + 1 /\ l <= day
          BY <1>1, <2>4, <2>5, <4>2, <4>3
        <4>. DEFINE lo == IF first <= f THEN first ELSE f
                    hi == IF last >= l THEN last ELSE l
        <4>5. asked' = (f..l) \cup (first..last)
          BY <2>1, <2>4, <4>2
        <4>6. (f..l) \cup (first..last) = lo..hi
          BY <2>4, <4>2, <4>4
        <4>7. lo \in Int /\ hi \in Int /\ lo <= hi /\ hi \in (day - Lag)..day
          BY <2>4, <2>5, <4>2, <4>4
        <4>. HIDE DEF lo, hi
        <4>. QED BY <4>5, <4>6, <4>7
      <3>. QED BY <3>1, <3>2
    <2>9. PICK f, l \in Int : f <= l /\ l \in (day - Lag)..day /\ asked' = f..l
      BY <2>8
    <2>10. HourOf(day) - 1 <= now
      BY <1>1, <2>2, <2>3 DEF HourOf
    <2>11. NextSyncFits(f, l, day)'
      <3>1. Lag' = Lag /\ HourOf(day)' = HourOf(day)
        BY DEF Lag, HourOf
      <3>. QED BY <2>1, <2>3, <2>7, <2>9, <2>10, <3>1 DEF NextSyncFits
    <2>. QED BY <2>11
  <1>5. CASE ~ Search
    <2>1. asked' = asked
      BY <1>5 DEF ScheduleNext, scheduleVars, StartLoops, StopLoops, WakePolicy, SyncEnds, SyncFails, SyncByHand, Tick,
                  WakeOther
    <2>2. PICK first, last \in Int, day \in Nat : NextSyncFits(first, last, day)
      BY <1>3, <2>1 DEF DaysInv
    <2>3. /\ HourOf(day + IntervalDays) = HourOf(day) + 24 * IntervalDays /\ HourOf(day) \in Nat
          /\ HourOf(day + IntervalDays) \in Nat /\ HourOf(day + IntervalDays) % 24 = Hour[Policy]
      <3>1. HourOf(day + IntervalDays) = HourOf(day) + 24 * IntervalDays /\ HourOf(day) \in Nat
        BY <1>1, HoursOfDays
      <3>2. day + IntervalDays \in Nat
        BY <1>1
      <3>3. HourOf(day + IntervalDays) \in Nat /\ HourOf(day + IntervalDays) % 24 = Hour[Policy]
        BY <3>2, HoursOfDays
      <3>. QED BY <3>1, <3>3
    <2>4. now = HourOf(day + IntervalDays) => Due
      BY <2>2, DueInTime
    <2>5. now < HourOf(day + IntervalDays) => NextRun(Policy) <= HourOf(day + IntervalDays)
      BY <1>1, <1>2
    <2>14. HourOf(day) <= NextRun(Policy)
      <3>1. HourOf(day) - 1 <= now
        BY <2>2 DEF NextSyncFits
      <3>. QED BY <1>1, <1>2, <2>3, <3>1
    <2>15. first <= last /\ asked' = first..last /\ last \in (day - Lag)..day /\ HourOf(day) - 1 <= now
      BY <2>1, <2>2 DEF NextSyncFits
    <2>. DEFINE Fits == /\ lastSync' # Never => lastSync' <= HourOf(day) + 1
                        /\ HourOf(day) - 1 <= now'
                        /\ loop'[Policy] = "off" => now' <= HourOf(day + IntervalDays)
                        /\ loop'[Policy] \in {"asleep", "search"} =>
                               wake'[Policy] \in HourOf(day)..HourOf(day + IntervalDays)
                        /\ loop'[Policy] = "rest" => wake'[Policy] = HourOf(day)
    <2>16. SUFFICES Fits
      <3>1. (HourOf(day) = HourOf(day)') /\ (HourOf(day + IntervalDays) = HourOf(day + IntervalDays)') /\ Lag = Lag'
        BY DEF HourOf, Lag
      <3>2. ASSUME Fits PROVE NextSyncFits(first, last, day)'
        BY <2>15, <3>1, <3>2 DEF NextSyncFits
      <3>. QED BY <3>2
    <2>. USE DEF NextSyncFits, ScheduleTypeOK
    <2>6. CASE UNCHANGED scheduleVars
      BY <2>2, <2>6 DEF scheduleVars
    <2>7. CASE StartLoops
      <3>1. now # HourOf(day + IntervalDays) /\ loop[Policy] = "off"
        BY <1>1, <2>1, <2>3, <2>4, <2>7 DEF StartLoops, Missed
      <3>2. now < HourOf(day + IntervalDays)
        BY <1>1, <2>2, <2>3, <3>1
      <3>3. loop'[Policy] = "asleep" /\ wake'[Policy] = NextRun(Policy) /\ UNCHANGED <<now, lastSync>>
        BY <1>1, <2>7 DEF StartLoops
      <3>4. NextRun(Policy) \in HourOf(day)..HourOf(day + IntervalDays)
        BY <1>2, <2>3, <2>5, <2>14, <3>2
      <3>. QED BY <2>2, <2>15, <3>3, <3>4
    <2>8. CASE StopLoops
      <3>1. loop[Policy] \in {"off", "asleep", "rest"} /\ loop'[Policy] = "off" /\ UNCHANGED <<now, wake, lastSync>>
        BY <1>1, <2>8 DEF StopLoops
      <3>2. now <= HourOf(day + IntervalDays)
        <4>1. CASE loop[Policy] = "off"
          BY <2>2, <4>1
        <4>2. CASE loop[Policy] = "asleep"
          BY <1>1, <2>2, <2>3, <4>2 DEF WakesInv
        <4>3. CASE loop[Policy] = "rest"
          BY <1>1, <1>3, <2>2, <2>3, <4>3 DEF WakesInv, SyncsInv, Running
        <4>. QED BY <3>1, <4>1, <4>2, <4>3
      <3>. QED BY <2>1, <2>2, <3>1, <3>2
    <2>9. CASE WakePolicy
      <3>1. loop[Policy] = "asleep" /\ now \in {wake[Policy], wake[Policy] - 1} /\ UNCHANGED <<now, lastSync>>
        BY <2>9 DEF WakePolicy
      <3>2. CASE Due
        BY <1>1, <2>1, <2>2, <2>9, <3>1, <3>2 DEF WakePolicy
      <3>3. CASE ~ Due
        <4>1. now < HourOf(day + IntervalDays)
          BY <1>1, <2>2, <2>3, <2>4, <3>1, <3>3
        <4>2. loop'[Policy] = "asleep" /\ wake'[Policy] = NextRun(Policy)
          BY <1>1, <2>9, <3>1, <3>3 DEF WakePolicy
        <4>3. NextRun(Policy) \in HourOf(day)..HourOf(day + IntervalDays)
          BY <1>2, <2>3, <2>5, <2>14, <4>1
        <4>. QED BY <2>2, <2>15, <3>1, <4>2, <4>3
      <3>. QED BY <3>2, <3>3
    <2>10. CASE SyncEnds \/ SyncFails
      <3>1. loop[Policy] = "rest"
        BY <1>3, <2>10 DEF SyncEnds, SyncFails, Running
      <3>2. wake[Policy] = HourOf(day) /\ now <= HourOf(day) + 1
        BY <1>1, <1>3, <2>2, <2>3, <3>1 DEF WakesInv, SyncsInv, Running
      <3>3. now < HourOf(day + IntervalDays)
        BY <1>1, <2>3, <3>2
      <3>4. loop'[Policy] = "asleep" /\ wake'[Policy] = NextRun(Policy) /\ lastSync' \in {lastSync, now}
        BY <1>1, <2>10 DEF SyncEnds, SyncFails
      <3>5. NextRun(Policy) \in HourOf(day)..HourOf(day + IntervalDays)
        BY <1>2, <2>3, <2>5, <2>14, <3>3
      <3>6. now' = now
        BY <2>10 DEF SyncEnds, SyncFails
      <3>. QED BY <2>2, <2>15, <3>2, <3>4, <3>5, <3>6
    <2>11. CASE SyncByHand
      BY <2>11 DEF SyncByHand
    <2>12. CASE Tick
      <3>1. UNCHANGED <<loop, wake, lastSync>> /\ now' = now + 1
        BY <2>12 DEF Tick
      <3>2. ASSUME loop[Policy] = "off"
            PROVE  now + 1 <= HourOf(day + IntervalDays)
        <4>1. now # HourOf(day + IntervalDays)
          BY <1>1, <2>1, <2>3, <2>4, <2>12, <3>2 DEF Tick, Missed
        <4>. QED BY <1>1, <2>2, <2>3, <3>2, <4>1
      <3>. QED BY <1>1, <2>1, <2>2, <2>3, <3>1, <3>2
    <2>13. ASSUME NEW s \in Others, WakeOther(s)
           PROVE  Fits
      BY <1>1, <2>1, <2>2, <2>13 DEF WakeOther
    <2>. QED BY <1>5, <2>6, <2>7, <2>8, <2>9, <2>10, <2>11, <2>12, <2>13 DEF ScheduleNext
  <1>. QED BY <1>4, <1>5

\* The invariant is inductive where the windows abut.
LEMMA ScheduleStep == WindowsAbut /\ ScheduleInv /\ [ScheduleNext]_scheduleVars => ScheduleInv'
  BY ScheduleTypeStep, WakesStep, SyncsStep, DaysStep DEF ScheduleInv

\* It holds before anything was asked for.
LEMMA ScheduleStart == ScheduleInit => ScheduleInv
  <1>. SUFFICES ASSUME ScheduleInit PROVE ScheduleInv
    OBVIOUS
  <1>. USE ScheduleAssumption DEF ScheduleInit
  <1>1. Policy \in Loops /\ now \in Nat
    BY DEF Loops
  <1>2. ScheduleTypeOK
    <2>1. loop \in [Loops -> {"off", "asleep", "search", "rest"}] /\ wake \in [Loops -> Nat] /\ ~ Running
      BY <1>1 DEF Running
    <2>2. began = Never /\ lastSync = Never /\ asked = {} /\ fetched = {} /\ troubles = 0 /\ MaxTroubles \in Nat
      OBVIOUS
    <2>3. disturbed \in BOOLEAN
      BY Zenon
    <2>. QED BY <1>1, <2>1, <2>2, <2>3 DEF ScheduleTypeOK
  <1>3. WakesInv /\ SyncsInv /\ DaysInv
    BY <1>1 DEF WakesInv, SyncsInv, DaysInv, Running
  <1>. QED BY <1>2, <1>3 DEF ScheduleInv

\* A day is overdue only if it was asked for.
LEMMA EveryDayIsAskedFor ==
    ASSUME ScheduleInv, WindowsAbut
    PROVE  SteadySyncsAskForEveryDay
  <1>. SUFFICES ASSUME ~ disturbed, asked # {}, NEW d \in FirstDay..LastDay, d >= Min(asked),
                       now > 24 * (d + IntervalDays) + Hour[Policy] + 1
                PROVE  d \in asked
    BY DEF SteadySyncsAskForEveryDay
  <1>1. PICK first, last \in Int, day \in Nat : NextSyncFits(first, last, day)
    BY DEF ScheduleInv, DaysInv
  <1>2. first <= last /\ asked = first..last /\ last \in (day - Lag)..day /\ Lag \in {0, 1}
    BY <1>1 DEF NextSyncFits, Lag
  <1>3. Min(asked) = first
    BY <1>2, MinOfRange
  <1>4. /\ now \in Nat /\ IntervalDays \in Nat \ {0} /\ Hour[Policy] \in 0..23
        /\ HourOf(day) = 24 * day + Hour[Policy]
        /\ HourOf(day + IntervalDays) = HourOf(day) + 24 * IntervalDays
        /\ Policy \in Loops /\ d \in Nat
    BY HoursOfDays, ScheduleAssumption DEF HourOf, ScheduleInv, ScheduleTypeOK
  <1>5. now <= HourOf(day + IntervalDays) + 1
    <2>. DEFINE due == HourOf(day + IntervalDays)
    <2>1. due \in Nat /\ HourOf(day) \in Nat /\ HourOf(day) <= due
      BY <1>4
    <2>2. /\ loop[Policy] \in {"off", "asleep", "search", "rest"} /\ wake[Policy] \in Nat
          /\ loop[Policy] = "asleep" => now <= wake[Policy]
          /\ loop[Policy] \in {"search", "rest"} => now <= wake[Policy] + 1
      <3>1. loop[Policy] \in {"off", "asleep", "search", "rest"} /\ wake[Policy] \in Nat
        BY <1>4 DEF ScheduleInv, ScheduleTypeOK
      <3>2. loop[Policy] = "asleep" => now <= wake[Policy]
        BY DEF ScheduleInv, WakesInv
      <3>3. Running => began \in {wake[Policy] - 1, wake[Policy]} /\ now <= began + 1
        BY DEF ScheduleInv, WakesInv, SyncsInv
      <3>. QED BY <1>4, <3>1, <3>2, <3>3 DEF Running
    <2>3. /\ loop[Policy] = "off" => now <= due
          /\ loop[Policy] \in {"asleep", "search"} => wake[Policy] <= due
          /\ loop[Policy] = "rest" => wake[Policy] = HourOf(day)
      BY <1>1 DEF NextSyncFits
    <2>. HIDE DEF due
    <2>4. now <= due + 1
      BY <1>4, <2>1, <2>2, <2>3
    <2>. QED BY <2>4 DEF due
  <1>6. d <= day - 1
    BY <1>4, <1>5
  <1>7. d <= last
    BY <1>2, <1>4, <1>6
  <1>. QED BY <1>2, <1>3, <1>4, <1>7

\* Once the news were asked for, every later day is asked for within the interval of its end,
\* whatever restarts, early wake-ups and failures after the search there are; provided the
\* look-back is as long as the interval, and longer where the host's date changes at the hour
\* of the sync.
THEOREM EveryDayAskedFor == ASSUME WindowsAbut PROVE ScheduleSpec => []SteadySyncsAskForEveryDay
  <1>1. ScheduleInit => ScheduleInv
    BY ScheduleStart
  <1>2. ScheduleInv /\ [ScheduleNext]_scheduleVars => ScheduleInv'
    BY ScheduleStep
  <1>3. ScheduleInv => SteadySyncsAskForEveryDay
    BY EveryDayIsAskedFor
  <1>. QED BY <1>1, <1>2, <1>3, PTL DEF ScheduleSpec
-----------------------------------------------------------------------------
(* The load of past complaints *)

\* What the table holds, what the run holds for it, and both.
Inserted == {i \in DOMAIN rows : table[i] > 0}
Held == batch \cup Batches(DOMAIN tasks)
Known == Inserted \cup Held
Ids(lines) == {rows[i].id : i \in lines}

\* The line a run that failed is resumed at.
Base == offset + printed

\* What a load is made of.
TaskSteps == {"waiting", "inserting", "ok", "error", "taken"}

LoadTypes ==
    /\ Len(rows) \in Nat /\ DOMAIN rows = 1..Len(rows)
    /\ workers \in Nat \ {0}
    /\ phase \in {"idle", "reading", "inserting", "queueing", "draining", "gathering", "done", "failed"}
    /\ offset \in Nat /\ pos \in 0..Len(rows) /\ Base \in 0..pos
    /\ inserted \in Int /\ skipped \in Int /\ printed \in Int /\ runs \in Nat
    /\ batch \in SUBSET DOMAIN rows
    /\ tasks \in Seq([batch : SUBSET DOMAIN rows, step : TaskSteps])
    /\ table \in [DOMAIN rows -> Nat]
    /\ unsure \in BOOLEAN

\* What each phase of a run tells of the rest.
PhasesInv ==
    /\ phase \in {"idle", "reading", "gathering", "done"} => batch = {}
    /\ phase = "idle" => Inserted = {} /\ tasks = << >>
    /\ phase = "idle" <=> runs = 0
    /\ phase = "inserting" => workers = 1 /\ (Cardinality(batch) = BatchSize \/ pos = Len(rows))
    /\ phase \in {"queueing", "draining", "gathering"} => workers # 1
    /\ phase \in {"gathering", "done"} => pos = Len(rows)
    /\ phase = "done" => DOMAIN tasks = At("ok") \cup At("taken")
    /\ workers = 1 => tasks = << >>
    /\ workers # 1 => offset = 0 /\ printed = 0

\* A run of one worker counts every line it read.
CountsInv ==
    workers = 1 =>
        /\ phase = "reading" => Base = pos /\ offset + inserted + skipped = pos
        /\ phase = "inserting" => offset + inserted + skipped + Cardinality(batch) = pos
        /\ batch \cap (1..Base) = {}

\* What a run of one worker inserted is before the line it would be resumed at,
ResumesInv == workers = 1 /\ phase # "done" => Inserted \subseteq 1..Base

\* tasks share no row, and the table has what those that ended inserted,
TasksInv ==
    /\ \A k \in DOMAIN tasks : tasks[k].batch \cap batch = {}
    /\ \A j, k \in DOMAIN tasks : j # k => tasks[j].batch \cap tasks[k].batch = {}
    /\ workers # 1 => Inserted \subseteq Batches(At("ok") \cup At("taken") \cup At("error"))
    /\ Batches(At("ok") \cup At("taken")) \subseteq Inserted

\* and what was read is known by its id, and what a run may go on from is inserted;
KnownInv ==
    /\ Known \subseteq 1..pos
    /\ \A i \in Known : Usable(i)
    /\ \A i \in 1..pos : Usable(i) => rows[i].id \in Ids(Known)
    /\ \A i \in 1..Base : Usable(i) => rows[i].id \in Ids(Inserted)
    /\ seen \subseteq Ids(Known)
    /\ runs <= 1 => Ids(Known) \subseteq seen /\ \A i, j \in Known : rows[i].id = rows[j].id => i = j

\* all of it as long as no run ended unsure of the table.
SureInv ==
    /\ \A i \in DOMAIN rows : table[i] <= 1
    /\ phase = "failed" => workers = 1
    /\ ResumesInv /\ TasksInv /\ KnownInv

\* The inductive invariant of a load.
LoadInv == LoadTypes /\ PhasesInv /\ CountsInv /\ (~ unsure => SureInv)

\* A corpus has finitely many chunks.
LEMMA ChunksAreFinite ==
    ASSUME NEW c \in Corpora
    PROVE  IsFiniteSet(ChunksOf(c))
<1>1. CorpusOK(c) /\ IsFiniteSet(DOMAIN c.docs)  BY LoadAssumption DEF CorpusOK
<1>2. CASE c.kind = "qna"
  <2>. DEFINE Part(i) == {i} \X (1..Pieces[c.docs[i].content])
              S == Deduped(c.docs)
              f == [i \in S |-> Part(i)]
              T == {Part(i) : i \in S}
  <2>1. IsFiniteSet(S)
    <3>1. S \in SUBSET DOMAIN c.docs  BY DEF Deduped
    <3>. QED  BY <1>1, <3>1, FS_Subset
  <2>2. IsFiniteSet(T)
    <3>. HIDE DEF S, Part
    <3>1. f \in Surjection(S, T)  BY DEF Surjection
    <3>. QED  BY <2>1, <3>1, FS_Surjection
  <2>3. ASSUME NEW i \in S PROVE IsFiniteSet(Part(i))
    <3>1. Pieces[c.docs[i].content] \in Nat  BY <1>1, LoadAssumption DEF CorpusOK, Deduped
    <3>2. IsFiniteSet(1..Pieces[c.docs[i].content])  BY <3>1, FS_Interval
    <3>. QED  BY <3>2, FS_Singleton, FS_Product
  <2>4. IsFiniteSet(UNION T)  BY <2>2, <2>3, FS_UNION
  <2>. QED  BY <1>2, <2>4 DEF ChunksOf
<1>3. CASE c.kind # "qna"
  <2>1. IsFiniteSet((DOMAIN c.docs) \X {1})  BY <1>1, FS_Singleton, FS_Product
  <2>. QED  BY <1>3, <2>1 DEF ChunksOf
<1>. QED  BY <1>2, <1>3

\* The chunks of a corpus are a sequence.
LEMMA FileIsSequence ==
    ASSUME NEW c \in Corpora
    PROVE  Len(BuildChunks(c)) \in Nat /\ DOMAIN BuildChunks(c) = 1..Len(BuildChunks(c))
<1>. DEFINE cs == ChunksOf(c)
            Line(k) == CHOOSE l \in cs : Cardinality({d \in cs : NotAfter(d, l)}) = k
            Row(k) == ChunkRow(c.docs[Line(k)[1]], Line(k)[2])
            n == Cardinality(cs)
            file == [k \in 1..n |-> Row(k)]
            S == {Row(k) : k \in 1..n}
<1>1. n \in Nat  BY ChunksAreFinite, FS_CardinalityType
<1>2. BuildChunks(c) = file  BY DEF BuildChunks
<1>. HIDE DEF n, Row
<1>3. file \in [1..n -> S]  OBVIOUS
<1>. HIDE DEF file, S
<1>4. file \in Seq(S)  BY <1>1, <1>3
<1>. QED  BY <1>2, <1>4

\* A row that is inserted is there.
LEMMA Inserts ==
    ASSUME LoadTypes, NEW lines, table' = With(lines), rows' = rows
    PROVE  /\ table' \in [DOMAIN rows' -> Nat]
           /\ Inserted' = Inserted \cup (lines \cap DOMAIN rows)
           /\ (lines \cap Inserted = {} /\ \A i \in DOMAIN rows : table[i] <= 1) => \A i \in DOMAIN rows : table'[i] <= 1
<1>1. /\ table' = [i \in DOMAIN rows |-> IF i \in lines THEN table[i] + 1 ELSE table[i]]
      /\ \A i \in DOMAIN rows : table[i] \in Nat
  BY DEF With, LoadTypes
<1>2. \A i \in DOMAIN rows : table'[i] \in Nat /\ (table'[i] > 0 <=> i \in lines \/ table[i] > 0)
  BY <1>1
<1>3. Inserted' = Inserted \cup (lines \cap DOMAIN rows)  BY <1>2 DEF Inserted
<1>4. ASSUME lines \cap Inserted = {}, \A i \in DOMAIN rows : table[i] <= 1, NEW i \in DOMAIN rows
      PROVE  table'[i] <= 1
  <2>1. CASE i \in lines
    <3>1. table[i] = 0  BY <1>1, <1>4, <2>1 DEF Inserted
    <3>. QED  BY <1>1, <2>1, <3>1
  <2>. QED  BY <1>1, <1>4, <2>1
<1>. QED  BY <1>1, <1>2, <1>3, <1>4

\* What is known stays so when nothing of it is dropped and none of the rest changes.
LEMMA KnownStays ==
    ASSUME KnownInv, UNCHANGED <<rows, pos, seen, runs>>, Base' = Base, Known' = Known, Inserted \subseteq Inserted'
    PROVE  KnownInv'
  BY DEF KnownInv, Usable, Ids

\* A set of positions that is not empty has a least one: the sets of positions before each
\* of them are finite, and a smallest of them is empty.
LEMMA LeastPosition ==
    ASSUME NEW n \in Nat, NEW P \in SUBSET (1..n), P # {}
    PROVE  \E i \in P : \A k \in P : i <= k
<1>. DEFINE Before(i) == {j \in P : j < i}
            Befores == {Before(i) : i \in P}
<1>1. IsFiniteSet(P)
  <2>1. IsFiniteSet(1..n)  BY FS_Interval
  <2>. QED  BY <2>1, FS_Subset
<1>2. Befores \subseteq FiniteSubsetsOf(P)
  <2>. SUFFICES ASSUME NEW i \in P PROVE Before(i) \in FiniteSubsetsOf(P)
    OBVIOUS
  <2>. QED  BY <1>1, FS_Subset DEF FiniteSubsetsOf
<1>3. PICK least \in Befores : \A other \in Befores : ~ (<<other, least>> \in StrictSubsetOrdering(P))
  <2>1. Befores # {}  OBVIOUS
  <2>. HIDE DEF Befores
  <2>. QED  BY <1>2, <2>1, FS_StrictSubsetOrderingWellFounded, WFMin
<1>4. PICK i \in P : least = Before(i)  BY <1>3
<1>5. ASSUME NEW k \in P, k < i PROVE FALSE
  <2>1. i \in Int /\ k \in Int /\ \A j \in P : j \in Int  OBVIOUS
  <2>2. Before(k) \subseteq least /\ k \in least /\ k \notin Before(k)
    <3>1. k \in least  BY <1>4, <1>5
    <3>2. \A j \in P : j < k => j < i  BY <1>5, <2>1
    <3>3. Before(k) \subseteq least  BY <1>4, <3>2
    <3>4. k \notin Before(k)  BY <2>1
    <3>. QED  BY <3>1, <3>3, <3>4
  <2>3. <<Before(k), least>> \in StrictSubsetOrdering(P)  BY <1>4, <2>2 DEF StrictSubsetOrdering
  <2>. QED  BY <1>3, <2>3
<1>6. \A k \in P : i \in Int /\ k \in Int  OBVIOUS
<1>. QED  BY <1>5, <1>6

\* The steps that leave the run alone.
LEMMA LoadStutters ==
    ASSUME LoadInv, UNCHANGED <<rows, workers, phase, runVars, table, runs, unsure>>
    PROVE  LoadInv'
<1>1. UNCHANGED <<rows, workers, phase, offset, pos, seen, inserted, skipped, printed, batch, tasks, table, runs, unsure>>
  BY DEF runVars
<1>2. Base' = Base /\ Inserted' = Inserted /\ Known' = Known /\ At("ok")' = At("ok")
      /\ At("taken")' = At("taken") /\ At("error")' = At("error")
  BY <1>1 DEF Base, Inserted, Known, Held, Batches, At
<1>3. LoadTypes'  BY <1>1, <1>2 DEF LoadInv, LoadTypes
<1>4. PhasesInv'  BY <1>1, <1>2 DEF LoadInv, PhasesInv
<1>6. CountsInv'  BY <1>1, <1>2 DEF LoadInv, CountsInv
<1>5. ~ unsure' => SureInv'
  <2>. SUFFICES ASSUME ~ unsure PROVE SureInv'
    BY <1>1
  <2>1. SureInv  BY DEF LoadInv
  <2>2. ResumesInv' /\ TasksInv'  BY <1>1, <1>2, <2>1 DEF SureInv, ResumesInv, TasksInv, Batches
  <2>3. KnownInv'  BY <1>1, <1>2, <2>1, KnownStays DEF SureInv
  <2>. QED  BY <1>1, <2>1, <2>2, <2>3 DEF SureInv
<1>. QED  BY <1>3, <1>4, <1>5, <1>6 DEF LoadInv

\* A run is started at the line the last one came to.
LEMMA StartRunKeeps == ASSUME LoadInv, StartRun PROVE LoadInv'
<1>1. /\ phase \in {"idle", "failed"} /\ (phase = "failed" => workers = 1)
      /\ runs' = runs + 1 /\ phase' = "reading" /\ offset' = Base /\ pos' = Base
      /\ seen' = {} /\ inserted' = 0 /\ skipped' = 0 /\ printed' = 0 /\ batch' = {} /\ tasks' = << >>
      /\ UNCHANGED <<rows, workers, table, unsure>>
  BY DEF StartRun, Base
<1>2. LoadTypes /\ PhasesInv  BY DEF LoadInv
<1>3. Base' = Base /\ Base \in 0..Len(rows) /\ Base \in Nat /\ Len(rows) \in Nat /\ offset \in Nat
  BY <1>1, <1>2 DEF Base, LoadTypes
<1>4. Inserted' = Inserted /\ Known' = Inserted  BY <1>1 DEF Inserted, Known, Held, Batches
<1>5. LoadTypes'  BY <1>1, <1>2, <1>3 DEF LoadTypes
<1>6. PhasesInv'
  <2>1. runs \in Nat  BY <1>2 DEF LoadTypes
  <2>2. runs' # 0  BY <1>1, <2>1
  <2>3. workers # 1 => Base = 0  BY <1>2 DEF PhasesInv, Base
  <2>. QED  BY <1>1, <2>2, <2>3 DEF PhasesInv
<1>8. CountsInv'  BY <1>1, <1>3 DEF CountsInv
<1>7. ASSUME ~ unsure' PROVE SureInv'
  <2>1. SureInv  BY <1>1, <1>7 DEF LoadInv
  <2>2. ResumesInv'  BY <1>1, <1>3, <1>4, <2>1 DEF ResumesInv, SureInv
  <2>3. TasksInv'  BY <1>1, <1>2, <1>4, <2>1 DEF TasksInv, SureInv, Batches, At, PhasesInv
  <2>4. KnownInv'
    <3>1. Inserted \subseteq 1..Base  BY <1>1, <1>2, <2>1 DEF SureInv, ResumesInv, PhasesInv
    <3>2. \A i \in Inserted : Usable(i)  BY <2>1 DEF SureInv, KnownInv, Known
    <3>3. \A i \in 1..Base : Usable(i) => rows[i].id \in Ids(Inserted)  BY <2>1 DEF SureInv, KnownInv
    <3>4. \A S : Ids(S)' = Ids(S')  BY <1>1 DEF Ids
    <3>5. \A i : Usable(i)' <=> Usable(i)  BY <1>1 DEF Usable
    <3>6. runs' <= 1 => Inserted = {}
      <4>1. runs \in Nat  BY <1>2 DEF LoadTypes
      <4>2. phase = "idle" \/ runs # 0  BY <1>2 DEF PhasesInv
      <4>3. phase = "idle" => Inserted = {}  BY <1>2 DEF PhasesInv
      <4>. QED  BY <1>1, <4>1, <4>2, <4>3
    <3>. QED  BY <1>1, <1>3, <1>4, <3>1, <3>2, <3>3, <3>5, <3>6 DEF KnownInv, Ids
  <2>. QED  BY <1>1, <2>1, <2>2, <2>3, <2>4 DEF SureInv
<1>. QED  BY <1>5, <1>6, <1>7, <1>8 DEF LoadInv

\* Rows are read: of each id that is new, the first one with a text is held.
LEMMA ReadKeeps == ASSUME LoadInv, Read PROVE LoadInv'
<1>. DEFINE NewRows(last) == {i \in (pos + 1)..last : Fresh(i)}
<1>1. PICK last \in pos..Len(rows) :
        /\ \/ Cardinality(NewRows(last)) = BatchSize /\ last \in NewRows(last)
           \/ Cardinality(NewRows(last)) < BatchSize /\ last = Len(rows)
        /\ pos' = last
        /\ batch' = NewRows(last)
        /\ seen' = seen \cup {rows[i].id : i \in NewRows(last)}
        /\ skipped' = skipped + (last - pos) - Cardinality(NewRows(last))
  BY DEF Read
<1>. DEFINE fresh == NewRows(last)
<1>2. /\ phase = "reading" /\ pos' = last /\ batch' = fresh
      /\ rows' = rows /\ workers' = workers /\ offset' = offset /\ inserted' = inserted /\ printed' = printed
      /\ tasks' = tasks /\ table' = table /\ runs' = runs /\ unsure' = unsure
  BY <1>1 DEF Read
<1>3. phase' = IF workers = 1 THEN IF fresh # {} THEN "inserting" ELSE "done"
               ELSE IF fresh # {} THEN "queueing" ELSE "gathering"
  BY <1>1 DEF Read
<1>s. seen' = seen \cup Ids(fresh)  BY <1>1 DEF Ids
<1>k. skipped' = skipped + (last - pos) - Cardinality(fresh)  BY <1>1
<1>b. Cardinality(fresh) = BatchSize \/ last = Len(rows)  BY <1>1
<1>f. \A i : i \in fresh <=> i \in (pos + 1)..last /\ Fresh(i)  OBVIOUS
<1>. HIDE DEF NewRows
<1>4. /\ LoadTypes /\ PhasesInv /\ batch = {}
      /\ pos \in Nat /\ last \in Nat /\ Len(rows) \in Nat /\ pos <= last /\ last <= Len(rows)
      /\ BatchSize \in Nat \ {0}
  <2>1. LoadTypes /\ PhasesInv /\ batch = {}  BY <1>2 DEF LoadInv, PhasesInv
  <2>2. Len(rows) \in Nat /\ pos \in 0..Len(rows)  BY <2>1 DEF LoadTypes
  <2>3. BatchSize \in Nat \ {0}  BY LoadAssumption
  <2>. QED  BY <2>1, <2>2, <2>3
<1>5. fresh \subseteq (pos + 1)..last /\ IsFiniteSet(fresh) /\ Cardinality(fresh) \in Nat
  <2>1. fresh \in SUBSET ((pos + 1)..last)  BY <1>f
  <2>2. IsFiniteSet((pos + 1)..last)  BY <1>4, FS_Interval
  <2>. QED  BY <2>1, <2>2, FS_Subset, FS_CardinalityType
<1>6. fresh = {} => last = Len(rows)
  BY <1>b, <1>4, FS_EmptySet
<1>. HIDE DEF fresh
<1>7. Base' = Base /\ Inserted' = Inserted /\ Known' = Known \cup fresh
  BY <1>2, <1>4 DEF Base, Inserted, Known, Held, Batches
<1>8. LoadTypes'
  <2>1. DOMAIN rows = 1..Len(rows)  BY <1>4 DEF LoadTypes
  <2>2. batch' \in SUBSET DOMAIN rows'  BY <1>2, <1>4, <1>5, <2>1
  <2>3. Base' \in 0..pos'
    <3>1. Base \in 0..pos  BY <1>4 DEF LoadTypes
    <3>. QED  BY <1>2, <1>4, <1>7, <3>1
  <2>4. skipped' \in Int
    <3>1. skipped \in Int  BY <1>4 DEF LoadTypes
    <3>. QED  BY <1>k, <1>4, <1>5, <3>1
  <2>. QED  BY <1>2, <1>3, <1>4, <2>1, <2>2, <2>3, <2>4 DEF LoadTypes
<1>9. PhasesInv'
  <2>1. At("ok")' = At("ok") /\ At("taken")' = At("taken")  BY <1>2 DEF At
  <2>2. phase' \in {"inserting", "done", "queueing", "gathering"}  BY <1>3
  <2>3. tasks = << >> => DOMAIN tasks = At("ok") \cup At("taken")  BY DEF At
  <2>. QED  BY <1>2, <1>3, <1>b, <1>4, <1>6, <1>7, <2>1, <2>2, <2>3 DEF PhasesInv
<1>11. CountsInv'
  <2>. SUFFICES ASSUME workers = 1 PROVE CountsInv'
    BY <1>2 DEF CountsInv
  <2>1. Base = pos /\ offset + inserted + skipped = pos  BY <1>2 DEF LoadInv, CountsInv
  <2>2. offset + inserted + skipped' + Cardinality(fresh) = last
    <3>1. offset \in Nat /\ inserted \in Int /\ skipped \in Int  BY <1>4 DEF LoadTypes
    <3>. QED  BY <1>k, <1>4, <1>5, <2>1, <3>1
  <2>3. fresh \cap (1..Base) = {}  BY <1>4, <1>5, <2>1
  <2>. QED  BY <1>2, <1>3, <1>7, <2>1, <2>2, <2>3 DEF CountsInv
<1>10. ASSUME ~ unsure' PROVE SureInv'
  <2>1. SureInv  BY <1>2, <1>10 DEF LoadInv
  <2>2. ResumesInv'  BY <1>2, <1>3, <1>7, <2>1 DEF SureInv, ResumesInv
  <2>3. TasksInv'
    <3>1. \A k \in DOMAIN tasks : tasks[k].batch \subseteq 1..pos
      BY <2>1 DEF SureInv, KnownInv, Known, Held, Batches
    <3>2. \A k \in DOMAIN tasks : tasks[k].batch \cap fresh = {}  BY <1>4, <1>5, <3>1
    <3>. QED  BY <1>2, <1>7, <2>1, <3>2 DEF SureInv, TasksInv, Batches, At
  <2>4. KnownInv'
    <3>1. KnownInv  BY <2>1 DEF SureInv
    <3>2. Known' \subseteq 1..pos'  BY <1>2, <1>4, <1>5, <1>7, <3>1 DEF KnownInv
    <3>7. \A i \in Known' : Usable(i)  BY <1>f, <1>7, <3>1 DEF KnownInv, Fresh
    <3>3. seen' \subseteq Ids(Known')  BY <1>s, <1>7, <3>1 DEF KnownInv, Ids
    <3>4. \A i \in 1..last : Usable(i) => rows[i].id \in Ids(Known')
      <4>0. \A i \in 1..pos : Usable(i) => rows[i].id \in Ids(Known')  BY <1>7, <3>1 DEF KnownInv, Ids
      <4>. SUFFICES ASSUME NEW i \in 1..last, Usable(i), i > pos PROVE rows[i].id \in Ids(Known')
        BY <1>4, <4>0
      <4>1. CASE i \in fresh  BY <1>7, <4>1 DEF Ids
      <4>2. CASE rows[i].id \in seen  BY <3>1, <1>7, <4>2 DEF KnownInv, Ids
      <4>3. CASE i \notin fresh /\ rows[i].id \notin seen
        <5>. DEFINE Same == {j \in (pos + 1)..i : Usable(j) /\ rows[j].id = rows[i].id}
        <5>1. PICK j \in Same : \A l \in Same : j <= l
          <6>1. Same \subseteq 1..Len(rows) /\ i \in Same  BY <1>4
          <6>2. Same \in SUBSET (1..Len(rows)) /\ Same # {} /\ Len(rows) \in Nat  BY <1>4, <6>1
          <6>. HIDE DEF Same
          <6>. QED  BY <6>2, LeastPosition
        <5>2. Fresh(j)  BY <1>4, <4>3, <5>1 DEF Fresh
        <5>3. j \in fresh  BY <1>f, <1>4, <5>1, <5>2
        <5>. QED  BY <1>7, <5>1, <5>3 DEF Ids
      <4>. QED  BY <4>1, <4>2, <4>3
    <3>5. ASSUME runs' <= 1
          PROVE  Ids(Known') \subseteq seen' /\ \A i, j \in Known' : rows[i].id = rows[j].id => i = j
      <4>1. Ids(Known) \subseteq seen /\ \A i, j \in Known : rows[i].id = rows[j].id => i = j
        BY <1>2, <3>1, <3>5 DEF KnownInv
      <4>2. Ids(Known') \subseteq seen'  BY <1>s, <1>7, <4>1 DEF Ids
      <4>3. ASSUME NEW i \in fresh, NEW j \in fresh, rows[i].id = rows[j].id PROVE i = j
        <5>1. i \in (pos + 1)..last /\ j \in (pos + 1)..last /\ Fresh(i) /\ Fresh(j)  BY <1>f
        <5>. QED  BY <1>4, <4>3, <5>1 DEF Fresh
      <4>4. ASSUME NEW i \in fresh, NEW j \in Known PROVE rows[i].id # rows[j].id
        BY <1>f, <4>1 DEF Fresh, Ids
      <4>. QED  BY <1>7, <4>1, <4>2, <4>3, <4>4
    <3>6. \A i \in 1..Base' : Usable(i) => rows[i].id \in Ids(Inserted)'
      BY <1>2, <1>7, <3>1 DEF KnownInv, Ids
    <3>8. (\A S : Ids(S)' = Ids(S')) /\ \A i : Usable(i)' <=> Usable(i)  BY <1>2 DEF Ids, Usable
    <3>. QED  BY <1>2, <3>2, <3>3, <3>4, <3>5, <3>6, <3>7, <3>8 DEF KnownInv
  <2>. QED  BY <1>2, <1>3, <2>1, <2>2, <2>3, <2>4 DEF SureInv
<1>. QED  BY <1>8, <1>9, <1>10, <1>11 DEF LoadInv

\* A batch of a single worker is inserted: what was held is in the table.
LEMMA InsertKeeps == ASSUME LoadInv, Insert PROVE LoadInv'
<1>1. /\ phase = "inserting" /\ table' = With(batch) /\ inserted' = inserted + Cardinality(batch) /\ batch' = {}
      /\ rows' = rows /\ workers' = workers /\ offset' = offset /\ pos' = pos /\ seen' = seen /\ skipped' = skipped
      /\ tasks' = tasks /\ runs' = runs /\ unsure' = unsure
  BY DEF Insert, Added
<1>2. \/ Cardinality(batch) = BatchSize /\ printed' = inserted' + skipped /\ phase' = "reading"
      \/ Cardinality(batch) # BatchSize /\ printed' = printed /\ phase' = "done"
  BY DEF Insert
<1>3. LoadTypes /\ PhasesInv /\ workers = 1 /\ tasks = << >>  BY <1>1 DEF LoadInv, PhasesInv
<1>4. /\ offset \in Nat /\ inserted \in Int /\ skipped \in Int /\ printed \in Int /\ runs \in Nat
      /\ Len(rows) \in Nat /\ DOMAIN rows = 1..Len(rows) /\ pos \in 0..Len(rows) /\ Base \in 0..pos
      /\ batch \subseteq DOMAIN rows /\ phase = "inserting"
  BY <1>1, <1>3 DEF LoadTypes
<1>5. Cardinality(batch) \in Nat
  <2>1. IsFiniteSet(1..Len(rows)) /\ batch \in SUBSET (1..Len(rows))  BY <1>4, FS_Interval
  <2>. QED  BY <2>1, FS_Subset, FS_CardinalityType
<1>6. /\ table' \in [DOMAIN rows -> Nat] /\ Inserted' = Inserted \cup batch
      /\ (batch \cap Inserted = {} /\ \A i \in DOMAIN rows : table[i] <= 1) => \A i \in DOMAIN rows : table'[i] <= 1
  BY <1>1, <1>3, <1>4, Inserts
<1>7. Held = batch /\ Held' = {}  BY <1>1, <1>3 DEF Held, Batches
<1>8. Known' = Known  BY <1>6, <1>7 DEF Known
<1>9. Base' \in 0..pos' /\ CountsInv' /\ (phase' = "reading" => Base' = pos)
  <2>1. offset + inserted + skipped + Cardinality(batch) = pos /\ batch \cap (1..Base) = {}
    BY <1>1, <1>3 DEF LoadInv, CountsInv
  <2>2. phase' = "reading" => Base' = pos /\ offset' + inserted' + skipped' = pos
    BY <1>1, <1>2, <1>4, <1>5, <2>1 DEF Base
  <2>3. phase' = "done" => Base' = Base  BY <1>1, <1>2 DEF Base
  <2>. QED  BY <1>1, <1>2, <1>4, <2>2, <2>3 DEF CountsInv
<1>10. LoadTypes'  BY <1>1, <1>2, <1>3, <1>4, <1>5, <1>6, <1>9 DEF LoadTypes
<1>11. PhasesInv'
  <2>1. Cardinality(batch) = BatchSize \/ pos = Len(rows)  BY <1>1, <1>3 DEF PhasesInv
  <2>2. tasks = << >> => DOMAIN tasks = At("ok") \cup At("taken")  BY DEF At
  <2>3. At("ok")' = At("ok") /\ At("taken")' = At("taken")  BY <1>1 DEF At
  <2>. QED  BY <1>1, <1>2, <1>3, <2>1, <2>2, <2>3 DEF PhasesInv
<1>12. ASSUME ~ unsure' PROVE SureInv'
  <2>1. SureInv  BY <1>1, <1>12 DEF LoadInv
  <2>2. KnownInv /\ Inserted \subseteq 1..Base /\ \A i \in DOMAIN rows : table[i] <= 1
    BY <1>1, <1>3, <2>1 DEF SureInv, ResumesInv
  <2>3. batch \cap Inserted = {}
    <3>1. batch \cap (1..Base) = {}  BY <1>3 DEF LoadInv, CountsInv
    <3>. QED  BY <2>2, <3>1
  <2>4. Known \subseteq 1..pos  BY <2>2 DEF KnownInv
  <2>5. ResumesInv'  BY <1>1, <1>2, <1>6, <1>7, <1>9, <2>4 DEF ResumesInv, Known
  <2>6. TasksInv'  BY <1>1, <1>3, <1>6 DEF TasksInv, Batches, At
  <2>7. KnownInv'
    <3>1. Known = Inserted'  BY <1>6, <1>7 DEF Known
    <3>2. (\A S : Ids(S)' = Ids(S')) /\ \A i : Usable(i)' <=> Usable(i)  BY <1>1 DEF Ids, Usable
    <3>3. \A i \in 1..pos : Usable(i) => rows[i].id \in Ids(Inserted')  BY <2>2, <3>1 DEF KnownInv
    <3>4. 1..Base' \subseteq 1..pos  BY <1>1, <1>4, <1>9
    <3>. QED  BY <1>1, <1>8, <2>2, <3>2, <3>3, <3>4 DEF KnownInv
  <2>. QED  BY <1>1, <1>2, <1>6, <2>2, <2>3, <2>5, <2>6, <2>7 DEF SureInv
<1>. QED  BY <1>9, <1>10, <1>11, <1>12 DEF LoadInv

\* A batch that cannot be inserted is not there, or the run ends unsure of it.
LEMMA InsertFailsKeeps == ASSUME LoadInv, InsertFails PROVE LoadInv'
<1>1. /\ phase = "inserting" /\ phase' = "failed"
      /\ rows' = rows /\ workers' = workers /\ offset' = offset /\ pos' = pos /\ seen' = seen /\ skipped' = skipped
      /\ inserted' = inserted /\ printed' = printed /\ batch' = batch /\ tasks' = tasks /\ runs' = runs
  BY DEF InsertFails, runVars
<1>2. (table' = table /\ unsure' = unsure) \/ (table' = With(batch) /\ unsure' = TRUE)
  <2>1. CASE UNCHANGED <<table, unsure>>  BY <2>1
  <2>2. CASE Added(batch) /\ unsure' = TRUE  BY <2>2 DEF Added
  <2>. QED  BY <2>1, <2>2 DEF InsertFails
<1>3. LoadTypes /\ PhasesInv /\ CountsInv /\ workers = 1 /\ tasks = << >>  BY <1>1 DEF LoadInv, PhasesInv
<1>4. Base' = Base  BY <1>1 DEF Base
<1>5. table' \in [DOMAIN rows -> Nat]  BY <1>1, <1>2, <1>3, Inserts DEF LoadTypes
<1>6. LoadTypes'  BY <1>1, <1>2, <1>3, <1>4, <1>5 DEF LoadTypes
<1>7. PhasesInv' /\ CountsInv'  BY <1>1, <1>3, <1>4 DEF PhasesInv, CountsInv
<1>8. ASSUME ~ unsure' PROVE SureInv'
  <2>1. SureInv /\ table' = table  BY <1>2, <1>8 DEF LoadInv
  <2>2. Inserted' = Inserted /\ Known' = Known  BY <1>1, <2>1 DEF Inserted, Known, Held, Batches
  <2>3. ResumesInv' /\ TasksInv'  BY <1>1, <1>3, <1>4, <2>1, <2>2 DEF SureInv, ResumesInv, TasksInv, Batches, At
  <2>4. KnownInv'  BY <1>1, <1>4, <2>1, <2>2, KnownStays DEF SureInv
  <2>. QED  BY <1>1, <1>3, <2>1, <2>3, <2>4 DEF SureInv
<1>. QED  BY <1>6, <1>7, <1>8 DEF LoadInv

-----------------------------------------------------------------------------
(* Several at a time *)

\* The tasks of a run of several workers.
LEMMA LoadTasks ==
    ASSUME LoadTypes
    PROVE  /\ DOMAIN tasks = 1..Len(tasks) /\ Len(tasks) \in Nat
           /\ \A k \in DOMAIN tasks : tasks[k].batch \subseteq DOMAIN rows /\ tasks[k].step \in TaskSteps
           /\ \A k \in DOMAIN tasks : tasks[k] \in [batch : SUBSET DOMAIN rows, step : TaskSteps]
           /\ \A ks \in SUBSET DOMAIN tasks : Batches(ks) \subseteq DOMAIN rows
           /\ \A is : At(is) \subseteq DOMAIN tasks
<1>. DEFINE T == [batch : SUBSET DOMAIN rows, step : TaskSteps]
<1>0. tasks \in Seq(T)  BY DEF LoadTypes
<1>2. DOMAIN tasks = 1..Len(tasks) /\ Len(tasks) \in Nat /\ \A k \in DOMAIN tasks : tasks[k] \in T
  <2>. HIDE DEF T
  <2>. QED  BY <1>0
<1>1. \A k \in DOMAIN tasks : tasks[k] \in [batch : SUBSET DOMAIN rows, step : TaskSteps]  BY <1>2
<1>3. \A k \in DOMAIN tasks : tasks[k].batch \subseteq DOMAIN rows /\ tasks[k].step \in TaskSteps  BY <1>1
<1>4. \A ks \in SUBSET DOMAIN tasks : Batches(ks) \subseteq DOMAIN rows  BY <1>3 DEF Batches
<1>. QED  BY <1>1, <1>2, <1>3, <1>4 DEF At

\* A task that moves keeps its batch.
LEMMA TaskMoves ==
    ASSUME LoadTypes, NEW k \in DOMAIN tasks, NEW to \in TaskSteps, Move(k, to), rows' = rows
    PROVE  /\ tasks' \in Seq([batch : SUBSET DOMAIN rows', step : TaskSteps]) /\ DOMAIN tasks' = DOMAIN tasks
           /\ \A j \in DOMAIN tasks : tasks'[j].batch = tasks[j].batch
           /\ \A j \in DOMAIN tasks : tasks'[j].step = IF j = k THEN to ELSE tasks[j].step
<1>. DEFINE T == [batch : SUBSET DOMAIN rows, step : TaskSteps]
<1>1. tasks \in Seq(T) /\ tasks[k] \in T /\ \A j \in DOMAIN tasks : tasks[j] \in T  BY LoadTasks DEF LoadTypes
<1>2. tasks' = [tasks EXCEPT ![k] = [tasks[k] EXCEPT !.step = to]]  BY DEF Move
<1>3. [tasks[k] EXCEPT !.step = to] \in T /\ [tasks[k] EXCEPT !.step = to].step = to
      /\ [tasks[k] EXCEPT !.step = to].batch = tasks[k].batch
  BY <1>1
<1>4. tasks' \in Seq(T)
  <2>. HIDE DEF T
  <2>. QED  BY <1>1, <1>2, <1>3
<1>5. DOMAIN tasks' = DOMAIN tasks /\ \A j \in DOMAIN tasks : tasks'[j] = IF j = k THEN [tasks[k] EXCEPT !.step = to] ELSE tasks[j]
  <2>. HIDE DEF T
  <2>. QED  BY <1>1, <1>2
<1>. QED  BY <1>3, <1>4, <1>5

\* What a run of several workers leaves alone.
LEMMA RunStays ==
    ASSUME LoadInv, workers # 1, phase' \in {"queueing", "draining", "reading", "gathering", "done", "failed"},
           UNCHANGED <<rows, workers, offset, pos, seen, skipped, printed, runs>>,
           batch' \in {batch, {}}, inserted' \in Int, unsure' \in BOOLEAN, table' \in [DOMAIN rows -> Nat],
           tasks' \in Seq([batch : SUBSET DOMAIN rows', step : TaskSteps])
    PROVE  /\ LoadTypes' /\ CountsInv' /\ ResumesInv'
           /\ SureInv /\ Held' = Held /\ Inserted \subseteq Inserted' /\ Inserted' \subseteq Known => KnownInv'
<1>1. LoadTypes  BY DEF LoadInv
<1>2. Base' = Base  BY DEF Base
<1>3. batch' \in SUBSET DOMAIN rows'  BY <1>1 DEF LoadTypes
<1>4. LoadTypes'  BY <1>1, <1>2, <1>3 DEF LoadTypes
<1>5. CountsInv' /\ ResumesInv'  BY DEF CountsInv, ResumesInv
<1>6. ASSUME SureInv, Held' = Held, Inserted \subseteq Inserted', Inserted' \subseteq Known PROVE KnownInv'
  <2>1. Known' = Known  BY <1>6 DEF Known
  <2>. QED  BY <1>2, <1>6, <2>1, KnownStays DEF SureInv
<1>. QED  BY <1>4, <1>5, <1>6

\* A run that ends unsure of the table.
LEMMA EndsUnsure ==
    ASSUME LoadInv, phase # "idle", phase' = "failed", unsure' = TRUE, NEW lines, table' = With(lines),
           UNCHANGED <<rows, workers, runVars, runs>>
    PROVE  LoadInv'
<1>1. /\ rows' = rows /\ workers' = workers /\ offset' = offset /\ pos' = pos /\ seen' = seen /\ skipped' = skipped
      /\ inserted' = inserted /\ printed' = printed /\ batch' = batch /\ tasks' = tasks /\ runs' = runs
  BY DEF runVars
<1>2. LoadTypes /\ PhasesInv /\ CountsInv  BY DEF LoadInv
<1>3. Base' = Base  BY <1>1 DEF Base
<1>4. table' \in [DOMAIN rows' -> Nat]  BY <1>1, <1>2, Inserts
<1>5. LoadTypes'  BY <1>1, <1>2, <1>3, <1>4 DEF LoadTypes
<1>6. PhasesInv' /\ CountsInv'  BY <1>1, <1>2, <1>3 DEF PhasesInv, CountsInv
<1>. QED  BY <1>5, <1>6 DEF LoadInv

\* The batch becomes a task, or waits.
LEMMA QueueKeeps == ASSUME LoadInv, Queue PROVE LoadInv'
<1>1. /\ phase = "queueing" /\ workers # 1 /\ LoadTypes /\ PhasesInv
      /\ UNCHANGED <<rows, workers, offset, pos, seen, inserted, skipped, printed, table, runs, unsure>>
  BY DEF Queue, LoadInv, PhasesInv
<1>2. /\ batch \in SUBSET DOMAIN rows /\ inserted' \in Int /\ unsure' \in BOOLEAN /\ table' \in [DOMAIN rows -> Nat]
      /\ tasks \in Seq([batch : SUBSET DOMAIN rows, step : TaskSteps])
  BY <1>1 DEF LoadTypes
<1>3. Inserted' = Inserted  BY <1>1 DEF Inserted
<1>4. CASE tasks' = tasks /\ batch' = batch /\ phase' = "draining"
  <2>1. LoadTypes' /\ CountsInv' /\ ResumesInv' /\ (SureInv /\ Held' = Held => KnownInv')
    BY <1>1, <1>2, <1>3, <1>4, RunStays DEF Known
  <2>2. Held' = Held /\ \A is : At(is)' = At(is')  BY <1>4 DEF Held, Batches, At
  <2>3. PhasesInv'  BY <1>1, <1>3, <1>4 DEF PhasesInv
  <2>4. SureInv => TasksInv'  BY <1>1, <1>3, <1>4 DEF SureInv, TasksInv, At, Batches
  <2>. QED  BY <1>1, <1>4, <2>1, <2>2, <2>3, <2>4 DEF LoadInv, SureInv
<1>5. CASE tasks' = Append(tasks, [batch |-> batch, step |-> "waiting"]) /\ batch' = {} /\ phase' = "reading"
  <2>. DEFINE T == [batch : SUBSET DOMAIN rows, step : TaskSteps]
              new == [batch |-> batch, step |-> "waiting"]
              n == Len(tasks) + 1
  <2>1. new \in T  BY <1>2 DEF TaskSteps
  <2>2. tasks' \in Seq(T) /\ DOMAIN tasks' = DOMAIN tasks \cup {n} /\ n \notin DOMAIN tasks
        /\ tasks'[n] = new /\ \A k \in DOMAIN tasks : tasks'[k] = tasks[k]
    <3>. HIDE DEF T, new
    <3>. QED  BY <1>2, <1>5, <2>1 DEF T, new
  <2>3. tasks'[n].batch = batch /\ tasks'[n].step = "waiting"  BY <2>2
  <2>. HIDE DEF new, n
  <2>4. Held' = Held
    <3>1. Batches(DOMAIN tasks)' = Batches(DOMAIN tasks) \cup batch  BY <2>2, <2>3 DEF Batches
    <3>. QED  BY <1>5, <3>1 DEF Held
  <2>5. LoadTypes' /\ CountsInv' /\ ResumesInv' /\ (SureInv => KnownInv')
    BY <1>1, <1>2, <1>3, <1>5, <2>2, <2>4, RunStays DEF Known
  <2>6. PhasesInv'  BY <1>1, <1>3, <1>5 DEF PhasesInv
  <2>7. At("ok")' = At("ok") /\ At("taken")' = At("taken") /\ At("error")' = At("error")
    BY <2>2, <2>3 DEF At
  <2>8. ASSUME SureInv PROVE TasksInv'
    <3>1. TasksInv  BY <2>8 DEF SureInv
    <3>2. \A k \in DOMAIN tasks' : tasks'[k].batch \cap batch' = {}  BY <1>5
    <3>3. \A j, k \in DOMAIN tasks' : j # k => tasks'[j].batch \cap tasks'[k].batch = {}
      BY <2>2, <2>3, <3>1 DEF TasksInv
    <3>4. \A ks \in SUBSET DOMAIN tasks : Batches(ks)' = Batches(ks')  BY <2>2 DEF Batches
    <3>5. Batches(At("ok") \cup At("taken") \cup At("error"))' = Batches(At("ok") \cup At("taken") \cup At("error"))
      BY <2>2, <2>7 DEF Batches, At
    <3>6. Batches(At("ok") \cup At("taken"))' = Batches(At("ok") \cup At("taken"))
      BY <2>2, <2>7 DEF Batches, At
    <3>. QED  BY <1>1, <1>3, <3>1, <3>2, <3>3, <3>5, <3>6 DEF TasksInv
  <2>. QED  BY <1>1, <1>5, <2>5, <2>6, <2>8 DEF LoadInv, SureInv
<1>. QED  BY <1>4, <1>5 DEF Queue

\* Only a run of several workers has tasks.
LEMMA TasksAreOfMany == ASSUME LoadInv, Awaiting PROVE workers # 1 /\ LoadTypes /\ PhasesInv
  BY DEF LoadInv, PhasesInv, Awaiting

\* A task that moves to a step before its end.
LEMMA TakeServiceKeeps == ASSUME LoadInv, TakeService PROVE LoadInv'
<1>1. /\ workers # 1 /\ LoadTypes /\ PhasesInv /\ phase' = phase /\ phase \in {"draining", "gathering"}
      /\ UNCHANGED <<rows, workers, offset, pos, seen, inserted, skipped, printed, batch, table, runs, unsure>>
  BY TasksAreOfMany DEF TakeService, Unmoved, Awaiting
<1>2. PICK k \in At("waiting") : Move(k, "inserting")  BY DEF TakeService
<1>3. k \in DOMAIN tasks /\ tasks[k].step = "waiting"  BY <1>2 DEF At
<1>4. /\ tasks' \in Seq([batch : SUBSET DOMAIN rows', step : TaskSteps]) /\ DOMAIN tasks' = DOMAIN tasks
      /\ \A j \in DOMAIN tasks : tasks'[j].batch = tasks[j].batch
      /\ \A j \in DOMAIN tasks : tasks'[j].step = IF j = k THEN "inserting" ELSE tasks[j].step
  BY <1>1, <1>2, <1>3, TaskMoves DEF TaskSteps
<1>5. At("ok")' = At("ok") /\ At("taken")' = At("taken") /\ At("error")' = At("error")  BY <1>3, <1>4 DEF At
<1>6. Inserted' = Inserted /\ Held' = Held
  <2>1. Batches(DOMAIN tasks)' = Batches(DOMAIN tasks)  BY <1>4 DEF Batches
  <2>. QED  BY <1>1, <2>1 DEF Inserted, Held
<1>7. /\ inserted' \in Int /\ unsure' \in BOOLEAN /\ table' \in [DOMAIN rows -> Nat]  BY <1>1 DEF LoadTypes
<1>8. LoadTypes' /\ CountsInv' /\ ResumesInv' /\ (SureInv => KnownInv')
  BY <1>1, <1>4, <1>6, <1>7, RunStays DEF Known
<1>9. PhasesInv'  BY <1>1, <1>6 DEF PhasesInv
<1>10. ASSUME SureInv PROVE TasksInv'
  <2>1. TasksInv  BY <1>10 DEF SureInv
  <2>2. Batches(At("ok") \cup At("taken") \cup At("error"))' = Batches(At("ok") \cup At("taken") \cup At("error"))
    BY <1>4, <1>5 DEF Batches, At
  <2>3. Batches(At("ok") \cup At("taken"))' = Batches(At("ok") \cup At("taken"))
    BY <1>4, <1>5 DEF Batches, At
  <2>4. \A j \in DOMAIN tasks' : tasks'[j].batch \cap batch' = {}  BY <1>1, <1>4, <2>1 DEF TasksInv
  <2>5. \A j, l \in DOMAIN tasks' : j # l => tasks'[j].batch \cap tasks'[l].batch = {}  BY <1>4, <2>1 DEF TasksInv
  <2>. QED  BY <1>1, <1>6, <2>1, <2>2, <2>3, <2>4, <2>5 DEF TasksInv
<1>. QED  BY <1>1, <1>8, <1>9, <1>10 DEF LoadInv, SureInv

\* The end of a task.
LEMMA TaskEndsKeeps == ASSUME LoadInv, NEW k \in DOMAIN tasks, TaskEnds(k) PROVE LoadInv'
<1>1. /\ workers # 1 /\ LoadTypes /\ PhasesInv /\ phase' = phase /\ phase \in {"draining", "gathering"}
      /\ UNCHANGED <<rows, workers, offset, pos, seen, inserted, skipped, printed, batch, runs, unsure>>
      /\ tasks[k].step = "inserting"
  BY TasksAreOfMany DEF TaskEnds, Unmoved, Awaiting, At
<1>2. PICK to \in {"ok", "error"} : Move(k, to) /\ (table' = table \/ table' = With(tasks[k].batch))
                                 /\ (to = "ok" => table' = With(tasks[k].batch))
  <2>1. CASE Added(tasks[k].batch) /\ Move(k, "ok")  BY <2>1 DEF Added
  <2>2. CASE Move(k, "error") /\ (UNCHANGED table \/ Added(tasks[k].batch))  BY <2>2 DEF Added
  <2>. QED  BY <2>1, <2>2 DEF TaskEnds
<1>4. /\ tasks' \in Seq([batch : SUBSET DOMAIN rows', step : TaskSteps]) /\ DOMAIN tasks' = DOMAIN tasks
      /\ \A j \in DOMAIN tasks : tasks'[j].batch = tasks[j].batch
      /\ \A j \in DOMAIN tasks : tasks'[j].step = IF j = k THEN to ELSE tasks[j].step
  BY <1>1, <1>2, TaskMoves DEF TaskSteps
<1>5. /\ table' \in [DOMAIN rows -> Nat] /\ Inserted \subseteq Inserted' /\ Inserted' \subseteq Inserted \cup tasks[k].batch
      /\ to = "ok" => tasks[k].batch \subseteq Inserted'
      /\ (tasks[k].batch \cap Inserted = {} /\ \A i \in DOMAIN rows : table[i] <= 1) => \A i \in DOMAIN rows : table'[i] <= 1
  <2>1. tasks[k].batch \subseteq DOMAIN rows /\ table \in [DOMAIN rows -> Nat]  BY <1>1, LoadTasks DEF LoadTypes
  <2>2. CASE table' = table
    <3>1. Inserted' = Inserted  BY <1>1, <2>2 DEF Inserted
    <3>2. CASE to = "ok"  BY <1>1, <1>2, <2>1, <3>2, Inserts
    <3>. QED  BY <2>1, <2>2, <3>1, <3>2
  <2>3. CASE table' = With(tasks[k].batch)  BY <1>1, <2>1, <2>3, Inserts
  <2>. QED  BY <1>2, <2>2, <2>3
<1>6. Held' = Held /\ tasks[k].batch \subseteq Held
  <2>1. Batches(DOMAIN tasks)' = Batches(DOMAIN tasks) /\ tasks[k].batch \subseteq Batches(DOMAIN tasks)
    BY <1>4 DEF Batches
  <2>. QED  BY <1>1, <2>1 DEF Held
<1>7. /\ inserted' \in Int /\ unsure' \in BOOLEAN  BY <1>1 DEF LoadTypes
<1>8. LoadTypes' /\ CountsInv' /\ ResumesInv' /\ (SureInv => KnownInv')
  BY <1>1, <1>4, <1>5, <1>6, <1>7, RunStays DEF Known
<1>9. PhasesInv'  BY <1>1 DEF PhasesInv
<1>10. ASSUME SureInv PROVE TasksInv' /\ \A i \in DOMAIN rows : table'[i] <= 1
  <2>1. TasksInv /\ \A i \in DOMAIN rows : table[i] <= 1  BY <1>10 DEF SureInv
  <2>2. Batches(At("ok") \cup At("taken") \cup At("error"))' = Batches(At("ok") \cup At("taken") \cup At("error")) \cup tasks[k].batch
    <3>1. (At("ok") \cup At("taken") \cup At("error"))' = At("ok") \cup At("taken") \cup At("error") \cup {k}
      BY <1>1, <1>4 DEF At
    <3>. QED  BY <1>4, <3>1 DEF Batches, At
  <2>3. Batches(At("ok") \cup At("taken"))' = Batches(At("ok") \cup At("taken")) \cup (IF to = "ok" THEN tasks[k].batch ELSE {})
    <3>1. (At("ok") \cup At("taken"))' = At("ok") \cup At("taken") \cup (IF to = "ok" THEN {k} ELSE {})
      BY <1>1, <1>4 DEF At
    <3>. QED  BY <1>4, <3>1 DEF Batches, At
  <2>4. \A j \in DOMAIN tasks' : tasks'[j].batch \cap batch' = {}  BY <1>1, <1>4, <2>1 DEF TasksInv
  <2>5. \A j, l \in DOMAIN tasks' : j # l => tasks'[j].batch \cap tasks'[l].batch = {}  BY <1>4, <2>1 DEF TasksInv
  <2>6. tasks[k].batch \cap Inserted = {}
    <3>1. \A j \in At("ok") \cup At("taken") \cup At("error") : j \in DOMAIN tasks /\ j # k  BY <1>1 DEF At
    <3>2. Inserted \subseteq Batches(At("ok") \cup At("taken") \cup At("error"))  BY <1>1, <2>1 DEF TasksInv
    <3>. QED  BY <2>1, <3>1, <3>2 DEF TasksInv, Batches
  <2>7. TasksInv'  BY <1>1, <1>5, <2>1, <2>2, <2>3, <2>4, <2>5 DEF TasksInv
  <2>. QED  BY <1>5, <2>1, <2>6, <2>7
<1>11. SureInv => SureInv'  BY <1>1, <1>8, <1>10 DEF SureInv
<1>. QED  BY <1>1, <1>8, <1>9, <1>11 DEF LoadInv

\* Rows that are counted.
LEMMA Counted == ASSUME LoadTypes PROVE inserted + Cardinality(Batches(At("ok"))) \in Int
<1>1. Batches(At("ok")) \in SUBSET DOMAIN rows /\ DOMAIN rows = 1..Len(rows) /\ Len(rows) \in Nat /\ inserted \in Int
  BY LoadTasks DEF LoadTypes
<1>2. IsFiniteSet(Batches(At("ok")))
  <2>1. IsFiniteSet(DOMAIN rows)  BY <1>1, FS_Interval
  <2>. QED  BY <1>1, <2>1, FS_Subset
<1>3. Cardinality(Batches(At("ok"))) \in Nat  BY <1>2, FS_CardinalityType
<1>. QED  BY <1>1, <1>3

\* Tasks that are done are counted, or one that failed ends the run.
LEMMA DrainKeeps == ASSUME LoadInv, Drain PROVE LoadInv'
<1>1. /\ workers # 1 /\ LoadTypes /\ PhasesInv /\ phase = "draining"
      /\ UNCHANGED <<rows, workers, offset, pos, seen, skipped, printed, batch, runs>>
  BY TasksAreOfMany DEF Drain, Awaiting
<1>2. CASE Abort /\ UNCHANGED <<tasks, inserted>>
  <2>1. UNCHANGED <<rows, workers, runVars, runs>>  BY <1>1, <1>2 DEF runVars
  <2>. QED  BY <1>1, <1>2, <2>1, EndsUnsure DEF Abort
<1>3. CASE /\ At("error") = {} /\ phase' = "queueing" /\ UNCHANGED <<table, unsure>>
           /\ tasks' = [k \in DOMAIN tasks |-> IF k \in At("ok") THEN [tasks[k] EXCEPT !.step = "taken"] ELSE tasks[k]]
           /\ inserted' = inserted + Cardinality(Batches(At("ok")))
  <2>. DEFINE T == [batch : SUBSET DOMAIN rows, step : TaskSteps]
              New(k) == IF k \in At("ok") THEN [tasks[k] EXCEPT !.step = "taken"] ELSE tasks[k]
  <2>1. \A k \in DOMAIN tasks : New(k) \in T /\ New(k).batch = tasks[k].batch
                /\ New(k).step = IF tasks[k].step = "ok" THEN "taken" ELSE tasks[k].step
    <3>1. \A k \in DOMAIN tasks : tasks[k] \in T  BY <1>1, LoadTasks
    <3>2. \A k \in DOMAIN tasks : k \in At("ok") <=> tasks[k].step = "ok"  BY DEF At
    <3>. QED  BY <3>1, <3>2 DEF TaskSteps
  <2>2. tasks' \in Seq(T) /\ DOMAIN tasks' = DOMAIN tasks /\ \A k \in DOMAIN tasks : tasks'[k] = New(k)
    <3>1. tasks' = [k \in DOMAIN tasks |-> New(k)] /\ DOMAIN tasks = 1..Len(tasks) /\ Len(tasks) \in Nat
      BY <1>1, <1>3, LoadTasks
    <3>. HIDE DEF T, New
    <3>. QED  BY <2>1, <3>1
  <2>. HIDE DEF New
  <2>3. /\ Inserted' = Inserted /\ Held' = Held
    <3>1. Batches(DOMAIN tasks)' = Batches(DOMAIN tasks)  BY <2>1, <2>2 DEF Batches
    <3>. QED  BY <1>1, <1>3, <3>1 DEF Inserted, Held
  <2>4. inserted' \in Int /\ unsure' \in BOOLEAN /\ table' \in [DOMAIN rows -> Nat] /\ rows' = rows
    BY <1>1, <1>3, Counted DEF LoadTypes
  <2>5. LoadTypes' /\ CountsInv' /\ ResumesInv' /\ (SureInv => KnownInv')
    BY <1>1, <1>3, <2>2, <2>3, <2>4, RunStays DEF Known
  <2>6. PhasesInv'  BY <1>1, <1>3 DEF PhasesInv
  <2>7. /\ (At("ok") \cup At("taken"))' = At("ok") \cup At("taken")
        /\ At("error")' = At("error")
    BY <2>1, <2>2 DEF At
  <2>8. ASSUME SureInv PROVE TasksInv'
    <3>1. TasksInv  BY <2>8 DEF SureInv
    <3>2. Batches(At("ok") \cup At("taken") \cup At("error"))' = Batches(At("ok") \cup At("taken") \cup At("error"))
          /\ Batches(At("ok") \cup At("taken"))' = Batches(At("ok") \cup At("taken"))
      BY <2>1, <2>2, <2>7 DEF Batches, At
    <3>3. \A j \in DOMAIN tasks' : tasks'[j].batch \cap batch' = {}  BY <1>1, <2>1, <2>2, <3>1 DEF TasksInv
    <3>4. \A j, l \in DOMAIN tasks' : j # l => tasks'[j].batch \cap tasks'[l].batch = {}
      BY <2>1, <2>2, <3>1 DEF TasksInv
    <3>. QED  BY <1>1, <2>3, <3>1, <3>2, <3>3, <3>4 DEF TasksInv
  <2>. QED  BY <1>1, <1>3, <2>4, <2>5, <2>6, <2>8 DEF LoadInv, SureInv
<1>. QED  BY <1>2, <1>3 DEF Drain

\* The run is over when every task is, or one of them failed.
LEMMA GatherKeeps == ASSUME LoadInv, Gather PROVE LoadInv'
<1>1. /\ workers # 1 /\ LoadTypes /\ PhasesInv /\ phase = "gathering"
      /\ UNCHANGED <<rows, workers, offset, pos, seen, skipped, printed, batch, tasks, runs>>
  BY TasksAreOfMany DEF Gather, Awaiting
<1>2. CASE Abort /\ UNCHANGED inserted
  <2>1. UNCHANGED <<rows, workers, runVars, runs>>  BY <1>1, <1>2 DEF runVars
  <2>. QED  BY <1>1, <1>2, <2>1, EndsUnsure DEF Abort
<1>3. CASE Listed = At("ok") /\ phase' = "done" /\ inserted' = inserted + Cardinality(Batches(At("ok"))) /\ UNCHANGED <<table, unsure>>
  <2>1. /\ Inserted' = Inserted /\ Held' = Held /\ At("ok")' = At("ok") /\ At("taken")' = At("taken") /\ At("error")' = At("error")
    BY <1>1, <1>3 DEF Inserted, Held, Batches, At
  <2>2. /\ inserted' \in Int /\ unsure' \in BOOLEAN /\ table' \in [DOMAIN rows -> Nat]
        /\ tasks' \in Seq([batch : SUBSET DOMAIN rows', step : TaskSteps])
    BY <1>1, <1>3, Counted DEF LoadTypes
  <2>3. LoadTypes' /\ CountsInv' /\ ResumesInv' /\ (SureInv => KnownInv')
    BY <1>1, <1>3, <2>1, <2>2, RunStays DEF Known
  <2>4. DOMAIN tasks' = At("ok")' \cup At("taken")'  BY <1>1, <1>3, <2>1 DEF Listed, At
  <2>5. PhasesInv'  BY <1>1, <1>3, <2>4 DEF PhasesInv
  <2>6. SureInv => TasksInv'  BY <1>1, <2>1 DEF SureInv, TasksInv, Batches
  <2>. QED  BY <1>1, <1>3, <2>3, <2>5, <2>6 DEF LoadInv, SureInv
<1>. QED  BY <1>2, <1>3 DEF Gather

\* A run that is killed is unsure of the table, unless it has one worker and the table is
\* as it was.
LEMMA KilledKeeps == ASSUME LoadInv, Killed PROVE LoadInv'
<1>1. phase # "idle" /\ phase # "done" /\ phase' = "failed" /\ UNCHANGED <<rows, workers, runVars, runs>>  BY DEF Killed
<1>2. PICK lines : table' = With(lines) /\ unsure' = (unsure \/ table' # table \/ workers > 1)
  BY DEF Killed
<1>3. LoadTypes /\ PhasesInv /\ CountsInv  BY DEF LoadInv
<1>4. CASE unsure \/ table' # table \/ workers > 1  BY <1>1, <1>2, <1>4, EndsUnsure
<1>5. CASE ~ unsure /\ table' = table /\ ~ (workers > 1)
  <2>1. /\ rows' = rows /\ workers' = workers /\ offset' = offset /\ pos' = pos /\ seen' = seen /\ skipped' = skipped
        /\ inserted' = inserted /\ printed' = printed /\ batch' = batch /\ tasks' = tasks /\ runs' = runs
        /\ table' = table /\ unsure' = FALSE
    BY <1>1, <1>2, <1>5 DEF runVars
  <2>2. workers = 1 /\ tasks = << >>
    <3>1. workers \in Nat \ {0}  BY <1>3 DEF LoadTypes
    <3>2. workers = 1  BY <1>5, <3>1
    <3>. QED  BY <1>3, <3>2 DEF PhasesInv
  <2>3. Base' = Base /\ Inserted' = Inserted /\ Known' = Known  BY <2>1 DEF Base, Inserted, Known, Held, Batches
  <2>4. LoadTypes'  BY <1>1, <1>3, <2>1, <2>3 DEF LoadTypes
  <2>5. PhasesInv' /\ CountsInv'  BY <1>1, <1>3, <2>1, <2>2, <2>3 DEF PhasesInv, CountsInv
  <2>6. SureInv  BY <1>5 DEF LoadInv
  <2>7. ResumesInv' /\ TasksInv'  BY <1>1, <2>1, <2>2, <2>3, <2>6 DEF SureInv, ResumesInv, TasksInv, Batches, At
  <2>8. KnownInv'  BY <2>1, <2>3, <2>6, KnownStays DEF SureInv
  <2>. QED  BY <2>1, <2>2, <2>4, <2>5, <2>6, <2>7, <2>8 DEF LoadInv, SureInv
<1>. QED  BY <1>4, <1>5

\* Nothing is known before the first run.
LEMMA LoadStart == LoadInit => LoadInv
<1>. SUFFICES ASSUME LoadInit PROVE LoadInv
  OBVIOUS
<1>1. /\ phase = "idle" /\ offset = 0 /\ pos = 0 /\ seen = {} /\ inserted = 0 /\ skipped = 0 /\ printed = 0
      /\ batch = {} /\ tasks = << >> /\ table = [i \in DOMAIN rows |-> 0] /\ runs = 0 /\ unsure = FALSE
  BY DEF LoadInit
<1>2. Len(rows) \in Nat /\ DOMAIN rows = 1..Len(rows)  BY FileIsSequence DEF LoadInit, Files
<1>3. workers \in Nat \ {0}  BY LoadAssumption DEF LoadInit
<1>4. Inserted = {} /\ Known = {} /\ Base = 0  BY <1>1 DEF Inserted, Known, Held, Batches, Base
<1>5. LoadTypes
  <2>1. tasks \in Seq([batch : SUBSET DOMAIN rows, step : TaskSteps])  BY <1>1
  <2>2. table \in [DOMAIN rows -> Nat]  BY <1>1
  <2>3. pos \in 0..Len(rows) /\ Base \in 0..pos  BY <1>1, <1>2, <1>4
  <2>4. phase \in {"idle", "reading", "inserting", "queueing", "draining", "gathering", "done", "failed"}  BY <1>1
  <2>5. offset \in Nat /\ inserted \in Int /\ skipped \in Int /\ printed \in Int /\ runs \in Nat  BY <1>1
  <2>6. batch \in SUBSET DOMAIN rows /\ unsure \in BOOLEAN  BY <1>1
  <2>. QED  BY <1>2, <1>3, <2>1, <2>2, <2>3, <2>4, <2>5, <2>6 DEF LoadTypes
<1>6. PhasesInv /\ CountsInv  BY <1>1, <1>4 DEF PhasesInv, CountsInv
<1>7. ResumesInv /\ TasksInv  BY <1>1, <1>4 DEF ResumesInv, TasksInv, Batches, At
<1>8. KnownInv  BY <1>1, <1>4 DEF KnownInv, Ids
<1>. QED  BY <1>1, <1>5, <1>6, <1>7, <1>8 DEF LoadInv, SureInv

\* The invariant of a load.
LEMMA LoadInvariant == LoadSpec => []LoadInv
<1>1. ASSUME LoadInv, [LoadNext]_loadVars PROVE LoadInv'
  <2>1. CASE EmbedNext
    BY <1>1, <2>1, LoadStutters DEF EmbedNext, StartEmbedding, EmbedTexts, WriteVectors, insertVars
  <2>2. CASE StartRun  BY <1>1, <2>2, StartRunKeeps
  <2>3. CASE Read  BY <1>1, <2>3, ReadKeeps
  <2>4. CASE Insert  BY <1>1, <2>4, InsertKeeps
  <2>5. CASE InsertFails  BY <1>1, <2>5, InsertFailsKeeps
  <2>6. CASE Queue  BY <1>1, <2>6, QueueKeeps
  <2>7. CASE TakeService  BY <1>1, <2>7, TakeServiceKeeps
  <2>8. CASE Drain  BY <1>1, <2>8, DrainKeeps
  <2>9. CASE Gather  BY <1>1, <2>9, GatherKeeps
  <2>10. CASE Killed  BY <1>1, <2>10, KilledKeeps
  <2>11. CASE \E k \in DOMAIN tasks : TaskEnds(k)  BY <1>1, <2>11, TaskEndsKeeps
  <2>12. CASE UNCHANGED loadVars  BY <1>1, <2>12, LoadStutters DEF loadVars, insertVars
  <2>. QED  BY <1>1, <2>1, <2>2, <2>3, <2>4, <2>5, <2>6, <2>7, <2>8, <2>9, <2>10, <2>11, <2>12 DEF LoadNext, InsertNext
<1>. QED  BY <1>1, LoadStart, PTL DEF LoadSpec

\* When the script says it is done, every chunk with a text is in the table, no row twice,
\* and no id twice when one run did it: for any file, batch size, number of workers and of
\* waiting batches, and any number of failures and of resumed runs.
THEOREM EveryChunkOnce == LoadSpec => []LoadedOnce
<1>1. LoadInv => LoadedOnce
  <2>. SUFFICES ASSUME LoadInv, phase = "done", ~ unsure PROVE LoadedOnce
    BY DEF LoadedOnce
  <2>1. LoadTypes /\ PhasesInv /\ SureInv /\ TasksInv /\ KnownInv  BY DEF LoadInv, SureInv
  <2>2. /\ batch = {} /\ pos = Len(rows) /\ DOMAIN tasks = At("ok") \cup At("taken") /\ DOMAIN rows = 1..Len(rows)
    BY <2>1 DEF PhasesInv, LoadTypes
  <2>3. Known = Inserted
    <3>1. Batches(DOMAIN tasks) \subseteq Inserted  BY <2>1, <2>2 DEF TasksInv
    <3>. QED  BY <2>2, <3>1 DEF Known, Held
  <2>4. \A i \in DOMAIN rows : table[i] <= 1  BY <2>1 DEF SureInv
  <2>5. {rows[i].id : i \in {j \in DOMAIN rows : Usable(j)}} = {rows[i].id : i \in Inserted}
    <3>1. \A i \in Inserted : i \in DOMAIN rows /\ Usable(i)  BY <2>1, <2>3 DEF KnownInv, Inserted
    <3>2. \A i \in DOMAIN rows : Usable(i) => rows[i].id \in {rows[j].id : j \in Inserted}
      BY <2>1, <2>2, <2>3 DEF KnownInv, Ids
    <3>. QED  BY <3>1, <3>2
  <2>6. runs = 1 => \A i, j \in Inserted : rows[i].id = rows[j].id => i = j
    <3>1. runs = 1 => runs <= 1  OBVIOUS
    <3>. QED  BY <2>1, <2>3, <3>1 DEF KnownInv
  <2>. QED  BY <2>4, <2>5, <2>6 DEF LoadedOnce, Inserted
<1>. QED  BY <1>1, LoadInvariant, PTL
-----------------------------------------------------------------------------
(* The vectors of a file *)

\* Positions that are listed by their rank are all listed, in order.
LEMMA Ranking ==
    ASSUME NEW n \in Nat, NEW P \in SUBSET (1..n)
    PROVE  LET ranked == [k \in 1..Cardinality(P) |-> CHOOSE i \in P : Cardinality({j \in P : j <= i}) = k]
           IN /\ Cardinality(P) \in Nat
              /\ ranked \in [1..Cardinality(P) -> P]
              /\ \A i \in P : \E k \in 1..Cardinality(P) : ranked[k] = i
              /\ \A j, k \in 1..Cardinality(P) : j < k => ranked[j] < ranked[k]
<1>. DEFINE Upto(i) == {j \in P : j <= i}
            rank == [i \in P |-> Cardinality(Upto(i))]
            nth(k) == CHOOSE i \in P : Cardinality(Upto(i)) = k
<1>1. IsFiniteSet(P) /\ Cardinality(P) \in Nat
  <2>1. IsFiniteSet(1..n)  BY FS_Interval
  <2>. QED  BY <2>1, FS_Subset, FS_CardinalityType
<1>2. \A i \in P : IsFiniteSet(Upto(i)) /\ Cardinality(Upto(i)) \in 1..Cardinality(P)
  <2>. SUFFICES ASSUME NEW i \in P PROVE IsFiniteSet(Upto(i)) /\ Cardinality(Upto(i)) \in 1..Cardinality(P)
    OBVIOUS
  <2>1. Upto(i) \subseteq P /\ Upto(i) # {}  OBVIOUS
  <2>2. IsFiniteSet(Upto(i)) /\ Cardinality(Upto(i)) <= Cardinality(P)  BY <1>1, <2>1, FS_Subset
  <2>3. Cardinality(Upto(i)) \in Nat /\ Cardinality(Upto(i)) # 0
    BY <2>1, <2>2, FS_CardinalityType, FS_EmptySet
  <2>. QED  BY <1>1, <2>2, <2>3
<1>3. ASSUME NEW i \in P, NEW j \in P, i < j PROVE Cardinality(Upto(i)) < Cardinality(Upto(j))
  <2>1. i \in Int /\ j \in Int /\ \A k \in P : k \in Int  OBVIOUS
  <2>2. j \in Upto(j) /\ j \notin Upto(i)  BY <1>3, <2>1
  <2>3. Upto(i) \subseteq Upto(j)
    <3>1. \A k \in P : k <= i => k <= j  BY <1>3, <2>1
    <3>. QED  BY <3>1
  <2>4. Cardinality(Upto(i)) <= Cardinality(Upto(j)) /\ Cardinality(Upto(i)) # Cardinality(Upto(j))
    BY <1>2, <2>2, <2>3, FS_Subset
  <2>. QED  BY <1>2, <2>4
<1>4. rank \in Surjection(P, 1..Cardinality(P))
  <2>1. rank \in [P -> 1..Cardinality(P)]  BY <1>2
  <2>2. \A i, j \in P : rank[i] = rank[j] => i = j
    <3>1. \A i, j \in P : i < j \/ j < i \/ i = j  OBVIOUS
    <3>2. \A i, j \in P : i < j => rank[i] # rank[j]  BY <1>2, <1>3
    <3>. QED  BY <3>1, <3>2
  <2>3. rank \in Injection(P, 1..Cardinality(P))  BY <2>1, <2>2 DEF Injection, IsInjective
  <2>4. IsFiniteSet(1..Cardinality(P)) /\ Cardinality(1..Cardinality(P)) = Cardinality(P)
    BY <1>1, FS_Interval
  <2>. HIDE DEF rank
  <2>. QED  BY <1>1, <2>3, <2>4, FS_Injection
<1>5. \A k \in 1..Cardinality(P) : nth(k) \in P /\ Cardinality(Upto(nth(k))) = k
  <2>. SUFFICES ASSUME NEW k \in 1..Cardinality(P) PROVE nth(k) \in P /\ Cardinality(Upto(nth(k))) = k
    OBVIOUS
  <2>1. \E i \in P : rank[i] = k  BY <1>4 DEF Surjection
  <2>2. \E i \in P : Cardinality(Upto(i)) = k  BY <2>1
  <2>. HIDE DEF Upto
  <2>. QED  BY <2>2
<1>6. \A i \in P : nth(Cardinality(Upto(i))) = i
  <2>. SUFFICES ASSUME NEW i \in P PROVE nth(Cardinality(Upto(i))) = i
    OBVIOUS
  <2>. DEFINE other == nth(Cardinality(Upto(i)))
  <2>1. other \in P /\ Cardinality(Upto(other)) = Cardinality(Upto(i))  BY <1>2, <1>5
  <2>. HIDE DEF other
  <2>2. ~ (other < i) /\ ~ (i < other)  BY <1>2, <1>3, <2>1
  <2>3. other \in Int /\ i \in Int  BY <2>1
  <2>. QED  BY <2>2, <2>3 DEF other
<1>7. \A j, k \in 1..Cardinality(P) : j < k => nth(j) < nth(k)
  <2>. SUFFICES ASSUME NEW j \in 1..Cardinality(P), NEW k \in 1..Cardinality(P), j < k PROVE nth(j) < nth(k)
    OBVIOUS
  <2>1. nth(j) \in P /\ nth(k) \in P /\ Cardinality(Upto(nth(j))) = j /\ Cardinality(Upto(nth(k))) = k
    BY <1>5
  <2>2. \A i \in P : i \in Int  OBVIOUS
  <2>. HIDE DEF nth
  <2>5. nth(j) \in Int /\ nth(k) \in Int  BY <2>1, <2>2
  <2>3. nth(k) < nth(j) => k < j  BY <1>3, <2>1
  <2>4. nth(j) # nth(k)  BY <2>1
  <2>. QED  BY <2>3, <2>4, <2>5
<1>. DEFINE ranked == [k \in 1..Cardinality(P) |-> nth(k)]
<1>8. ranked \in [1..Cardinality(P) -> P]  BY <1>5
<1>9. \A i \in P : \E k \in 1..Cardinality(P) : ranked[k] = i
  <2>. SUFFICES ASSUME NEW i \in P PROVE \E k \in 1..Cardinality(P) : ranked[k] = i
    OBVIOUS
  <2>1. Cardinality(Upto(i)) \in 1..Cardinality(P)  BY <1>2
  <2>2. ranked[Cardinality(Upto(i))] = nth(Cardinality(Upto(i)))  BY <2>1
  <2>3. ranked[Cardinality(Upto(i))] = i  BY <1>6, <2>2
  <2>. HIDE DEF ranked
  <2>. QED  BY <2>1, <2>3
<1>10. \A j, k \in 1..Cardinality(P) : j < k => ranked[j] < ranked[k]
  <2>. SUFFICES ASSUME NEW j \in 1..Cardinality(P), NEW k \in 1..Cardinality(P), j < k PROVE ranked[j] < ranked[k]
    OBVIOUS
  <2>1. ranked[j] = nth(j) /\ ranked[k] = nth(k)  OBVIOUS
  <2>2. nth(j) < nth(k)  BY <1>7
  <2>. HIDE DEF ranked, nth
  <2>. QED  BY <2>1, <2>2
<1>. QED  BY <1>1, <1>8, <1>9, <1>10

\* What there is to embed: the rows with a text, in order.
LEMMA WorkIsWhole ==
    ASSUME LoadTypes
    PROVE  /\ Work \in Seq(Nat)
           /\ {Work[k] : k \in DOMAIN Work} = {i \in DOMAIN rows : Usable(i)}
           /\ \A j, k \in DOMAIN Work : j < k => Work[j] < Work[k]
<1>. DEFINE P == {i \in DOMAIN rows : Usable(i)}
            n == Cardinality(P)
<1>1. Len(rows) \in Nat /\ P \in SUBSET (1..Len(rows))  BY DEF LoadTypes
<1>2. Work = [k \in 1..n |-> CHOOSE i \in P : Cardinality({j \in P : j <= i}) = k]  BY DEF Work
<1>. HIDE DEF P
<1>3. /\ n \in Nat
      /\ Work \in [1..n -> P]
      /\ \A i \in P : \E k \in 1..n : Work[k] = i
      /\ \A j, k \in 1..n : j < k => Work[j] < Work[k]
  <2>. DEFINE ranked == [k \in 1..n |-> CHOOSE i \in P : Cardinality({j \in P : j <= i}) = k]
  <2>1. /\ n \in Nat
        /\ ranked \in [1..n -> P]
        /\ \A i \in P : \E k \in 1..n : ranked[k] = i
        /\ \A j, k \in 1..n : j < k => ranked[j] < ranked[k]
    BY <1>1, Ranking
  <2>2. Work = ranked  BY <1>2
  <2>. HIDE DEF ranked, n
  <2>. QED  BY <2>1, <2>2
<1>. HIDE DEF n
<1>4. P \subseteq Nat  BY <1>1
<1>5. Work \in [1..n -> Nat] /\ DOMAIN Work = 1..n  BY <1>3, <1>4
<1>6. {Work[k] : k \in 1..n} = P  BY <1>3
<1>7. Work \in Seq(Nat)  BY <1>3, <1>5
<1>8. {Work[k] : k \in DOMAIN Work} = P  BY <1>5, <1>6
<1>9. \A j, k \in DOMAIN Work : j < k => Work[j] < Work[k]  BY <1>3, <1>5
<1>. QED  BY <1>7, <1>8, <1>9 DEF P

\* Of what there is to embed, the batches up to start are done; only all of it is written.
Upto(n) == IF n < Len(Work) THEN n ELSE Len(Work)
EmbedInv ==
    /\ embed # NotEmbedding =>
         /\ embed \in [model : {"gemini-embedding-2", "gemini-embedding-001"}, start : Nat, out : Seq(Nat)]
         /\ embed.out = SubSeq(Work, 1, Upto(embed.start))
    /\ vectors \in {<< >>, Work}

\* A run of embed_chunks_gemini begins.
LEMMA StartEmbeddingKeeps == ASSUME LoadTypes, EmbedInv, StartEmbedding PROVE EmbedInv'
<1>1. PICK model \in {"gemini-embedding-2", "gemini-embedding-001"} :
        embed' = [model |-> model, start |-> 0, out |-> << >>]
  BY DEF StartEmbedding, NotEmbedding
<1>2. Work' = Work /\ vectors' = vectors  BY DEF StartEmbedding, insertVars, Work, Usable
<1>3. embed'.out = << >> /\ embed'.start = 0 /\ << >> \in Seq(Nat)  BY <1>1
<1>4. Work \in Seq(Nat)  BY WorkIsWhole
<1>5. SubSeq(Work, 1, Upto(0)) = << >>
  <2>1. Upto(0) = 0  BY <1>4 DEF Upto
  <2>. QED  BY <2>1, SubSeqEmpty
<1>6. Upto(0)' = Upto(0)  BY <1>2 DEF Upto
<1>. QED  BY <1>1, <1>2, <1>3, <1>5, <1>6 DEF EmbedInv, Upto

\* A batch that is answered is the next part of the work.
LEMMA EmbedTextsKeeps == ASSUME LoadTypes, EmbedInv, EmbedTexts PROVE EmbedInv'
<1>1. Work' = Work /\ vectors' = vectors  BY DEF EmbedTexts, insertVars, Work, Usable
<1>2. Work \in Seq(Nat) /\ Len(Work) \in Nat  BY WorkIsWhole
<1>3. vectors' \in {<< >>, Work'}  BY <1>1 DEF EmbedInv
<1>4. CASE embed' = NotEmbedding
  <2>1. NotEmbedding' = NotEmbedding  BY DEF NotEmbedding
  <2>. QED  BY <1>3, <1>4, <2>1 DEF EmbedInv
<1>5. CASE embed' # NotEmbedding
  <2>1. PICK n \in Answers(embed.model, Len(EmbedBatch)) :
          /\ n = Len(EmbedBatch)
          /\ embed' = [embed EXCEPT !.start = NextBatch, !.out = @ \o SubSeq(EmbedBatch, 1, n)]
    BY <1>5 DEF EmbedTexts, WholeAnswer
  <2>2. embed # NotEmbedding /\ embed.start < Len(Work)  BY DEF EmbedTexts
  <2>3. /\ embed \in [model : {"gemini-embedding-2", "gemini-embedding-001"}, start : Nat, out : Seq(Nat)]
        /\ embed.out = SubSeq(Work, 1, Upto(embed.start))
    BY <2>2 DEF EmbedInv
  <2>4. NextBatch \in Nat /\ NextBatch > embed.start
    BY <2>3, LoadAssumption DEF NextBatch, EmbedBatchSize
  <2>5. Upto(embed.start) = embed.start /\ Upto(NextBatch) \in embed.start..Len(Work)
    BY <1>2, <2>2, <2>3, <2>4 DEF Upto
  <2>6. EmbedBatch = SubSeq(Work, embed.start + 1, Upto(NextBatch))  BY DEF EmbedBatch, Upto
  <2>7. EmbedBatch \in Seq(Nat)
    <3>1. \A i \in (embed.start + 1)..Upto(NextBatch) : Work[i] \in Nat  BY <1>2, <2>3, <2>5
    <3>2. embed.start + 1 \in Int /\ Upto(NextBatch) \in Int  BY <1>2, <2>3, <2>5
    <3>. QED  BY <2>6, <3>1, <3>2, SubSeqProperties
  <2>8. SubSeq(EmbedBatch, 1, n) = EmbedBatch  BY <2>1, <2>7, SubSeqFull
  <2>9. embed.out \o EmbedBatch = SubSeq(Work, 1, Upto(NextBatch))
    <3>. DEFINE here == embed.start
                there == Upto(NextBatch)
    <3>1. here \in 1-1..Len(Work) /\ 1 \in 1..(Len(Work) + 1) /\ there \in here..Len(Work)
      BY <1>2, <2>2, <2>3, <2>5
    <3>2. embed.out = SubSeq(Work, 1, here) /\ EmbedBatch = SubSeq(Work, here + 1, there)  BY <2>3, <2>5, <2>6
    <3>. HIDE DEF here, there
    <3>3. SubSeq(Work, 1, here) \o SubSeq(Work, here + 1, there) = SubSeq(Work, 1, there)
      BY <1>2, <3>1, ConcatAdjacentSubSeq
    <3>. QED  BY <3>2, <3>3 DEF there
  <2>10. /\ embed' \in [model : {"gemini-embedding-2", "gemini-embedding-001"}, start : Nat, out : Seq(Nat)]
         /\ embed'.start = NextBatch /\ embed'.out = embed.out \o EmbedBatch
    <3>1. embed.out \o EmbedBatch \in Seq(Nat)  BY <2>3, <2>7, ConcatProperties
    <3>. QED  BY <2>1, <2>3, <2>4, <2>8, <3>1
  <2>11. Upto(NextBatch) = Upto(embed.start)'  BY <1>1, <2>10 DEF Upto
  <2>. QED  BY <1>1, <1>3, <2>9, <2>10, <2>11 DEF EmbedInv
<1>. QED  BY <1>4, <1>5

\* The file is written when all of the work is done.
LEMMA WriteVectorsKeeps == ASSUME LoadTypes, EmbedInv, WriteVectors PROVE EmbedInv'
<1>1. Work' = Work /\ NotEmbedding' = NotEmbedding  BY DEF WriteVectors, insertVars, Work, Usable, NotEmbedding
<1>2. Work \in Seq(Nat) /\ Len(Work) \in Nat  BY WorkIsWhole
<1>3. embed # NotEmbedding /\ embed.start >= Len(Work)  BY DEF WriteVectors
<1>4. embed.start \in Nat /\ embed.out = SubSeq(Work, 1, Upto(embed.start))  BY <1>3 DEF EmbedInv
<1>5. embed.out = Work
  <2>1. Upto(embed.start) = Len(Work)  BY <1>2, <1>3, <1>4 DEF Upto
  <2>. QED  BY <1>2, <1>4, <2>1, SubSeqFull
<1>. QED  BY <1>1, <1>5 DEF EmbedInv, WriteVectors

\* The insertion is not concerned.
LEMMA EmbedStays == ASSUME EmbedInv, rows' = rows, UNCHANGED embedVars PROVE EmbedInv'
<1>1. Work' = Work  BY DEF Work, Usable
<1>2. Upto(embed.start)' = Upto(embed.start) /\ NotEmbedding' = NotEmbedding  BY <1>1 DEF embedVars, Upto, NotEmbedding
<1>. QED  BY <1>1, <1>2 DEF EmbedInv, embedVars

\* The insertion writes neither the file of chunks nor that of vectors.
LEMMA InsertIsApart == InsertNext => rows' = rows /\ UNCHANGED embedVars
<1>1. ASSUME NEW k \in DOMAIN tasks, TaskEnds(k) PROVE rows' = rows /\ UNCHANGED embedVars
  BY <1>1 DEF TaskEnds, Unmoved
<1>2. StartRun \/ Read \/ Insert \/ InsertFails \/ Queue => rows' = rows /\ UNCHANGED embedVars
  BY DEF StartRun, Read, Insert, InsertFails, Queue
<1>3. TakeService \/ Drain \/ Gather \/ Killed => rows' = rows /\ UNCHANGED embedVars
  BY DEF TakeService, Unmoved, Drain, Gather, Killed
<1>. QED  BY <1>1, <1>2, <1>3 DEF InsertNext

\* The invariant of both scripts.
LEMMA EmbedInvariant == LoadSpec => []EmbedInv
<1>1. LoadInit => EmbedInv  BY DEF LoadInit, EmbedInv
<1>2. ASSUME LoadInv, EmbedInv, [LoadNext]_loadVars PROVE EmbedInv'
  <2>1. LoadTypes  BY <1>2 DEF LoadInv
  <2>2. CASE EmbedNext
    BY <1>2, <2>1, <2>2, StartEmbeddingKeeps, EmbedTextsKeeps, WriteVectorsKeeps DEF EmbedNext
  <2>3. CASE InsertNext  BY <1>2, <2>3, InsertIsApart, EmbedStays
  <2>4. CASE UNCHANGED loadVars  BY <1>2, <2>4, EmbedStays DEF loadVars, insertVars
  <2>. QED  BY <1>2, <2>2, <2>3, <2>4 DEF LoadNext
<1>. QED  BY <1>1, <1>2, LoadInvariant, PTL DEF LoadSpec

\* The file of vectors has one for every chunk with a text, in order, for any batch size
\* and either kind of model, however often a request is answered in part or fails.
THEOREM VectorsOfAll == LoadSpec => []VectorsAreWhole
<1>1. LoadTypes /\ EmbedInv => VectorsAreWhole
  BY WorkIsWhole DEF EmbedInv, VectorsAreWhole
<1>2. LoadInv => LoadTypes  BY DEF LoadInv
<1>. QED  BY <1>1, <1>2, LoadInvariant, EmbedInvariant, PTL
-----------------------------------------------------------------------------
(* The department of a petition *)

\* A finite sequence, of whatever it is.
IsList(s) == \E S : s \in Seq(S)

\* A function on the numbers up to one is a sequence.
LEMMA FunctionsAreLists ==
    ASSUME NEW n \in Nat, NEW s, DOMAIN s = 1..n, s = [k \in 1..n |-> s[k]]
    PROVE  IsList(s)
<1>. DEFINE S == {s[k] : k \in 1..n}
<1>1. s \in [1..n -> S]  OBVIOUS
<1>. HIDE DEF S
<1>2. s \in Seq(S)  BY <1>1
<1>. QED  BY <1>2 DEF IsList

\* Of two sequences, one after the other is one, and what is before the n-th is one of one.
LEMMA JoinedLists == ASSUME NEW s, NEW t, IsList(s), IsList(t) PROVE IsList(s \o t)
<1>1. PICK S : s \in Seq(S)  BY DEF IsList
<1>2. PICK T : t \in Seq(T)  BY DEF IsList
<1>3. s \in Seq(S \cup T) /\ t \in Seq(S \cup T)  BY <1>1, <1>2
<1>4. s \o t \in Seq(S \cup T)  BY <1>3, ConcatProperties
<1>. QED  BY <1>4 DEF IsList

LEMMA MinOfTwo ==
    ASSUME NEW a \in Nat, NEW b \in Nat
    PROVE  Min({a, b}) = (IF a <= b THEN a ELSE b)
<1>. DEFINE least == IF a <= b THEN a ELSE b
<1>1. least \in {a, b} /\ \A y \in {a, b} : least <= y  OBVIOUS
<1>2. \A x \in {a, b} : (\A y \in {a, b} : x <= y) => x = least  OBVIOUS
<1>. QED  BY <1>1, <1>2 DEF Min

LEMMA FirstIsList == ASSUME NEW s, IsList(s), NEW n \in Nat PROVE IsList(First(s, n))
<1>1. PICK S : s \in Seq(S)  BY DEF IsList
<1>2. Len(s) \in Nat /\ \A k \in 1..Len(s) : s[k] \in S  BY <1>1
<1>. DEFINE m == Min({n, Len(s)})
<1>3. m \in 0..Len(s)  BY <1>2, MinOfTwo
<1>. HIDE DEF m
<1>4. \A k \in 1..m : s[k] \in S  BY <1>2, <1>3
<1>5. m \in Int  BY <1>2, <1>3
<1>6. SubSeq(s, 1, m) \in Seq(S)  BY <1>4, <1>5, SubSeqProperties
<1>. QED  BY <1>6 DEF IsList, First, m

\* Rows found are sorted into a sequence, and hits are one.
LEMMA SortedIsList == ASSUME NEW copies, NEW score, IsFiniteSet(copies) PROVE IsList(Sorted(copies, score))
<1>1. Cardinality(copies) \in Nat  BY FS_CardinalityType
<1>. DEFINE before(x, y) ==
                \/ score[TextOf(x)] > score[TextOf(y)]
                \/ score[TextOf(x)] = score[TextOf(y)] /\ NotAfter(x, y)
            place(k) == CHOOSE y \in copies : Cardinality({x \in copies : before(x, y)}) = k
<1>2. Sorted(copies, score) = [k \in 1..Cardinality(copies) |-> place(k)]  BY DEF Sorted
<1>. HIDE DEF place
<1>3. /\ DOMAIN Sorted(copies, score) = 1..Cardinality(copies)
      /\ Sorted(copies, score) = [k \in 1..Cardinality(copies) |-> Sorted(copies, score)[k]]
  BY <1>2
<1>. QED  BY <1>1, <1>3, FunctionsAreLists

LEMMA HitsAreList == ASSUME NEW copies, NEW score, IsList(copies) PROVE IsList(HitsOf(copies, score))
<1>1. PICK S : copies \in Seq(S)  BY DEF IsList
<1>2. Len(copies) \in Nat /\ DOMAIN copies = 1..Len(copies)  BY <1>1
<1>. DEFINE hit(k) == [text |-> TextOf(copies[k]), category |-> rows[copies[k][1]].category, score |-> score[TextOf(copies[k])]]
            list == HitsOf(copies, score)
<1>3. list = [k \in 1..Len(copies) |-> hit(k)]  BY <1>2 DEF HitsOf
<1>. HIDE DEF hit, list
<1>4. DOMAIN list = 1..Len(copies) /\ list = [k \in 1..Len(copies) |-> list[k]]  BY <1>3
<1>5. IsList(list)  BY <1>2, <1>4, FunctionsAreLists
<1>. QED  BY <1>5 DEF list

\* The table holds finitely many copies of rows.
LEMMA CopiesAreFinite == ASSUME LoadTypes PROVE IsFiniteSet(Copies)
<1>. DEFINE Part(i) == {i} \X (1..table[i])
            S == DOMAIN rows
            f == [i \in S |-> Part(i)]
            T == {Part(i) : i \in S}
<1>1. IsFiniteSet(S)  BY FS_Interval DEF LoadTypes
<1>2. \A i \in S : table[i] \in Nat  BY DEF LoadTypes
<1>3. ASSUME NEW i \in S PROVE IsFiniteSet(Part(i))
  <2>1. IsFiniteSet(1..table[i])  BY <1>2, FS_Interval
  <2>. QED  BY <2>1, FS_Singleton, FS_Product
<1>4. IsFiniteSet(T)
  <2>. HIDE DEF S, Part
  <2>1. f \in Surjection(S, T)  BY DEF Surjection
  <2>. QED  BY <1>1, <2>1, FS_Surjection
<1>5. IsFiniteSet(UNION T)  BY <1>3, <1>4, FS_UNION
<1>. QED  BY <1>5 DEF Copies

\* A petition gets a list of hits.
LEMMA AskFindsList ==
    ASSUME LoadTypes, NEW domain, NEW outcome, Ask(domain, outcome)
    PROVE  IsList(hits') /\ department' = Resolve(domain, hits')
<1>1. PICK score \in Scores :
        \E found \in IF outcome = "search fails" THEN {{}} ELSE Retrieved(FetchK(outcome # "not reranked"), score) :
        \E rescore \in IF outcome = "reranked" THEN Scores ELSE {score} :
          hits' = Best(found, outcome, score, rescore) \o HitsOf(Sorted(found, score), score)
  BY DEF Ask
<1>2. PICK found \in IF outcome = "search fails" THEN {{}} ELSE Retrieved(FetchK(outcome # "not reranked"), score) :
        \E rescore \in IF outcome = "reranked" THEN Scores ELSE {score} :
          hits' = Best(found, outcome, score, rescore) \o HitsOf(Sorted(found, score), score)
  BY <1>1
<1>3. PICK rescore : hits' = Best(found, outcome, score, rescore) \o HitsOf(Sorted(found, score), score)
  BY <1>2
<1>4. IsFiniteSet(found)
  <2>1. found = {} \/ found \in SUBSET Copies  BY DEF Retrieved, kSubset
  <2>. QED  BY <2>1, CopiesAreFinite, FS_Subset, FS_EmptySet
<1>5. IsList(HitsOf(Sorted(found, score), score))  BY <1>4, SortedIsList, HitsAreList
<1>6. IsList(Best(found, outcome, score, rescore))
  <2>1. KeepK(TRUE) \in Nat /\ KeepK(outcome = "rerank fails") \in Nat
    <3>1. TopK \in Nat /\ RerankTopK \in Nat  BY DepartmentAssumption
    <3>2. Min({RerankTopK, TopK}) \in Nat  BY <3>1, MinOfTwo
    <3>. QED  BY <3>1, <3>2 DEF KeepK
  <2>2. IsList(First(Sorted(found, rescore), KeepK(TRUE)))
        /\ IsList(First(Sorted(found, score), KeepK(outcome = "rerank fails")))
    BY <1>4, <2>1, SortedIsList, FirstIsList
  <2>. QED  BY <2>2, HitsAreList DEF Best
<1>7. IsList(hits')  BY <1>3, <1>5, <1>6, JoinedLists
<1>. QED  BY <1>7 DEF Ask

\* The texts that speak for a category, of any evidence.
TextsFor(evidence, d) == {evidence[k].text : k \in Speaking(evidence, d)}

\* There are as many texts that speak for a category as places where they are met first,
\* and its weight is at least two and at most four for each.
LEMMA WeightOfTexts ==
    ASSUME NEW n \in Nat, NEW evidence, DOMAIN evidence = 1..n, NEW d
    PROVE  /\ Speaking(evidence, d) \in SUBSET (1..n)
           /\ Cardinality(TextsFor(evidence, d)) \in Nat
           /\ TextsFor(evidence, d) = {} <=> Speaking(evidence, d) = {}
           /\ Cardinality(TextsFor(evidence, d)) = 0 <=> Speaking(evidence, d) = {}
           /\ Weight(evidence, d) \in (2 * Cardinality(TextsFor(evidence, d)))..(4 * Cardinality(TextsFor(evidence, d)))
           /\ Cardinality(TextsFor(evidence, d)) <= n
<1>. DEFINE S == Speaking(evidence, d)
            T == TextsFor(evidence, d)
            f == [k \in S |-> evidence[k].text]
            R == {k \in S : evidence[k].score = 2}
<1>1. S \in SUBSET (1..n)  BY DEF Speaking, FirstMet
<1>2. IsFiniteSet(1..n) /\ Cardinality(1..n) = n  BY FS_Interval
<1>3. IsFiniteSet(S) /\ Cardinality(S) \in Nat /\ Cardinality(S) <= n  BY <1>1, <1>2, FS_Subset, FS_CardinalityType
<1>4. f \in Surjection(S, T)
  <2>1. T = {f[k] : k \in S}  BY DEF TextsFor
  <2>2. f \in [S -> T]  BY <2>1
  <2>. HIDE DEF S, T, f
  <2>. QED  BY <2>1, <2>2 DEF Surjection
<1>5. f \in Injection(S, T)
  <2>1. ASSUME NEW j \in S, NEW k \in S, f[j] = f[k] PROVE j = k
    <3>1. j \in Int /\ k \in Int /\ 1 <= j /\ 1 <= k  BY <1>1
    <3>2. \A i \in 1..(k - 1) : evidence[i].text # evidence[k].text  BY DEF Speaking, FirstMet
    <3>3. \A i \in 1..(j - 1) : evidence[i].text # evidence[j].text  BY DEF Speaking, FirstMet
    <3>4. evidence[j].text = evidence[k].text  BY <2>1
    <3>5. ~ (j < k)
      <4>1. j < k => j \in 1..(k - 1)  BY <3>1
      <4>. QED  BY <3>2, <3>4, <4>1
    <3>6. ~ (k < j)
      <4>1. k < j => k \in 1..(j - 1)  BY <3>1
      <4>. QED  BY <3>3, <3>4, <4>1
    <3>. QED  BY <3>1, <3>5, <3>6
  <2>2. f \in [S -> T]  BY <1>4 DEF Surjection
  <2>. HIDE DEF S, T, f
  <2>. QED  BY <2>1, <2>2 DEF Injection, IsInjective
<1>6. IsFiniteSet(T) /\ Cardinality(T) = Cardinality(S)
  <2>. HIDE DEF S, T, f
  <2>. QED  BY <1>3, <1>4, <1>5, FS_Surjection
<1>7. T = {} <=> S = {}  BY DEF TextsFor
<1>8. Cardinality(S) = 0 <=> S = {}  BY <1>3, FS_EmptySet
<1>9. Cardinality(R) \in 0..Cardinality(S)
  <2>1. R \subseteq S  OBVIOUS
  <2>. HIDE DEF R
  <2>2. IsFiniteSet(R) /\ Cardinality(R) <= Cardinality(S)  BY <1>3, <2>1, FS_Subset
  <2>3. Cardinality(R) \in Nat  BY <2>2, FS_CardinalityType
  <2>. QED  BY <1>3, <2>2, <2>3
<1>10. Weight(evidence, d) = 2 * Cardinality(S) + 2 * Cardinality(R)  BY DEF Weight
<1>11. Weight(evidence, d) \in (2 * Cardinality(S))..(4 * Cardinality(S))
  <2>. HIDE DEF S, R
  <2>. QED  BY <1>3, <1>9, <1>10
<1>. HIDE DEF S, T
<1>12. /\ S \in SUBSET (1..n)
       /\ Cardinality(T) \in Nat
       /\ T = {} <=> S = {}
       /\ Cardinality(T) = 0 <=> S = {}
       /\ Weight(evidence, d) \in (2 * Cardinality(T))..(4 * Cardinality(T))
       /\ Cardinality(T) <= n
  BY <1>1, <1>3, <1>6, <1>7, <1>8, <1>11
<1>. QED  BY <1>12 DEF S, T

\* Where somebody is named, somebody is among the weightiest.
LEMMA SomeWeightiest ==
    ASSUME NEW n \in Nat, NEW evidence, DOMAIN evidence = 1..n, Named(evidence) # {}
    PROVE  Weightiest(evidence) # {}
<1>. DEFINE W(d) == Weight(evidence, d)
            top == 4 * n + 1
            P == {top - W(d) : d \in Named(evidence)}
<1>1. ASSUME NEW d \in Named(evidence) PROVE W(d) \in 1..(4 * n)
  <2>. DEFINE c == Cardinality(TextsFor(evidence, d))
  <2>1. Speaking(evidence, d) # {}  BY DEF Named
  <2>2. c \in Nat /\ c # 0 /\ W(d) \in (2 * c)..(4 * c) /\ c <= n  BY <2>1, WeightOfTexts
  <2>. HIDE DEF c, W
  <2>. QED  BY <2>2
<1>. HIDE DEF W
<1>2. P \in SUBSET (1..(4 * n)) /\ 4 * n \in Nat
  <2>1. \A w \in 1..(4 * n) : top - w \in 1..(4 * n)  OBVIOUS
  <2>. QED  BY <1>1, <2>1
<1>3. P # {}  OBVIOUS
<1>4. PICK low \in P : \A p \in P : low <= p
  <2>. HIDE DEF P
  <2>. QED  BY <1>2, <1>3, LeastPosition
<1>5. PICK d \in Named(evidence) : low = top - W(d)  BY <1>4
<1>6. ASSUME NEW e \in Named(evidence) PROVE W(d) >= W(e)
  <2>1. top - W(e) \in P  OBVIOUS
  <2>2. top - W(d) <= top - W(e)  BY <1>4, <1>5, <2>1
  <2>3. W(d) \in Int /\ W(e) \in Int /\ top \in Int  BY <1>1
  <2>. HIDE DEF top
  <2>. QED  BY <2>2, <2>3
<1>7. d \in Weightiest(evidence)  BY <1>6 DEF Weightiest, W
<1>. QED  BY <1>7

\* Of them one is met first: it is the department.
LEMMA ResolvesToWeightiest ==
    ASSUME NEW n \in Nat, NEW evidence, DOMAIN evidence = 1..n, Named(evidence) # {},
           NEW domain, domain \notin Curated \ {Common}
    PROVE  Resolve(domain, evidence) \in Weightiest(evidence)
<1>. DEFINE place(d) == Min(Speaking(evidence, d))
            P == {place(d) : d \in Weightiest(evidence)}
<1>1. ASSUME NEW d \in Weightiest(evidence) PROVE place(d) \in 1..n
  <2>1. Speaking(evidence, d) # {} /\ Speaking(evidence, d) \in SUBSET (1..n)
    BY WeightOfTexts DEF Weightiest, Named
  <2>2. \E k \in Speaking(evidence, d) : \A j \in Speaking(evidence, d) : k <= j  BY <2>1, LeastPosition
  <2>3. place(d) \in Speaking(evidence, d)  BY <2>2 DEF Min
  <2>. QED  BY <2>1, <2>3
<1>. HIDE DEF place
<1>2. P \in SUBSET (1..n) /\ P # {}  BY <1>1, SomeWeightiest
<1>3. PICK low \in P : \A p \in P : low <= p
  <2>. HIDE DEF P
  <2>. QED  BY <1>2, LeastPosition
<1>4. \E d \in Weightiest(evidence) : \A e \in Weightiest(evidence) : place(d) <= place(e)  BY <1>3
<1>5. Resolve(domain, evidence) =
        CHOOSE d \in Weightiest(evidence) : \A e \in Weightiest(evidence) : place(d) <= place(e)
  BY DEF Resolve, place
<1>. QED  BY <1>4, <1>5

\* What _resolve_department says is borne out by the texts that were found.
LEMMA ResolveIsBorneOut ==
    ASSUME NEW n \in Nat, NEW evidence, DOMAIN evidence = 1..n, NEW domain \in {Missing, Common}
    PROVE  IF Resolve(domain, evidence) \in Curated
           THEN \A d \in Curated :
                    Cardinality(TextsFor(evidence, d)) <= 2 * Cardinality(TextsFor(evidence, Resolve(domain, evidence)))
           ELSE \A d \in Curated : TextsFor(evidence, d) = {}
<1>. DEFINE r == Resolve(domain, evidence)
            texts(d) == Cardinality(TextsFor(evidence, d))
<1>1. domain \notin Curated \ {Common}  BY DepartmentAssumption
<1>2. \A d :
        /\ texts(d) \in Nat
        /\ texts(d) = 0 <=> Speaking(evidence, d) = {}
        /\ TextsFor(evidence, d) = {} <=> Speaking(evidence, d) = {}
        /\ Weight(evidence, d) \in (2 * texts(d))..(4 * texts(d))
  BY WeightOfTexts
<1>3. CASE Named(evidence) = {}
  <2>1. \A d \in Curated : texts(d) = 0 /\ TextsFor(evidence, d) = {}  BY <1>2, <1>3 DEF Named
  <2>. HIDE DEF texts
  <2>2. \A d \in Curated : texts(d) <= 2 * texts(r)  BY <1>2, <2>1
  <2>. QED  BY <2>1, <2>2 DEF texts
<1>4. CASE Named(evidence) # {}
  <2>1. r \in Weightiest(evidence)  BY <1>1, <1>4, ResolvesToWeightiest
  <2>2. r \in Curated  BY <2>1 DEF Weightiest, Named
  <2>. HIDE DEF r
  <2>3. ASSUME NEW d \in Curated PROVE texts(d) <= 2 * texts(r)
    <3>. HIDE DEF texts
    <3>1. CASE d \in Named(evidence)
      <4>1. Weight(evidence, r) >= Weight(evidence, d)  BY <2>1, <3>1 DEF Weightiest
      <4>2. /\ texts(d) \in Nat /\ texts(r) \in Nat
            /\ Weight(evidence, d) \in (2 * texts(d))..(4 * texts(d))
            /\ Weight(evidence, r) \in (2 * texts(r))..(4 * texts(r))
        BY <1>2
      <4>. QED  BY <4>1, <4>2
    <3>2. CASE d \notin Named(evidence)
      <4>1. texts(d) = 0  BY <1>2, <3>2 DEF Named
      <4>2. texts(r) \in Nat  BY <1>2
      <4>. QED  BY <4>1, <4>2
    <3>. QED  BY <3>1, <3>2
  <2>. QED  BY <2>2, <2>3 DEF r
<1>. QED  BY <1>3, <1>4

\* So is the department of a petition.
LEMMA AskIsBorneOut ==
    ASSUME LoadTypes, NEW domain \in {Missing, Common}, NEW outcome, Ask(domain, outcome)
    PROVE  DepartmentIsBorneOut'
<1>1. IsList(hits') /\ department' = Resolve(domain, hits')  BY AskFindsList
<1>2. PICK n \in Nat : DOMAIN hits' = 1..n
  <2>1. PICK S : hits' \in Seq(S)  BY <1>1 DEF IsList
  <2>2. Len(hits') \in Nat /\ DOMAIN hits' = 1..Len(hits')  BY <2>1
  <2>. QED  BY <2>2
<1>3. \A d : Votes(d)' = TextsFor(hits', d)  BY DEF Votes, TextsFor, Speaking, FirstMet
<1>4. IF Resolve(domain, hits') \in Curated
      THEN \A d \in Curated :
               Cardinality(TextsFor(hits', d)) <= 2 * Cardinality(TextsFor(hits', Resolve(domain, hits')))
      ELSE \A d \in Curated : TextsFor(hits', d) = {}
  BY <1>2, ResolveIsBorneOut
<1>. QED  BY <1>1, <1>3, <1>4 DEF DepartmentIsBorneOut

\* No department has more than twice as many of the texts found as the one a petition
\* goes to, for any table, any search and any scores of the two kinds.
THEOREM DepartmentBorneOut == AnswerSpec => []DepartmentIsBorneOut
<1>1. AnswerInit => DepartmentIsBorneOut  BY DEF AnswerInit, DepartmentIsBorneOut
<1>2. ASSUME LoadInv, DepartmentIsBorneOut, [LoadOrAnswer]_<<loadVars, answerVars>> PROVE DepartmentIsBorneOut'
  <2>1. CASE UNCHANGED answerVars
    BY <1>2, <2>1 DEF answerVars, DepartmentIsBorneOut, Votes
  <2>2. CASE AnswerNext
    BY <1>2, <2>2, AskIsBorneOut DEF AnswerNext, LoadInv
  <2>. QED  BY <1>2, <2>1, <2>2 DEF LoadOrAnswer
<1>3. AnswerSpec => LoadSpec
  <2>1. [LoadOrAnswer]_<<loadVars, answerVars>> => [LoadNext]_loadVars
    BY DEF LoadOrAnswer, AnswerNext, Ask
  <2>. QED  BY <2>1, PTL DEF AnswerSpec, LoadSpec
<1>. QED  BY <1>1, <1>2, <1>3, LoadInvariant, PTL DEF AnswerSpec
-----------------------------------------------------------------------------
\* The chunks of a document.

\* The intervals of the text, and what lies in one.
Spans == {c \in (1..Len(text)) \X (1..Len(text)) : c[1] <= c[2]}
Within(i, c) == c[1] <= i /\ i <= c[2]

\* The document is clean, and the sizes are those check_chunk_params lets through.
TextInv ==
    /\ text \in Seq(White \cup Visible) /\ Clean(text)
    /\ size \in Nat /\ overlap \in Nat /\ overlap < size

\* Chunks are intervals of the text; those still to be refined end with a character.
SpansInv ==
    /\ next \in Nat \ {0} /\ at \in Nat
    /\ made \in Seq(Spans) /\ chunks \in Seq(Spans)
    /\ current # << >> => current \in Spans /\ current[2] = next - 2 /\ text[current[2]] \in Visible
    /\ \A k \in DOMAIN made : text[made[k][2]] \in Visible
    /\ at # 0 => made # << >> /\ Within(at, made[1])

\* Where the first of the chunks that are still to be refined is taken up.
Resumed == IF at = 0 THEN made[1][1] ELSE at

\* Lines are read before chunks are refined, and no chunk repeats too much of the one before.
OverlapInv ==
    /\ next <= Len(text) /\ current = << >> => made = << >>
    /\ chunks # << >> => next > Len(text) /\ current = << >>
    /\ \A k \in 2..Len(made) : made[k - 1][2] - made[k][1] < overlap
    /\ current # << >> /\ made # << >> => made[Len(made)][2] - current[1] < overlap
    /\ chunks # << >> /\ made # << >> => chunks[Len(chunks)][2] - Resumed < overlap

\* What the property says of the chunks that are done.
DoneInv ==
    /\ \A k \in DOMAIN chunks : chunks[k][2] - chunks[k][1] < size
    /\ \A k \in 2..Len(chunks) : chunks[k - 1][2] - chunks[k][1] < overlap

\* Every character of the lines that were read is in a chunk, and not in the part of the
\* first one that has been cut off.
CoverInv ==
    \A i \in 1..Len(text) : i < next /\ text[i] \in Visible =>
        \/ current # << >> /\ Within(i, current)
        \/ \E k \in DOMAIN made : Within(i, made[k]) /\ (k = 1 => at <= i)
        \/ \E k \in DOMAIN chunks : Within(i, chunks[k])

ChunkInv == TextInv /\ SpansInv /\ OverlapInv /\ DoneInv /\ CoverInv

\* Min and Max of FiniteSetsExt, on positions.
LEMMA MinOfPositions ==
    ASSUME NEW n \in Nat, NEW P \in SUBSET (1..n), P # {}
    PROVE  Min(P) \in P /\ \A k \in P : Min(P) <= k
<1>1. \E i \in P : \A k \in P : i <= k  BY LeastPosition
<1>. QED  BY <1>1 DEF Min

LEMMA MaxOfPositions ==
    ASSUME NEW n \in Nat, NEW P \in SUBSET (1..n), P # {}
    PROVE  Max(P) \in P /\ \A k \in P : k <= Max(P)
<1>. DEFINE Q == {n + 1 - i : i \in P}
<1>1. Q \in SUBSET (1..n) /\ Q # {}
  <2>1. \A i \in P : i \in 1..n  OBVIOUS
  <2>2. \A i \in 1..n : n + 1 - i \in 1..n  OBVIOUS
  <2>. QED  BY <2>1, <2>2
<1>2. PICK low \in Q : \A q \in Q : low <= q
  <2>. HIDE DEF Q
  <2>. QED  BY <1>1, LeastPosition
<1>3. PICK i \in P : low = n + 1 - i  BY <1>2
<1>4. ASSUME NEW k \in P PROVE i >= k
  <2>1. n + 1 - i <= n + 1 - k  BY <1>2, <1>3
  <2>. QED  BY <2>1
<1>. QED  BY <1>4 DEF Max

\* A line ends with a character, and a break or the end of the text follows it.
LEMMA LineEndIsSeen ==
    ASSUME TextInv, NEW a \in Nat \ {0}, a <= Len(text)
    PROVE  /\ LineEnd(a) \in a..Len(text)
           /\ text[LineEnd(a)] \in Visible
           /\ LineEnd(a) = Len(text) \/ text[LineEnd(a) + 1] = "break"
<1>. DEFINE P == {i \in a..Len(text) : i = Len(text) \/ text[i + 1] = "break"}
<1>1. Len(text) \in Nat /\ text # << >> /\ \A i \in 1..Len(text) : text[i] \in White \cup Visible
  BY DEF TextInv
<1>2. P \in SUBSET (1..Len(text)) /\ Len(text) \in P  BY <1>1
<1>3. Min(P) \in P
  <2>. HIDE DEF P
  <2>. QED  BY <1>1, <1>2, MinOfPositions
<1>4. LineEnd(a) = Min(P)  BY DEF LineEnd
<1>5. LineEnd(a) \in a..Len(text) /\ (LineEnd(a) = Len(text) \/ text[LineEnd(a) + 1] = "break")
  <2>. HIDE DEF LineEnd
  <2>. QED  BY <1>3, <1>4
<1>6. text[LineEnd(a)] \in Visible
  <2>. HIDE DEF LineEnd
  <2>1. CASE LineEnd(a) = Len(text)  BY <1>1, <2>1 DEF TextInv, Clean
  <2>2. CASE LineEnd(a) # Len(text)
    <3>1. LineEnd(a) \in 1..(Len(text) - 1) /\ text[LineEnd(a) + 1] \in White  BY <1>1, <1>5, <2>2 DEF White
    <3>. QED  BY <1>1, <3>1 DEF TextInv, Clean
  <2>. QED  BY <2>1, <2>2
<1>. QED  BY <1>5, <1>6

\* What is repeated of a chunk is the end of it, and not longer than asked for.
LEMMA OverlapIsTheEnd ==
    ASSUME TextInv, NEW a \in 1..Len(text), NEW b \in a..Len(text), text[b] \in Visible, overlap # 0
    PROVE  OverlapStart(a, b) \in a..b /\ b - OverlapStart(a, b) < overlap
<1>. DEFINE tail == (b - overlap + 1)..b
            ends == {i \in tail : text[i] = "break" \/ (text[i] = "space" /\ i - 1 \in tail /\ text[i - 1] = "stop")}
            words == {i \in tail : text[i] \in White}
<1>1. Len(text) \in Nat /\ a \in Nat /\ b \in Nat /\ a <= b /\ b <= Len(text) /\ overlap \in Nat
  BY DEF TextInv
<1>2. CASE b - a + 1 <= overlap
  <2>1. OverlapStart(a, b) = a  BY <1>1, <1>2 DEF OverlapStart
  <2>. QED  BY <1>1, <1>2, <2>1
<1>3. CASE ~ (b - a + 1 <= overlap)
  <2>1. b - overlap + 1 > a /\ b - a + 1 > overlap  BY <1>1, <1>3
  <2>2. ends \subseteq words  BY DEF White
  <2>3. words \in SUBSET (1..b)  BY <1>1, <2>1
  <2>4. b \notin words  BY DEF White, Visible, Plain
  <2>5. ASSUME NEW P, P \subseteq words, P # {}
        PROVE  Max(P) \in Int /\ b - overlap + 1 <= Max(P) /\ Max(P) < b
    <3>1. Max(P) \in P
      <4>. HIDE DEF words
      <4>. QED  BY <1>1, <2>3, <2>5, MaxOfPositions
    <3>2. Max(P) \in tail /\ Max(P) # b  BY <2>4, <2>5, <3>1
    <3>. HIDE DEF words
    <3>. QED  BY <1>1, <3>2
  <2>6. CASE ends # {}
    <3>1. OverlapStart(a, b) = Max(ends) + 1  BY <1>1, <1>3, <2>1, <2>6 DEF OverlapStart
    <3>2. Max(ends) \in Int /\ b - overlap + 1 <= Max(ends) /\ Max(ends) < b  BY <2>2, <2>5, <2>6
    <3>. HIDE DEF ends, words
    <3>. QED  BY <1>1, <2>1, <3>1, <3>2
  <2>7. CASE ends = {} /\ words # {}
    <3>1. OverlapStart(a, b) = Max(words) + 1  BY <1>1, <1>3, <2>1, <2>7 DEF OverlapStart
    <3>2. Max(words) \in Int /\ b - overlap + 1 <= Max(words) /\ Max(words) < b  BY <2>5, <2>7
    <3>. HIDE DEF ends, words
    <3>. QED  BY <1>1, <2>1, <3>1, <3>2
  <2>8. CASE words = {}
    <3>1. OverlapStart(a, b) = b - overlap + 1  BY <1>1, <2>1, <2>2, <2>8 DEF OverlapStart
    <3>. QED  BY <1>1, <2>1, <3>1
  <2>. QED  BY <2>6, <2>7, <2>8
<1>. QED  BY <1>2, <1>3

\* strip() keeps the characters, within the borders.
LEMMA StripKeeps ==
    ASSUME TextInv, NEW a \in 1..Len(text), NEW b \in a..Len(text), Shown(a, b) # {}
    PROVE  /\ Strip(a, b) \in Spans
           /\ a <= Strip(a, b)[1] /\ Strip(a, b)[2] <= b
           /\ \A i \in Shown(a, b) : Within(i, Strip(a, b))
<1>1. Len(text) \in Nat /\ Shown(a, b) \in SUBSET (1..Len(text)) /\ \A i \in Shown(a, b) : a <= i /\ i <= b
  BY DEF TextInv, Shown
<1>2. Min(Shown(a, b)) \in Shown(a, b) /\ \A k \in Shown(a, b) : Min(Shown(a, b)) <= k  BY <1>1, MinOfPositions
<1>3. Max(Shown(a, b)) \in Shown(a, b) /\ \A k \in Shown(a, b) : k <= Max(Shown(a, b))  BY <1>1, MaxOfPositions
<1>4. Strip(a, b)[1] = Min(Shown(a, b)) /\ Strip(a, b)[2] = Max(Shown(a, b))  BY DEF Strip
<1>5. Strip(a, b) \in Spans  BY <1>1, <1>2, <1>3 DEF Strip, Spans
<1>. QED  BY <1>1, <1>2, <1>3, <1>4, <1>5 DEF Within

\* What is stripped of a line is at its beginning.
LEMMA BeyondIsBetween ==
    ASSUME TextInv, NEW b \in 1..Len(text), NEW a \in 1..(b + 1), NEW class
    PROVE  Beyond(a, b, class) \in a..(b + 1)
<1>. DEFINE P == {i \in a..(b + 1) : i = b + 1 \/ text[i] \notin class}
<1>1. b + 1 \in Nat /\ P \in SUBSET (1..(b + 1)) /\ b + 1 \in P  BY DEF TextInv
<1>2. Min(P) \in P
  <2>. HIDE DEF P
  <2>. QED  BY <1>1, MinOfPositions
<1>. QED  BY <1>2 DEF Beyond

\* Every character of a chunk is in a line of it.
LEMMA LineOfCharacter ==
    ASSUME TextInv, NEW c \in Spans, NEW i \in 1..Len(text), Within(i, c), text[i] \in Visible
    PROVE  \E l \in LinesOf(c) : Within(i, l)
<1>. DEFINE starts == {j \in c[1]..i : j = c[1] \/ text[j - 1] = "break"}
            ends == {j \in i..c[2] : j = c[2] \/ text[j + 1] = "break"}
            a == Max(starts)
            b == Min(ends)
<1>1. /\ Len(text) \in Nat /\ c[1] \in Nat /\ c[2] \in Nat /\ i \in Nat
      /\ 1 <= c[1] /\ c[1] <= i /\ i <= c[2] /\ c[2] <= Len(text) /\ text[i] # "break"
  BY DEF TextInv, Spans, Within, Visible, Plain
<1>2. a \in starts /\ \A k \in starts : k <= a
  <2>1. starts \in SUBSET (1..Len(text)) /\ c[1] \in starts  BY <1>1
  <2>. HIDE DEF starts
  <2>. QED  BY <1>1, <2>1, MaxOfPositions
<1>3. b \in ends /\ \A k \in ends : b <= k
  <2>1. ends \in SUBSET (1..Len(text)) /\ c[2] \in ends  BY <1>1
  <2>. HIDE DEF ends
  <2>. QED  BY <1>1, <2>1, MinOfPositions
<1>4. /\ a \in c[1]..c[2] /\ a <= i /\ (a = c[1] \/ text[a - 1] = "break")
      /\ b \in c[1]..c[2] /\ i <= b /\ (b = c[2] \/ text[b + 1] = "break")
  <2>. HIDE DEF a, b
  <2>. QED  BY <1>1, <1>2, <1>3
<1>5. ASSUME NEW j \in a..b PROVE text[j] # "break"
  <2>. HIDE DEF a, b
  <2>1. SUFFICES ASSUME text[j] = "break" PROVE FALSE
    OBVIOUS
  <2>2. j \in Int /\ a <= j /\ j <= b /\ a \in Int /\ b \in Int  BY <1>1, <1>4
  <2>3. CASE j < i
    <3>1. j + 1 \in c[1]..i /\ text[(j + 1) - 1] = "break"  BY <1>1, <1>4, <2>1, <2>2, <2>3
    <3>2. j + 1 \in starts  BY <3>1
    <3>. QED  BY <1>2, <2>2, <3>2
  <2>4. CASE j > i
    <3>1. j - 1 \in i..c[2] /\ text[(j - 1) + 1] = "break"  BY <1>1, <1>4, <2>1, <2>2, <2>4
    <3>2. j - 1 \in ends  BY <3>1
    <3>. QED  BY <1>3, <2>2, <3>2
  <2>. QED  BY <1>1, <2>1, <2>2, <2>3, <2>4
<1>. HIDE DEF a, b
<1>6. a <= b  BY <1>1, <1>4
<1>7. <<a, b>> \in LinesOf(c)  BY <1>4, <1>5, <1>6 DEF LinesOf
<1>. QED  BY <1>4, <1>7 DEF Within

\* The line of a document a character is in is the only one.
LEMMA LinesDiffer ==
    ASSUME TextInv, NEW l \in LinesOf(Document), NEW m \in LinesOf(Document), NEW i \in Nat,
           Within(i, l), Within(i, m)
    PROVE  l = m
<1>1. /\ Len(text) \in Nat
      /\ \A k \in {l, m} :
           /\ k \in (1..Len(text)) \X (1..Len(text))
           /\ k[1] = 1 \/ text[k[1] - 1] = "break"
           /\ k[2] = Len(text) \/ text[k[2] + 1] = "break"
           /\ \A j \in k[1]..k[2] : text[j] # "break"
  BY DEF LinesOf, Document, TextInv
<1>2. ASSUME NEW k \in {l, m}, NEW n \in {l, m} PROVE k[1] <= n[1] /\ n[2] <= k[2]
  <2>1. /\ k[1] \in 1..Len(text) /\ k[2] \in 1..Len(text) /\ n[1] \in 1..Len(text) /\ n[2] \in 1..Len(text)
        /\ k[1] <= i /\ i <= k[2] /\ n[1] <= i /\ i <= n[2]
    BY <1>1 DEF Within
  <2>2. ~ n[1] < k[1]
    <3>1. SUFFICES ASSUME n[1] < k[1] PROVE FALSE
      OBVIOUS
    <3>2. k[1] - 1 \in n[1]..n[2] /\ k[1] # 1  BY <1>1, <2>1, <3>1
    <3>. QED  BY <1>1, <3>2
  <2>3. ~ k[2] < n[2]
    <3>1. SUFFICES ASSUME k[2] < n[2] PROVE FALSE
      OBVIOUS
    <3>2. k[2] + 1 \in n[1]..n[2] /\ k[2] # Len(text)  BY <1>1, <2>1, <3>1
    <3>. QED  BY <1>1, <3>2
  <2>. QED  BY <1>1, <2>1, <2>2, <2>3
<1>3. l[1] = m[1] /\ l[2] = m[2]  BY <1>1, <1>2
<1>. QED  BY <1>1, <1>3

\* A line that begins with plain text is stored as it is.
LEMMA PlainLineIsKept ==
    ASSUME TextInv, NEW c \in Spans, NEW l \in LinesOf(c), text[l[1]] \in Plain
    PROVE  AfterBullets(l) = l[1] /\ ~ IsDropped(l) /\ ~ IsFooter(l)
<1>1. l[1] \in Nat /\ l[2] \in Nat /\ l[1] <= l[2] /\ l[2] <= Len(text) /\ l[1] >= 1 /\ Len(text) \in Nat
  BY DEF LinesOf, Spans, TextInv
<1>2. AfterQa(l) = l[1]  BY DEF AfterQa, Plain
<1>3. AfterBullets(l) = l[1]
  <2>. DEFINE P == {i \in l[1]..(l[2] + 1) : i = l[2] + 1 \/ text[i] \notin {"space", "bullet"}}
  <2>1. l[1] \in P /\ \A k \in P : l[1] <= k /\ k \in Int  BY <1>1 DEF Plain
  <2>2. Min(P) = l[1]
    <3>. HIDE DEF P
    <3>1. \A k \in P : (\A j \in P : k <= j) => k = l[1]  BY <1>1, <2>1
    <3>. QED  BY <1>1, <2>1, <3>1 DEF Min
  <2>. QED  BY <1>2, <2>2 DEF AfterBullets, Beyond
<1>. QED  BY <1>2, <1>3 DEF IsDropped, IsFooter, IsWhole, Plain

\* What is stored of the document is stored of any chunk it lies in, or a line that was cut
\* begins with what is no plain text.
LEMMA ChunkStoresTheText ==
    ASSUME TextInv, NEW c \in Spans, NEW i \in Stored(Document), Within(i, c), ~ ReadAsMark(c, i)
    PROVE  i \in Stored(c)
<1>. DEFINE kept(m) == ~ IsDropped(m) /\ i \in Shown(AfterBullets(m), m[2])
<1>1. PICK l \in LinesOf(Document) :
        kept(l) /\ \A f \in LinesOf(Document) : IsFooter(f) => l[1] < f[1]
  BY DEF Stored
<1>2. i \in 1..Len(text) /\ text[i] \in Visible /\ Within(i, l) /\ Len(text) \in Nat
  <2>1. l[1] \in 1..Len(text) /\ l[2] \in 1..Len(text) /\ Len(text) \in Nat /\ l[1] <= l[2]
    BY DEF LinesOf, Document, TextInv
  <2>2. AfterBullets(l) \in Int /\ l[1] <= AfterBullets(l)
    <3>1. AfterQa(l) \in l[1]..(l[2] + 1)
      <4>1. CASE text[l[1]] = "qa"
        <5>1. Beyond(l[1] + 1, l[2], {"space"}) \in (l[1] + 1)..(l[2] + 1)  BY <2>1, BeyondIsBetween
        <5>. QED  BY <2>1, <4>1, <5>1 DEF AfterQa
      <4>. QED  BY <2>1, <4>1 DEF AfterQa
    <3>2. AfterQa(l) \in 1..(l[2] + 1)  BY <2>1, <3>1
    <3>3. Beyond(AfterQa(l), l[2], {"space", "bullet"}) \in AfterQa(l)..(l[2] + 1)
      BY <2>1, <3>2, BeyondIsBetween
    <3>. QED  BY <2>1, <3>1, <3>3 DEF AfterBullets
  <2>. QED  BY <1>1, <2>1, <2>2 DEF Shown, Within
<1>3. PICK m \in LinesOf(c) : Within(i, m)  BY <1>2, LineOfCharacter
<1>4. m[1] \in Nat /\ m[2] \in Nat /\ m[1] <= i /\ i <= m[2]  BY <1>3 DEF LinesOf, Spans, Within
<1>5. kept(m)
  <2>1. CASE m \in LinesOf(Document)  BY <1>1, <1>2, <1>3, <2>1, LinesDiffer
  <2>2. CASE m \notin LinesOf(Document)
    <3>1. text[m[1]] \in Plain  BY <1>4, <2>2 DEF ReadAsMark
    <3>2. AfterBullets(m) = m[1] /\ ~ IsDropped(m)  BY <3>1, PlainLineIsKept
    <3>. QED  BY <1>2, <1>4, <3>2 DEF Shown
  <2>. QED  BY <2>1, <2>2
<1>6. ASSUME NEW f \in LinesOf(c), IsFooter(f) PROVE m[1] < f[1]
  <2>1. f[1] \in Nat /\ f[2] \in Nat /\ f[1] <= f[2]  BY DEF LinesOf, Spans
  <2>2. SUFFICES ASSUME f[1] <= m[1] PROVE FALSE
    BY <1>4, <2>1
  <2>3. f \in LinesOf(Document)
    <3>1. f[1] <= i  BY <1>2, <1>4, <2>1, <2>2
    <3>2. text[f[1]] \notin Plain  BY <1>6 DEF IsFooter, Plain
    <3>. QED  BY <3>1, <3>2 DEF ReadAsMark
  <2>4. l[1] < f[1]  BY <1>1, <1>6, <2>3
  <2>5. f[1] \in l[1]..l[2]  BY <1>2, <1>4, <2>1, <2>2, <2>4 DEF Within, LinesOf, Document
  <2>6. Within(f[1], l) /\ Within(f[1], f)  BY <2>1, <2>5 DEF Within, LinesOf, Document
  <2>7. f = l  BY <2>1, <2>3, <2>6, LinesDiffer
  <2>. QED  BY <2>1, <2>4, <2>7
<1>. QED  BY <1>3, <1>5, <1>6 DEF Stored

\* At first nothing has been read.
LEMMA ChunkingBegins == ASSUME ChunkingInit PROVE ChunkInv
<1>1. text \in Seq(White \cup Visible) /\ Clean(text)  BY TextsAssumption DEF ChunkingInit
<1>2. size \in Nat \ {0} /\ overlap \in 0..(size - 1)  BY ChunkingAssumption DEF ChunkingInit
<1>3. TextInv  BY <1>1, <1>2 DEF ChunkingInit, TextInv
<1>4. SpansInv  BY DEF ChunkingInit, SpansInv
<1>5. OverlapInv  BY DEF ChunkingInit, OverlapInv
<1>6. DoneInv  BY DEF ChunkingInit, DoneInv
<1>7. CoverInv  BY DEF ChunkingInit, CoverInv
<1>. QED  BY <1>3, <1>4, <1>5, <1>6, <1>7 DEF ChunkInv

\* What the next line does to the chunks, in each of the three cases.
LEMMA AddLineFrom ==
    ASSUME ChunkInv, AddLine
    PROVE  /\ TextInv' /\ UNCHANGED <<text, size, overlap, at, chunks>> /\ chunks = << >>
           /\ next <= Len(text) /\ next' \in (next + 2)..(Len(text) + 2)
           /\ current' = <<current'[1], next' - 2>> /\ text[next' - 2] \in Visible
           /\ \A i \in 1..Len(text) : i < next' /\ text[i] \in Visible => i <= next' - 2
           /\ \/ current = << >> /\ current'[1] = next /\ made = << >> /\ made' = << >>
              \/ current # << >> /\ current'[1] = current[1] /\ made' = made
              \/ /\ current # << >> /\ current'[1] \in current[1]..next /\ current[2] - current'[1] < overlap
                 /\ made' = Append(made, current)
<1>. DEFINE end == LineEnd(next)
<1>1. next \in Nat \ {0} /\ next <= Len(text) /\ Len(text) \in Nat /\ TextInv
  BY DEF ChunkInv, TextInv, SpansInv, AddLine
<1>2. end \in next..Len(text) /\ text[end] \in Visible /\ (end = Len(text) \/ text[end + 1] = "break")
  BY <1>1, LineEndIsSeen
<1>3. /\ UNCHANGED <<text, size, overlap, at, chunks>> /\ next' = end + 2
      /\ \/ current = << >> /\ current' = <<next, end>> /\ UNCHANGED made
         \/ /\ current # << >> /\ end - current[1] < size
            /\ current' = <<current[1], end>> /\ UNCHANGED made
         \/ /\ current # << >> /\ end - current[1] >= size
            /\ made' = Append(made, current)
            /\ current' = <<IF overlap = 0 THEN next ELSE OverlapStart(current[1], current[2]), end>>
  BY DEF AddLine
<1>. HIDE DEF end
<1>4. TextInv' /\ chunks = << >>
  BY <1>1, <1>3 DEF ChunkInv, TextInv, Clean, OverlapInv
<1>5. next' \in (next + 2)..(Len(text) + 2) /\ next' - 2 = end  BY <1>1, <1>2, <1>3
<1>6. ASSUME NEW i \in 1..Len(text), i < next', text[i] \in Visible PROVE i <= next' - 2
  <2>1. end \in Nat /\ i \in Nat  BY <1>1, <1>2
  <2>2. i # end + 1  BY <1>2, <1>6, <2>1 DEF Visible, Plain
  <2>. QED  BY <1>3, <1>6, <2>1, <2>2
<1>7. current' = <<current'[1], end>>  BY <1>3
<1>8. CASE current = << >> /\ current' = <<next, end>> /\ UNCHANGED made
  <2>1. made = << >>  BY <1>1, <1>8 DEF ChunkInv, OverlapInv
  <2>. QED  BY <1>1, <1>2, <1>3, <1>4, <1>5, <1>6, <1>7, <1>8, <2>1
<1>9. CASE current # << >> /\ current' = <<current[1], end>> /\ UNCHANGED made
  BY <1>1, <1>2, <1>3, <1>4, <1>5, <1>6, <1>7, <1>9
<1>10. CASE /\ current # << >> /\ made' = Append(made, current)
            /\ current' = <<IF overlap = 0 THEN next ELSE OverlapStart(current[1], current[2]), end>>
  <2>1. /\ current[1] \in 1..Len(text) /\ current[2] \in current[1]..Len(text) /\ text[current[2]] \in Visible
        /\ current[2] = next - 2
    <3>1. current \in Spans /\ current[2] = next - 2 /\ text[current[2]] \in Visible
      BY <1>10 DEF ChunkInv, SpansInv
    <3>. QED  BY <1>1, <3>1 DEF Spans
  <2>2. overlap \in Nat  BY <1>1 DEF TextInv
  <2>3. CASE overlap = 0
    <3>1. current'[1] = next  BY <1>10, <2>3
    <3>. QED  BY <1>1, <1>2, <1>3, <1>4, <1>5, <1>6, <1>7, <1>10, <2>1, <2>3, <3>1
  <2>4. CASE overlap # 0
    <3>1. current'[1] = OverlapStart(current[1], current[2])  BY <1>10, <2>4
    <3>2. /\ OverlapStart(current[1], current[2]) \in current[1]..current[2]
          /\ current[2] - OverlapStart(current[1], current[2]) < overlap
      BY <1>1, <2>1, <2>4, OverlapIsTheEnd
    <3>3. current'[1] \in current[1]..next  BY <1>1, <2>1, <3>1, <3>2
    <3>. QED  BY <1>1, <1>2, <1>3, <1>4, <1>5, <1>6, <1>7, <1>10, <3>1, <3>2, <3>3
  <2>. QED  BY <2>3, <2>4
<1>. QED  BY <1>3, <1>8, <1>9, <1>10

LEMMA AddLineKeeps == ASSUME ChunkInv, AddLine PROVE ChunkInv'
<1>1. /\ TextInv /\ SpansInv /\ OverlapInv /\ DoneInv /\ CoverInv  BY DEF ChunkInv
<1>2. /\ TextInv' /\ UNCHANGED <<text, size, overlap, at, chunks>> /\ chunks = << >>
      /\ next <= Len(text) /\ next' \in (next + 2)..(Len(text) + 2)
      /\ current' = <<current'[1], next' - 2>> /\ text[next' - 2] \in Visible
      /\ \A i \in 1..Len(text) : i < next' /\ text[i] \in Visible => i <= next' - 2
      /\ \/ current = << >> /\ current'[1] = next /\ made = << >> /\ made' = << >>
         \/ current # << >> /\ current'[1] = current[1] /\ made' = made
         \/ /\ current # << >> /\ current'[1] \in current[1]..next /\ current[2] - current'[1] < overlap
            /\ made' = Append(made, current)
  BY AddLineFrom
<1>3. Len(text) \in Nat /\ next \in Nat \ {0} /\ at \in Nat /\ overlap \in Nat /\ made \in Seq(Spans)
  BY <1>1 DEF TextInv, SpansInv
<1>4. Spans' = Spans  BY <1>2 DEF Spans
<1>5. current # << >> => /\ current \in Spans /\ current[1] \in Nat \ {0} /\ current[2] = next - 2
                         /\ current[1] <= current[2] /\ text[current[2]] \in Visible
  BY <1>1, <1>3 DEF SpansInv, Spans
<1>6. /\ current' \in Spans /\ current' # << >> /\ current'[2] = next' - 2 /\ text'[current'[2]] \in Visible
      /\ current'[1] \in Nat /\ current'[1] <= next
  <2>1. current'[1] \in 1..Len(text) /\ next' - 2 \in 1..Len(text) /\ current'[1] <= next' - 2 /\ current'[1] <= next
    BY <1>2, <1>3, <1>5
  <2>2. current'[2] = next' - 2 /\ current' # << >>  BY <1>2
  <2>. QED  BY <1>2, <1>3, <2>1, <2>2 DEF Spans
<1>7. made' = made \/ (current # << >> /\ made' = Append(made, current))  BY <1>2
<1>8. SpansInv'
  <2>1. next' \in Nat \ {0} /\ at' \in Nat  BY <1>2, <1>3
  <2>2. made' \in Seq(Spans)  BY <1>3, <1>5, <1>7
  <2>3. chunks' \in Seq(Spans)  BY <1>1, <1>2 DEF SpansInv
  <2>4. \A k \in DOMAIN made' : text[made'[k][2]] \in Visible
    <3>1. \A k \in DOMAIN made : text[made[k][2]] \in Visible  BY <1>1 DEF SpansInv
    <3>2. CASE made' = made  BY <3>1, <3>2
    <3>3. CASE current # << >> /\ made' = Append(made, current)
      <4>1. \A k \in DOMAIN made' : (k \in DOMAIN made /\ made'[k] = made[k]) \/ made'[k] = current  BY <1>3, <3>3
      <4>. QED  BY <1>5, <3>1, <3>3, <4>1
    <3>. QED  BY <1>7, <3>2, <3>3
  <2>5. at' # 0 => made' # << >> /\ Within(at', made'[1])
    <3>1. at # 0 => made # << >> /\ Within(at, made[1])  BY <1>1 DEF SpansInv
    <3>2. made # << >> => made' # << >> /\ made'[1] = made[1]  BY <1>3, <1>5, <1>7
    <3>. QED  BY <1>2, <3>1, <3>2 DEF Within
  <2>. QED  BY <1>2, <1>4, <1>6, <2>1, <2>2, <2>3, <2>4, <2>5 DEF SpansInv
<1>9. OverlapInv'
  <2>1. /\ \A k \in 2..Len(made) : made[k - 1][2] - made[k][1] < overlap
        /\ current # << >> /\ made # << >> => made[Len(made)][2] - current[1] < overlap
    BY <1>1 DEF OverlapInv
  <2>2. \A k \in 2..Len(made') : made'[k - 1][2] - made'[k][1] < overlap
    <3>1. CASE made' = made  BY <2>1, <3>1
    <3>2. CASE current # << >> /\ made' = Append(made, current)
      <4>. SUFFICES ASSUME NEW k \in 2..Len(made') PROVE made'[k - 1][2] - made'[k][1] < overlap
        OBVIOUS
      <4>1. CASE k <= Len(made)
        <5>1. k \in 2..Len(made) /\ made'[k] = made[k] /\ made'[k - 1] = made[k - 1]  BY <1>3, <3>2, <4>1
        <5>. QED  BY <2>1, <5>1
      <4>2. CASE ~ (k <= Len(made))
        <5>1. made # << >> /\ k - 1 = Len(made) /\ made'[k] = current /\ made'[k - 1] = made[Len(made)]
          BY <1>3, <3>2, <4>2
        <5>. QED  BY <2>1, <3>2, <5>1
      <4>. QED  BY <4>1, <4>2
    <3>. QED  BY <1>7, <3>1, <3>2
  <2>3. made' # << >> => made'[Len(made')][2] - current'[1] < overlap
    <3>1. CASE made' = << >>  BY <3>1
    <3>2. CASE current # << >> /\ current'[1] = current[1] /\ made' = made  BY <2>1, <3>2
    <3>3. CASE current # << >> /\ current[2] - current'[1] < overlap /\ made' = Append(made, current)
      <4>1. made'[Len(made')] = current  BY <1>3, <1>5, <3>3
      <4>. QED  BY <3>3, <4>1
    <3>. QED  BY <1>2, <3>1, <3>2, <3>3
  <2>. QED  BY <1>2, <1>6, <2>2, <2>3 DEF OverlapInv
<1>10. DoneInv'  BY <1>2 DEF DoneInv
<1>11. CoverInv'
  <2>. SUFFICES ASSUME NEW i \in 1..Len(text), i < next', text[i] \in Visible
                PROVE  \/ Within(i, current)'
                       \/ \E k \in DOMAIN made' : Within(i, made'[k]) /\ (k = 1 => at' <= i)
    BY <1>2, <1>6 DEF CoverInv, Within
  <2>1. i <= next' - 2 /\ i \in Nat  BY <1>2
  <2>2. CASE current'[1] <= i  BY <1>6, <2>1, <2>2 DEF Within
  <2>3. CASE i < current'[1]
    <3>1. i < next  BY <1>3, <1>6, <2>1, <2>3
    <3>2. \/ current # << >> /\ Within(i, current)
          \/ \E k \in DOMAIN made : Within(i, made[k]) /\ (k = 1 => at <= i)
      BY <1>1, <1>2, <3>1 DEF CoverInv
    <3>3. CASE \E k \in DOMAIN made : Within(i, made[k]) /\ (k = 1 => at <= i)
      <4>1. \A k \in DOMAIN made : k \in DOMAIN made' /\ made'[k] = made[k]  BY <1>3, <1>5, <1>7
      <4>. QED  BY <1>2, <3>3, <4>1
    <3>4. CASE current # << >> /\ Within(i, current)
      <4>1. made' = Append(made, current)
        <5>1. current[1] <= i  BY <3>4 DEF Within
        <5>2. current'[1] # current[1]  BY <1>5, <1>6, <2>1, <2>3, <3>4, <5>1
        <5>. QED  BY <1>2, <3>4, <5>2
      <4>2. Len(made) + 1 \in DOMAIN made' /\ made'[Len(made) + 1] = current  BY <1>3, <3>4, <1>5, <4>1
      <4>3. Len(made) + 1 = 1 => at = 0  BY <1>1, <1>3 DEF SpansInv
      <4>. QED  BY <1>2, <1>3, <2>1, <3>4, <4>2, <4>3
    <3>. QED  BY <3>2, <3>3, <3>4
  <2>. QED  BY <1>6, <2>1, <2>2, <2>3
<1>. QED  BY <1>2, <1>8, <1>9, <1>10, <1>11 DEF ChunkInv

LEMMA LastChunkKeeps == ASSUME ChunkInv, LastChunk PROVE ChunkInv'
<1>1. TextInv /\ SpansInv /\ OverlapInv /\ DoneInv /\ CoverInv  BY DEF ChunkInv
<1>2. /\ next > Len(text) /\ current # << >> /\ made' = Append(made, current) /\ current' = << >>
      /\ UNCHANGED <<text, size, overlap, next, at, chunks>>
  BY DEF LastChunk
<1>3. /\ Len(text) \in Nat /\ next \in Nat \ {0} /\ at \in Nat /\ overlap \in Nat
      /\ made \in Seq(Spans) /\ current \in Spans /\ text[current[2]] \in Visible /\ chunks = << >>
  BY <1>1, <1>2 DEF TextInv, SpansInv, OverlapInv
<1>4. TextInv' /\ Spans' = Spans  BY <1>1, <1>2 DEF TextInv, Clean, Spans
<1>5. /\ made' \in Seq(Spans) /\ made' # << >> /\ Len(made') = Len(made) + 1 /\ made'[Len(made) + 1] = current
      /\ \A k \in 1..Len(made) : made'[k] = made[k]
      /\ DOMAIN made = 1..Len(made) /\ DOMAIN made' = 1..(Len(made) + 1) /\ Len(made) \in Nat
  BY <1>2, <1>3
<1>6. SpansInv'
  <2>1. \A k \in DOMAIN made' : text[made'[k][2]] \in Visible
    <3>1. \A k \in DOMAIN made : text[made[k][2]] \in Visible  BY <1>1 DEF SpansInv
    <3>. QED  BY <1>3, <1>5, <3>1
  <2>2. at # 0 => Within(at, made'[1])
    <3>1. at # 0 => made # << >> /\ Within(at, made[1])  BY <1>1 DEF SpansInv
    <3>2. made # << >> => made'[1] = made[1]  BY <1>3, <1>5
    <3>. QED  BY <3>1, <3>2 DEF Within
  <2>3. chunks' \in Seq(Spans)  BY <1>1, <1>2 DEF SpansInv
  <2>4. at' # 0 => made' # << >> /\ Within(at', made'[1])  BY <1>2, <1>5, <2>2
  <2>. QED  BY <1>2, <1>3, <1>4, <1>5, <2>1, <2>3, <2>4 DEF SpansInv
<1>7. OverlapInv'
  <2>1. /\ \A k \in 2..Len(made) : made[k - 1][2] - made[k][1] < overlap
        /\ made # << >> => made[Len(made)][2] - current[1] < overlap
    BY <1>1, <1>2 DEF OverlapInv
  <2>2. ASSUME NEW k \in 2..Len(made') PROVE made'[k - 1][2] - made'[k][1] < overlap
    <3>1. CASE k <= Len(made)
      <4>1. k \in 2..Len(made) /\ made'[k] = made[k] /\ made'[k - 1] = made[k - 1]  BY <1>5, <3>1
      <4>. QED  BY <2>1, <4>1
    <3>2. CASE ~ (k <= Len(made))
      <4>1. made # << >> /\ k - 1 = Len(made) /\ made'[k] = current /\ made'[k - 1] = made[Len(made)]
        BY <1>3, <1>5, <3>2
      <4>. QED  BY <2>1, <4>1
    <3>. QED  BY <3>1, <3>2
  <2>. QED  BY <1>2, <1>3, <2>2 DEF OverlapInv
<1>8. DoneInv'  BY <1>1, <1>2 DEF DoneInv
<1>9. CoverInv'
  <2>. SUFFICES ASSUME NEW i \in 1..Len(text), i < next, text[i] \in Visible
                PROVE  \E k \in DOMAIN made' : Within(i, made'[k]) /\ (k = 1 => at <= i)
    BY <1>2 DEF CoverInv, Within
  <2>1. \/ Within(i, current)
        \/ \E k \in DOMAIN made : Within(i, made[k]) /\ (k = 1 => at <= i)
    BY <1>1, <1>3 DEF CoverInv
  <2>2. CASE \E k \in DOMAIN made : Within(i, made[k]) /\ (k = 1 => at <= i)  BY <1>5, <2>2
  <2>3. CASE Within(i, current)
    <3>1. Len(made) + 1 = 1 => at = 0  BY <1>1, <1>3 DEF SpansInv
    <3>2. Len(made) + 1 \in DOMAIN made'  BY <1>5
    <3>3. i \in Nat  BY <1>3
    <3>. QED  BY <1>5, <2>3, <3>1, <3>2, <3>3
  <2>. QED  BY <2>1, <2>2, <2>3
<1>. QED  BY <1>4, <1>6, <1>7, <1>8, <1>9 DEF ChunkInv

\* What both steps that refine start from.
LEMMA WhileRefining ==
    ASSUME ChunkInv, Refining
    PROVE  /\ made \in Seq(Spans) /\ made # << >> /\ chunks \in Seq(Spans)
           /\ Head(made) = made[1] /\ Head(made) \in Spans /\ text[Head(made)[2]] \in Visible
           /\ Head(made)[1] \in Nat \ {0} /\ Head(made)[2] \in Nat /\ Head(made)[1] <= Head(made)[2]
           /\ Head(made)[2] <= Len(text)
           /\ Resumed \in Nat \ {0} /\ Head(made)[1] <= Resumed /\ Resumed <= Head(made)[2]
           /\ Tail(made) \in Seq(Spans) /\ Len(Tail(made)) = Len(made) - 1 /\ Len(made) \in Nat \ {0}
           /\ \A k \in 1..Len(Tail(made)) : Tail(made)[k] = made[k + 1]
           /\ Tail(made) # << >> => Head(made)[2] - Tail(made)[1][1] < overlap
<1>1. TextInv /\ SpansInv /\ OverlapInv  BY DEF ChunkInv
<1>2. made \in Seq(Spans) /\ made # << >> /\ chunks \in Seq(Spans)  BY <1>1 DEF SpansInv, Refining
<1>3. /\ Head(made) = made[1] /\ Head(made) \in Spans
      /\ Tail(made) \in Seq(Spans) /\ Len(Tail(made)) = Len(made) - 1 /\ Len(made) \in Nat \ {0}
      /\ \A k \in 1..Len(Tail(made)) : Tail(made)[k] = made[k + 1]
  BY <1>2
<1>4. text[Head(made)[2]] \in Visible  BY <1>1, <1>2, <1>3 DEF SpansInv
<1>5. /\ Head(made)[1] \in Nat \ {0} /\ Head(made)[2] \in Nat /\ Head(made)[1] <= Head(made)[2]
      /\ Head(made)[2] <= Len(text)
  BY <1>1, <1>3 DEF TextInv, Spans
<1>6. Resumed \in Nat \ {0} /\ Head(made)[1] <= Resumed /\ Resumed <= Head(made)[2]
  BY <1>1, <1>3, <1>5 DEF SpansInv, Resumed, Within
<1>7. Tail(made) # << >> => Head(made)[2] - Tail(made)[1][1] < overlap
  <2>. SUFFICES ASSUME Tail(made) # << >> PROVE made[1][2] - made[2][1] < overlap  BY <1>3
  <2>1. 2 \in 2..Len(made)  BY <1>3
  <2>. QED  BY <1>1, <2>1 DEF OverlapInv
<1>. QED  BY <1>2, <1>3, <1>4, <1>5, <1>6, <1>7

\* A chunk is appended to those that are done.
LEMMA OneMoreDone ==
    ASSUME ChunkInv, Refining, NEW c \in Spans, chunks' = Append(chunks, c), UNCHANGED <<text, size, overlap>>,
           c[2] - c[1] < size, Resumed <= c[1]
    PROVE  DoneInv' /\ chunks' \in Seq(Spans) /\ chunks' # << >> /\ chunks'[Len(chunks')] = c
<1>1. TextInv /\ SpansInv /\ OverlapInv /\ DoneInv  BY DEF ChunkInv
<1>2. chunks \in Seq(Spans) /\ made # << >> /\ Resumed \in Nat  BY WhileRefining
<1>3. overlap \in Nat /\ c[1] \in Nat /\ c[2] \in Nat /\ Len(text) \in Nat  BY <1>1 DEF TextInv, Spans
<1>4. /\ chunks' \in Seq(Spans) /\ chunks' # << >> /\ Len(chunks') = Len(chunks) + 1 /\ chunks'[Len(chunks) + 1] = c
      /\ \A k \in 1..Len(chunks) : chunks'[k] = chunks[k]
      /\ DOMAIN chunks = 1..Len(chunks) /\ DOMAIN chunks' = 1..(Len(chunks) + 1) /\ Len(chunks) \in Nat
  BY <1>2
<1>5. ASSUME NEW k \in DOMAIN chunks' PROVE chunks'[k][2] - chunks'[k][1] < size
  BY <1>1, <1>4 DEF DoneInv
<1>6. ASSUME NEW k \in 2..Len(chunks') PROVE chunks'[k - 1][2] - chunks'[k][1] < overlap
  <2>1. CASE k <= Len(chunks)
    <3>1. k \in 2..Len(chunks) /\ chunks'[k] = chunks[k] /\ chunks'[k - 1] = chunks[k - 1]  BY <1>4, <2>1
    <3>. QED  BY <1>1, <3>1 DEF DoneInv
  <2>2. CASE ~ (k <= Len(chunks))
    <3>1. chunks # << >> /\ k - 1 = Len(chunks) /\ chunks'[k] = c /\ chunks'[k - 1] = chunks[Len(chunks)]
      BY <1>2, <1>4, <2>2
    <3>2. chunks[Len(chunks)][2] - Resumed < overlap  BY <1>1, <1>2, <3>1 DEF OverlapInv
    <3>3. chunks[Len(chunks)][2] \in Nat
      <4>1. chunks[Len(chunks)] \in Spans  BY <1>2, <3>1
      <4>. QED  BY <1>3, <4>1 DEF Spans
    <3>. QED  BY <1>2, <1>3, <3>1, <3>2, <3>3
  <2>. QED  BY <2>1, <2>2
<1>. QED  BY <1>4, <1>5, <1>6 DEF DoneInv

\* The first chunk that was to be refined is done.
LEMMA HeadIsDone ==
    ASSUME ChunkInv, Refining, made' = Tail(made), at' = 0, UNCHANGED <<text, size, overlap, next, current>>, DoneInv',
           NEW c \in Spans, chunks' = Append(chunks, c), c[2] <= Head(made)[2],
           \A i \in Nat : Within(i, Head(made)) /\ Resumed <= i /\ text[i] \in Visible => Within(i, c)
    PROVE  ChunkInv'
<1>1. TextInv /\ SpansInv /\ OverlapInv /\ CoverInv  BY DEF ChunkInv
<1>2. /\ made \in Seq(Spans) /\ made # << >> /\ chunks \in Seq(Spans) /\ Head(made) = made[1]
      /\ Head(made)[2] \in Nat /\ Tail(made) \in Seq(Spans) /\ Len(Tail(made)) = Len(made) - 1
      /\ Len(made) \in Nat \ {0} /\ \A k \in 1..Len(Tail(made)) : Tail(made)[k] = made[k + 1]
      /\ Tail(made) # << >> => Head(made)[2] - Tail(made)[1][1] < overlap
  BY WhileRefining
<1>3. next > Len(text) /\ current = << >> /\ Len(text) \in Nat /\ overlap \in Nat /\ c[2] \in Nat
  BY <1>1 DEF Refining, TextInv, Spans
<1>4. TextInv' /\ Spans' = Spans  BY <1>1 DEF TextInv, Clean, Spans
<1>5. /\ chunks' \in Seq(Spans) /\ chunks' # << >> /\ chunks'[Len(chunks')] = c /\ Len(chunks') \in DOMAIN chunks'
      /\ \A k \in DOMAIN chunks : k \in DOMAIN chunks' /\ chunks'[k] = chunks[k]
  BY <1>2
<1>6. SpansInv'
  <2>1. \A k \in DOMAIN made' : text[made'[k][2]] \in Visible
    <3>1. \A k \in DOMAIN made : text[made[k][2]] \in Visible  BY <1>1 DEF SpansInv
    <3>2. \A k \in DOMAIN made' : k + 1 \in DOMAIN made /\ made'[k] = made[k + 1]  BY <1>2
    <3>. QED  BY <3>1, <3>2
  <2>2. next \in Nat \ {0}  BY <1>1 DEF SpansInv
  <2>. QED  BY <1>2, <1>3, <1>4, <1>5, <2>1, <2>2 DEF SpansInv
<1>7. OverlapInv'
  <2>1. ASSUME NEW k \in 2..Len(made') PROVE made'[k - 1][2] - made'[k][1] < overlap
    <3>1. k + 1 \in 2..Len(made) /\ made'[k] = made[k + 1] /\ made'[k - 1] = made[(k + 1) - 1]  BY <1>2
    <3>. QED  BY <1>1, <3>1 DEF OverlapInv
  <2>2. made' # << >> => chunks'[Len(chunks')][2] - made'[1][1] < overlap
    <3>. SUFFICES ASSUME Tail(made) # << >> PROVE c[2] - Tail(made)[1][1] < overlap  BY <1>5
    <3>1. Tail(made)[1] \in Spans  BY <1>2
    <3>2. Tail(made)[1][1] \in Nat  BY <1>3, <3>1 DEF Spans
    <3>. QED  BY <1>2, <1>3, <3>2
  <2>3. Resumed' = made'[1][1]  BY DEF Resumed
  <2>4. chunks' # << >> /\ made' # << >> => chunks'[Len(chunks')][2] - Resumed' < overlap'  BY <2>2, <2>3
  <2>5. \A k \in 2..Len(made') : made'[k - 1][2] - made'[k][1] < overlap'  BY <2>1
  <2>6. next' > Len(text') /\ current' = << >> /\ ~ (next' <= Len(text'))
    <3>1. next \in Nat  BY <1>1 DEF SpansInv
    <3>. QED  BY <1>3, <3>1
  <2>. QED  BY <2>4, <2>5, <2>6 DEF OverlapInv
<1>8. CoverInv'
  <2>. SUFFICES ASSUME NEW i \in 1..Len(text), i < next, text[i] \in Visible
                PROVE  \/ \E k \in DOMAIN made' : Within(i, made'[k])
                       \/ \E k \in DOMAIN chunks' : Within(i, chunks'[k])
    BY DEF CoverInv, Within
  <2>1. \/ \E k \in DOMAIN made : Within(i, made[k]) /\ (k = 1 => at <= i)
        \/ \E k \in DOMAIN chunks : Within(i, chunks[k])
    BY <1>1, <1>3 DEF CoverInv
  <2>2. CASE \E k \in DOMAIN chunks : Within(i, chunks[k])  BY <1>5, <2>2
  <2>3. ASSUME NEW k \in DOMAIN made, Within(i, made[k]), k = 1 => at <= i
        PROVE  \/ \E j \in DOMAIN made' : Within(i, made'[j])
               \/ \E j \in DOMAIN chunks' : Within(i, chunks'[j])
    <3>1. CASE k = 1
      <4>1. i \in Nat /\ Within(i, Head(made)) /\ Resumed <= i  BY <1>2, <1>3, <2>3, <3>1 DEF Resumed, Within
      <4>2. Within(i, c)  BY <4>1
      <4>. QED  BY <1>5, <4>2
    <3>2. CASE k # 1
      <4>1. k - 1 \in DOMAIN made' /\ made'[k - 1] = made[k]  BY <1>2, <3>2
      <4>. QED  BY <2>3, <4>1
    <3>. QED  BY <3>1, <3>2
  <2>. QED  BY <2>1, <2>2, <2>3
<1>. QED  BY <1>4, <1>6, <1>7, <1>8 DEF ChunkInv

LEMMA KeepChunkKeeps == ASSUME ChunkInv, KeepChunk PROVE ChunkInv'
<1>1. /\ Refining /\ at = 0 /\ Head(made)[2] - Head(made)[1] < size /\ chunks' = Append(chunks, Head(made))
      /\ made' = Tail(made) /\ at' = 0 /\ UNCHANGED <<text, size, overlap, next, current>>
  BY DEF KeepChunk, IsShort
<1>2. Head(made) \in Spans /\ Head(made) = made[1] /\ Head(made)[1] \in Nat /\ Head(made)[2] \in Nat
  BY <1>1, WhileRefining
<1>3. Resumed = Head(made)[1]  BY <1>1, <1>2 DEF Resumed
<1>4. DoneInv'  BY <1>1, <1>2, <1>3, OneMoreDone
<1>5. Head(made)[2] <= Head(made)[2]  BY <1>2
<1>. QED  BY <1>1, <1>2, <1>4, <1>5, HeadIsDone

\* A piece is cut off, and there is more of the chunk.
LEMMA PieceIsCut ==
    ASSUME ChunkInv, Refining, UNCHANGED <<text, size, overlap, next, current, made>>,
           Resumed + size - 1 < Head(made)[2], at' = Resumed + size - overlap,
           chunks' = IF Shown(Resumed, Resumed + size - 1) = {} THEN chunks
                     ELSE Append(chunks, Strip(Resumed, Resumed + size - 1))
    PROVE  ChunkInv'
<1>. DEFINE start == Resumed
            end == start + size - 1
            c == Strip(start, end)
<1>1. TextInv /\ SpansInv /\ OverlapInv /\ DoneInv /\ CoverInv  BY DEF ChunkInv
<1>2. /\ made \in Seq(Spans) /\ made # << >> /\ chunks \in Seq(Spans) /\ Head(made) = made[1]
      /\ Head(made)[1] \in Nat \ {0} /\ Head(made)[2] \in Nat /\ Head(made)[2] <= Len(text)
      /\ start \in Nat \ {0} /\ Head(made)[1] <= start
  BY WhileRefining
<1>3. /\ next > Len(text) /\ current = << >> /\ Len(text) \in Nat
      /\ overlap \in Nat /\ size \in Nat /\ overlap < size
  BY <1>1 DEF Refining, TextInv
<1>. HIDE DEF start
<1>4. end < Head(made)[2] /\ at' = end + 1 - overlap /\ end \in start..Len(text) /\ start \in 1..Len(text)
  BY <1>2, <1>3 DEF start
<1>5. at' \in Nat \ {0} /\ start < at' /\ at' <= end + 1 /\ Within(at', Head(made))
  BY <1>2, <1>3, <1>4 DEF Within
<1>6. Shown(start, end) # {} => /\ c \in Spans /\ start <= c[1] /\ c[2] <= end
                                /\ \A i \in Shown(start, end) : Within(i, c)
  BY <1>1, <1>4, StripKeeps
<1>7. chunks' = IF Shown(start, end) = {} THEN chunks ELSE Append(chunks, c)  BY DEF start
<1>8. \A i \in start..end : text[i] \in Visible => i \in Shown(start, end)  BY DEF Shown
<1>. HIDE DEF c
<1>9. TextInv' /\ Spans' = Spans  BY <1>1 DEF TextInv, Clean, Spans
<1>10. /\ chunks' \in Seq(Spans)
       /\ \A k \in DOMAIN chunks : k \in DOMAIN chunks' /\ chunks'[k] = chunks[k]
  BY <1>2, <1>6, <1>7
<1>11. DoneInv'
  <2>1. CASE Shown(start, end) = {}  BY <1>1, <1>7, <2>1 DEF DoneInv
  <2>2. CASE Shown(start, end) # {}
    <3>1. c[1] \in Nat /\ c[2] \in Nat  BY <1>3, <1>6, <2>2 DEF Spans
    <3>2. c[2] - c[1] < size /\ Resumed <= c[1]  BY <1>2, <1>3, <1>6, <2>2, <3>1 DEF start
    <3>. QED  BY <1>6, <1>7, <2>2, <3>2, OneMoreDone
  <2>. QED  BY <2>1, <2>2
<1>12. SpansInv'
  <2>1. next \in Nat \ {0} /\ \A k \in DOMAIN made : text[made[k][2]] \in Visible  BY <1>1 DEF SpansInv
  <2>. QED  BY <1>2, <1>3, <1>5, <1>9, <1>10, <2>1 DEF SpansInv, Within
<1>13. OverlapInv'
  <2>1. Resumed' = at'  BY <1>5 DEF Resumed
  <2>2. chunks' # << >> => chunks'[Len(chunks')][2] - at' < overlap
    <3>1. CASE Shown(start, end) = {}
      <4>. SUFFICES ASSUME chunks # << >> PROVE chunks[Len(chunks)][2] - at' < overlap  BY <1>7, <3>1
      <4>1. chunks[Len(chunks)][2] - start < overlap  BY <1>1, <1>2 DEF OverlapInv, start
      <4>2. chunks[Len(chunks)] \in Spans  BY <1>2
      <4>3. chunks[Len(chunks)][2] \in Nat  BY <1>3, <4>2 DEF Spans
      <4>. QED  BY <1>2, <1>3, <1>5, <4>1, <4>3
    <3>2. CASE Shown(start, end) # {}
      <4>1. chunks'[Len(chunks')] = c  BY <1>2, <1>6, <1>7, <3>2
      <4>2. c[2] \in Nat  BY <1>3, <1>6, <3>2 DEF Spans
      <4>3. c[2] <= end  BY <1>6, <3>2
      <4>. QED  BY <1>2, <1>3, <1>4, <4>1, <4>2, <4>3
    <3>. QED  BY <3>1, <3>2
  <2>3. \A k \in 2..Len(made) : made[k - 1][2] - made[k][1] < overlap  BY <1>1 DEF OverlapInv
  <2>4. chunks' # << >> /\ made' # << >> => chunks'[Len(chunks')][2] - Resumed' < overlap'  BY <2>1, <2>2
  <2>5. \A k \in 2..Len(made') : made'[k - 1][2] - made'[k][1] < overlap'  BY <2>3
  <2>6. next' > Len(text') /\ current' = << >> /\ ~ (next' <= Len(text'))
    <3>1. next \in Nat  BY <1>1 DEF SpansInv
    <3>. QED  BY <1>3, <3>1
  <2>. QED  BY <2>4, <2>5, <2>6 DEF OverlapInv
<1>14. CoverInv'
  <2>. SUFFICES ASSUME NEW i \in 1..Len(text), i < next, text[i] \in Visible
                PROVE  \/ \E k \in DOMAIN made : Within(i, made[k]) /\ (k = 1 => at' <= i)
                       \/ \E k \in DOMAIN chunks' : Within(i, chunks'[k])
    BY DEF CoverInv, Within
  <2>1. \/ \E k \in DOMAIN made : Within(i, made[k]) /\ (k = 1 => at <= i)
        \/ \E k \in DOMAIN chunks : Within(i, chunks[k])
    BY <1>1, <1>3 DEF CoverInv
  <2>2. CASE \E k \in DOMAIN chunks : Within(i, chunks[k])  BY <1>10, <2>2
  <2>3. ASSUME NEW k \in DOMAIN made, Within(i, made[k]), k = 1 => at <= i
        PROVE  \/ \E j \in DOMAIN made : Within(i, made[j]) /\ (j = 1 => at' <= i)
               \/ \E j \in DOMAIN chunks' : Within(i, chunks'[j])
    <3>1. CASE k # 1 \/ at' <= i  BY <2>3, <3>1
    <3>2. CASE k = 1 /\ ~ (at' <= i)
      <4>1. start <= i /\ i <= end
        <5>1. start <= i  BY <1>2, <2>3, <3>2 DEF start, Resumed, Within
        <5>. QED  BY <1>2, <1>3, <1>4, <1>5, <3>2, <5>1
      <4>2. i \in Shown(start, end)
        <5>1. i \in start..end  BY <1>2, <1>4, <4>1
        <5>. QED  BY <1>8, <5>1
      <4>3. Within(i, c) /\ chunks' = Append(chunks, c)  BY <1>6, <1>7, <4>2
      <4>4. Len(chunks') \in DOMAIN chunks' /\ chunks'[Len(chunks')] = c  BY <1>2, <1>6, <4>2, <4>3
      <4>. QED  BY <4>3, <4>4
    <3>. QED  BY <3>1, <3>2
  <2>. QED  BY <2>1, <2>2, <2>3
<1>. QED  BY <1>9, <1>11, <1>12, <1>13, <1>14 DEF ChunkInv

LEMMA CutChunkKeeps == ASSUME ChunkInv, CutChunk PROVE ChunkInv'
<1>. DEFINE start == IF at = 0 THEN Head(made)[1] ELSE at
            end == IF start + size - 1 < Head(made)[2] THEN start + size - 1 ELSE Head(made)[2]
<1>1. /\ Refining /\ UNCHANGED <<text, size, overlap, next, current>>
      /\ chunks' = IF Shown(start, end) = {} THEN chunks ELSE Append(chunks, Strip(start, end))
      /\ IF end = Head(made)[2] THEN made' = Tail(made) /\ at' = 0 ELSE at' = start + size - overlap /\ UNCHANGED made
  BY DEF CutChunk, NextPiece
<1>2. TextInv  BY DEF ChunkInv
<1>3. /\ Head(made) = made[1] /\ Head(made)[1] \in Nat \ {0} /\ Head(made)[2] \in Nat /\ Head(made)[2] <= Len(text)
      /\ Resumed \in Nat \ {0} /\ Resumed <= Head(made)[2] /\ text[Head(made)[2]] \in Visible
  BY <1>1, WhileRefining
<1>4. start = Resumed  BY <1>3 DEF Resumed
<1>5. Len(text) \in Nat /\ size \in Nat /\ overlap \in Nat /\ overlap < size  BY <1>2 DEF TextInv
<1>. HIDE DEF start
<1>6. CASE start + size - 1 < Head(made)[2]
  <2>1. end = start + size - 1 /\ end # Head(made)[2]  BY <1>3, <1>4, <1>5, <1>6
  <2>. HIDE DEF end
  <2>. QED  BY <1>1, <1>4, <1>6, <2>1, PieceIsCut
<1>7. CASE ~ (start + size - 1 < Head(made)[2])
  <2>1. end = Head(made)[2]  BY <1>7
  <2>. HIDE DEF end
  <2>. DEFINE c == Strip(start, end)
  <2>2. start \in 1..Len(text) /\ end \in start..Len(text)  BY <1>3, <1>4, <1>5, <2>1
  <2>3. end \in Shown(start, end)  BY <1>3, <2>1, <2>2 DEF Shown
  <2>4. c \in Spans /\ start <= c[1] /\ c[2] <= end /\ \A i \in Shown(start, end) : Within(i, c)
    BY <1>2, <2>2, <2>3, StripKeeps
  <2>5. chunks' = Append(chunks, c) /\ made' = Tail(made) /\ at' = 0  BY <1>1, <2>1, <2>3
  <2>. HIDE DEF c
  <2>6. c[1] \in Nat /\ c[2] \in Nat  BY <1>5, <2>4 DEF Spans
  <2>7. c[2] - c[1] < size  BY <1>3, <1>4, <1>5, <1>7, <2>1, <2>4, <2>6
  <2>8. DoneInv'  BY <1>1, <1>4, <2>4, <2>5, <2>7, OneMoreDone
  <2>9. ASSUME NEW i \in Nat, Within(i, Head(made)), Resumed <= i, text[i] \in Visible PROVE Within(i, c)
    <3>1. i \in Shown(start, end)  BY <1>3, <1>4, <2>1, <2>9 DEF Shown, Within
    <3>. QED  BY <2>4, <3>1
  <2>10. c[2] <= Head(made)[2]  BY <2>1, <2>4
  <2>. QED  BY <1>1, <2>4, <2>5, <2>8, <2>9, <2>10, HeadIsDone
<1>. QED  BY <1>6, <1>7

\* Every character of a document is in a chunk, and is stored of it if normalising the
\* document would store it and no line that was cut reads as a mark; no chunk is longer than
\* asked for and none repeats more of the one before: for any document, however long, and any
\* sizes that check_chunk_params lets through.
THEOREM ChunksOfAll == ChunkingSpec => []ChunksKeepTheText
<1>1. ChunkingInit => ChunkInv  BY ChunkingBegins
<1>2. ChunkInv /\ [Split]_chunkVars => ChunkInv'
  <2>. SUFFICES ASSUME ChunkInv, [Split]_chunkVars PROVE ChunkInv'
    OBVIOUS
  <2>1. CASE AddLine  BY <2>1, AddLineKeeps
  <2>2. CASE LastChunk  BY <2>2, LastChunkKeeps
  <2>3. CASE KeepChunk  BY <2>3, KeepChunkKeeps
  <2>4. CASE CutChunk  BY <2>4, CutChunkKeeps
  <2>5. CASE UNCHANGED chunkVars
    <3>1. UNCHANGED <<text, size, overlap, next, current, made, at, chunks>>  BY <2>5 DEF chunkVars
    <3>2. TextInv'  BY <3>1 DEF ChunkInv, TextInv, Clean
    <3>3. SpansInv'  BY <3>1 DEF ChunkInv, SpansInv, Spans, Within
    <3>4. OverlapInv' /\ DoneInv'  BY <3>1 DEF ChunkInv, OverlapInv, DoneInv, Resumed
    <3>5. CoverInv'  BY <3>1 DEF ChunkInv, CoverInv, Within
    <3>. QED  BY <3>2, <3>3, <3>4, <3>5 DEF ChunkInv
  <2>. QED  BY <2>1, <2>2, <2>3, <2>4, <2>5 DEF Split
<1>3. ChunkInv => ChunksKeepTheText
  <2>. SUFFICES ASSUME ChunkInv PROVE ChunksKeepTheText
    OBVIOUS
  <2>1. TextInv /\ SpansInv /\ DoneInv /\ CoverInv  BY DEF ChunkInv
  <2>2. ASSUME next > Len(text), current = << >>, made = << >>, NEW i \in Shown(1, Len(text))
        PROVE  \E k \in DOMAIN chunks : i \in chunks[k][1]..chunks[k][2]
    <3>1. Len(text) \in Nat /\ chunks \in Seq(Spans) /\ next \in Nat  BY <2>1 DEF TextInv, SpansInv
    <3>2. i \in 1..Len(text) /\ text[i] \in Visible  BY DEF Shown
    <3>3. PICK k \in DOMAIN chunks : Within(i, chunks[k])  BY <2>1, <2>2, <3>1, <3>2 DEF CoverInv
    <3>4. chunks[k] \in Spans  BY <3>1
    <3>. QED  BY <3>1, <3>2, <3>3, <3>4 DEF Within, Spans
  <2>3. ASSUME NEW k \in DOMAIN chunks, NEW i \in Stored(Document) \cap (chunks[k][1]..chunks[k][2])
        PROVE  i \in Stored(chunks[k]) \/ ReadAsMark(chunks[k], i)
    <3>1. chunks[k] \in Spans  BY <2>1 DEF SpansInv
    <3>2. Within(i, chunks[k])  BY <3>1 DEF Within, Spans
    <3>. QED  BY <2>1, <3>1, <3>2, ChunkStoresTheText
  <2>. QED  BY <2>1, <2>2, <2>3 DEF ChunksKeepTheText, DoneInv
<1>. QED  BY <1>1, <1>2, <1>3, PTL DEF ChunkingSpec
=============================================================================
