------------------------------ MODULE MC_Parts ------------------------------
(***************************************************************************)
(* The parts of the server that are small and share no state, in one       *)
(* instance: the quota, the browser, the daily loops, and what becomes of  *)
(* texts.  A behaviour is one of a part, with the others at rest.          *)
(***************************************************************************)
EXTENDS DailyRateLimit, PdfBrowser, MC_Days, MC_Content

CONSTANTS r1, r2, sched, server

VARIABLE part   \* the part that is at work

serverVars == <<browserVars, scheduleVars>>
tableVars == <<loadVars, answerVars>>
textVars == <<chunkVars, cardVars, layoutVars>>

FirstFile == CHOOSE file \in Files : TRUE
ScheduleRests == ScheduleInit /\ now = 24 * FirstDay
TableRests == LoadInit /\ AnswerInit /\ rows = FirstFile /\ workers = Min(Workers)
ChunkingRests ==
    /\ text = << >> /\ size = Min(Sizes) /\ overlap = 0 /\ next = 1
    /\ current = << >> /\ made = << >> /\ at = 0 /\ chunks = << >>
DeckRests == CardInit /\ cardSetup = CHOOSE s \in CardSetups : TRUE

PartsInit ==
    /\ part \in {"quota", "browser", "days", "table", "chunks", "deck", "layout"}
    /\ Init /\ BrowserInit /\ LayoutInit
    /\ IF part = "days" THEN ScheduleInit ELSE ScheduleRests
    /\ IF part = "table" THEN LoadInit /\ AnswerInit ELSE TableRests
    /\ IF part = "chunks" THEN ChunkingInit ELSE ChunkingRests
    /\ IF part = "deck" THEN CardInit ELSE DeckRests

\* The vector table is filled, and then used.
TableNext ==
    \/ EmbedNext /\ phase = "idle" /\ UNCHANGED answerVars
    \/ InsertNext /\ embed = NotEmbedding /\ vectors = << >> /\ hits = << >> /\ UNCHANGED answerVars
    \/ AnswerNext

\* The server is down, time is up, or there is no more to do.
Ended ==
    /\ CASE part = "browser" -> stage = "down"
         [] part = "days"    -> now = 24 * LastDay
         [] OTHER            -> TRUE
    /\ UNCHANGED <<vars, serverVars, tableVars, textVars>>

PartsNext ==
    /\ \/ part = "quota" /\ Next /\ UNCHANGED <<serverVars, tableVars, textVars>>
       \/ part = "browser" /\ BrowserNext /\ UNCHANGED <<vars, scheduleVars, tableVars, textVars>>
       \/ part = "days" /\ ScheduleNext /\ UNCHANGED <<vars, browserVars, tableVars, textVars>>
       \/ part = "table" /\ TableNext /\ UNCHANGED <<vars, serverVars, textVars>>
       \/ part = "chunks" /\ Split /\ UNCHANGED <<vars, serverVars, tableVars, cardVars, layoutVars>>
       \/ part = "deck" /\ CardNext /\ UNCHANGED <<vars, serverVars, tableVars, chunkVars, layoutVars>>
       \/ part = "layout" /\ DrawCard /\ UNCHANGED <<vars, serverVars, tableVars, chunkVars, cardVars>>
       \/ Ended
    /\ UNCHANGED part

PartsSpec == PartsInit /\ [][PartsNext]_<<part, vars, serverVars, tableVars, textVars>>
=============================================================================
