---------------------------- MODULE HostRestart ----------------------------
(***************************************************************************)
(* What a restart of the BFF brings back.  Two files outlive the process:  *)
(* the roster of the hosted runs (src/botHost.js: persistRoster, resume)   *)
(* and the journal of the held sessions (src/bridgeSessionJournal.js).     *)
(* startServer() listens, lets the last process's sessions go, and then    *)
(* resumes the roster's rows one at a time; a player's requests are served *)
(* all the while.                                                          *)
(*                                                                         *)
(* Both files are written at the best effort: a write that fails is        *)
(* logged, and what caused it goes on with the file as it was              *)
(* (WriteFails). What that costs is kept in unsaved and unwritten, up to   *)
(* the next write of the same file, which writes all of it.                *)
(*                                                                         *)
(* A run stands for its pilot too.  The life of a run is as coarse here as *)
(* the roster sees it: whether its drones come home in a stop is left open *)
(* (StopBlocked), and PilotOwnership has the calls whose outcome is not    *)
(* known.                                                                  *)
(***************************************************************************)
EXTENDS Naturals, FiniteSets

CONSTANTS
  Bots,        \* hosted runs, each of a pilot of its own
  MaxSessions, \* sessions the game server begins for a pilot, at most
  MaxStarts,   \* starts a player makes, at most
  MaxFaults,   \* times the process dies or a write of a file fails, at most
  NoBot

ASSUME RestartAssumption ==
  /\ NoBot \notin Bots
  /\ MaxSessions \in Nat /\ MaxStarts \in Nat /\ MaxFaults \in Nat

VARIABLES
  host,        \* how far startServer() has come
  rec,         \* records and claims: what the run of each pilot is doing
  report,      \* pilots with a record of a resume that failed
  todo,        \* the rows resume() has read and not come to, by pilot
  busy,        \* the pilot resume() is starting
  held,        \* bridgeSessions: the session held for a pilot, or 0
  pending,     \* the sessions of an earlier process, as <<pilot, session>>
  tried,       \* those of them releaseOrphans() has been through
  ask,         \* a pilot's select: NotAsked, Sent, or the session it began, not answered yet
  late,        \* pilots a process that died had sent a select of, not yet arrived
  rosterFile,  \* on disk: the row of each pilot
  sessionFile, \* on disk: the sessions to let go
  online,      \* the game server's session of a pilot, or 0
  last,        \* the last session it began for a pilot
  starts, faults,
  unwritten,   \* runs changed by a step whose write of the roster failed, none since
  unsaved,     \* sessions the journal should have and a save that failed has left out, none since
  owed,        \* pilots whose run has begun and was neither ended nor reported
  stopped,     \* pilots whose run was stopped or over, as was written, when the process died
  astray       \* sessions begun that no process was told of, or that one died with, unsaved

inMemory    == <<rec, report, todo, busy, held, pending, tried>>
rosterDisk  == <<rosterFile, unwritten>>
journalDisk == <<sessionFile, unsaved>>
files       == <<rosterDisk, journalDisk, faults>>
game        == <<online, last>>
ghosts      == <<owed, stopped, astray>>
restartVars == <<host, inMemory, ask, late, files, game, starts, ghosts>>

Claims  == {"selecting", "launching", "flying", "stopping", "blocked"}
Records == {"none", "ended"} \cup Claims
Rows    == {"none", "run", "stop"}

NotAsked == 0
Sent     == MaxSessions + 1
Done(r)  == ask[r] \in 1..MaxSessions

\* The row persistRoster() writes of a record.
RowOf(state) == CASE state \in {"selecting", "launching", "flying"} -> "run"
                  [] state \in {"stopping", "blocked"}              -> "stop"
                  [] OTHER                                          -> "none"

RestartInit ==
  /\ host = "down"
  /\ rec = [r \in Bots |-> "none"] /\ report = {}
  /\ todo = [r \in Bots |-> "none"] /\ busy = NoBot
  /\ held = [r \in Bots |-> 0] /\ pending = {} /\ tried = {}
  /\ ask = [r \in Bots |-> NotAsked] /\ late = {}
  /\ rosterFile = [r \in Bots |-> "none"] /\ sessionFile = {}
  /\ online = [r \in Bots |-> 0] /\ last = [r \in Bots |-> 0]
  /\ starts = 0 /\ faults = 0 /\ unwritten = {} /\ unsaved = {}
  /\ owed = {} /\ stopped = {} /\ astray = {}

-----------------------------------------------------------------------------
(* The two files.                                                          *)

\* Caught and logged, and nothing else.
WriteFails == faults < MaxFaults /\ faults' = faults + 1

\* A roster written before the change it is for.
PersistBefore ==
  rosterFile' = [r \in Bots |-> RowOf(rec[r])] /\ unwritten' = {} /\ UNCHANGED faults

\* persistRoster(): the records not finalized, and nothing else.
PersistRoster ==
  \/ rosterFile' = [r \in Bots |-> RowOf(rec'[r])] /\ unwritten' = {} /\ UNCHANGED faults
  \/ /\ WriteFails /\ UNCHANGED rosterFile
     /\ unwritten' = unwritten \cup {r \in Bots : rec'[r] # rec[r]}

\* A journal of what this process holds.
SavedHeld(orphans, rows) == {<<r, rows[r]>> : r \in {x \in Bots : rows[x] # 0}}

\* save(): what is still to be let go and what is held.
Saved(orphans, rows) == orphans \cup {<<r, rows[r]>> : r \in {x \in Bots : rows[x] # 0}}
SaveJournal ==
  \/ sessionFile' = Saved(pending', held') /\ unsaved' = {} /\ UNCHANGED faults
  \/ WriteFails /\ UNCHANGED sessionFile /\ unsaved' = Saved(pending', held') \ sessionFile

-----------------------------------------------------------------------------
(* A run, from its start to its end.                                       *)

Selecting(r) ==
  /\ rec' = [rec EXCEPT ![r] = "selecting"]
  /\ ask' = [ask EXCEPT ![r] = Sent]
  \* A run with startup steps is written before it selects.
  /\ PersistRoster \/ UNCHANGED <<rosterDisk, faults>>

\* POST /api/bots: the pilot is claimed by no run and online for nobody.
PlayerStarts(r) ==
  /\ host # "down" /\ starts < MaxStarts
  /\ rec[r] \notin Claims /\ held[r] = 0 /\ online[r] = 0
  /\ Selecting(r)
  /\ starts' = starts + 1
  /\ owed' = owed \ {r} /\ stopped' = stopped \ {r}
  /\ UNCHANGED <<host, report, todo, busy, held, pending, tried, journalDisk, game, late, astray>>

\* The game server begins a session, which takes the pilot over.
Begins(r) ==
  /\ last[r] < MaxSessions
  /\ last' = [last EXCEPT ![r] = @ + 1] /\ online' = [online EXCEPT ![r] = last'[r]]

GameSelects(r) ==
  /\ ask[r] = Sent /\ Begins(r)
  /\ ask' = [ask EXCEPT ![r] = last'[r]]
  /\ UNCHANGED <<host, inMemory, late, files, starts, ghosts>>

\* A select of a process that died arrives.
LateSelect(r) ==
  /\ r \in late /\ Begins(r)
  /\ late' = late \ {r} /\ astray' = astray \cup {<<r, last'[r]>>}
  /\ UNCHANGED <<host, inMemory, ask, files, starts, owed, stopped>>

\* bridgeSessions.set(), and with it the journal's entry.
SelectAnswers(r) ==
  /\ Done(r)
  /\ ask' = [ask EXCEPT ![r] = NotAsked]
  /\ held' = [held EXCEPT ![r] = ask[r]]
  /\ rec' = [rec EXCEPT ![r] = "launching"]
  /\ UNCHANGED pending /\ SaveJournal
  /\ UNCHANGED <<host, report, todo, busy, tried, rosterDisk, game, late, starts, ghosts>>

\* startProductive() has begun the run.
Launched(r) ==
  /\ rec[r] = "launching"
  /\ rec' = [rec EXCEPT ![r] = "flying"]
  /\ PersistRoster
  /\ busy' = IF busy = r THEN NoBot ELSE busy
  /\ owed' = owed \cup {r}
  /\ UNCHANGED <<host, report, todo, held, pending, tried, ask, journalDisk, game, late, starts,
                 stopped, astray>>

\* A stop written once it is done.
StoppingUnwritten(r) == rec' = [rec EXCEPT ![r] = "stopping"] /\ UNCHANGED <<rosterDisk, faults>>

\* finalizeBody() and requestGracefulStop(): the stop is written before anything else, and
\* goes on where the write fails.
Stopping(r) ==
  /\ rec' = [rec EXCEPT ![r] = "stopping"]
  /\ PersistRoster

\* The select is refused, or the run does not begin: start() finalizes it.
StartFails(r) ==
  /\ rec[r] = "launching" \/ (rec[r] = "selecting" /\ ask[r] = Sent)
  /\ ask' = [ask EXCEPT ![r] = NotAsked]
  /\ Stopping(r)
  /\ UNCHANGED <<host, report, todo, busy, held, pending, tried, journalDisk, game, late, starts, ghosts>>

\* The player stops the run, once more where a stop was blocked, or its program ends.
StopOrEnd(r) ==
  /\ rec[r] \in {"flying", "blocked"}
  /\ Stopping(r)
  /\ owed' = owed \ {r}
  /\ UNCHANGED <<host, report, todo, busy, held, pending, tried, ask, journalDisk, game, late, starts,
                 stopped, astray>>

\* The game server lets the session go.
GameReleases(r) ==
  /\ rec[r] = "stopping" /\ held[r] # 0 /\ online[r] = held[r]
  /\ online' = [online EXCEPT ![r] = 0]
  /\ UNCHANGED <<host, inMemory, ask, files, last, late, starts, ghosts>>

\* POST /api/logout: bridgeSessions.delete(), and with it the journal's entry.
LogoutAnswers(r) ==
  /\ rec[r] = "stopping" /\ held[r] # 0 /\ online[r] # held[r]
  /\ held' = [held EXCEPT ![r] = 0]
  /\ UNCHANGED pending /\ SaveJournal
  /\ UNCHANGED <<host, rec, report, todo, busy, tried, ask, rosterDisk, game, late, starts, ghosts>>

\* A failed start that resume() is not told of.
ToldNobody(r) == UNCHANGED <<busy, report, owed>>

\* What start() comes to is told to resume(), which reports a failure.
Told(r) ==
  /\ busy' = IF busy = r THEN NoBot ELSE busy
  /\ report' = IF busy = r THEN report \cup {r} ELSE report
  /\ owed' = IF busy = r THEN owed \ {r} ELSE owed

Finalized(r) ==
  /\ rec[r] = "stopping" /\ held[r] = 0
  /\ rec' = [rec EXCEPT ![r] = "ended"]
  /\ PersistRoster /\ Told(r)
  /\ UNCHANGED <<host, todo, held, pending, tried, ask, journalDisk, game, late, starts, stopped, astray>>

\* The drones are not home, or the release is not confirmed.
StopBlocked(r) ==
  /\ rec[r] = "stopping" /\ held[r] # 0
  /\ rec' = [rec EXCEPT ![r] = "blocked"]
  /\ PersistRoster /\ Told(r)
  /\ UNCHANGED <<host, todo, held, pending, tried, ask, journalDisk, game, late, starts, stopped, astray>>

-----------------------------------------------------------------------------
(* The process.                                                            *)

\* createBridgeSessionJournal() reads its file, and startServer() listens.
Boots ==
  /\ host = "down"
  /\ host' = "orphans" /\ pending' = sessionFile /\ tried' = {}
  /\ UNCHANGED <<rec, report, todo, busy, held, ask, files, game, late, starts, ghosts>>

\* releaseOrphans(), one session: let go or not there, or kept for the next start.
ReleaseOrphan(r, h) ==
  /\ host = "orphans" /\ <<r, h>> \in pending \ tried
  /\ tried' = tried \cup {<<r, h>>}
  /\ UNCHANGED held
  /\ \/ pending' = pending \ {<<r, h>>} /\ SaveJournal
        /\ online' = IF online[r] = h THEN [online EXCEPT ![r] = 0] ELSE online
     \/ online[r] = h /\ UNCHANGED <<pending, journalDisk, faults, online>>
  /\ UNCHANGED <<host, rec, report, todo, busy, ask, rosterDisk, last, late, starts, ghosts>>

\* resume() reads the roster, once.
ResumeBegins ==
  /\ host = "orphans" /\ pending \subseteq tried
  /\ host' = "resuming" /\ todo' = rosterFile /\ tried' = {}
  /\ UNCHANGED <<rec, report, busy, held, pending, ask, files, game, late, starts, ghosts>>

\* A start that asks no claims.
MayResumeClaimed(r) == todo[r] = "run" /\ held[r] = 0

\* start() from resume(): the claims and the rows of bridgeSessions are asked, not
\* the game server.
MayResume(r) == todo[r] = "run" /\ rec[r] \notin Claims /\ held[r] = 0

\* A row is reported where it may not be resumed; one that may be is not either where
\* its account or script is gone, its time is over, or it is not restartSafe.
RowRefused(r) ==
  /\ host = "resuming" /\ busy = NoBot /\ todo[r] # "none"
  /\ todo' = [todo EXCEPT ![r] = "none"]
  /\ report' = report \cup {r} /\ owed' = owed \ {r}
  /\ UNCHANGED <<host, rec, busy, held, pending, tried, ask, files, game, late, starts, stopped, astray>>

RowStarted(r) ==
  /\ host = "resuming" /\ busy = NoBot /\ MayResume(r)
  /\ todo' = [todo EXCEPT ![r] = "none"]
  /\ busy' = r
  /\ Selecting(r)
  /\ UNCHANGED <<host, report, held, pending, tried, journalDisk, game, late, starts, ghosts>>

\* The file is rewritten to what came back.
ResumeEnds ==
  /\ host = "resuming" /\ busy = NoBot /\ \A r \in Bots : todo[r] = "none"
  /\ host' = "up"
  /\ UNCHANGED rec /\ PersistRoster
  /\ UNCHANGED <<report, todo, busy, held, pending, tried, ask, journalDisk, game, late, starts, ghosts>>

\* The process dies; a call it has sent may still arrive.
HostDies ==
  /\ host # "down" /\ faults < MaxFaults
  /\ faults' = faults + 1
  /\ host' = "down"
  /\ stopped' = {r \in Bots : IF rec[r] = "none" THEN r \in stopped
                              ELSE RowOf(rec[r]) # "run" /\ r \notin unwritten}
  /\ astray' = astray \cup unsaved \cup {<<r, ask[r]>> : r \in {x \in Bots : Done(x)}}
  /\ rec' = [r \in Bots |-> "none"] /\ report' = {}
  /\ todo' = [r \in Bots |-> "none"] /\ busy' = NoBot
  /\ held' = [r \in Bots |-> 0] /\ pending' = {} /\ tried' = {}
  /\ ask' = [r \in Bots |-> NotAsked]
  /\ late' = late \cup {r \in Bots : ask[r] = Sent}
  /\ unwritten' = {} /\ unsaved' = {}
  /\ UNCHANGED <<rosterFile, sessionFile, game, starts, owed>>

\* The game server ends a session nobody has used for its time to live.
Reaped(r) ==
  /\ online[r] # 0 /\ held[r] # online[r] /\ ~Done(r)
  /\ online' = [online EXCEPT ![r] = 0]
  /\ UNCHANGED <<host, inMemory, ask, files, last, late, starts, ghosts>>

Run(r)    == \/ GameSelects(r) \/ SelectAnswers(r) \/ Launched(r) \/ StartFails(r)
             \/ GameReleases(r) \/ LogoutAnswers(r) \/ Finalized(r) \/ StopBlocked(r)
Player(r) == PlayerStarts(r) \/ StopOrEnd(r)
Resume    == ResumeBegins \/ ResumeEnds \/ \E r \in Bots : RowRefused(r) \/ RowStarted(r)
Orphans   == \E r \in Bots : \E h \in 1..MaxSessions : ReleaseOrphan(r, h)

RestartNext ==
  \/ Boots \/ HostDies \/ Resume \/ Orphans
  \/ \E r \in Bots : Run(r) \/ Player(r) \/ LateSelect(r) \/ Reaped(r)

RestartSpec == RestartInit /\ [][RestartNext]_restartVars

\* The host goes on with what it has begun, and every call it makes is answered.
RestartFairSpec ==
  /\ RestartSpec
  /\ WF_restartVars(Boots) /\ WF_restartVars(Orphans) /\ WF_restartVars(Resume)
  /\ \A r \in Bots : WF_restartVars(Run(r))

-----------------------------------------------------------------------------
(* What must hold.                                                         *)

Sessions == Bots \X (1..MaxSessions)

\* The variables have their types, and what resume() waits for is a start under way.
RestartTypeOK ==
  /\ host \in {"down", "orphans", "resuming", "up"}
  /\ rec \in [Bots -> Records] /\ report \subseteq Bots
  /\ todo \in [Bots -> Rows] /\ busy \in Bots \cup {NoBot}
  /\ held \in [Bots -> 0..MaxSessions] /\ online \in [Bots -> 0..MaxSessions]
  /\ last \in [Bots -> 0..MaxSessions]
  /\ pending \subseteq Sessions /\ tried \subseteq Sessions
  /\ sessionFile \subseteq Sessions /\ astray \subseteq Sessions
  /\ ask \in [Bots -> 0..Sent] /\ late \subseteq Bots
  /\ rosterFile \in [Bots -> Rows]
  /\ starts \in 0..MaxStarts /\ faults \in 0..MaxFaults
  /\ unwritten \subseteq Bots /\ unsaved \subseteq Sessions
  /\ owed \subseteq Bots /\ stopped \subseteq Bots
  /\ busy # NoBot => host = "resuming" /\ rec[busy] \in {"selecting", "launching", "stopping"}

\* A session of the game server that a request was answered with can be let go after a
\* restart, whenever the process dies: it is in the journal.  What is not: a session whose
\* select is not answered yet, one no living process was told of, and one left out by a
\* save that failed, for as long as no later save has written it (bridgeSessionJournal.js,
\* save: "a failed write is logged and never fails the select or release that caused it").
JournalCovers ==
  \A r \in Bots : online[r] # 0 /\ ~Done(r) /\ <<r, online[r]>> \notin astray \cup unsaved
                    => <<r, online[r]>> \in sessionFile

\* The roster has a row of every run begun and not ended, it says whether the run was told
\* to stop, and it has none of a run that is over, unless the write of the run's own last
\* change failed and nothing was written since (persistRoster).
RosterTrue ==
  \A r \in Bots : rec[r] \in {"flying", "stopping", "blocked", "ended"} /\ r \notin unwritten
                    => rosterFile[r] = RowOf(rec[r])

\* A run that was stopped, or over, when the process died is not brought back, where that
\* was written ("a process restart must not replay a requested Stop",
\* requestGracefulStop).  A Stop whose write failed is replayed: the code goes on with it.
\* A run stopped in the process that still has its row to resume is not in stopped either:
\* resume() has read the row, and starts the run again.
StopNotReplayed == [][busy' # busy => busy' \notin stopped]_restartVars

\* A pilot has one run: nothing starts another while one flies (claims).
FliesOn ==
  [][\A r \in Bots : rec[r] \in {"flying", "stopping", "blocked"} /\ host' # "down"
                       => rec'[r] \notin {"selecting", "launching", "none"}]_restartVars

\* A run begun is not lost sight of: it has its record or its row, or the player was
\* told it did not come back ("A bot that could not come back must SAY SO where the
\* player looks, not silently drop off the roster").
RunNotForgotten ==
  \A r \in owed : rec[r] \in Claims \/ rosterFile[r] # "none" \/ todo[r] # "none"

\* Every row resume() reads is started or reported, unless the process dies first.
EveryRowAnswered ==
  \A r \in Bots : todo[r] # "none" ~> (rec[r] # "none" \/ r \in report \/ host = "down")

=============================================================================
