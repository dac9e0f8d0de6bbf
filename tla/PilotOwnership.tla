--------------------------- MODULE PilotOwnership ---------------------------
(***************************************************************************)
(* Who flies a pilot: the sessions the BFF holds for its web sessions      *)
(* (src/server.js: select, logout and release, the hosted Start and its    *)
(* handing over and back) and the claims of the hosted runs                *)
(* (src/botHost.js: start, finalize).  A handler runs between two awaits   *)
(* in one step; the steps of several handlers interleave.                  *)
(*                                                                         *)
(* A hosted run makes its requests under a web session of its own, so a    *)
(* run is also the web session it holds and the request it has under way.  *)
(* A request slot is used again once its request is over.                  *)
(***************************************************************************)
EXTENDS Naturals, Sequences, FiniteSets

CONSTANTS
  Tabs,        \* the browsers' web sessions
  Runs,        \* hosted runs, each started once
  Pilots,
  Requests,    \* slots for the requests of tabs and for runs the host resumes
  MaxSessions, \* sessions the game server begins, at most
  MaxLost,     \* calls that fail without their outcome being known, at most
  None

ASSUME OwnershipAssumption ==
  /\ MaxSessions \in Nat /\ MaxLost \in Nat
  /\ Tabs \cap Runs = {} /\ Requests \cap Runs = {}
  /\ None \notin Tabs \cup Runs \cup Pilots \cup Requests

VARIABLES
  sessions, \* the game server's sessions, by their handle
  late,     \* pilots a lost selection may yet be carried out for
  lost,     \* calls lost so far
  held,     \* bridgeSessions: the handle a web session holds, or 0
  fenced,   \* web sessions whose row is a selectionReleaseUnverified one
  charOps,  \* characterOperations: the request that reserves a pilot
  sessOps,  \* sessionOperations: the request that reserves a web session
  claim,    \* claims: the run that claims a pilot
  record,   \* records: what each run is doing
  req       \* the requests under way

host  == <<charOps, sessOps, claim, record>>
vars  == <<sessions, late, lost, held, fenced, charOps, sessOps, claim, record, req>>

WebSessions == Tabs \cup Runs
Procs       == Requests \cup Runs
Handles     == 1..MaxSessions

Idle == [doing |-> "idle", at |-> None, pilot |-> None, handle |-> 0, row |-> None,
         run |-> None, gave |-> FALSE, back |-> FALSE]

Init ==
  /\ sessions = <<>> /\ late = {} /\ lost = 0
  /\ held = [s \in WebSessions |-> 0] /\ fenced = {}
  /\ charOps = [p \in Pilots |-> None]
  /\ sessOps = [s \in WebSessions |-> None]
  /\ claim = [p \in Pilots |-> None]
  /\ record = [r \in Runs |-> "unused"]
  /\ req = [q \in Procs |-> Idle]

-----------------------------------------------------------------------------
(* The game server.                                                        *)

Live(h)      == sessions[h].at = "live"
Offline(p)   == \A h \in DOMAIN sessions : sessions[h].pilot = p => sessions[h].at = "gone"
Ended(h, at) == [sessions EXCEPT ![h].at = at]

\* SelectCharacterID: a new session, which takes the pilot over.
Taken(p) == Append([h \in DOMAIN sessions |->
                      IF sessions[h].pilot = p THEN [sessions[h] EXCEPT !.at = "gone"] ELSE sessions[h]],
                   [pilot |-> p, at |-> "live"])

Lost == lost < MaxLost /\ lost' = lost + 1

\* What a release of the session h may come to: done; its connection closed
\* and the pilot not yet seen offline; not there (any more); or lost.
Released(h, outcome) ==
  \/ Live(h) /\ outcome = "released" /\ sessions' = Ended(h, "gone") /\ UNCHANGED lost
  \/ Live(h) /\ outcome = "unconfirmed" /\ sessions' = Ended(h, "closing") /\ UNCHANGED lost
  \/ ~Live(h) /\ outcome = "not found" /\ UNCHANGED <<sessions, lost>>
  \/ Lost /\ outcome = "lost" /\ UNCHANGED sessions

\* A session ends at the game server: its time is up, its connection drops,
\* its closing is done, a release thought lost arrives.
GameEnds(h) ==
  /\ sessions[h].at # "gone"
  /\ sessions' = Ended(h, "gone")
  /\ UNCHANGED <<late, lost, held, fenced, host, req>>

\* A selection whose call was given up long ago is carried out.
LateSelect(p) ==
  /\ p \in late /\ Len(sessions) < MaxSessions
  /\ late' = late \ {p}
  /\ sessions' = Taken(p)
  /\ UNCHANGED <<lost, held, fenced, host, req>>

-----------------------------------------------------------------------------
(* Rows and reservations.                                                  *)

Of(rows, s)  == IF rows[s] = 0 THEN None ELSE sessions[rows[s]].pilot
PilotIn(s)   == Of(held, s)
Others(p, s) == {t \in WebSessions \ {s} : PilotIn(t) = p}

Without(s, h)  == IF held[s] = h THEN [held EXCEPT ![s] = 0] ELSE held
Unfenced(s, h) == IF held[s] = h THEN fenced \ {s} ELSE fenced

\* forgetBridgeSession(): the row of s is dropped where it is still h.
Forget(s, h) == held' = Without(s, h) /\ fenced' = Unfenced(s, h)

FreedBy(q, ops) == [x \in DOMAIN ops |-> IF ops[x] = q THEN None ELSE ops[x]]

\* The finally of a handler: its reservations go, whatever it came to.
Freed(q, ops) == FreedBy(q, ops)

Free(q) == charOps' = Freed(q, charOps) /\ sessOps' = Freed(q, sessOps)

\* A tab's request is over; a run waits for the answer to its own.
Over(q, answer) == IF q \in Runs THEN [req[q] EXCEPT !.doing = answer] ELSE Idle

-----------------------------------------------------------------------------
(* POST /api/bridge/select.                                                *)

MayClaimAnyway(s, p) == s \in Runs => claim[p] = s
\* authorizesClaim(), claimedBy(): a claimed pilot is its run's alone.
MayClaim(s, p) == claim[p] = IF s \in Runs THEN s ELSE None

Unreserved(s, p) == sessOps[s] = None /\ charOps[p] = None

\* releaseHeldBridgeSession(): a row is not released under another's operation.
MayLeave(s) == held[s] # 0 => charOps[PilotIn(s)] = None

\* The row of before is dropped and then released; with none, the game server
\* is asked for the pilot at once.
SelectBegins(q, s, p) ==
  /\ sessOps' = [sessOps EXCEPT ![s] = q]
  /\ charOps' = [x \in Pilots |-> IF x = p \/ x = PilotIn(s) THEN q ELSE charOps[x]]
  /\ Forget(s, held[s])
  /\ req' = [req EXCEPT ![q] = [Idle EXCEPT !.doing = IF held[s] = 0 THEN "selecting" ELSE "leaving",
                                            !.at = s, !.pilot = p, !.handle = held[s]]]

AskSelect(q, s, p) ==
  /\ req[q].doing = "idle"
  /\ MayClaim(s, p) /\ Unreserved(s, p) /\ MayLeave(s)
  /\ SelectBegins(q, s, p)
  /\ UNCHANGED <<sessions, late, lost, claim, record>>

\* assertSelectionCurrent(), and for a pilot given back restoreHeldCaller()'s
\* current(): asked again after every await.
Current(q) ==
  LET s == req[q].at  p == req[q].pilot IN
  /\ sessOps[s] = q /\ charOps[p] = q /\ held[s] = 0
  /\ s \in Runs => claim[p] = s /\ Others(p, s) = {}
  /\ req[q].back => claim[p] = None /\ Others(p, s) = {}

\* The best-effort release: only an error it does not know ends the request.
LeaveAnswers(q) ==
  /\ req[q].doing = "leaving"
  /\ \E outcome \in {"released", "unconfirmed", "not found", "lost"} : Released(req[q].handle, outcome)
  /\ charOps' = [x \in Pilots |-> IF x # req[q].pilot /\ charOps[x] = q THEN None ELSE charOps[x]]
  /\ IF Current(q) THEN /\ req' = [req EXCEPT ![q].doing = "selecting", ![q].handle = 0]
                        /\ UNCHANGED sessOps
                   ELSE req' = [req EXCEPT ![q] = Over(q, "refused")] /\ sessOps' = Freed(q, sessOps)
  /\ UNCHANGED <<late, held, fenced, claim, record>>

GameSelects(q) ==
  /\ req[q].doing = "selecting" /\ Len(sessions) < MaxSessions
  /\ sessions' = Taken(req[q].pilot)
  /\ req' = [req EXCEPT ![q].doing = "selected", ![q].handle = Len(sessions) + 1]
  /\ UNCHANGED <<late, lost, held, fenced, host>>

\* selectCharacter() fails: refused, or given up with its outcome unknown.
SelectFails(q) ==
  /\ \/ req[q].doing = "selecting" /\ UNCHANGED <<late, lost>>
     \/ req[q].doing = "selecting" /\ Lost /\ late' = late \cup {req[q].pilot}
     \/ req[q].doing = "selected" /\ Lost /\ UNCHANGED late
  /\ req' = [req EXCEPT ![q] = Over(q, "refused")]
  /\ Free(q)
  /\ UNCHANGED <<sessions, held, fenced, claim, record>>

SelectAnswersDropping(q) ==
  /\ req[q].doing = "selected"
  /\ IF Current(q) THEN /\ held' = [held EXCEPT ![req[q].at] = req[q].handle]
                        /\ req' = [req EXCEPT ![q] = Over(q, "done")]
                   ELSE /\ req' = [req EXCEPT ![q] = Over(q, "refused")]
                        /\ UNCHANGED held
  /\ Free(q)
  /\ UNCHANGED <<sessions, late, lost, fenced, claim, record>>

\* selectHeldCharacter(): the session is held, or is a stale one to be released.
SelectAnswers(q) ==
  /\ req[q].doing = "selected"
  /\ IF Current(q) THEN /\ held' = [held EXCEPT ![req[q].at] = req[q].handle]
                        /\ req' = [req EXCEPT ![q] = Over(q, "done")]
                        /\ Free(q)
                   ELSE /\ req' = [req EXCEPT ![q].doing = "cleaning"]
                        /\ UNCHANGED <<held, charOps, sessOps>>
  /\ UNCHANGED <<sessions, late, lost, fenced, claim, record>>

\* A stale session whose release is not confirmed is kept, fenced, if it can be.
CleanAnswers(q) ==
  /\ req[q].doing = "cleaning"
  /\ \E outcome \in {"released", "unconfirmed", "not found", "lost"} :
       /\ Released(req[q].handle, outcome)
       /\ IF outcome \in {"unconfirmed", "lost"} /\ held[req[q].at] = 0
            THEN /\ held' = [held EXCEPT ![req[q].at] = req[q].handle]
                 /\ fenced' = fenced \cup {req[q].at}
            ELSE UNCHANGED <<held, fenced>>
  /\ req' = [req EXCEPT ![q] = Over(q, "refused")]
  /\ Free(q)
  /\ UNCHANGED <<late, claim, record>>

-----------------------------------------------------------------------------
(* POST /api/logout and /api/bridge/release: a release that is confirmed.  *)

LogoutBegins(q, s) ==
  /\ charOps' = [charOps EXCEPT ![PilotIn(s)] = q]
  /\ req' = [req EXCEPT ![q] = [Idle EXCEPT !.doing = "logging out", !.at = s, !.handle = held[s]]]

AskLogout(q, s) ==
  /\ req[q].doing = "idle"
  /\ held[s] # 0 /\ sessOps[s] = None /\ MayLeave(s)
  /\ LogoutBegins(q, s)
  /\ UNCHANGED <<sessions, late, lost, held, fenced, sessOps, claim, record>>

ConfirmedAnyhow(s, h, outcome) == Forget(s, h)

\* The row goes only with a session known to be gone.
Confirmed(s, h, outcome) ==
  IF outcome \in {"released", "not found"} THEN Forget(s, h) ELSE UNCHANGED <<held, fenced>>

LogoutAnswers(q) ==
  /\ req[q].doing = "logging out"
  /\ \E outcome \in {"released", "unconfirmed", "not found", "lost"} :
       /\ Released(req[q].handle, outcome)
       /\ Confirmed(req[q].at, req[q].handle, outcome)
       /\ req' = [req EXCEPT ![q] = Over(q, IF outcome \in {"released", "not found"} THEN "done" ELSE "refused")]
  /\ Free(q)
  /\ UNCHANGED <<late, claim, record>>

-----------------------------------------------------------------------------
(* Any route that reads by the session held, and drops a row that is gone. *)

AskRead(q, s) ==
  /\ req[q].doing = "idle"
  /\ held[s] # 0 /\ s \notin fenced
  /\ req' = [req EXCEPT ![q] = [Idle EXCEPT !.doing = "reading", !.at = s, !.handle = held[s]]]
  /\ UNCHANGED <<sessions, late, lost, held, fenced, host>>

ReadAnswers(q) ==
  /\ req[q].doing = "reading"
  /\ IF Live(req[q].handle) THEN UNCHANGED <<held, fenced>> ELSE Forget(req[q].at, req[q].handle)
  /\ req' = [req EXCEPT ![q] = Idle]
  /\ UNCHANGED <<sessions, late, lost, host>>

-----------------------------------------------------------------------------
(* POST /api/bots and botHost.start().                                     *)

\* The claim is the run's from here on and the caller's reservation of the
\* pilot goes (transferReservation()); the run selects its pilot itself.
Transferred(q, rec, co) ==
  /\ charOps' = [co EXCEPT ![rec.pilot] = IF @ = q THEN None ELSE @]
  /\ req' = [req EXCEPT ![q] = [rec EXCEPT !.doing = "starting", !.handle = 0, !.row = None],
                        ![rec.run] = [Idle EXCEPT !.doing = "to select", !.at = rec.run, !.pilot = rec.pilot]]

\* isCharacterHeld() has found nobody: the pilot is claimed, unless another
\* start was first.  A caller who flies it himself is looked at before he is
\* let go of (beforeStart).
Claims(q, rec, rows, co, so) ==
  IF claim[rec.pilot] # None
    THEN /\ charOps' = Freed(q, co) /\ sessOps' = Freed(q, so)
         /\ req' = [req EXCEPT ![q] = Idle]
         /\ UNCHANGED <<claim, record>>
    ELSE /\ claim' = [claim EXCEPT ![rec.pilot] = rec.run]
         /\ record' = [record EXCEPT ![rec.run] = "starting"]
         /\ sessOps' = so
         /\ IF rec.at # None /\ Of(rows, rec.at) = rec.pilot
              THEN /\ req' = [req EXCEPT ![q] = [rec EXCEPT !.doing = "checking", !.handle = rows[rec.at], !.row = None]]
                   /\ charOps' = co
              ELSE Transferred(q, rec, co)

\* isCharacterHeld(): each other row of the pilot is read; then, for a caller
\* who does not fly it himself, the pilot has to be offline.
Probes(q, rec, rows, co, so) ==
  LET others == {t \in WebSessions \ {rec.at} : Of(rows, t) = rec.pilot}
      asks   == rec.at # None /\ Of(rows, rec.at) # rec.pilot
  IN \/ /\ \E t \in others : req' = [req EXCEPT ![q] = [rec EXCEPT !.doing = "probing", !.row = t, !.handle = rows[t]]]
        /\ charOps' = co /\ sessOps' = so /\ UNCHANGED <<claim, record>>
     \/ /\ others = {} /\ asks
        /\ req' = [req EXCEPT ![q] = [rec EXCEPT !.doing = "asking", !.row = None, !.handle = 0]]
        /\ charOps' = co /\ sessOps' = so /\ UNCHANGED <<claim, record>>
     \/ others = {} /\ ~asks /\ Claims(q, rec, rows, co, so)

\* A run has an id of its own from the start of it.
Fresh(r) == record[r] = "unused" /\ \A x \in Procs : req[x].run # r

\* POST /api/bots reserves both the pilot and the caller's web session.
AskStart(q, s, p, r) ==
  /\ req[q].doing = "idle" /\ Fresh(r)
  /\ Unreserved(s, p) /\ claim[p] = None
  /\ Probes(q, [Idle EXCEPT !.at = s, !.pilot = p, !.run = r], held,
            [charOps EXCEPT ![p] = q], [sessOps EXCEPT ![s] = q])
  /\ UNCHANGED <<sessions, late, lost, held, fenced>>

\* resume() starts a run with no reservation.
Resume(q, p, r) ==
  /\ req[q].doing = "idle" /\ Fresh(r)
  /\ charOps[p] = None /\ claim[p] = None
  /\ Probes(q, [Idle EXCEPT !.pilot = p, !.run = r], held, charOps, sessOps)
  /\ UNCHANGED <<sessions, late, lost, held, fenced>>

StartRefused(q) ==
  /\ Free(q)
  /\ req' = [req EXCEPT ![q] = Idle]
  /\ UNCHANGED <<claim, record>>

\* The row read: it is alive, or cannot be told, and the start is refused; or
\* it is gone, dropped if it is still there, and the next one is read.
ProbeAnswers(q) ==
  /\ req[q].doing = "probing"
  /\ \/ StartRefused(q) /\ UNCHANGED <<held, fenced>>
     \/ /\ ~Live(req[q].handle)
        /\ Forget(req[q].row, req[q].handle)
        /\ Probes(q, req[q], Without(req[q].row, req[q].handle), charOps, sessOps)
  /\ UNCHANGED <<sessions, late, lost>>

\* getCharacterStatus(): for a start, and for a pilot that is to be given back.
StatusAnswers(q) ==
  /\ req[q].doing = "asking"
  /\ \/ StartRefused(q)
     \/ /\ Offline(req[q].pilot) /\ charOps[req[q].pilot] = q /\ ~req[q].back
        /\ Claims(q, req[q], held, charOps, sessOps)
     \/ /\ Offline(req[q].pilot) /\ req[q].back /\ Current(q)
        /\ req' = [req EXCEPT ![q].doing = "selecting"]
        /\ UNCHANGED host
  /\ UNCHANGED <<sessions, late, lost, held, fenced>>

\* start() fails: the run is finalized, which logs it out.
StartFails(q) ==
  LET r == req[q].run IN
  /\ record' = [record EXCEPT ![r] = "ending"]
  /\ req' = [req EXCEPT ![q].doing = "failing", ![q].handle = 0, ![r] = [Idle EXCEPT !.doing = "to log out", !.at = r]]
  /\ UNCHANGED <<charOps, sessOps, claim>>

\* readHeldFlight() and the drones of a caller who flies the pilot himself.
CheckAnswers(q) ==
  /\ req[q].doing = "checking"
  /\ \/ /\ StartFails(q)
        /\ IF Live(req[q].handle) THEN UNCHANGED <<held, fenced>> ELSE Forget(req[q].at, req[q].handle)
     \/ /\ Live(req[q].handle) /\ held[req[q].at] = req[q].handle
        /\ req' = [req EXCEPT ![q].doing = "handing"]
        /\ UNCHANGED <<held, fenced, host>>
  /\ UNCHANGED <<sessions, late, lost>>

\* releaseHeldBridgeSession(..., confirmed), then transferReservation().
HandAnswers(q) ==
  /\ req[q].doing = "handing"
  /\ \E outcome \in {"released", "unconfirmed", "not found", "lost"} :
       /\ Released(req[q].handle, outcome)
       /\ Confirmed(req[q].at, req[q].handle, outcome)
       /\ IF outcome \in {"released", "not found"}
            THEN Transferred(q, [req[q] EXCEPT !.gave = TRUE], charOps) /\ UNCHANGED <<sessOps, claim, record>>
            ELSE StartFails(q)
  /\ UNCHANGED late

\* The run has its pilot and flies, or its program cannot be started; or the
\* run's selection was refused.
StartReturns(q) ==
  /\ req[q].doing = "starting"
  /\ LET r == req[q].run IN
     \/ /\ req[r].doing = "done"
        /\ record' = [record EXCEPT ![r] = "flying"]
        /\ req' = [req EXCEPT ![q] = Idle, ![r] = Idle]
        /\ Free(q)
        /\ UNCHANGED claim
     \/ req[r].doing \in {"done", "refused"} /\ StartFails(q)
  /\ UNCHANGED <<sessions, late, lost, held, fenced>>

\* A start that failed after the caller was let go of gives the pilot back,
\* where nobody else has come by it (restoreHeldCaller()).
MayGiveBack(q) ==
  LET s == req[q].at  p == req[q].pilot IN
  /\ req[q].gave /\ held[s] = 0 /\ claim[p] = None
  /\ charOps[p] = None /\ sessOps[s] = q /\ Others(p, s) = {}

StartFailed(q) ==
  /\ req[q].doing = "failed"
  /\ IF MayGiveBack(q)
       THEN /\ charOps' = [charOps EXCEPT ![req[q].pilot] = q]
            /\ req' = [req EXCEPT ![q].doing = "asking", ![q].back = TRUE, ![q].run = None]
            /\ UNCHANGED sessOps
       ELSE req' = [req EXCEPT ![q] = Idle] /\ Free(q)
  /\ UNCHANGED <<sessions, late, lost, held, fenced, claim, record>>

-----------------------------------------------------------------------------
(* The requests of a run, and its end.                                     *)

\* The run's own select: authorized by its claim, and refused where the pilot
\* is in another row or an operation is under way.
RunSelects(r) ==
  /\ req[r].doing = "to select"
  /\ LET p == req[r].pilot IN
     IF MayClaim(r, p) /\ Unreserved(r, p) /\ MayLeave(r) /\ Others(p, r) = {}
       THEN SelectBegins(r, r, p)
       ELSE /\ req' = [req EXCEPT ![r].doing = "refused"]
            /\ UNCHANGED <<held, fenced, charOps, sessOps>>
  /\ UNCHANGED <<sessions, late, lost, claim, record>>

RunLogsOut(r) ==
  /\ req[r].doing = "to log out"
  /\ IF held[r] # 0 /\ sessOps[r] = None /\ MayLeave(r)
       THEN LogoutBegins(r, r)
       ELSE /\ req' = [req EXCEPT ![r].doing = IF held[r] = 0 /\ sessOps[r] = None THEN "done" ELSE "refused"]
            /\ UNCHANGED charOps
  /\ UNCHANGED <<sessions, late, lost, held, fenced, sessOps, claim, record>>

\* finalize(): a run that flies is stopped or ends, and one whose release was
\* not confirmed is stopped again.
Finalize(r) ==
  /\ record[r] \in {"flying", "blocked"}
  /\ record' = [record EXCEPT ![r] = "ending"]
  /\ req' = [req EXCEPT ![r] = [Idle EXCEPT !.doing = "to log out", !.at = r]]
  /\ UNCHANGED <<sessions, late, lost, held, fenced, charOps, sessOps, claim>>

\* The finalize of r is over, and the start that waits for it goes on.
Resolved(r) ==
  [q \in Procs |-> IF q = r THEN Idle
                   ELSE IF req[q].doing = "failing" /\ req[q].run = r THEN [req[q] EXCEPT !.doing = "failed"]
                   ELSE req[q]]

FinalizedAnyhow(r) ==
  /\ record[r] = "ending" /\ req[r].doing \in {"done", "refused"}
  /\ req' = Resolved(r)
  /\ record' = [record EXCEPT ![r] = "ended"]
  /\ claim' = [p \in Pilots |-> IF claim[p] = r THEN None ELSE claim[p]]
  /\ UNCHANGED <<sessions, late, lost, held, fenced, charOps, sessOps>>

FinalizedIfReleased(r) ==
  /\ record[r] = "ending" /\ req[r].doing = "done"
  /\ req' = Resolved(r)
  /\ record' = [record EXCEPT ![r] = "ended"]
  /\ claim' = [p \in Pilots |-> IF claim[p] = r THEN None ELSE claim[p]]
  /\ UNCHANGED <<sessions, late, lost, held, fenced, charOps, sessOps>>

\* The claim is kept until the release is confirmed.
Finalized(r) ==
  /\ record[r] = "ending" /\ req[r].doing \in {"done", "refused"}
  /\ req' = Resolved(r)
  /\ IF req[r].doing = "done"
       THEN /\ record' = [record EXCEPT ![r] = "ended"]
            /\ claim' = [p \in Pilots |-> IF claim[p] = r THEN None ELSE claim[p]]
       ELSE /\ record' = [record EXCEPT ![r] = "blocked"]
            /\ UNCHANGED claim
  /\ UNCHANGED <<sessions, late, lost, held, fenced, charOps, sessOps>>

-----------------------------------------------------------------------------

\* What a request under way waits for, which comes in the end: every call of
\* the game server and of the gateway is answered or given up.
Answers(q) ==
  \/ LeaveAnswers(q) \/ GameSelects(q) \/ SelectFails(q) \/ SelectAnswers(q) \/ CleanAnswers(q)
  \/ LogoutAnswers(q) \/ ReadAnswers(q) \/ ProbeAnswers(q) \/ StatusAnswers(q)
  \/ CheckAnswers(q) \/ HandAnswers(q) \/ StartReturns(q) \/ StartFailed(q)

RunGoesOn(r) == RunSelects(r) \/ RunLogsOut(r) \/ Finalized(r)

Next ==
  \/ \E q \in Requests, s \in Tabs : AskLogout(q, s) \/ AskRead(q, s)
  \/ \E q \in Requests, s \in Tabs, p \in Pilots : AskSelect(q, s, p)
  \/ \E q \in Requests, s \in Tabs, p \in Pilots, r \in Runs : AskStart(q, s, p, r)
  \/ \E q \in Requests, p \in Pilots, r \in Runs : Resume(q, p, r)
  \/ \E q \in Procs : Answers(q)
  \/ \E r \in Runs : RunGoesOn(r) \/ Finalize(r)
  \/ \E h \in DOMAIN sessions : GameEnds(h)
  \/ \E p \in Pilots : LateSelect(p)

Spec == Init /\ [][Next]_vars

Fairness == /\ \A q \in Procs : WF_vars(Answers(q))
            /\ \A r \in Runs : WF_vars(RunGoesOn(r))

FairSpec == Spec /\ Fairness

-----------------------------------------------------------------------------
(* Properties.                                                             *)

Doings == {"idle", "leaving", "selecting", "selected", "cleaning", "logging out", "reading", "probing",
           "asking", "checking", "handing", "starting", "failing", "failed", "to select", "to log out", "done", "refused"}

\* Types: a row, and a request, names a session the game server did begin.
TypeOK ==
  /\ sessions \in Seq([pilot : Pilots, at : {"live", "closing", "gone"}]) /\ Len(sessions) <= MaxSessions
  /\ late \subseteq Pilots /\ lost \in 0..MaxLost
  /\ held \in [WebSessions -> 0..Len(sessions)] /\ fenced \subseteq {s \in WebSessions : held[s] # 0}
  /\ charOps \in [Pilots -> Procs \cup {None}] /\ sessOps \in [WebSessions -> Procs \cup {None}]
  /\ claim \in [Pilots -> Runs \cup {None}]
  /\ record \in [Runs -> {"unused", "starting", "flying", "ending", "blocked", "ended"}]
  /\ req \in [Procs -> [doing : Doings, at : WebSessions \cup {None}, pilot : Pilots \cup {None},
                        handle : 0..Len(sessions), row : WebSessions \cup {None},
                        run : Runs \cup {None}, gave : BOOLEAN, back : BOOLEAN]]

\* While a hosted run flies a pilot with a live session, no tab's row of that
\* pilot is alive, and the run's claim stands.
OneDriver ==
  \A r \in Runs : record[r] = "flying" /\ held[r] # 0 =>
    /\ claim[sessions[held[r]].pilot] = r
    /\ \A s \in Tabs : PilotIn(s) = PilotIn(r) => ~Live(held[s])

\* A claim is held by a run that is not over, and kept until the run's row has
\* gone; a pilot let go of twice is not let go of under a new run.
ClaimKeptUntilReleased ==
  /\ \A p \in Pilots : claim[p] # None => record[claim[p]] \in {"starting", "flying", "ending", "blocked"}
  /\ \A r \in Runs : record[r] = "ended" => held[r] = 0

\* As long as every call is answered a session that is alive is in a row or in
\* the hands of a request, so that it can be released: none is left online with
\* its handle forgotten.
EverySessionAccountedFor ==
  \A h \in DOMAIN sessions : lost = 0 /\ Live(h) =>
    \/ \E s \in WebSessions : held[s] = h
    \/ \E q \in Procs : req[q].handle = h /\ req[q].doing \in {"leaving", "selected", "cleaning"}

\* A row given up by a logout or a hand-over is of a session that no longer
\* answers, however often it is asked for again.
NeverLetGoAlive ==
  [][\A q \in Procs : req[q].doing \in {"logging out", "handing"} /\ req'[q].doing # req[q].doing
                      /\ held'[req[q].at] = 0
       => ~(sessions'[req[q].handle].at = "live")]_vars

\* Every request is over in the end: none waits for a reservation or a run
\* that waits for it.
EveryRequestEnds == \A q \in Requests : req[q].doing # "idle" ~> req[q].doing = "idle"
=============================================================================
