------------------------ MODULE PilotOwnershipProofs ------------------------
(***************************************************************************)
(* Proofs about PilotOwnership, for any tabs, runs, pilots and requests,   *)
(* however many calls are lost: who may fly a pilot, how long a claim is   *)
(* kept, and that no session that is alive is forgotten.                   *)
(***************************************************************************)
EXTENDS PilotOwnership, TLAPS

Session    == [pilot : Pilots, at : {"live", "closing", "gone"}]
Request(n) == [doing : Doings, at : WebSessions \cup {None}, pilot : Pilots \cup {None},
               handle : 0..n, row : WebSessions \cup {None},
               run : Runs \cup {None}, gave : BOOLEAN, back : BOOLEAN]

\* The steps of a request that is getting a session, and those with one in its hands.
Taking == {"leaving", "selecting", "selected", "cleaning"}
InHand == {"leaving", "selected", "cleaning"}

\* The steps of a start that depend on what its run is doing.
OfRun == {"probing", "asking", "checking", "handing", "starting", "failing"}

\* What a request has reserved, and what it knows of the session it is about.
Reserves(q) ==
  /\ req[q].doing \in Taking =>
       req[q].at # None /\ req[q].pilot # None /\ charOps[req[q].pilot] = q /\ sessOps[req[q].at] = q
  /\ req[q].doing \in {"probing", "asking", "checking", "handing"} /\ req[q].at # None =>
       sessOps[req[q].at] = q
  /\ req[q].doing = "asking" /\ req[q].back =>
       /\ req[q].at # None /\ req[q].pilot # None /\ req[q].run = None
       /\ charOps[req[q].pilot] = q
  /\ req[q].doing \in InHand \cup {"logging out", "checking", "handing", "reading", "probing"} =>
       req[q].handle # 0
  /\ req[q].doing \in {"selected", "cleaning", "checking", "handing"} =>
       sessions[req[q].handle].pilot = req[q].pilot
  /\ req[q].doing = "logging out" => charOps[sessions[req[q].handle].pilot] = q
  /\ req[q].doing \in {"checking", "handing", "logging out", "reading"} => req[q].at # None
  /\ req[q].doing \in {"logging out", "handing"} =>
       held[req[q].at] = req[q].handle \/ sessions[req[q].handle].at # "live"
  /\ req[q].doing = "probing" => req[q].row # None /\ ~req[q].back
  /\ req[q].gave => req[q].at # None

\* A run asks for itself alone, and a request for a tab.
OfItsKind(q) ==
  /\ q \in Runs => req[q].run = None /\ req[q].at \in {None, q} /\ ~req[q].back
  /\ q \in Requests => /\ req[q].at \in Tabs \cup {None}
                       /\ req[q].doing \notin {"to select", "to log out", "done", "refused"}

\* No two starts are of one run.
OwnRun(q) == \A x \in Procs : req[q].run # None /\ req[x].run = req[q].run => x = q

\* What a start knows of its run.
KnowsRun(q) ==
  /\ req[q].doing \in {"probing", "asking"} /\ ~req[q].back =>
       req[q].run # None /\ record[req[q].run] = "unused" /\ req[q].pilot # None
  /\ req[q].doing \in {"checking", "handing", "starting"} =>
       /\ req[q].run # None /\ record[req[q].run] = "starting"
       /\ req[q].pilot # None /\ claim[req[q].pilot] = req[q].run
  /\ req[q].doing \in {"checking", "handing"} => req[req[q].run].doing = "idle" /\ held[req[q].run] = 0
  /\ req[q].doing \in {"failing", "failed"} => req[q].run # None /\ req[q].pilot # None
  /\ req[q].doing = "failing" => record[req[q].run] = "ending"

Starts(q) == OfItsKind(q) /\ OwnRun(q) /\ KnowsRun(q)

\* What a run may be doing at each point of its life, and that what it flies is claimed.
Lives(r) ==
  /\ req[r].doing \in {"idle", "to select", "selecting", "selected", "cleaning",
                       "to log out", "logging out", "done", "refused"}
  /\ record[r] \in {"unused", "ended"} => held[r] = 0
  /\ record[r] \in {"unused", "flying", "blocked", "ended"} => req[r].doing = "idle"
  /\ record[r] = "ending" => req[r].doing \in {"to log out", "logging out", "done", "refused"}
  /\ record[r] = "ending" /\ req[r].doing = "done" => held[r] = 0
  /\ req[r].doing \in {"to select", "selecting", "selected", "cleaning"} =>
       /\ record[r] = "starting" /\ held[r] = 0 /\ req[r].at = r
       /\ req[r].pilot # None /\ claim[req[r].pilot] = r
  /\ req[r].doing \in {"to log out", "logging out"} => record[r] = "ending" /\ req[r].at = r
  /\ req[r].doing = "logging out" => held[r] \in {0, req[r].handle}
  /\ held[r] # 0 => claim[PilotIn(r)] = r

\* A run that has its pilot, or is getting him, has him to itself.
Flies(r) == held[r] # 0 \/ req[r].doing \in {"selecting", "selected", "cleaning"}

Alone(r) ==
  \A p \in Pilots : claim[p] = r /\ Flies(r) =>
    /\ \A q \in Requests : req[q].doing \in Taking => req[q].pilot # p
    /\ \A s \in Tabs : PilotIn(s) # p

ClaimsStand ==
  /\ \A p \in Pilots : claim[p] # None => record[claim[p]] \in {"starting", "flying", "ending", "blocked"}
  /\ \A p, x \in Pilots : claim[p] # None /\ claim[x] = claim[p] => x = p

\* A selection arrives late only where a call was lost.
LateIsLost == lost = 0 => late = {}

Inv ==
  /\ TypeOK
  /\ \A q \in Procs : Reserves(q) /\ Starts(q)
  /\ \A r \in Runs : Lives(r) /\ Alone(r)
  /\ ClaimsStand /\ LateIsLost /\ EverySessionAccountedFor

-----------------------------------------------------------------------------
(* What a step of the processes Q leaves to the others.                    *)

Untouched(Q) ==
  /\ \A x \in Procs \ Q : req'[x] = req[x]
  /\ \A p \in Pilots : charOps'[p] = charOps[p] \/ charOps[p] \in Q \cup {None}
  /\ \A s \in WebSessions : sessOps'[s] = sessOps[s] \/ sessOps[s] \in Q \cup {None}

\* Sessions keep their pilots, and one that is not alive stays so.
Grow ==
  /\ Len(sessions) <= Len(sessions')
  /\ \A h \in 1..Len(sessions) : /\ sessions'[h].pilot = sessions[h].pilot
                                 /\ sessions'[h].at = "live" => sessions[h].at = "live"

\* A row is dropped with its session gone, or taken into the hands of a request that
\* finds nothing reserved; and filled, where empty, by the request that got the session.
RowMoves(Q, s) ==
  \/ held'[s] = held[s]
  \/ held'[s] = 0 /\ sessions'[held[s]].at # "live"
  \/ /\ held'[s] = 0 /\ sessOps[s] = None /\ charOps[PilotIn(s)] = None
     /\ \E q \in Q : req'[q].doing = "leaving" /\ req'[q].handle = held[s]
  \/ /\ held[s] = 0
     /\ \E q \in Q : s = req[q].at /\ held'[s] = req[q].handle /\ req[q].doing \in {"selected", "cleaning"}

Rows(Q) == \A s \in WebSessions : RowMoves(Q, s)

\* What the other starts rely on: nobody touches the run of another start.
RunsKept(Q) ==
  \A x \in Procs \ Q : req[x].run # None =>
    /\ \A y \in Q : req'[y].run # req[x].run
    /\ req[x].doing \in OfRun =>
         /\ record'[req[x].run] = record[req[x].run]
         /\ \A p \in Pilots : claim[p] = req[x].run => claim'[p] = req[x].run
         /\ req[req[x].run].doing = "idle" => req'[req[x].run].doing = "idle"

\* No claim but those of runs in Q comes or goes, nor what a run is doing.
ClaimsKept(Q) ==
  /\ \A p \in Pilots : claim'[p] = claim[p] \/ {claim[p], claim'[p]} \subseteq Q \cup {None}
  /\ \A r \in Runs \ Q : record'[r] = record[r]

\* A pilot taken newly is claimed by nobody.
TakesUnclaimed(Q) ==
  \A q \in Q \cap Requests : req'[q].doing \in Taking =>
    \/ req[q].doing \in Taking /\ req'[q].pilot = req[q].pilot
    \/ claim[req'[q].pilot] = None

\* What was in hand stays so, or is put in a row, or is over, unless a call was lost.
Hands(Q) ==
  \/ lost' # 0
  \/ /\ lost = 0 /\ late' \subseteq late
     /\ \A q \in Q : req[q].doing \in InHand =>
          \/ req'[q].doing \in InHand /\ req'[q].handle = req[q].handle
          \/ sessions'[req[q].handle].at # "live"
          \/ \E s \in WebSessions : held'[s] = req[q].handle
     /\ \A h \in 1..Len(sessions') : h > Len(sessions) =>
          \E q \in Q : req'[q].doing = "selected" /\ req'[q].handle = h

Guarantee(Q) ==
  /\ Untouched(Q) /\ Grow /\ Rows(Q) /\ RunsKept(Q) /\ ClaimsKept(Q) /\ TakesUnclaimed(Q) /\ Hands(Q)

\* A run in Q that has its pilot after the step had him before.
FliesOn(r) == \A p \in Pilots : claim'[p] = r /\ Flies(r)' => claim[p] = r /\ Flies(r)

-----------------------------------------------------------------------------
(* What the others keep.                                                   *)

LEMMA NoneApart ==
         /\ None \notin Tabs /\ None \notin Runs /\ None \notin Pilots /\ None \notin Requests
         /\ None \notin Procs /\ None \notin WebSessions /\ Tabs \cap Runs = {} /\ Requests \cap Runs = {}
         /\ MaxSessions \in Nat /\ MaxLost \in Nat
BY OwnershipAssumption DEF Procs, WebSessions

\* The types of the parts, in the form the proofs use.
LEMMA TypeParts ==
  ASSUME TypeOK
  PROVE  /\ sessions \in Seq(Session) /\ Len(sessions) \in Nat /\ DOMAIN sessions = 1..Len(sessions)
         /\ \A h \in 1..Len(sessions) : sessions[h] \in Session /\ sessions[h].pilot \in Pilots
         /\ \A s \in WebSessions : held[s] \in 0..Len(sessions)
         /\ \A s \in WebSessions : held[s] # 0 => held[s] \in 1..Len(sessions) /\ PilotIn(s) = sessions[held[s]].pilot
         /\ \A s \in WebSessions : held[s] = 0 => PilotIn(s) = None
         /\ \A q \in Procs : /\ req[q] \in Request(Len(sessions))
                             /\ req[q].handle # 0 => req[q].handle \in 1..Len(sessions)
                             /\ req[q].at \in WebSessions \cup {None} /\ req[q].pilot \in Pilots \cup {None}
                             /\ req[q].row \in WebSessions \cup {None} /\ req[q].run \in Runs \cup {None}
                             /\ req[q].handle \in 0..Len(sessions) /\ req[q].gave \in BOOLEAN /\ req[q].back \in BOOLEAN
<1>1. sessions \in Seq(Session) BY DEF TypeOK, Session
<1>2. /\ Len(sessions) \in Nat /\ DOMAIN sessions = 1..Len(sessions)
      /\ \A h \in 1..Len(sessions) : sessions[h] \in Session
  BY <1>1
<1>3. \A h \in 1..Len(sessions) : sessions[h].pilot \in Pilots BY <1>2 DEF Session
<1>4. \A s \in WebSessions : held[s] \in 0..Len(sessions) BY DEF TypeOK
<1>5. \A s \in WebSessions : held[s] # 0 => held[s] \in 1..Len(sessions) /\ PilotIn(s) = sessions[held[s]].pilot
  BY <1>2, <1>4 DEF PilotIn, Of
<1>6. \A s \in WebSessions : held[s] = 0 => PilotIn(s) = None BY DEF PilotIn, Of
<1>7. \A q \in Procs : req[q] \in Request(Len(sessions)) BY DEF TypeOK, Request
<1>8. \A q \in Procs : /\ req[q].handle # 0 => req[q].handle \in 1..Len(sessions)
                       /\ req[q].at \in WebSessions \cup {None} /\ req[q].pilot \in Pilots \cup {None}
                       /\ req[q].row \in WebSessions \cup {None} /\ req[q].run \in Runs \cup {None}
                       /\ req[q].handle \in 0..Len(sessions) /\ req[q].gave \in BOOLEAN /\ req[q].back \in BOOLEAN
  BY <1>2, <1>7 DEF Request
<1> QED BY <1>1, <1>2, <1>3, <1>4, <1>5, <1>6, <1>7, <1>8

\* A row dropped or filled by others is not one a process that stands still is about.
LEMMA ReservesKept ==
  ASSUME TypeOK, NEW Q \in SUBSET Procs, NEW x \in Procs \ Q, Reserves(x),
         Untouched(Q), Grow, Rows(Q)
  PROVE  Reserves(x)'
<1> USE TypeParts, NoneApart
<1>1. req'[x] = req[x] BY DEF Untouched
<1>2. \A p \in Pilots : charOps[p] = x => charOps'[p] = x BY DEF Untouched
<1>3. \A s \in WebSessions : sessOps[s] = x => sessOps'[s] = x BY DEF Untouched
<1>4. \A h \in 1..Len(sessions) : /\ sessions'[h].pilot = sessions[h].pilot
                                  /\ sessions'[h].at = "live" => sessions[h].at = "live"
  BY DEF Grow
<1>5. ASSUME req[x].doing \in {"logging out", "handing"}
      PROVE  held'[req[x].at] = req[x].handle \/ sessions'[req[x].handle].at # "live"
  <2>1. /\ req[x].at \in WebSessions /\ req[x].handle \in 1..Len(sessions)
        /\ req[x].handle # 0
        /\ held[req[x].at] = req[x].handle \/ sessions[req[x].handle].at # "live"
        /\ req[x].doing = "logging out" => charOps[sessions[req[x].handle].pilot] = x
        /\ req[x].doing = "handing" => sessOps[req[x].at] = x
    BY <1>5 DEF Reserves, InHand
  <2>2. CASE sessions[req[x].handle].at # "live" BY <1>4, <2>1, <2>2
  <2>3. CASE held[req[x].at] = req[x].handle
    <3>1. RowMoves(Q, req[x].at) BY <2>1 DEF Rows
    <3>4. held[req[x].at] # 0 BY ONLY <2>1, <2>3
    <3>2. PilotIn(req[x].at) = sessions[req[x].handle].pilot BY ONLY <2>3, <3>4 DEF PilotIn, Of
    <3>3. ~(sessOps[req[x].at] = None /\ charOps[PilotIn(req[x].at)] = None) BY <1>5, <2>1, <3>2
    <3> QED BY <2>3, <3>1, <3>3, <3>4 DEF RowMoves
  <2> QED BY <2>1, <2>2, <2>3
<1>6. ASSUME req[x].handle # 0
      PROVE  sessions'[req[x].handle].pilot = sessions[req[x].handle].pilot
  BY <1>4, <1>6
<1>7. ASSUME req[x].doing = "logging out"
      PROVE  charOps'[sessions'[req[x].handle].pilot] = x
  BY <1>2, <1>6, <1>7 DEF Reserves
<1>8. ASSUME req[x].doing \in {"selected", "cleaning", "checking", "handing"}
      PROVE  sessions'[req[x].handle].pilot = req[x].pilot
  BY <1>6, <1>8 DEF Reserves, InHand
<1>9. req[x].pilot # None => req[x].pilot \in Pilots BY TypeParts
<1>10. req[x].at # None => req[x].at \in WebSessions BY TypeParts
<1>11. Taking' = Taking /\ InHand' = InHand BY DEF Taking, InHand
<1> HIDE TypeParts, NoneApart DEF Taking, InHand
<1> QED BY <1>1, <1>2, <1>3, <1>5, <1>7, <1>8, <1>9, <1>10, <1>11 DEF Reserves

\* A run keeps its row, or loses it, while it stands still.
LEMMA RowOfRun ==
  ASSUME TypeOK, NEW Q \in SUBSET Procs, NEW r \in Runs, r \notin Q \/ req[r].doing \notin {"selected", "cleaning"},
         Rows(Q), \A q \in Q : Starts(q)
  PROVE  held'[r] \in {0, held[r]}
<1> USE NoneApart
<1>1. RowMoves(Q, r) BY DEF Rows, WebSessions
<1>2. ASSUME NEW q \in Q, r = req[q].at, req[q].doing \in {"selected", "cleaning"} PROVE FALSE
  BY <1>2 DEF Starts, OfItsKind, Procs
<1> QED BY <1>1, <1>2 DEF RowMoves

LEMMA StartsKept ==
  ASSUME TypeOK, NEW Q \in SUBSET Procs, NEW x \in Procs \ Q, Starts(x), \A q \in Q : Starts(q),
         \A q \in Procs : req[q].run # None => req[q].run \in Runs,
         Untouched(Q), Rows(Q), RunsKept(Q)
  PROVE  Starts(x)'
<1> USE NoneApart
<1>1. req'[x] = req[x] BY DEF Untouched
<1>2. ASSUME req[x].run # None
      PROVE  /\ \A y \in Q : req'[y].run # req[x].run
             /\ req[x].doing \in OfRun =>
                  /\ record'[req[x].run] = record[req[x].run]
                  /\ \A p \in Pilots : claim[p] = req[x].run => claim'[p] = req[x].run
                  /\ req[req[x].run].doing = "idle" => req'[req[x].run].doing = "idle"
  BY <1>2 DEF RunsKept
<1>3. ASSUME req[x].doing \in {"checking", "handing"} PROVE held'[req[x].run] = 0
  <2>1. /\ req[x].run \in Runs /\ held[req[x].run] = 0 /\ req[req[x].run].doing = "idle"
    BY <1>3 DEF Starts, KnowsRun
  <2>2. held'[req[x].run] \in {0, held[req[x].run]} BY <2>1, RowOfRun
  <2> QED BY <2>1, <2>2
<1>4. ASSUME NEW y \in Procs, req[x].run # None, req'[y].run = req[x].run PROVE y = x
  <2>1. y \notin Q BY <1>2, <1>4
  <2>2. req'[y] = req[y] BY <2>1 DEF Untouched
  <2> QED BY <1>4, <2>2 DEF Starts, OwnRun
<1>5. req[x].pilot # None => req[x].pilot \in Pilots BY TypeParts
<1>6. KnowsRun(x)' BY <1>1, <1>2, <1>3, <1>5 DEF Starts, KnowsRun, OfRun
<1>7. OfItsKind(x)' BY <1>1 DEF Starts, OfItsKind
<1>8. OwnRun(x)' BY <1>1, <1>4 DEF OwnRun
<1> QED BY <1>6, <1>7, <1>8 DEF Starts

LEMMA LivesKept ==
  ASSUME TypeOK, NEW Q \in SUBSET Procs, NEW r \in Runs \ Q, Lives(r), \A q \in Q : Starts(q),
         Untouched(Q), Grow, Rows(Q), ClaimsKept(Q)
  PROVE  Lives(r)' /\ FliesOn(r)
<1> USE NoneApart, TypeParts
<1>1. req'[r] = req[r] BY DEF Untouched, Procs
<1>2. record'[r] = record[r] BY DEF ClaimsKept
<1>3. \A p \in Pilots : claim[p] = r <=> claim'[p] = r BY DEF ClaimsKept
<1>4. held'[r] \in {0, held[r]} BY RowOfRun
<1>5. r \in WebSessions /\ r \in Procs BY DEF WebSessions, Procs
<1>6. ASSUME held'[r] # 0 PROVE PilotIn(r)' = PilotIn(r) /\ PilotIn(r) \in Pilots
  <2>1. held'[r] = held[r] /\ held[r] \in 1..Len(sessions) BY <1>4, <1>5, <1>6
  <2>2. sessions'[held[r]].pilot = sessions[held[r]].pilot BY <2>1 DEF Grow
  <2>3. PilotIn(r)' = sessions'[held[r]].pilot BY <1>6, <2>1 DEF PilotIn, Of
  <2> QED BY <1>5, <1>6, <2>1, <2>2, <2>3
<1>7. held'[r] # 0 => claim'[PilotIn(r)'] = r BY <1>3, <1>4, <1>6 DEF Lives
<1>8. req[r].pilot # None => req[r].pilot \in Pilots BY <1>5
<1>9. Lives(r)' BY <1>1, <1>2, <1>3, <1>4, <1>7, <1>8 DEF Lives
<1>10. FliesOn(r) BY <1>1, <1>3, <1>4 DEF FliesOn, Flies
<1> QED BY <1>9, <1>10

LEMMA AloneKept ==
  ASSUME TypeOK, NEW Q \in SUBSET Procs, NEW r \in Runs, Alone(r), FliesOn(r),
         \A q \in Q : Reserves(q) /\ Starts(q), Untouched(Q), Grow, Rows(Q), TakesUnclaimed(Q)
  PROVE  Alone(r)'
<1> USE NoneApart, TypeParts
<1> SUFFICES ASSUME NEW p \in Pilots, claim'[p] = r, Flies(r)'
             PROVE  /\ \A q \in Requests : req'[q].doing \in Taking => req'[q].pilot # p
                    /\ \A s \in Tabs : PilotIn(s)' # p
  BY DEF Alone
<1>1. claim[p] = r /\ Flies(r) BY DEF FliesOn
<1>2. /\ \A q \in Requests : req[q].doing \in Taking => req[q].pilot # p
      /\ \A s \in Tabs : PilotIn(s) # p
  BY <1>1 DEF Alone
<1>3. ASSUME NEW q \in Requests, req'[q].doing \in Taking PROVE req'[q].pilot # p
  <2>1. CASE q \in Q BY <1>1, <1>2, <1>3, <2>1 DEF TakesUnclaimed
  <2>2. CASE q \notin Q BY <1>2, <1>3, <2>2 DEF Untouched, Procs
  <2> QED BY <2>1, <2>2
<1>4. ASSUME NEW s \in Tabs PROVE PilotIn(s)' # p
  <2>1. RowMoves(Q, s) /\ s \in WebSessions BY DEF Rows, WebSessions
  <2>2. CASE held'[s] = 0
    <3>1. PilotIn(s)' = None BY <2>2 DEF PilotIn, Of
    <3> QED BY <3>1
  <2>3. CASE held'[s] # 0 /\ held'[s] = held[s]
    <3>1. PilotIn(s)' = sessions'[held[s]].pilot BY <2>3 DEF PilotIn, Of
    <3>2. sessions'[held[s]].pilot = sessions[held[s]].pilot BY <2>1, <2>3 DEF Grow
    <3> QED BY <1>2, <2>1, <2>3, <3>1, <3>2
  <2>4. ASSUME NEW q \in Q, held'[s] # 0, s = req[q].at, held'[s] = req[q].handle, req[q].doing \in {"selected", "cleaning"}
        PROVE  PilotIn(s)' # p
    <3>1. q \in Requests BY <2>4 DEF Starts, OfItsKind, Procs
    <3>2. req[q].pilot # p BY <1>2, <2>4, <3>1 DEF Taking
    <3>3. sessions[req[q].handle].pilot = req[q].pilot BY <2>4 DEF Reserves
    <3>4. q \in Procs BY <3>1 DEF Procs
    <3>5. req[q].handle \in 1..Len(sessions) BY <2>4, <3>4
    <3>6. sessions'[req[q].handle].pilot = sessions[req[q].handle].pilot BY <3>5 DEF Grow
    <3>7. PilotIn(s)' = sessions'[req[q].handle].pilot BY <2>4 DEF PilotIn, Of
    <3> QED BY <3>2, <3>3, <3>6, <3>7
  <2> QED BY <2>1, <2>2, <2>3, <2>4 DEF RowMoves
<1> QED BY <1>3, <1>4

LEMMA AccountedKept ==
  ASSUME TypeOK, TypeOK', NEW Q \in SUBSET Procs, EverySessionAccountedFor, LateIsLost,
         Untouched(Q), Grow, Rows(Q), Hands(Q)
  PROVE  EverySessionAccountedFor' /\ LateIsLost'
<1> USE NoneApart, TypeParts
<1>1. CASE lost' # 0 BY <1>1 DEF EverySessionAccountedFor, LateIsLost
<1>2. CASE lost' = 0
  <2>1. /\ lost = 0 /\ late' \subseteq late
        /\ \A q \in Q : req[q].doing \in InHand =>
              \/ req'[q].doing \in InHand /\ req'[q].handle = req[q].handle
              \/ sessions'[req[q].handle].at # "live"
              \/ \E s \in WebSessions : held'[s] = req[q].handle
        /\ \A h \in 1..Len(sessions') : h > Len(sessions) =>
              \E q \in Q : req'[q].doing = "selected" /\ req'[q].handle = h
    BY <1>2 DEF Hands
  <2>2. LateIsLost' BY <2>1 DEF LateIsLost
  <2>3. ASSUME NEW h \in 1..Len(sessions'), sessions'[h].at = "live"
        PROVE  \/ \E s \in WebSessions : held'[s] = h
               \/ \E q \in Procs : req'[q].handle = h /\ req'[q].doing \in InHand
    <3>0. Len(sessions) \in Nat /\ Len(sessions') \in Nat BY DEF TypeOK
    <3>1. CASE h > Len(sessions) BY <2>1, <3>1 DEF InHand
    <3>2. CASE h \in 1..Len(sessions)
      <4>1. sessions[h].at = "live" BY <2>3, <3>2 DEF Grow
      <4>2. \/ \E s \in WebSessions : held[s] = h
            \/ \E q \in Procs : req[q].handle = h /\ req[q].doing \in InHand
        BY <2>1, <3>2, <4>1 DEF EverySessionAccountedFor, Live, InHand
      <4>3. ASSUME NEW s \in WebSessions, held[s] = h
            PROVE  \/ held'[s] = h
                   \/ \E q \in Procs : req'[q].handle = h /\ req'[q].doing \in InHand
        <5>1. RowMoves(Q, s) BY DEF Rows
        <5> QED BY <2>3, <3>2, <4>3, <5>1 DEF RowMoves, InHand
      <4>4. ASSUME NEW q \in Procs, req[q].handle = h, req[q].doing \in InHand
            PROVE  \/ req'[q].handle = h /\ req'[q].doing \in InHand
                   \/ \E s \in WebSessions : held'[s] = h
        <5>1. CASE q \in Q BY <2>1, <2>3, <4>4, <5>1
        <5>2. CASE q \notin Q BY <4>4, <5>2 DEF Untouched
        <5> QED BY <5>1, <5>2
      <4> QED BY <4>2, <4>3, <4>4
    <3> QED BY <3>0, <3>1, <3>2
  <2>4. DOMAIN sessions' = 1..Len(sessions') BY DEF TypeOK
  <2> QED BY <2>2, <2>3, <2>4 DEF EverySessionAccountedFor, Live, InHand
<1> QED BY <1>1, <1>2

\* A step of Q that keeps its part keeps the whole.
LEMMA StepKeeps ==
  ASSUME Inv, NEW Q \in SUBSET Procs, TypeOK', Guarantee(Q), ClaimsStand',
         \A q \in Q : Reserves(q)' /\ Starts(q)',
         \A r \in Q \cap Runs : Lives(r)' /\ (FliesOn(r) \/ Alone(r)')
  PROVE  Inv'
<1> USE DEF Inv, Guarantee
<1>1. \A x \in Procs : Reserves(x)' BY ReservesKept
<1>2. \A x \in Procs : Starts(x)'
  <2>1. \A q \in Procs : req[q].run # None => req[q].run \in Runs BY TypeParts
  <2> QED BY <2>1, StartsKept
<1>3. \A q \in Q : q \in Procs OBVIOUS
<1>4. \A r \in Runs : Lives(r)' /\ Alone(r)'
  <2>1. ASSUME NEW r \in Runs \ Q PROVE Lives(r)' /\ Alone(r)'
    <3>1. Lives(r)' /\ FliesOn(r) BY <1>3, LivesKept
    <3> QED BY <1>3, <3>1, AloneKept
  <2>2. ASSUME NEW r \in Q \cap Runs PROVE Lives(r)' /\ Alone(r)' BY <1>3, AloneKept
  <2> QED BY <2>1, <2>2
<1>5. EverySessionAccountedFor' /\ LateIsLost' BY AccountedKept
<1> QED BY <1>1, <1>2, <1>4, <1>5

-----------------------------------------------------------------------------
(* A step of one request that changes no claim and no run's record.        *)

GameTyped ==
  sessions \in Seq(Session) /\ Len(sessions) <= MaxSessions /\ late \subseteq Pilots /\ lost \in 0..MaxLost
RowsTyped ==
  held \in [WebSessions -> 0..Len(sessions)] /\ fenced \subseteq {s \in WebSessions : held[s] # 0}
ReservesTyped == charOps \in [Pilots -> Procs \cup {None}] /\ sessOps \in [WebSessions -> Procs \cup {None}]
ClaimsTyped ==
  /\ claim \in [Pilots -> Runs \cup {None}]
  /\ record \in [Runs -> {"unused", "starting", "flying", "ending", "blocked", "ended"}]

LEMMA TypesNow ==
  ASSUME TypeOK
  PROVE  /\ GameTyped /\ RowsTyped /\ ReservesTyped /\ ClaimsTyped /\ req \in [Procs -> Request(Len(sessions))]
BY DEF TypeOK, GameTyped, RowsTyped, ReservesTyped, ClaimsTyped, Session, Request

LEMMA TypesThen ==
  ASSUME GameTyped', RowsTyped', ReservesTyped', ClaimsTyped', req' \in [Procs -> Request(Len(sessions'))]
  PROVE  TypeOK'
BY DEF TypeOK, GameTyped, RowsTyped, ReservesTyped, ClaimsTyped, Session, Request

LEMMA MoreSessions ==
  ASSUME NEW n \in Nat, NEW k \in Nat, n <= k, NEW m \in Request(n)
  PROVE  m \in Request(k)
BY DEF Request

\* A request q gives and takes its own reservations only.
ReservesOwn(q) ==
  /\ \A p \in Pilots : charOps'[p] = charOps[p] \/ charOps[p] \in {q, None}
  /\ \A s \in WebSessions : sessOps'[s] = sessOps[s] \/ sessOps[s] \in {q, None}

LEMMA OneStep ==
  ASSUME Inv, NEW q \in Procs, NEW m, m \in Request(Len(sessions')), req' = [req EXCEPT ![q] = m],
         UNCHANGED <<claim, record>>, GameTyped', RowsTyped', ReservesTyped',
         Grow, Rows({q}), ReservesOwn(q), Hands({q}),
         q \in Requests \/ req[q].doing # "idle",
         m.run \in {None, req[q].run} \/ (m.run \in Runs /\ Fresh(m.run)),
         q \in Requests /\ m.doing \in Taking =>
           (req[q].doing \in Taking /\ m.pilot = req[q].pilot) \/ claim[m.pilot] = None,
         Reserves(q)', KnowsRun(q)', OfItsKind(q)',
         q \in Runs => Lives(q)' /\ (FliesOn(q) \/ Alone(q)')
  PROVE  Inv'
<1> DEFINE Q == {q}
<1>1. Q \in SUBSET Procs OBVIOUS
<1>2. /\ GameTyped /\ RowsTyped /\ ReservesTyped /\ ClaimsTyped /\ req \in [Procs -> Request(Len(sessions))]
      /\ \A x \in Procs : Starts(x)
  BY TypesNow DEF Inv
<1>3. Len(sessions) \in Nat /\ Len(sessions') \in Nat /\ Len(sessions) <= Len(sessions')
  BY <1>2 DEF GameTyped, Grow
<1>4. TypeOK'
  <2>1. \A x \in Procs : req[x] \in Request(Len(sessions')) BY <1>2, <1>3, MoreSessions
  <2>2. req' \in [Procs -> Request(Len(sessions'))] BY <1>2, <2>1
  <2>3. ClaimsTyped' BY <1>2 DEF ClaimsTyped
  <2> QED BY <2>2, <2>3, TypesThen
<1>5. req'[q] = m /\ \A x \in Procs : x # q => req'[x] = req[x] BY <1>2
<1>6. Untouched(Q) BY <1>5 DEF Untouched, ReservesOwn
<1>7. \A x \in Procs : m.run # None /\ req[x].run = m.run => x = q
  BY <1>2 DEF Starts, OwnRun, Fresh
<1>8. RunsKept(Q)
  <2> SUFFICES ASSUME NEW x \in Procs \ Q, req[x].run # None
               PROVE  /\ \A y \in Q : req'[y].run # req[x].run
                      /\ req[req[x].run].doing = "idle" => req'[req[x].run].doing = "idle"
    BY DEF RunsKept
  <2>1. \A y \in Q : req'[y].run # req[x].run BY <1>5, <1>7
  <2>2. req[x].run \in Runs BY TypeParts DEF Inv
  <2>3. req[req[x].run].doing = "idle" => req[x].run # q BY <2>2, NoneApart
  <2>4. req[req[x].run].doing = "idle" => req'[req[x].run].doing = "idle" BY <1>5, <2>2, <2>3 DEF Procs
  <2> QED BY <2>1, <2>4
<1>9. ClaimsKept(Q) BY DEF ClaimsKept
<1>10. TakesUnclaimed(Q) BY <1>5 DEF TakesUnclaimed
<1>11. Guarantee(Q) BY <1>6, <1>8, <1>9, <1>10 DEF Guarantee
<1>12. ClaimsStand' BY DEF Inv, ClaimsStand
<1>13. Starts(q)'
  <2>1. OwnRun(q)' BY <1>5, <1>7 DEF OwnRun
  <2> QED BY <2>1 DEF Starts
<1>14. \A x \in Q : Reserves(x)' /\ Starts(x)' BY <1>13
<1>15. \A r \in Q \cap Runs : Lives(r)' /\ (FliesOn(r) \/ Alone(r)') OBVIOUS
<1> HIDE DEF Q
<1> QED BY <1>1, <1>4, <1>11, <1>12, <1>14, <1>15, StepKeeps

LEMMA GameStands ==
  ASSUME TypeOK, UNCHANGED <<sessions, late, lost>>
  PROVE  GameTyped' /\ Grow /\ Len(sessions') = Len(sessions)
<1>1. GameTyped BY TypesNow
<1> QED BY <1>1 DEF GameTyped, Grow

\* What a release leaves: every session its pilot, and the one released not alive
\* unless the call was lost.
LEMMA ReleaseKeeps ==
  ASSUME TypeOK, NEW h \in 1..Len(sessions), NEW outcome, Released(h, outcome), UNCHANGED late
  PROVE  /\ GameTyped' /\ Grow /\ Len(sessions') = Len(sessions)
         /\ outcome # "lost" => lost' = lost /\ sessions'[h].at # "live"
         /\ outcome = "lost" => lost' # 0
<1>1. GameTyped BY TypesNow
<1>2. h \in DOMAIN sessions /\ sessions[h] \in Session /\ Len(sessions) \in Nat BY <1>1 DEF GameTyped
<1>3. ASSUME NEW at \in {"closing", "gone"}, sessions' = Ended(h, at), UNCHANGED lost
      PROVE  GameTyped' /\ Grow /\ Len(sessions') = Len(sessions) /\ sessions'[h].at # "live"
  <2>1. [sessions[h] EXCEPT !.at = at] \in Session BY <1>2 DEF Session
  <2>2. sessions' = [sessions EXCEPT ![h] = [sessions[h] EXCEPT !.at = at]] BY <1>3 DEF Ended
  <2>3. sessions' \in Seq(Session) /\ Len(sessions') = Len(sessions) BY <1>1, <1>2, <2>1, <2>2 DEF GameTyped
  <2>4. \A x \in 1..Len(sessions) : sessions'[x] = IF x = h THEN [sessions[h] EXCEPT !.at = at] ELSE sessions[x]
    BY <1>1, <1>2, <2>2 DEF GameTyped
  <2>5. GameTyped' BY <1>1, <1>3, <2>3 DEF GameTyped
  <2>6. sessions'[h].at = at /\ sessions'[h].pilot = sessions[h].pilot BY <1>2, <2>4 DEF Session
  <2>7. Grow BY <1>2, <1>3, <2>3, <2>4, <2>6 DEF Grow
  <2> QED BY <1>3, <2>3, <2>5, <2>6, <2>7
<1>4. ASSUME UNCHANGED sessions, lost' = lost \/ Lost
      PROVE  GameTyped' /\ Grow /\ Len(sessions') = Len(sessions)
  BY <1>1, <1>4, OwnershipAssumption DEF GameTyped, Grow, Lost
<1>5. Lost => lost' # 0 BY <1>1, OwnershipAssumption DEF GameTyped, Lost
<1> QED BY <1>3, <1>4, <1>5 DEF Released, Live

\* A row dropped by forgetBridgeSession() whose session is gone.
LEMMA ForgetKeeps ==
  ASSUME TypeOK, NEW s \in WebSessions, NEW h \in 1..Len(sessions), Forget(s, h),
         sessions'[h].at # "live", Len(sessions') = Len(sessions), NEW Q
  PROVE  RowsTyped' /\ Rows(Q) /\ held'[s] # h
<1>1. RowsTyped /\ GameTyped BY TypesNow
<1>2. held' = Without(s, h) /\ fenced' = Unfenced(s, h) BY DEF Forget
<1>3. CASE held[s] = h
  <2>1. held' = [held EXCEPT ![s] = 0] /\ fenced' = fenced \ {s} BY <1>2, <1>3 DEF Without, Unfenced
  <2>2. RowsTyped' BY <1>1, <2>1 DEF RowsTyped, GameTyped
  <2>3. \A x \in WebSessions : held'[x] = IF x = s THEN 0 ELSE held[x] BY <1>1, <2>1 DEF RowsTyped
  <2>4. Rows(Q) BY <1>3, <2>3 DEF Rows, RowMoves
  <2> QED BY <2>2, <2>3, <2>4
<1>4. CASE held[s] # h
  <2>1. held' = held /\ fenced' = fenced BY <1>2, <1>4 DEF Without, Unfenced
  <2> QED BY <1>1, <1>4, <2>1 DEF RowsTyped, Rows, RowMoves
<1> QED BY <1>3, <1>4

LEMMA RowsStand ==
  ASSUME TypeOK, UNCHANGED <<held, fenced>>, GameTyped', Grow, NEW Q
  PROVE  RowsTyped' /\ Rows(Q)
<1>1. RowsTyped /\ GameTyped BY TypesNow
<1>2. Len(sessions) \in Nat /\ Len(sessions') \in Nat /\ Len(sessions) <= Len(sessions')
  BY <1>1 DEF GameTyped, Grow
<1>3. RowsTyped' BY <1>1, <1>2 DEF RowsTyped
<1> QED BY <1>3 DEF Rows, RowMoves

\* An empty row filled by the request that got the session.
LEMMA FillKeeps ==
  ASSUME TypeOK, NEW q \in Procs, req[q].at \in WebSessions, held[req[q].at] = 0, req[q].handle \in 1..Len(sessions),
         req[q].doing \in {"selected", "cleaning"}, held' = [held EXCEPT ![req[q].at] = req[q].handle],
         fenced' \subseteq fenced \cup {req[q].at}, Len(sessions') = Len(sessions)
  PROVE  RowsTyped' /\ Rows({q})
<1>1. RowsTyped /\ GameTyped BY TypesNow
<1> DEFINE s == req[q].at
<1>2. \A x \in WebSessions : held'[x] = IF x = s THEN req[q].handle ELSE held[x] BY <1>1 DEF RowsTyped
<1>3. held' \in [WebSessions -> 0..Len(sessions')] BY <1>1 DEF RowsTyped, GameTyped
<1>4. fenced' \subseteq {x \in WebSessions : held'[x] # 0} BY <1>1, <1>2 DEF RowsTyped
<1>5. \A x \in WebSessions : RowMoves({q}, x) BY <1>2 DEF RowMoves
<1> QED BY <1>3, <1>4, <1>5 DEF RowsTyped, Rows

LEMMA ReservesStand ==
  ASSUME TypeOK, UNCHANGED <<charOps, sessOps>>, NEW q
  PROVE  ReservesTyped' /\ ReservesOwn(q)
BY TypesNow DEF ReservesTyped, ReservesOwn

LEMMA FreeKeeps ==
  ASSUME TypeOK, NEW q \in Procs, Free(q)
  PROVE  ReservesTyped' /\ ReservesOwn(q)
BY TypesNow DEF ReservesTyped, ReservesOwn, Free, Freed, FreedBy

\* The record left when a request is over is one of the kind, with no session in hand.
LEMMA OverTyped ==
  ASSUME TypeOK, NEW q \in Procs, NEW answer \in {"done", "refused"}
  PROVE  /\ Over(q, answer) \in Request(Len(sessions)) /\ Idle \in Request(Len(sessions))
         /\ Over(q, answer).doing = IF q \in Runs THEN answer ELSE "idle"
         /\ q \in Runs => Over(q, answer) = [req[q] EXCEPT !.doing = answer]
         /\ q \notin Runs => Over(q, answer) = Idle
<1>1. req[q] \in Request(Len(sessions)) /\ Len(sessions) \in Nat BY TypeParts
<1>2. Idle \in Request(Len(sessions))
  <2>1. 0 \in 0..Len(sessions) /\ "idle" \in Doings /\ FALSE \in BOOLEAN BY <1>1 DEF Doings
  <2> QED BY ONLY <2>1 DEF Idle, Request
<1>3. CASE q \in Runs
  <2>1. Over(q, answer) = [req[q] EXCEPT !.doing = answer] BY <1>3 DEF Over
  <2>2. [req[q] EXCEPT !.doing = answer] \in Request(Len(sessions)) BY <1>1 DEF Request, Doings
  <2>3. [req[q] EXCEPT !.doing = answer].doing = answer BY <1>1 DEF Request
  <2> QED BY <1>2, <1>3, <2>1, <2>2, <2>3
<1>4. CASE q \notin Runs BY <1>2, <1>4 DEF Over, Idle
<1> QED BY <1>3, <1>4

LEMMA HandsOver ==
  ASSUME TypeOK, NEW q \in Procs, lost' = lost \/ lost' # 0, late' \subseteq late, Len(sessions') = Len(sessions),
         req[q].doing \in InHand =>
           \/ lost' # 0
           \/ req'[q].doing \in InHand /\ req'[q].handle = req[q].handle
           \/ sessions'[req[q].handle].at # "live"
           \/ \E s \in WebSessions : held'[s] = req[q].handle
  PROVE  Hands({q})
<1>1. Len(sessions) \in Nat BY TypeParts
<1> QED BY <1>1 DEF Hands

\* A request that is over holds and knows nothing; a run keeps what it was for.
LEMMA OverKeeps ==
  ASSUME Inv, NEW q \in Procs, NEW answer \in {"done", "refused"}, req' = [req EXCEPT ![q] = Over(q, answer)],
         Len(sessions') = Len(sessions)
  PROVE  /\ Over(q, answer) \in Request(Len(sessions')) /\ Over(q, answer).run \in {None, req[q].run}
         /\ ~(Over(q, answer).doing \in Taking)
         /\ Reserves(q)' /\ KnowsRun(q)' /\ OfItsKind(q)'
<1> USE NoneApart
<1>1. TypeOK /\ req \in [Procs -> Request(Len(sessions))] /\ Reserves(q) /\ OfItsKind(q) BY TypesNow DEF Inv, Starts
<1>2. /\ Over(q, answer) \in Request(Len(sessions'))
      /\ Over(q, answer).doing = IF q \in Runs THEN answer ELSE "idle"
      /\ q \in Runs => Over(q, answer) = [req[q] EXCEPT !.doing = answer]
      /\ q \notin Runs => Over(q, answer) = Idle
  BY <1>1, OverTyped
<1>3. req'[q] = Over(q, answer) BY <1>1
<1>4. req[q] \in Request(Len(sessions)) BY <1>1
<1>5. CASE q \in Runs
  <2>1. /\ req'[q].doing = answer /\ req'[q].at = req[q].at /\ req'[q].run = req[q].run
        /\ req'[q].gave = req[q].gave /\ req'[q].back = req[q].back
    BY <1>2, <1>3, <1>4, <1>5 DEF Request
  <2>2. Reserves(q)' BY <1>1, <2>1 DEF Reserves, Taking, InHand
  <2>3. KnowsRun(q)' BY <2>1 DEF KnowsRun
  <2>4. OfItsKind(q)' BY <1>1, <1>5, <2>1 DEF OfItsKind
  <2> QED BY <1>2, <1>3, <2>1, <2>2, <2>3, <2>4 DEF Taking
<1>6. CASE q \notin Runs
  <2>1. /\ req'[q].doing = "idle" /\ req'[q].at = None /\ req'[q].run = None
        /\ req'[q].gave = FALSE /\ req'[q].back = FALSE
    BY <1>2, <1>3, <1>6 DEF Idle
  <2>2. Reserves(q)' BY ONLY <2>1 DEF Reserves, Taking, InHand
  <2>3. KnowsRun(q)' BY ONLY <2>1 DEF KnowsRun
  <2>4. OfItsKind(q)' BY ONLY <1>6, <2>1 DEF OfItsKind
  <2>5. Over(q, answer).run = None /\ ~(Over(q, answer).doing \in Taking) BY <1>2, <1>6 DEF Idle, Taking
  <2> QED BY <1>2, <2>2, <2>3, <2>4, <2>5
<1> QED BY <1>5, <1>6

\* A run whose request is over has no more than it was getting.
LEMMA OverLives ==
  ASSUME Inv, NEW q \in Runs, NEW answer \in {"done", "refused"}, req' = [req EXCEPT ![q] = Over(q, answer)],
         UNCHANGED <<claim, record>>, Grow, req[q].doing # "idle",
         held'[q] \in {0, held[q]} \/ (held'[q] = req[q].handle /\ req[q].doing \in {"selected", "cleaning"}),
         record[q] = "ending" /\ answer = "done" => held'[q] = 0
  PROVE  Lives(q)' /\ FliesOn(q)
<1> USE NoneApart
<1>1. q \in Procs /\ q \in WebSessions /\ TypeOK /\ req \in [Procs -> Request(Len(sessions))] /\ Lives(q) /\ Reserves(q)
  BY TypesNow DEF Inv, Procs, WebSessions
<1>2. req'[q].doing = answer
  BY <1>1, OverTyped
<1>3. record[q] \in {"starting", "ending"}
  <2>1. record[q] \in {"unused", "starting", "flying", "ending", "blocked", "ended"} BY <1>1 DEF TypeOK
  <2> QED BY <1>1, <2>1 DEF Lives
<1>4. ASSUME held'[q] # 0 PROVE claim[PilotIn(q)'] = q /\ Flies(q)
  <2>1. CASE held'[q] = held[q]
    <3>1. held[q] \in 1..Len(sessions) /\ PilotIn(q) = sessions[held[q]].pilot BY <1>1, <1>4, <2>1, TypeParts
    <3>2. PilotIn(q)' = sessions'[held[q]].pilot BY <1>4, <2>1 DEF PilotIn, Of
    <3>3. sessions'[held[q]].pilot = sessions[held[q]].pilot BY <3>1 DEF Grow
    <3> QED BY <1>1, <1>4, <2>1, <3>1, <3>2, <3>3 DEF Lives, Flies
  <2>2. CASE held'[q] = req[q].handle /\ req[q].doing \in {"selected", "cleaning"}
    <3>1. req[q].handle \in 1..Len(sessions) BY <1>1, <1>4, <2>2, TypeParts
    <3>2. PilotIn(q)' = sessions'[req[q].handle].pilot BY <1>4, <2>2 DEF PilotIn, Of
    <3>3. sessions'[req[q].handle].pilot = sessions[req[q].handle].pilot BY <3>1 DEF Grow
    <3>4. sessions[req[q].handle].pilot = req[q].pilot BY <1>1, <2>2 DEF Reserves
    <3>5. claim[req[q].pilot] = q BY <1>1, <2>2 DEF Lives
    <3> QED BY <2>2, <3>2, <3>3, <3>4, <3>5 DEF Flies
  <2> QED BY <1>4, <2>1, <2>2
<1>5. Lives(q)' BY <1>2, <1>3, <1>4 DEF Lives
<1>6. FliesOn(q) BY <1>2, <1>4 DEF FliesOn, Flies
<1> QED BY <1>5, <1>6

-----------------------------------------------------------------------------
(* The answers of the requests.                                            *)

\* What the proofs about an answer start from.
LEMMA Now ==
  ASSUME Inv, NEW q \in Procs
  PROVE  /\ TypeOK /\ Reserves(q) /\ Starts(q) /\ KnowsRun(q) /\ OfItsKind(q)
         /\ q \in Runs => Lives(q) /\ q \in WebSessions /\ q \notin Requests
         /\ q \notin Runs => q \in Requests
         /\ req \in [Procs -> Request(Len(sessions))] /\ req[q] \in Request(Len(sessions))
         /\ req[q].at \in WebSessions \cup {None} /\ req[q].pilot \in Pilots \cup {None}
         /\ req[q].handle # 0 => req[q].handle \in 1..Len(sessions)
         /\ Len(sessions) \in Nat /\ 0 \in 0..Len(sessions) /\ lost \in Nat
<1>1. TypeOK BY DEF Inv
<1>2. lost \in Nat BY <1>1, NoneApart DEF TypeOK
<1>3. Len(sessions) \in Nat BY <1>1, TypeParts
<1>4. 0 \in 0..Len(sessions) BY ONLY <1>3
<1> QED BY <1>1, <1>2, <1>4, TypesNow, TypeParts, NoneApart DEF Inv, Starts, WebSessions, Procs

\* A release that is confirmed.
LEMMA LogoutAnswersKeeps ==
  ASSUME Inv, NEW q \in Procs, LogoutAnswers(q)
  PROVE  Inv'
<1>1. PICK outcome \in {"released", "unconfirmed", "not found", "lost"} :
        /\ Released(req[q].handle, outcome)
        /\ Confirmed(req[q].at, req[q].handle, outcome)
        /\ req' = [req EXCEPT ![q] = Over(q, IF outcome \in {"released", "not found"} THEN "done" ELSE "refused")]
  BY DEF LogoutAnswers
<1>2. req[q].doing = "logging out" /\ Free(q) /\ UNCHANGED <<late, claim, record>> BY DEF LogoutAnswers
<1>3. /\ TypeOK /\ req[q].handle \in 1..Len(sessions) /\ req[q].at \in WebSessions
  BY <1>2, Now DEF Reserves
<1> DEFINE answer == IF outcome \in {"released", "not found"} THEN "done" ELSE "refused"
<1>4. /\ GameTyped' /\ Grow /\ Len(sessions') = Len(sessions)
      /\ outcome # "lost" => lost' = lost /\ sessions'[req[q].handle].at # "live"
      /\ outcome = "lost" => lost' # 0
  BY <1>1, <1>2, <1>3, ReleaseKeeps
<1>5. RowsTyped' /\ Rows({q}) /\ (answer = "done" => held'[req[q].at] # req[q].handle)
  <2>1. CASE outcome \in {"released", "not found"}
    <3>1. Forget(req[q].at, req[q].handle) BY <1>1, <2>1 DEF Confirmed
    <3> QED BY <1>3, <1>4, <2>1, <3>1, ForgetKeeps
  <2>2. CASE outcome \notin {"released", "not found"}
    <3>1. UNCHANGED <<held, fenced>> BY <1>1, <2>2 DEF Confirmed
    <3> QED BY <1>3, <1>4, <2>2, <3>1, RowsStand
  <2> QED BY <2>1, <2>2
<1>6. ReservesTyped' /\ ReservesOwn(q) BY <1>2, <1>3, FreeKeeps
<1>7. Hands({q}) BY <1>2, <1>3, <1>4, HandsOver DEF InHand
<1>8. answer \in {"done", "refused"} /\ req' = [req EXCEPT ![q] = Over(q, answer)] BY <1>1
<1> HIDE DEF answer
<1>9. /\ Over(q, answer) \in Request(Len(sessions')) /\ Over(q, answer).run \in {None, req[q].run}
      /\ ~(Over(q, answer).doing \in Taking)
      /\ Reserves(q)' /\ KnowsRun(q)' /\ OfItsKind(q)'
  BY <1>4, <1>8, OverKeeps
<1>10. ASSUME q \in Runs PROVE Lives(q)' /\ FliesOn(q)
  <2>1. req[q].at = q /\ held[q] \in {0, req[q].handle} BY <1>2, <1>10, Now DEF Lives
  <2>2. held'[q] \in {0, held[q]}
    <3>1. RowMoves({q}, q) BY <1>3, <1>5, <2>1 DEF Rows
    <3> QED BY <1>2, <3>1 DEF RowMoves
  <2>3. answer = "done" => held'[q] = 0 BY <1>5, <2>1, <2>2
  <2> QED BY <1>2, <1>4, <1>8, <1>10, <2>2, <2>3, OverLives
<1>11. q \in Requests \/ req[q].doing # "idle" BY <1>2
<1> QED BY <1>2, <1>4, <1>5, <1>6, <1>7, <1>8, <1>9, <1>10, <1>11, OneStep

\* A route that drops the row it finds gone.
LEMMA ReadAnswersKeeps ==
  ASSUME Inv, NEW q \in Procs, ReadAnswers(q)
  PROVE  Inv'
<1>1. /\ req[q].doing = "reading" /\ req' = [req EXCEPT ![q] = Idle]
      /\ UNCHANGED <<sessions, late, lost, charOps, sessOps, claim, record>>
      /\ IF Live(req[q].handle) THEN UNCHANGED <<held, fenced>> ELSE Forget(req[q].at, req[q].handle)
  BY DEF ReadAnswers, host
<1>2. q \in Requests /\ q \notin Runs BY <1>1, Now DEF Lives
<1>3. TypeOK /\ req[q].handle \in 1..Len(sessions) /\ req[q].at \in WebSessions
  BY <1>1, Now DEF Reserves
<1>4. GameTyped' /\ Grow /\ Len(sessions') = Len(sessions) BY <1>1, <1>3, GameStands
<1>5. RowsTyped' /\ Rows({q})
  <2>2. CASE Live(req[q].handle) BY <1>1, <1>3, <1>4, <2>2, RowsStand
  <2>3. CASE ~Live(req[q].handle)
    <3>1. sessions'[req[q].handle].at # "live" BY <1>1, <2>3 DEF Live
    <3> QED BY <1>1, <1>3, <1>4, <2>3, <3>1, ForgetKeeps
  <2> QED BY <2>2, <2>3
<1>6. ReservesTyped' /\ ReservesOwn(q) BY <1>1, <1>3, ReservesStand
<1>7. Hands({q}) BY <1>1, <1>3, <1>4, HandsOver DEF InHand
<1>8. Over(q, "done") = Idle BY <1>2 DEF Over
<1>9. /\ Idle \in Request(Len(sessions')) /\ Idle.run \in {None, req[q].run} /\ ~(Idle.doing \in Taking)
      /\ Reserves(q)' /\ KnowsRun(q)' /\ OfItsKind(q)'
  BY <1>1, <1>4, <1>8, OverKeeps
<1> QED BY <1>1, <1>2, <1>4, <1>5, <1>6, <1>7, <1>9, OneStep

\* The best-effort release before a selection.
LEMMA LeaveAnswersKeeps ==
  ASSUME Inv, NEW q \in Procs, LeaveAnswers(q)
  PROVE  Inv'
<1>1. /\ req[q].doing = "leaving" /\ UNCHANGED <<late, held, fenced, claim, record>>
      /\ charOps' = [x \in Pilots |-> IF x # req[q].pilot /\ charOps[x] = q THEN None ELSE charOps[x]]
  BY DEF LeaveAnswers
<1>2. PICK outcome \in {"released", "unconfirmed", "not found", "lost"} : Released(req[q].handle, outcome)
  BY DEF LeaveAnswers
<1>3. q \in Requests /\ q \notin Runs BY <1>1, Now DEF Lives
<1>4. /\ TypeOK /\ req[q].handle \in 1..Len(sessions) /\ req[q].at \in WebSessions /\ req[q].pilot \in Pilots
      /\ charOps[req[q].pilot] = q /\ sessOps[req[q].at] = q /\ Len(sessions) \in Nat
  BY <1>1, Now DEF Reserves, InHand, Taking
<1>5. /\ GameTyped' /\ Grow /\ Len(sessions') = Len(sessions)
      /\ outcome # "lost" => lost' = lost /\ sessions'[req[q].handle].at # "live"
      /\ outcome = "lost" => lost' # 0
  BY <1>1, <1>2, <1>4, ReleaseKeeps
<1>6. RowsTyped' /\ Rows({q}) BY <1>1, <1>4, <1>5, RowsStand
<1>7. Hands({q}) BY <1>1, <1>4, <1>5, HandsOver
<1>8. charOps' \in [Pilots -> Procs \cup {None}] /\ \A p \in Pilots : charOps'[p] = charOps[p] \/ charOps[p] \in {q, None}
  BY <1>1, <1>4, TypesNow DEF ReservesTyped
<1>9. CASE Current(q)
  <2> DEFINE m == [req[q] EXCEPT !.doing = "selecting", !.handle = 0]
  <2>1. req' = [req EXCEPT ![q] = m] /\ UNCHANGED sessOps
    <3>1. req' = [req EXCEPT ![q].doing = "selecting", ![q].handle = 0] /\ UNCHANGED sessOps
      BY <1>9 DEF LeaveAnswers
    <3> QED BY <3>1, Now
  <2>2. /\ m \in Request(Len(sessions')) /\ m.doing = "selecting" /\ m.run = req[q].run /\ m.pilot = req[q].pilot
        /\ m.at = req[q].at /\ m.gave = req[q].gave /\ m.back = req[q].back
    <3>1. "selecting" \in Doings BY DEF Doings
    <3>2. Len(sessions) \in Nat /\ req[q] \in Request(Len(sessions)) BY Now
    <3>3. 0 \in 0..Len(sessions) BY Now
    <3>4. /\ m \in Request(Len(sessions)) /\ m.doing = "selecting" /\ m.run = req[q].run /\ m.pilot = req[q].pilot
          /\ m.at = req[q].at /\ m.gave = req[q].gave /\ m.back = req[q].back
      BY ONLY <3>1, <3>2, <3>3 DEF Request
    <3> QED BY <1>5, <3>4
  <2>3. req'[q] = m BY <2>1, Now
  <2> HIDE DEF m
  <2>4. ReservesTyped' /\ ReservesOwn(q) BY <1>4, <1>8, <2>1, TypesNow DEF ReservesTyped, ReservesOwn
  <2>5. Reserves(q)'
    <3>1. charOps'[req[q].pilot] = q /\ sessOps'[req[q].at] = q BY <1>1, <1>4, <2>1
    <3>2. /\ req'[q].doing = "selecting" /\ req'[q].at # None /\ req'[q].pilot # None
          /\ charOps'[req'[q].pilot] = q /\ sessOps'[req'[q].at] = q
      BY <1>4, <2>2, <2>3, <3>1, NoneApart
    <3> QED BY ONLY <3>2 DEF Reserves, InHand, Taking
  <2>6. KnowsRun(q)' BY ONLY <2>2, <2>3 DEF KnowsRun
  <2>7. OfItsKind(q)'
    <3>1. req[q].at \in Tabs \cup {None} BY <1>3, Now DEF OfItsKind
    <3> QED BY ONLY <1>3, <2>2, <2>3, <3>1 DEF OfItsKind
  <2>8. req[q].doing \in Taking /\ m.pilot = req[q].pilot BY <1>1, <2>2 DEF Taking
  <2> QED BY <1>1, <1>3, <1>5, <1>6, <1>7, <2>1, <2>2, <2>4, <2>5, <2>6, <2>7, <2>8, OneStep
<1>10. CASE ~Current(q)
  <2>1. req' = [req EXCEPT ![q] = Over(q, "refused")] /\ sessOps' = Freed(q, sessOps)
    BY <1>10 DEF LeaveAnswers
  <2>2. ReservesTyped' /\ ReservesOwn(q)
    BY <1>4, <1>8, <2>1, TypesNow DEF ReservesTyped, ReservesOwn, Freed, FreedBy
  <2>3. /\ Over(q, "refused") \in Request(Len(sessions')) /\ Over(q, "refused").run \in {None, req[q].run}
        /\ ~(Over(q, "refused").doing \in Taking)
        /\ Reserves(q)' /\ KnowsRun(q)' /\ OfItsKind(q)'
    BY <1>5, <2>1, OverKeeps
  <2> QED BY <1>1, <1>3, <1>5, <1>6, <1>7, <2>1, <2>2, <2>3, OneStep
<1> QED BY <1>9, <1>10

\* A new session takes its pilot over: every session keeps its pilot, and the new one
\* is the last.
LEMMA TakenKeeps ==
  ASSUME TypeOK, NEW p \in Pilots, sessions' = Taken(p), Len(sessions) < MaxSessions,
         late' \subseteq late, UNCHANGED lost
  PROVE  /\ GameTyped' /\ Grow /\ Len(sessions') = Len(sessions) + 1
         /\ sessions'[Len(sessions) + 1].pilot = p
<1>1. sessions \in Seq(Session) /\ Len(sessions) \in Nat /\ DOMAIN sessions = 1..Len(sessions) BY TypeParts
<1> DEFINE gone == [h \in DOMAIN sessions |->
                      IF sessions[h].pilot = p THEN [sessions[h] EXCEPT !.at = "gone"] ELSE sessions[h]]
           new == [pilot |-> p, at |-> "live"]
<1>2. \A h \in 1..Len(sessions) : /\ gone[h] \in Session /\ gone[h].pilot = sessions[h].pilot
                                  /\ gone[h].at = "live" => sessions[h].at = "live"
  <2> TAKE h \in 1..Len(sessions)
  <2>1. sessions[h] \in Session BY <1>1
  <2>2. CASE sessions[h].pilot = p
    <3>1. gone[h] = [sessions[h] EXCEPT !.at = "gone"] BY <1>1, <2>2
    <3> QED BY <2>1, <3>1 DEF Session
  <2>3. CASE sessions[h].pilot # p BY <1>1, <2>1, <2>3
  <2> QED BY <2>2, <2>3
<1>3. gone \in Seq(Session) /\ Len(gone) = Len(sessions) BY <1>1, <1>2
<1>4. new \in Session /\ new.pilot = p BY DEF Session
<1>5. sessions' = Append(gone, new) BY DEF Taken
<1> HIDE DEF gone, new
<1>6. /\ sessions' \in Seq(Session) /\ Len(sessions') = Len(sessions) + 1
      /\ \A h \in 1..Len(sessions) : sessions'[h] = gone[h]
      /\ sessions'[Len(sessions) + 1] = new
  BY <1>1, <1>3, <1>4, <1>5
<1>7. GameTyped' BY <1>1, <1>6, TypesNow, NoneApart DEF GameTyped
<1>8. Grow BY <1>1, <1>2, <1>6 DEF Grow
<1> QED BY <1>4, <1>6, <1>7, <1>8

\* The game server carries a selection out.
LEMMA GameSelectsKeeps ==
  ASSUME Inv, NEW q \in Procs, GameSelects(q)
  PROVE  Inv'
<1>1. /\ req[q].doing = "selecting" /\ Len(sessions) < MaxSessions /\ sessions' = Taken(req[q].pilot)
      /\ UNCHANGED <<late, lost, held, fenced, charOps, sessOps, claim, record>>
      /\ req' = [req EXCEPT ![q].doing = "selected", ![q].handle = Len(sessions) + 1]
  BY DEF GameSelects, host
<1>2. /\ TypeOK /\ req[q].at \in WebSessions /\ req[q].pilot \in Pilots /\ Len(sessions) \in Nat
      /\ charOps[req[q].pilot] = q /\ sessOps[req[q].at] = q
  BY <1>1, Now DEF Reserves, Taking
<1>3. /\ GameTyped' /\ Grow /\ Len(sessions') = Len(sessions) + 1
      /\ sessions'[Len(sessions) + 1].pilot = req[q].pilot
  BY <1>1, <1>2, TakenKeeps
<1>4. RowsTyped' /\ Rows({q}) BY <1>1, <1>2, <1>3, RowsStand
<1>5. ReservesTyped' /\ ReservesOwn(q) BY <1>1, <1>2, ReservesStand
<1> DEFINE m == [req[q] EXCEPT !.doing = "selected", !.handle = Len(sessions) + 1]
<1>6. req' = [req EXCEPT ![q] = m] BY <1>1, Now
<1>7. /\ m \in Request(Len(sessions')) /\ m.doing = "selected" /\ m.run = req[q].run /\ m.pilot = req[q].pilot
      /\ m.at = req[q].at /\ m.gave = req[q].gave /\ m.back = req[q].back /\ m.handle = Len(sessions) + 1
  <2>1. "selected" \in Doings BY DEF Doings
  <2>2. req[q] \in Request(Len(sessions) + 1) BY <1>2, Now, MoreSessions
  <2>3. Len(sessions) + 1 \in Nat /\ Len(sessions) + 1 \in 0..(Len(sessions) + 1) BY <1>2
  <2>5. /\ m \in Request(Len(sessions) + 1) /\ m.doing = "selected" /\ m.run = req[q].run /\ m.pilot = req[q].pilot
        /\ m.at = req[q].at /\ m.gave = req[q].gave /\ m.back = req[q].back /\ m.handle = Len(sessions) + 1
    BY ONLY <2>1, <2>2, <2>3 DEF Request
  <2> QED BY <1>3, <2>5
<1>8. req'[q] = m BY <1>6, Now
<1> HIDE DEF m
<1>9. Hands({q})
  <2>1. \A h \in 1..Len(sessions') : h > Len(sessions) => h = Len(sessions) + 1 BY <1>2, <1>3
  <2>2. CASE lost' # 0 BY <2>2 DEF Hands
  <2>3. CASE lost' = 0 BY <1>1, <1>7, <1>8, <2>1, <2>3 DEF Hands, InHand
  <2> QED BY <2>2, <2>3
<1>10. Reserves(q)'
  <2>1. /\ req'[q].doing = "selected" /\ req'[q].at # None /\ req'[q].pilot # None /\ req'[q].handle # 0
        /\ charOps'[req'[q].pilot] = q /\ sessOps'[req'[q].at] = q
        /\ sessions'[req'[q].handle].pilot = req'[q].pilot
    BY <1>1, <1>2, <1>3, <1>7, <1>8, NoneApart
  <2> QED BY ONLY <2>1 DEF Reserves, InHand, Taking
<1>11. KnowsRun(q)' BY ONLY <1>7, <1>8 DEF KnowsRun
<1>12. OfItsKind(q)'
  <2>1. OfItsKind(q) BY Now
  <2> QED BY ONLY <2>1, <1>7, <1>8 DEF OfItsKind
<1>13. ASSUME q \in Runs PROVE Lives(q)' /\ FliesOn(q)
  <2>1. Lives(q) BY <1>13, Now
  <2>2. /\ record[q] = "starting" /\ held[q] = 0 /\ req[q].at = q /\ req[q].pilot # None /\ claim[req[q].pilot] = q
    BY ONLY <1>1, <2>1 DEF Lives
  <2>3. /\ req'[q].doing = "selected" /\ req'[q].at = q /\ req'[q].pilot = req[q].pilot
        /\ record' = record /\ held' = held /\ claim' = claim
    BY <1>1, <1>7, <1>8, <2>2
  <2>4. Lives(q)' BY ONLY <2>2, <2>3 DEF Lives
  <2>5. FliesOn(q) BY ONLY <1>1, <2>3 DEF FliesOn, Flies
  <2> QED BY <2>4, <2>5
<1>14. req[q].doing \in Taking /\ req[q].doing # "idle" BY <1>1 DEF Taking
<1> QED BY <1>1, <1>3, <1>4, <1>5, <1>6, <1>7, <1>9, <1>10, <1>11, <1>12, <1>13, <1>14, OneStep

\* A selection refused, or given up with its outcome unknown.
LEMMA SelectFailsKeeps ==
  ASSUME Inv, NEW q \in Procs, SelectFails(q)
  PROVE  Inv'
<1>1. /\ req' = [req EXCEPT ![q] = Over(q, "refused")] /\ Free(q)
      /\ UNCHANGED <<sessions, held, fenced, claim, record>>
      /\ \/ req[q].doing = "selecting" /\ UNCHANGED <<late, lost>>
         \/ req[q].doing = "selecting" /\ Lost /\ late' = late \cup {req[q].pilot}
         \/ req[q].doing = "selected" /\ Lost /\ UNCHANGED late
  BY DEF SelectFails
<1>2. TypeOK /\ req[q].pilot \in Pilots /\ Len(sessions) \in Nat BY <1>1, Now DEF Reserves, Taking
<1>3. GameTyped' /\ Grow /\ (lost' = lost \/ lost' # 0) /\ (lost' = 0 => late' = late)
  <2>1. GameTyped BY <1>2, TypesNow
  <2>2. late' \subseteq Pilots BY <1>1, <1>2, <2>1 DEF GameTyped
  <2>3. (lost' = lost /\ UNCHANGED late) \/ (lost' = lost + 1 /\ lost < MaxLost) BY <1>1 DEF Lost
  <2>4. lost' \in 0..MaxLost /\ (lost' = lost \/ lost' # 0) /\ (lost' = 0 => late' = late)
    BY <2>1, <2>3, NoneApart DEF GameTyped
  <2> QED BY <1>1, <1>2, <2>1, <2>2, <2>4 DEF GameTyped, Grow
<1>4. RowsTyped' /\ Rows({q}) BY <1>1, <1>2, <1>3, RowsStand
<1>5. ReservesTyped' /\ ReservesOwn(q) BY <1>1, <1>2, FreeKeeps
<1>6. Hands({q})
  <2>1. lost' = 0 => req[q].doing = "selecting"
    <3>1. Lost => lost' # 0 BY Now DEF Lost
    <3> QED BY <1>1, <3>1
  <2>2. CASE lost' # 0 BY <2>2 DEF Hands
  <2>3. CASE lost' = 0
    <3>1. lost = 0 /\ late' \subseteq late /\ ~(req[q].doing \in InHand) BY <1>3, <2>1, <2>3 DEF InHand
    <3>2. Len(sessions') = Len(sessions) BY <1>1
    <3> QED BY <1>2, <3>1, <3>2 DEF Hands
  <2> QED BY <2>2, <2>3
<1>7. /\ Over(q, "refused") \in Request(Len(sessions')) /\ Over(q, "refused").run \in {None, req[q].run}
      /\ ~(Over(q, "refused").doing \in Taking)
      /\ Reserves(q)' /\ KnowsRun(q)' /\ OfItsKind(q)'
  BY <1>1, OverKeeps
<1>8. req[q].doing # "idle" BY <1>1
<1>9. ASSUME q \in Runs PROVE Lives(q)' /\ FliesOn(q)
  BY <1>1, <1>3, <1>8, <1>9, OverLives
<1> QED BY <1>1, <1>3, <1>4, <1>5, <1>6, <1>7, <1>8, <1>9, OneStep

\* Of a selection whose answer has come: held, where the row is still free.
LEMMA SelectAnswersKeeps ==
  ASSUME Inv, NEW q \in Procs, SelectAnswers(q)
  PROVE  Inv'
<1>1. req[q].doing = "selected" /\ UNCHANGED <<sessions, late, lost, fenced, claim, record>>
  BY DEF SelectAnswers
<1>2. /\ TypeOK /\ req[q].handle \in 1..Len(sessions) /\ req[q].at \in WebSessions /\ req[q].pilot \in Pilots
      /\ charOps[req[q].pilot] = q /\ sessOps[req[q].at] = q
  BY <1>1, Now DEF Reserves, InHand, Taking
<1>3. GameTyped' /\ Grow /\ Len(sessions') = Len(sessions) BY <1>1, <1>2, GameStands
<1>4. CASE Current(q)
  <2>1. /\ held' = [held EXCEPT ![req[q].at] = req[q].handle] /\ req' = [req EXCEPT ![q] = Over(q, "done")]
        /\ Free(q) /\ held[req[q].at] = 0
    BY <1>4 DEF SelectAnswers, Current
  <2>2. RowsTyped' /\ Rows({q})
    <3>1. fenced' \subseteq fenced \cup {req[q].at} BY <1>1
    <3>2. req[q].doing \in {"selected", "cleaning"} BY <1>1
    <3> QED BY <1>2, <1>3, <2>1, <3>1, <3>2, FillKeeps
  <2>3. held'[req[q].at] = req[q].handle BY <1>2, <2>1, TypesNow DEF RowsTyped
  <2>4. ReservesTyped' /\ ReservesOwn(q) BY <1>2, <2>1, FreeKeeps
  <2>5. Hands({q}) BY <1>1, <1>2, <1>3, <2>3, HandsOver
  <2>6. /\ Over(q, "done") \in Request(Len(sessions')) /\ Over(q, "done").run \in {None, req[q].run}
        /\ ~(Over(q, "done").doing \in Taking)
        /\ Reserves(q)' /\ KnowsRun(q)' /\ OfItsKind(q)'
    BY <1>3, <2>1, OverKeeps
  <2>7. ASSUME q \in Runs PROVE Lives(q)' /\ FliesOn(q)
    <3>1. req[q].at = q /\ record[q] = "starting" BY <1>1, <2>7, Now DEF Lives
    <3>2. held'[q] = req[q].handle BY <2>3, <3>1
    <3> QED BY <1>1, <1>3, <2>1, <2>7, <3>1, <3>2, OverLives
  <2>8. req[q].doing # "idle" BY <1>1
  <2> QED BY <1>1, <1>3, <2>1, <2>2, <2>4, <2>5, <2>6, <2>7, <2>8, OneStep
<1>5. CASE ~Current(q)
  <2> DEFINE m == [req[q] EXCEPT !.doing = "cleaning"]
  <2>1. UNCHANGED <<held, charOps, sessOps>> /\ req' = [req EXCEPT ![q] = m]
    <3>1. UNCHANGED <<held, charOps, sessOps>> /\ req' = [req EXCEPT ![q].doing = "cleaning"]
      BY <1>5 DEF SelectAnswers
    <3> QED BY <3>1, Now
  <2>2. req'[q] = m BY <2>1, Now
  <2>3. /\ m \in Request(Len(sessions)) /\ m.doing = "cleaning" /\ m.run = req[q].run /\ m.pilot = req[q].pilot
        /\ m.at = req[q].at /\ m.gave = req[q].gave /\ m.back = req[q].back /\ m.handle = req[q].handle
    <3>1. "cleaning" \in Doings BY DEF Doings
    <3>2. req[q] \in Request(Len(sessions)) BY Now
    <3> QED BY ONLY <3>1, <3>2 DEF Request
  <2> HIDE DEF m
  <2>4. RowsTyped' /\ Rows({q}) BY <1>1, <1>2, <1>3, <2>1, RowsStand
  <2>5. ReservesTyped' /\ ReservesOwn(q) BY <1>2, <2>1, ReservesStand
  <2>6. Hands({q})
    <3>1. req'[q].doing \in InHand /\ req'[q].handle = req[q].handle BY <2>2, <2>3 DEF InHand
    <3> QED BY <1>1, <1>2, <1>3, <3>1, HandsOver
  <2>7. Reserves(q)'
    <3>1. sessions[req[q].handle].pilot = req[q].pilot BY <1>1, Now DEF Reserves
    <3>2. /\ req'[q].doing = "cleaning" /\ req'[q].at # None /\ req'[q].pilot # None /\ req'[q].handle # 0
          /\ charOps'[req'[q].pilot] = q /\ sessOps'[req'[q].at] = q
          /\ sessions'[req'[q].handle].pilot = req'[q].pilot
      BY <1>1, <1>2, <2>1, <2>2, <2>3, <3>1, NoneApart
    <3> QED BY ONLY <3>2 DEF Reserves, InHand, Taking
  <2>8. KnowsRun(q)' BY ONLY <2>2, <2>3 DEF KnowsRun
  <2>9. OfItsKind(q)'
    <3>1. OfItsKind(q) BY Now
    <3> QED BY ONLY <3>1, <2>2, <2>3 DEF OfItsKind
  <2>10. ASSUME q \in Runs PROVE Lives(q)' /\ FliesOn(q)
    <3>1. Lives(q) BY <2>10, Now
    <3>2. /\ record[q] = "starting" /\ held[q] = 0 /\ req[q].at = q /\ req[q].pilot # None /\ claim[req[q].pilot] = q
      BY ONLY <1>1, <3>1 DEF Lives
    <3>3. /\ req'[q].doing = "cleaning" /\ req'[q].at = q /\ req'[q].pilot = req[q].pilot
          /\ record' = record /\ held' = held /\ claim' = claim
      BY <1>1, <2>1, <2>2, <2>3, <3>2
    <3>4. Lives(q)' BY ONLY <3>2, <3>3 DEF Lives
    <3>5. FliesOn(q) BY ONLY <1>1, <3>3 DEF FliesOn, Flies
    <3> QED BY <3>4, <3>5
  <2>11. req[q].doing \in Taking /\ req[q].doing # "idle" /\ m \in Request(Len(sessions')) BY <1>1, <1>3, <2>3 DEF Taking
  <2> QED BY <1>1, <1>3, <2>1, <2>3, <2>4, <2>5, <2>6, <2>7, <2>8, <2>9, <2>10, <2>11, OneStep
<1> QED BY <1>4, <1>5

\* The release of a session that came too late to be held.
LEMMA CleanAnswersKeeps ==
  ASSUME Inv, NEW q \in Procs, CleanAnswers(q)
  PROVE  Inv'
<1>1. /\ req[q].doing = "cleaning" /\ req' = [req EXCEPT ![q] = Over(q, "refused")] /\ Free(q)
      /\ UNCHANGED <<late, claim, record>>
  BY DEF CleanAnswers
<1>2. PICK outcome \in {"released", "unconfirmed", "not found", "lost"} :
        /\ Released(req[q].handle, outcome)
        /\ IF outcome \in {"unconfirmed", "lost"} /\ held[req[q].at] = 0
             THEN /\ held' = [held EXCEPT ![req[q].at] = req[q].handle]
                  /\ fenced' = fenced \cup {req[q].at}
             ELSE UNCHANGED <<held, fenced>>
  BY DEF CleanAnswers
<1>3. /\ TypeOK /\ req[q].handle \in 1..Len(sessions) /\ req[q].at \in WebSessions
  BY <1>1, Now DEF Reserves, InHand, Taking
<1>4. /\ GameTyped' /\ Grow /\ Len(sessions') = Len(sessions)
      /\ outcome # "lost" => lost' = lost /\ sessions'[req[q].handle].at # "live"
      /\ outcome = "lost" => lost' # 0
  BY <1>1, <1>2, <1>3, ReleaseKeeps
<1>5. /\ RowsTyped' /\ Rows({q})
      /\ held'[req[q].at] = held[req[q].at] \/ held'[req[q].at] = req[q].handle
  <2>1. CASE outcome \in {"unconfirmed", "lost"} /\ held[req[q].at] = 0
    <3>1. held' = [held EXCEPT ![req[q].at] = req[q].handle] /\ fenced' = fenced \cup {req[q].at} BY <1>2, <2>1
    <3>2. RowsTyped' /\ Rows({q})
      <4>1. fenced' \subseteq fenced \cup {req[q].at} BY <3>1
      <4>2. req[q].doing \in {"selected", "cleaning"} BY <1>1
      <4> QED BY <1>3, <1>4, <2>1, <3>1, <4>1, <4>2, FillKeeps
    <3>3. held'[req[q].at] = req[q].handle BY <1>3, <3>1, TypesNow DEF RowsTyped
    <3> QED BY <3>2, <3>3
  <2>2. CASE ~(outcome \in {"unconfirmed", "lost"} /\ held[req[q].at] = 0)
    <3>1. UNCHANGED <<held, fenced>> BY <1>2, <2>2
    <3> QED BY <1>3, <1>4, <3>1, RowsStand
  <2> QED BY <2>1, <2>2
<1>6. ReservesTyped' /\ ReservesOwn(q) BY <1>1, <1>3, FreeKeeps
<1>7. Hands({q}) BY <1>1, <1>3, <1>4, HandsOver
<1>8. /\ Over(q, "refused") \in Request(Len(sessions')) /\ Over(q, "refused").run \in {None, req[q].run}
      /\ ~(Over(q, "refused").doing \in Taking)
      /\ Reserves(q)' /\ KnowsRun(q)' /\ OfItsKind(q)'
  BY <1>1, <1>4, OverKeeps
<1>9. ASSUME q \in Runs PROVE Lives(q)' /\ FliesOn(q)
  <2>1. req[q].at = q BY <1>1, <1>9, Now DEF Lives
  <2>2. held'[q] \in {0, held[q]} \/ (held'[q] = req[q].handle /\ req[q].doing \in {"selected", "cleaning"})
    BY <1>1, <1>5, <2>1
  <2> QED BY <1>1, <1>4, <1>9, <2>2, OverLives
<1>10. req[q].doing # "idle" BY <1>1
<1> QED BY <1>1, <1>4, <1>5, <1>6, <1>7, <1>8, <1>9, <1>10, OneStep

-----------------------------------------------------------------------------
(* What is asked.                                                          *)

\* A logout reserves the pilot of the row.
LEMMA LogoutBeginsKeeps ==
  ASSUME Inv, NEW q \in Procs, NEW s \in WebSessions,
         (q \in Requests /\ s \in Tabs /\ req[q].doing = "idle") \/ (q \in Runs /\ s = q /\ req[q].doing = "to log out"),
         held[s] # 0, MayLeave(s), LogoutBegins(q, s),
         UNCHANGED <<sessions, late, lost, held, fenced, sessOps, claim, record>>
  PROVE  Inv'
<1> DEFINE m == [Idle EXCEPT !.doing = "logging out", !.at = s, !.handle = held[s]]
           p == PilotIn(s)
<1>1. charOps' = [charOps EXCEPT ![p] = q] /\ req' = [req EXCEPT ![q] = m] BY DEF LogoutBegins
<1>2. /\ TypeOK /\ held[s] \in 1..Len(sessions) /\ p = sessions[held[s]].pilot /\ p \in Pilots /\ charOps[p] = None
      /\ Len(sessions) \in Nat
  <2>1. TypeOK BY DEF Inv
  <2>2. held[s] \in 1..Len(sessions) /\ p = sessions[held[s]].pilot /\ p \in Pilots BY <2>1, TypeParts
  <2> QED BY <2>1, <2>2, TypeParts DEF MayLeave
<1>3. req'[q] = m BY <1>1, Now
<1>4. /\ m \in Request(Len(sessions)) /\ m.doing = "logging out" /\ m.at = s /\ m.handle = held[s] /\ m.run = None
      /\ m.gave = FALSE /\ m.back = FALSE
  <2>1. "logging out" \in Doings BY DEF Doings
  <2>2. Idle \in Request(Len(sessions)) BY <1>2, OverTyped
  <2>3. held[s] \in 0..Len(sessions) BY <1>2, TypeParts
  <2>4. m \in Request(Len(sessions)) BY ONLY <2>1, <2>2, <2>3, s \in WebSessions DEF Request
  <2> QED BY <2>4 DEF Idle
<1> HIDE DEF m, p
<1>5. GameTyped' /\ Grow /\ Len(sessions') = Len(sessions) BY <1>2, GameStands
<1>6. RowsTyped' /\ Rows({q}) BY <1>2, <1>5, RowsStand
<1>7. ReservesTyped' /\ ReservesOwn(q) BY <1>1, <1>2, TypesNow DEF ReservesTyped, ReservesOwn
<1>8. Hands({q}) BY <1>2, <1>5, HandsOver DEF InHand
<1>9. Reserves(q)'
  <2>1. charOps'[p] = q BY <1>1, <1>2, TypesNow DEF ReservesTyped
  <2>2. /\ req'[q].doing = "logging out" /\ req'[q].at # None /\ req'[q].handle # 0
        /\ charOps'[sessions'[req'[q].handle].pilot] = q /\ held'[req'[q].at] = req'[q].handle
    BY <1>2, <1>3, <1>4, <2>1, NoneApart
  <2> QED BY ONLY <2>2 DEF Reserves, InHand, Taking
<1>10. KnowsRun(q)' BY ONLY <1>3, <1>4 DEF KnowsRun
<1>11. OfItsKind(q)' BY <1>3, <1>4, NoneApart DEF OfItsKind
<1>12. ASSUME q \in Runs PROVE Lives(q)' /\ FliesOn(q)
  <2>1. Lives(q) /\ s = q /\ req[q].doing = "to log out" BY <1>12, Now
  <2>2. record[q] = "ending" /\ (held[q] # 0 => claim[PilotIn(q)] = q) BY ONLY <2>1 DEF Lives
  <2>3. /\ req'[q].doing = "logging out" /\ req'[q].at = q /\ req'[q].handle = held[q]
        /\ record' = record /\ held' = held /\ claim' = claim /\ sessions' = sessions
    BY <1>3, <1>4, <2>1
  <2>4. PilotIn(q)' = PilotIn(q) BY <2>3 DEF PilotIn, Of
  <2>5. Lives(q)' BY ONLY <2>2, <2>3, <2>4 DEF Lives
  <2>6. FliesOn(q) BY ONLY <2>3 DEF FliesOn, Flies
  <2> QED BY <2>5, <2>6
<1>13. q \in Requests \/ req[q].doing # "idle" OBVIOUS
<1>14. ~(m.doing \in Taking) /\ m \in Request(Len(sessions')) BY <1>4, <1>5 DEF Taking
<1> QED BY <1>1, <1>4, <1>5, <1>6, <1>7, <1>8, <1>9, <1>10, <1>11, <1>12, <1>13, <1>14, OneStep

LEMMA AskReadKeeps ==
  ASSUME Inv, NEW q \in Requests, NEW s \in Tabs, AskRead(q, s)
  PROVE  Inv'
<1> DEFINE m == [Idle EXCEPT !.doing = "reading", !.at = s, !.handle = held[s]]
<1>1. /\ req[q].doing = "idle" /\ held[s] # 0 /\ req' = [req EXCEPT ![q] = m]
      /\ UNCHANGED <<sessions, late, lost, held, fenced, charOps, sessOps, claim, record>>
  BY DEF AskRead, host
<1>2. q \in Procs /\ q \notin Runs /\ s \in WebSessions /\ TypeOK /\ held[s] \in 1..Len(sessions) /\ held[s] \in 0..Len(sessions)
  <2>1. q \in Procs /\ q \notin Runs /\ s \in WebSessions /\ TypeOK BY NoneApart DEF Inv, Procs, WebSessions
  <2> QED BY <1>1, <2>1, TypeParts
<1>3. req'[q] = m BY <1>1, <1>2, Now
<1>4. /\ m \in Request(Len(sessions)) /\ m.doing = "reading" /\ m.at = s /\ m.handle = held[s] /\ m.run = None
      /\ m.gave = FALSE /\ m.back = FALSE
  <2>1. "reading" \in Doings BY DEF Doings
  <2>2. Idle \in Request(Len(sessions)) BY <1>2, OverTyped
  <2>4. m \in Request(Len(sessions)) BY ONLY <1>2, <2>1, <2>2 DEF Request
  <2> QED BY <2>4 DEF Idle
<1> HIDE DEF m
<1>5. GameTyped' /\ Grow /\ Len(sessions') = Len(sessions) BY <1>1, <1>2, GameStands
<1>6. RowsTyped' /\ Rows({q}) BY <1>1, <1>2, <1>5, RowsStand
<1>7. ReservesTyped' /\ ReservesOwn(q) BY <1>1, <1>2, ReservesStand
<1>8. Hands({q}) BY <1>1, <1>2, <1>5, HandsOver DEF InHand
<1>9. Reserves(q)'
  <2>1. req'[q].doing = "reading" /\ req'[q].at # None /\ req'[q].handle # 0 /\ req'[q].gave = FALSE
    BY <1>1, <1>2, <1>3, <1>4, NoneApart
  <2> QED BY ONLY <2>1 DEF Reserves, InHand, Taking
<1>10. KnowsRun(q)' BY ONLY <1>3, <1>4 DEF KnowsRun
<1>11. OfItsKind(q)' BY <1>2, <1>3, <1>4 DEF OfItsKind
<1>12. ~(m.doing \in Taking) /\ m \in Request(Len(sessions')) BY <1>4, <1>5 DEF Taking
<1> QED BY <1>1, <1>2, <1>4, <1>5, <1>6, <1>7, <1>8, <1>9, <1>10, <1>11, <1>12, OneStep

\* A selection drops the row of before and reserves the pilot, the web session and the
\* pilot of before.  That a run has its pilot to itself comes about here.
LEMMA SelectBeginsKeeps ==
  ASSUME Inv, NEW q \in Procs, NEW s \in WebSessions, NEW p \in Pilots,
         \/ q \in Requests /\ s \in Tabs /\ req[q].doing = "idle"
         \/ q \in Runs /\ s = q /\ req[q].doing = "to select" /\ req[q].pilot = p /\ Others(p, q) = {},
         MayClaim(s, p), Unreserved(s, p), MayLeave(s), SelectBegins(q, s, p),
         UNCHANGED <<sessions, late, lost, claim, record>>
  PROVE  Inv'
<1> DEFINE m == [Idle EXCEPT !.doing = IF held[s] = 0 THEN "selecting" ELSE "leaving",
                             !.at = s, !.pilot = p, !.handle = held[s]]
<1>1. /\ sessOps' = [sessOps EXCEPT ![s] = q]
      /\ charOps' = [x \in Pilots |-> IF x = p \/ x = PilotIn(s) THEN q ELSE charOps[x]]
      /\ Forget(s, held[s]) /\ req' = [req EXCEPT ![q] = m]
  BY DEF SelectBegins
<1>2. /\ TypeOK /\ RowsTyped /\ ReservesTyped /\ Len(sessions) \in Nat /\ held[s] \in 0..Len(sessions)
      /\ sessOps[s] = None /\ charOps[p] = None
      /\ PilotIn(s) \in Pilots => charOps[PilotIn(s)] = None
      /\ q \in Requests <=> q \notin Runs
  <2>1. TypeOK BY DEF Inv
  <2>2. PilotIn(s) \in Pilots => held[s] # 0 BY <2>1, TypeParts, NoneApart
  <2>3. q \in Requests <=> q \notin Runs BY NoneApart DEF Procs
  <2> QED BY <2>1, <2>2, <2>3, TypeParts, TypesNow DEF MayLeave, Unreserved
<1>3. req'[q] = m BY <1>1, Now
<1>4. /\ m \in Request(Len(sessions)) /\ m.at = s /\ m.pilot = p /\ m.handle = held[s] /\ m.run = None
      /\ m.gave = FALSE /\ m.back = FALSE
      /\ m.doing = IF held[s] = 0 THEN "selecting" ELSE "leaving"
  <2>1. "selecting" \in Doings /\ "leaving" \in Doings BY DEF Doings
  <2>2. Idle \in Request(Len(sessions)) BY <1>2, OverTyped
  <2>4. m \in Request(Len(sessions)) BY ONLY <1>2, <2>1, <2>2, s \in WebSessions, p \in Pilots DEF Request
  <2> QED BY <2>4 DEF Idle
<1> HIDE DEF m
<1>5. GameTyped' /\ Grow /\ Len(sessions') = Len(sessions) BY <1>2, GameStands
<1>6. RowsTyped' /\ \A x \in WebSessions : held'[x] = IF x = s THEN 0 ELSE held[x]
  <2>1. held' = [held EXCEPT ![s] = 0] /\ fenced' = fenced \ {s} BY <1>1 DEF Forget, Without, Unfenced
  <2>2. 0 \in 0..Len(sessions') BY <1>5, Now
  <2>3. held' \in [WebSessions -> 0..Len(sessions')] /\ \A x \in WebSessions : held'[x] = IF x = s THEN 0 ELSE held[x]
    BY <1>2, <1>5, <2>1, <2>2 DEF RowsTyped
  <2>4. fenced' \subseteq {x \in WebSessions : held'[x] # 0} BY <1>2, <2>1, <2>3 DEF RowsTyped
  <2> QED BY <2>3, <2>4 DEF RowsTyped
<1>7. Rows({q})
  <2>1. held[s] # 0 => PilotIn(s) \in Pilots BY <1>2, TypeParts
  <2>2. held[s] # 0 => req'[q].doing = "leaving" /\ req'[q].handle = held[s] BY <1>3, <1>4
  <2>3. RowMoves({q}, s) BY <1>2, <1>6, <2>1, <2>2 DEF RowMoves
  <2> QED BY <1>6, <2>3 DEF Rows, RowMoves
<1>8. ReservesTyped' /\ ReservesOwn(q) BY <1>1, <1>2 DEF ReservesTyped, ReservesOwn
<1>9. Hands({q}) BY <1>2, <1>5, HandsOver DEF InHand
<1>10. charOps'[p] = q /\ sessOps'[s] = q BY <1>1, <1>2 DEF ReservesTyped
<1>11. Reserves(q)'
  <2>1. /\ req'[q].doing \in {"selecting", "leaving"} /\ (req'[q].doing = "leaving" => req'[q].handle # 0)
        /\ req'[q].at # None /\ req'[q].pilot # None /\ req'[q].gave = FALSE
        /\ charOps'[req'[q].pilot] = q /\ sessOps'[req'[q].at] = q
    BY <1>3, <1>4, <1>10, NoneApart
  <2> QED BY ONLY <2>1 DEF Reserves, InHand, Taking
<1>12. KnowsRun(q)' BY ONLY <1>3, <1>4 DEF KnowsRun
<1>13. OfItsKind(q)'
  <2>1. req'[q].run = None /\ req'[q].at = s /\ ~req'[q].back /\ req'[q].doing \in {"selecting", "leaving"}
    BY <1>3, <1>4
  <2> QED BY <1>2, <2>1 DEF OfItsKind
<1>14. q \in Requests => claim[p] = None BY NoneApart, <1>2 DEF MayClaim
<1>15. ASSUME q \in Runs PROVE Lives(q)' /\ Alone(q)'
  <2>1. /\ Lives(q) /\ s = q /\ req[q].doing = "to select" /\ Others(p, q) = {} /\ claim[p] = q
        /\ req[q].pilot = p
    BY <1>2, <1>15, Now DEF MayClaim
  <2>2. record[q] = "starting" /\ held[q] = 0 BY ONLY <2>1 DEF Lives
  <2>3. /\ req'[q].doing = "selecting" /\ req'[q].at = q /\ req'[q].pilot = p
        /\ record' = record /\ held'[q] = 0 /\ claim' = claim
    BY <1>3, <1>4, <1>6, <2>1, <2>2
  <2>4. Lives(q)' BY ONLY <2>1, <2>2, <2>3, NoneApart, p \in Pilots DEF Lives
  <2>5. ASSUME NEW x \in Pilots, claim[x] = q PROVE x = p
    BY <1>15, <2>1, <2>5, NoneApart DEF Inv, ClaimsStand
  <2>6. ASSUME NEW x \in Requests, req'[x].doing \in Taking PROVE req'[x].pilot # p
    <3>1. x \in Procs /\ x # q BY <1>2, <1>15 DEF Procs
    <3>2. req'[x] = req[x] BY <1>1, <3>1, Now
    <3>3. req[x].doing \in Taking => charOps[req[x].pilot] = x BY <3>1, Now DEF Reserves
    <3>4. x # None BY <3>1, NoneApart
    <3> QED BY <1>2, <2>6, <3>2, <3>3, <3>4
  <2>7. ASSUME NEW t \in Tabs PROVE PilotIn(t)' # p
    <3>1. t \in WebSessions /\ t # q BY <1>15, NoneApart DEF WebSessions
    <3>2. PilotIn(t) # p BY <2>1, <3>1 DEF Others
    <3>3. held'[t] = held[t] /\ sessions' = sessions BY <1>6, <2>1, <3>1
    <3> QED BY <3>2, <3>3 DEF PilotIn, Of
  <2>8. Alone(q)' BY <2>3, <2>5, <2>6, <2>7 DEF Alone
  <2> QED BY <2>4, <2>8
<1>16. q \in Requests \/ req[q].doing # "idle" OBVIOUS
<1>17. m \in Request(Len(sessions')) BY <1>4, <1>5
<1> QED BY <1>1, <1>4, <1>5, <1>6, <1>7, <1>8, <1>9, <1>11, <1>12, <1>13, <1>14, <1>15, <1>16, <1>17, OneStep

\* The run's own select, or its refusal.
LEMMA RunSelectsKeeps ==
  ASSUME Inv, NEW r \in Runs, RunSelects(r)
  PROVE  Inv'
<1> DEFINE p == req[r].pilot
<1>1. /\ req[r].doing = "to select" /\ UNCHANGED <<sessions, late, lost, claim, record>>
      /\ IF MayClaim(r, p) /\ Unreserved(r, p) /\ MayLeave(r) /\ Others(p, r) = {}
           THEN SelectBegins(r, r, p)
           ELSE /\ req' = [req EXCEPT ![r].doing = "refused"]
                /\ UNCHANGED <<held, fenced, charOps, sessOps>>
  BY DEF RunSelects
<1>2. r \in Procs /\ r \in WebSessions BY DEF Procs, WebSessions
<1>3. TypeOK /\ p \in Pilots BY <1>1, <1>2, Now DEF Lives
<1> HIDE DEF p
<1>4. CASE MayClaim(r, p) /\ Unreserved(r, p) /\ MayLeave(r) /\ Others(p, r) = {}
  BY <1>1, <1>2, <1>3, <1>4, SelectBeginsKeeps DEF p
<1>5. CASE ~(MayClaim(r, p) /\ Unreserved(r, p) /\ MayLeave(r) /\ Others(p, r) = {})
  <2>1. req' = [req EXCEPT ![r].doing = "refused"] /\ UNCHANGED <<held, fenced, charOps, sessOps>> BY <1>1, <1>5
  <2>2. req' = [req EXCEPT ![r] = Over(r, "refused")] BY <1>2, <2>1, Now DEF Over
  <2>3. GameTyped' /\ Grow /\ Len(sessions') = Len(sessions) BY <1>1, <1>3, GameStands
  <2>4. RowsTyped' /\ Rows({r}) BY <1>3, <2>1, <2>3, RowsStand
  <2>5. ReservesTyped' /\ ReservesOwn(r) BY <1>3, <2>1, ReservesStand
  <2>6. Hands({r}) BY <1>1, <1>2, <1>3, <2>3, HandsOver DEF InHand
  <2>7. /\ Over(r, "refused") \in Request(Len(sessions')) /\ Over(r, "refused").run \in {None, req[r].run}
        /\ ~(Over(r, "refused").doing \in Taking)
        /\ Reserves(r)' /\ KnowsRun(r)' /\ OfItsKind(r)'
    BY <1>2, <2>2, <2>3, OverKeeps
  <2>8. req[r].doing # "idle" BY <1>1
  <2>9. Lives(r)' /\ FliesOn(r)
    BY <1>1, <2>1, <2>2, <2>3, <2>8, OverLives
  <2> QED BY <1>1, <1>2, <2>2, <2>3, <2>4, <2>5, <2>6, <2>7, <2>8, <2>9, OneStep
<1> QED BY <1>4, <1>5

\* The logout of a run that ends: begun, not needed, or refused.
LEMMA RunLogsOutKeeps ==
  ASSUME Inv, NEW r \in Runs, RunLogsOut(r)
  PROVE  Inv'
<1>1. /\ req[r].doing = "to log out" /\ UNCHANGED <<sessions, late, lost, held, fenced, sessOps, claim, record>>
      /\ IF held[r] # 0 /\ sessOps[r] = None /\ MayLeave(r)
           THEN LogoutBegins(r, r)
           ELSE /\ req' = [req EXCEPT ![r].doing = IF held[r] = 0 /\ sessOps[r] = None THEN "done" ELSE "refused"]
                /\ UNCHANGED charOps
  BY DEF RunLogsOut
<1>2. r \in Procs /\ r \in WebSessions /\ TypeOK BY DEF Inv, Procs, WebSessions
<1>3. CASE held[r] # 0 /\ sessOps[r] = None /\ MayLeave(r)
  BY <1>1, <1>2, <1>3, LogoutBeginsKeeps
<1>4. CASE ~(held[r] # 0 /\ sessOps[r] = None /\ MayLeave(r))
  <2> DEFINE answer == IF held[r] = 0 /\ sessOps[r] = None THEN "done" ELSE "refused"
  <2>1. /\ req' = [req EXCEPT ![r] = Over(r, answer)] /\ UNCHANGED charOps /\ answer \in {"done", "refused"}
        /\ answer = "done" => held'[r] = 0
    BY <1>1, <1>2, <1>4, Now DEF Over
  <2> HIDE DEF answer
  <2>3. GameTyped' /\ Grow /\ Len(sessions') = Len(sessions) BY <1>1, <1>2, GameStands
  <2>4. RowsTyped' /\ Rows({r}) BY <1>1, <1>2, <2>3, RowsStand
  <2>5. ReservesTyped' /\ ReservesOwn(r) BY <1>1, <1>2, <2>1, ReservesStand
  <2>6. Hands({r}) BY <1>1, <1>2, <2>3, HandsOver DEF InHand
  <2>7. /\ Over(r, answer) \in Request(Len(sessions')) /\ Over(r, answer).run \in {None, req[r].run}
        /\ ~(Over(r, answer).doing \in Taking)
        /\ Reserves(r)' /\ KnowsRun(r)' /\ OfItsKind(r)'
    BY <1>2, <2>1, <2>3, OverKeeps
  <2>8. req[r].doing # "idle" BY <1>1
  <2>9. Lives(r)' /\ FliesOn(r)
    BY <1>1, <2>1, <2>3, <2>8, OverLives
  <2> QED BY <1>1, <1>2, <2>1, <2>3, <2>4, <2>5, <2>6, <2>7, <2>8, <2>9, OneStep
<1> QED BY <1>3, <1>4

-----------------------------------------------------------------------------
(* The game server's own steps.                                            *)

LEMMA GameEndsKeeps ==
  ASSUME Inv, NEW h \in DOMAIN sessions, GameEnds(h)
  PROVE  Inv'
<1>1. sessions' = Ended(h, "gone") /\ UNCHANGED <<late, lost, held, fenced, charOps, sessOps, claim, record, req>>
  BY DEF GameEnds, host
<1>2. TypeOK /\ h \in 1..Len(sessions) /\ Len(sessions) \in Nat BY TypeParts DEF Inv
<1>3. GameTyped' /\ Grow /\ Len(sessions') = Len(sessions)
  <2>1. sessions[h] \in Session BY <1>2, TypeParts
  <2>2. sessions' = [sessions EXCEPT ![h] = [sessions[h] EXCEPT !.at = "gone"]] BY <1>1 DEF Ended
  <2>3. [sessions[h] EXCEPT !.at = "gone"] \in Session BY <2>1 DEF Session
  <2>4. sessions \in Seq(Session) BY <1>2, TypeParts
  <2>5. sessions' \in Seq(Session) /\ Len(sessions') = Len(sessions) BY <1>2, <2>2, <2>3, <2>4
  <2>6. \A x \in 1..Len(sessions) : sessions'[x] = IF x = h THEN [sessions[h] EXCEPT !.at = "gone"] ELSE sessions[x]
    BY <2>2, <2>4
  <2>7. sessions'[h].at = "gone" /\ sessions'[h].pilot = sessions[h].pilot BY <1>2, <2>1, <2>6 DEF Session
  <2>8. Grow BY <1>2, <2>5, <2>6, <2>7 DEF Grow
  <2>9. GameTyped' BY <1>1, <1>2, <2>5, TypesNow DEF GameTyped
  <2> QED BY <2>5, <2>8, <2>9
<1>4. RowsTyped' /\ Rows({}) BY <1>1, <1>2, <1>3, RowsStand
<1>5. ReservesTyped' /\ ClaimsTyped' /\ req' \in [Procs -> Request(Len(sessions'))]
  BY <1>1, <1>2, <1>3, TypesNow DEF ReservesTyped, ClaimsTyped
<1>6. TypeOK' BY <1>3, <1>4, <1>5, TypesThen
<1>7. Guarantee({})
  <2>1. Hands({}) BY <1>1, <1>2, <1>3 DEF Hands
  <2>2. Untouched({}) /\ RunsKept({}) /\ ClaimsKept({}) /\ TakesUnclaimed({})
    BY <1>1 DEF Untouched, RunsKept, ClaimsKept, TakesUnclaimed
  <2> QED BY <1>3, <1>4, <2>1, <2>2 DEF Guarantee
<1>8. ClaimsStand' BY <1>1 DEF Inv, ClaimsStand
<1> QED BY <1>6, <1>7, <1>8, StepKeeps

\* A selection given up long ago is carried out: a call was lost.
LEMMA LateSelectKeeps ==
  ASSUME Inv, NEW p \in Pilots, LateSelect(p)
  PROVE  Inv'
<1>1. /\ p \in late /\ Len(sessions) < MaxSessions /\ late' = late \ {p} /\ sessions' = Taken(p)
      /\ UNCHANGED <<lost, held, fenced, charOps, sessOps, claim, record, req>>
  BY DEF LateSelect, host
<1>2. TypeOK /\ Len(sessions) \in Nat /\ lost # 0 BY <1>1, TypeParts DEF Inv, LateIsLost
<1>3. GameTyped' /\ Grow /\ Len(sessions') = Len(sessions) + 1
  <2>1. late' \subseteq late BY <1>1
  <2> QED BY <1>1, <1>2, <2>1, TakenKeeps
<1>4. RowsTyped' /\ Rows({}) BY <1>1, <1>2, <1>3, RowsStand
<1>5. ReservesTyped' /\ ClaimsTyped' /\ req' \in [Procs -> Request(Len(sessions'))]
  <2>1. \A x \in Procs : req[x] \in Request(Len(sessions'))
    <3>1. Len(sessions') \in Nat /\ Len(sessions) <= Len(sessions') BY <1>2, <1>3
    <3>2. \A x \in Procs : req[x] \in Request(Len(sessions)) BY <1>2, TypesNow
    <3> QED BY <1>2, <3>1, <3>2, MoreSessions
  <2> QED BY <1>1, <1>2, <2>1, TypesNow DEF ReservesTyped, ClaimsTyped
<1>6. TypeOK' BY <1>3, <1>4, <1>5, TypesThen
<1>7. Guarantee({})
  <2>1. Hands({}) BY <1>1, <1>2 DEF Hands
  <2>2. Untouched({}) /\ RunsKept({}) /\ ClaimsKept({}) /\ TakesUnclaimed({})
    BY <1>1 DEF Untouched, RunsKept, ClaimsKept, TakesUnclaimed
  <2> QED BY <1>3, <1>4, <2>1, <2>2 DEF Guarantee
<1>8. ClaimsStand' BY <1>1 DEF Inv, ClaimsStand
<1> QED BY <1>6, <1>7, <1>8, StepKeeps

-----------------------------------------------------------------------------
(* The hosted start: a step of the request q that changes what its run r   *)
(* is doing or what it claims.                                             *)

LEMMA RunStep ==
  ASSUME Inv, NEW q \in Requests, NEW r \in Runs,
         req' \in [Procs -> Request(Len(sessions'))], \A x \in Procs \ {q, r} : req'[x] = req[x],
         GameTyped', RowsTyped', ReservesTyped', ClaimsTyped',
         Grow, Rows({q}), ReservesOwn(q), Hands({q}),
         ~(req[r].doing \in InHand), ~(req[q].doing \in Taking),
         \A x \in Procs : x # q => req[x].run # r,
         req'[q].run \in {None, r}, req'[r].run = None, ~(req'[q].doing \in Taking),
         ClaimsKept({r}), ClaimsStand',
         Reserves(q)', Reserves(r)', KnowsRun(q)', KnowsRun(r)', OfItsKind(q)', OfItsKind(r)',
         Lives(r)', FliesOn(r)
  PROVE  Inv'
<1> DEFINE Q == {q, r}
<1>1. q \in Procs /\ r \in Procs /\ q # r /\ q \notin Runs /\ r \notin Requests BY NoneApart DEF Procs
<1>2. Q \in SUBSET Procs BY <1>1
<1>3. TypeOK' BY TypesThen
<1>4. Untouched(Q) BY DEF Untouched, ReservesOwn
<1>5. Rows(Q)
  <2>1. ASSUME NEW s \in WebSessions PROVE RowMoves(Q, s)
    <3>1. RowMoves({q}, s) BY DEF Rows
    <3> QED BY <3>1 DEF RowMoves
  <2> QED BY <2>1 DEF Rows
<1>6. RunsKept(Q)
  <2> SUFFICES ASSUME NEW x \in Procs \ Q, req[x].run # None
               PROVE  /\ \A y \in Q : req'[y].run # req[x].run
                      /\ record'[req[x].run] = record[req[x].run]
                      /\ \A p \in Pilots : claim[p] = req[x].run => claim'[p] = req[x].run
                      /\ req[req[x].run].doing = "idle" => req'[req[x].run].doing = "idle"
    BY DEF RunsKept
  <2>1. req[x].run \in Runs /\ req[x].run # r BY TypeParts DEF Inv
  <2>2. \A y \in Q : req'[y].run # req[x].run BY <2>1
  <2>3. req[x].run \in Procs \ Q BY <1>1, <2>1 DEF Procs
  <2>4. /\ record'[req[x].run] = record[req[x].run]
        /\ \A p \in Pilots : claim[p] = req[x].run => claim'[p] = req[x].run
    BY <2>1, NoneApart DEF ClaimsKept
  <2> QED BY <2>2, <2>3, <2>4
<1>7. ClaimsKept(Q) BY <1>1 DEF ClaimsKept
<1>8. TakesUnclaimed(Q) BY <1>1 DEF TakesUnclaimed
<1>9. Hands(Q)
  <2>1. CASE lost' # 0 BY <2>1 DEF Hands
  <2>2. CASE lost' = 0
    <3>1. /\ lost = 0 /\ late' \subseteq late
          /\ req[q].doing \in InHand =>
               \/ req'[q].doing \in InHand /\ req'[q].handle = req[q].handle
               \/ sessions'[req[q].handle].at # "live"
               \/ \E s \in WebSessions : held'[s] = req[q].handle
          /\ \A h \in 1..Len(sessions') : h > Len(sessions) => req'[q].doing = "selected" /\ req'[q].handle = h
      BY <2>2 DEF Hands
    <3> QED BY <3>1 DEF Hands
  <2> QED BY <2>1, <2>2
<1>10. Guarantee(Q) BY <1>4, <1>5, <1>6, <1>7, <1>8, <1>9 DEF Guarantee
<1>11. Starts(q)' /\ Starts(r)'
  <2>1. ASSUME NEW x \in Procs, req'[q].run # None, req'[x].run = req'[q].run PROVE x = q
    BY <1>1, <2>1
  <2>2. OwnRun(q)' BY <2>1 DEF OwnRun
  <2>3. OwnRun(r)' BY DEF OwnRun
  <2> QED BY <2>2, <2>3 DEF Starts
<1>12. \A x \in Q : Reserves(x)' /\ Starts(x)' BY <1>11
<1>13. \A x \in Q \cap Runs : Lives(x)' /\ (FliesOn(x) \/ Alone(x)') BY <1>1
<1> HIDE DEF Q
<1> QED BY <1>2, <1>3, <1>10, <1>12, <1>13, StepKeeps

\* What a start may begin with: the request's own run, not begun, and what is reserved.
StartsWith(q, rec, co, so) ==
  /\ rec \in Request(Len(sessions)) /\ rec.run \in Runs /\ record[rec.run] = "unused"
  /\ rec.run = req[q].run \/ Fresh(rec.run)
  /\ rec.pilot \in Pilots /\ rec.at \in Tabs \cup {None} /\ ~rec.back /\ (rec.gave => rec.at # None)
  /\ co \in [Pilots -> Procs \cup {None}] /\ so \in [WebSessions -> Procs \cup {None}]
  /\ \A p \in Pilots : co[p] = charOps[p] \/ charOps[p] \in {q, None}
  /\ \A s \in WebSessions : so[s] = sessOps[s] \/ sessOps[s] \in {q, None}
  /\ rec.at # None => so[rec.at] = q

\* The run's own select is to come; the caller's reservation of the pilot goes.
LEMMA TransferKeeps ==
  ASSUME Inv, NEW q \in Requests, NEW r \in Runs, NEW rec \in Request(Len(sessions)), NEW co \in [Pilots -> Procs \cup {None}],
         Transferred(q, rec, co), rec.run = r, rec.pilot \in Pilots, rec.at \in Tabs \cup {None}, rec.gave => rec.at # None,
         \A p \in Pilots : co[p] = charOps[p] \/ charOps[p] \in {q, None},
         sessOps' \in [WebSessions -> Procs \cup {None}],
         \A s \in WebSessions : sessOps'[s] = sessOps[s] \/ sessOps[s] \in {q, None},
         GameTyped', Grow, Len(sessions') = Len(sessions), RowsTyped', Rows({q}), ClaimsTyped', Hands({q}),
         req[r].doing = "idle", held[r] = 0, ~(req[q].doing \in Taking), \A x \in Procs : x # q => req[x].run # r,
         record'[r] = "starting", claim'[rec.pilot] = r, ClaimsKept({r}), ClaimsStand'
  PROVE  Inv'
<1> DEFINE m == [rec EXCEPT !.doing = "starting", !.handle = 0, !.row = None]
           n == [Idle EXCEPT !.doing = "to select", !.at = r, !.pilot = rec.pilot]
<1>1. /\ q \in Procs /\ r \in Procs /\ q # r /\ q \notin Runs /\ r \notin Requests /\ r \in WebSessions /\ TypeOK
      /\ req \in [Procs -> Request(Len(sessions))]
  BY NoneApart, TypesNow DEF Procs, WebSessions, Inv
<1>2. /\ charOps' = [co EXCEPT ![rec.pilot] = IF @ = q THEN None ELSE @]
      /\ req' = [req EXCEPT ![q] = m, ![r] = n]
  BY DEF Transferred
<1>3. req'[q] = m /\ req'[r] = n /\ \A x \in Procs \ {q, r} : req'[x] = req[x] BY <1>1, <1>2
<1>4. /\ m \in Request(Len(sessions)) /\ m.doing = "starting" /\ m.run = r /\ m.pilot = rec.pilot /\ m.at = rec.at
      /\ m.gave = rec.gave
  <2>1. "starting" \in Doings BY DEF Doings
  <2>2. 0 \in 0..Len(sessions) BY <1>1, Now
  <2> QED BY ONLY <2>1, <2>2, rec \in Request(Len(sessions)), rec.run = r DEF Request
<1>5. /\ n \in Request(Len(sessions)) /\ n.doing = "to select" /\ n.run = None /\ n.pilot = rec.pilot /\ n.at = r
      /\ n.gave = FALSE /\ n.back = FALSE
  <2>1. "to select" \in Doings BY DEF Doings
  <2>2. Idle \in Request(Len(sessions)) BY <1>1, OverTyped
  <2>3. n \in Request(Len(sessions)) BY ONLY <1>1, <2>1, <2>2, rec.pilot \in Pilots DEF Request
  <2> QED BY <2>3 DEF Idle
<1>6. req' \in [Procs -> Request(Len(sessions'))] BY <1>1, <1>2, <1>4, <1>5
<1> HIDE DEF m, n
<1>7. ReservesTyped' /\ ReservesOwn(q)
  <2>1. charOps' \in [Pilots -> Procs \cup {None}] BY <1>2
  <2>2. \A p \in Pilots : charOps'[p] = IF p = rec.pilot /\ co[p] = q THEN None ELSE co[p] BY <1>2
  <2> QED BY <2>1, <2>2 DEF ReservesTyped, ReservesOwn
<1>8. held'[r] = 0
  <2>1. \A x \in {q} : Starts(x) BY <1>1, Now
  <2>2. {q} \in SUBSET Procs /\ r \notin {q} BY <1>1
  <2> QED BY <1>1, <2>1, <2>2, RowOfRun
<1>9. Reserves(q)'
  <2>1. req'[q].doing = "starting" /\ (req'[q].gave => req'[q].at # None) BY <1>3, <1>4
  <2> QED BY ONLY <2>1 DEF Reserves, Taking, InHand
<1>10. KnowsRun(q)'
  <2>1. /\ req'[q].doing = "starting" /\ req'[q].run # None /\ req'[q].pilot # None
        /\ record'[req'[q].run] = "starting" /\ claim'[req'[q].pilot] = req'[q].run
    BY <1>3, <1>4, NoneApart
  <2> QED BY ONLY <2>1 DEF KnowsRun
<1>11. OfItsKind(q)' BY <1>1, <1>3, <1>4 DEF OfItsKind
<1>12. Reserves(r)' BY ONLY <1>3, <1>5 DEF Reserves, Taking, InHand
<1>13. KnowsRun(r)' BY ONLY <1>3, <1>5 DEF KnowsRun
<1>14. OfItsKind(r)' BY ONLY <1>1, <1>3, <1>5 DEF OfItsKind
<1>15. Lives(r)'
  <2>1. req'[r].doing = "to select" /\ req'[r].at = r /\ req'[r].pilot # None /\ claim'[req'[r].pilot] = r
    BY <1>3, <1>5, NoneApart
  <2> QED BY ONLY <1>8, <2>1, record'[r] = "starting" DEF Lives
<1>16. FliesOn(r) BY ONLY <1>3, <1>5, <1>8 DEF FliesOn, Flies
<1>17. req'[q].run \in {None, r} /\ req'[r].run = None /\ ~(req'[q].doing \in Taking) /\ ~(req[r].doing \in InHand)
  BY <1>3, <1>4, <1>5 DEF Taking, InHand
<1> QED BY <1>3, <1>6, <1>7, <1>9, <1>10, <1>11, <1>12, <1>13, <1>14, <1>15, <1>16, <1>17, RunStep

\* The pilot is claimed, unless another start was first; a caller who flies him is
\* looked at before he is let go of.
LEMMA ClaimsKeeps ==
  ASSUME Inv, NEW q \in Requests, NEW rec, NEW co, NEW so, StartsWith(q, rec, co, so), Claims(q, rec, held', co, so),
         UNCHANGED <<sessions, late, lost>>, RowsTyped', Rows({q}),
         ~(req[q].doing \in Taking)
  PROVE  Inv'
<1> USE DEF StartsWith
<1> DEFINE r == rec.run
<1>1. /\ q \in Procs /\ q \notin Runs /\ TypeOK /\ req \in [Procs -> Request(Len(sessions))] /\ ClaimsTyped
  BY NoneApart, TypesNow DEF Procs, Inv
<1>2. GameTyped' /\ Grow /\ Len(sessions') = Len(sessions) BY <1>1, GameStands
<1>3. Hands({q}) BY <1>1, <1>2, HandsOver DEF InHand, Taking
<1>4. /\ r \in Runs /\ r \in Procs /\ r # q /\ record[r] = "unused" /\ r \in WebSessions
      /\ \A x \in Procs : x # q => req[x].run # r
  <2>1. r \in Runs /\ r \in Procs /\ r # q /\ record[r] = "unused" /\ r \in WebSessions /\ r # None
    BY <1>1, NoneApart DEF Procs, WebSessions
  <2>2. OwnRun(q) BY <1>1, Now DEF Starts
  <2>3. CASE r = req[q].run BY <2>1, <2>2, <2>3 DEF OwnRun
  <2>4. CASE Fresh(r) BY <2>1, <2>4 DEF Fresh
  <2> QED BY <2>1, <2>3, <2>4
<1>5. req[r].doing = "idle" /\ held[r] = 0 /\ Reserves(r) /\ OfItsKind(r) BY <1>4, Now DEF Lives
<1>6. CASE claim[rec.pilot] # None
  <2>1. /\ charOps' = Freed(q, co) /\ sessOps' = Freed(q, so) /\ req' = [req EXCEPT ![q] = Idle]
        /\ UNCHANGED <<claim, record>>
    BY <1>6 DEF Claims
  <2>2. ReservesTyped' /\ ReservesOwn(q) BY <1>1, <2>1 DEF ReservesTyped, ReservesOwn, Freed, FreedBy
  <2>3. Over(q, "done") = Idle BY <1>1 DEF Over
  <2>4. /\ Idle \in Request(Len(sessions')) /\ Idle.run \in {None, req[q].run} /\ ~(Idle.doing \in Taking)
        /\ Reserves(q)' /\ KnowsRun(q)' /\ OfItsKind(q)'
    BY <1>1, <1>2, <2>1, <2>3, OverKeeps
  <2> QED BY <1>1, <1>2, <1>3, <2>1, <2>2, <2>4, OneStep
<1>7. CASE claim[rec.pilot] = None
  <2>1. claim' = [claim EXCEPT ![rec.pilot] = r] /\ record' = [record EXCEPT ![r] = "starting"] /\ sessOps' = so
    BY <1>7 DEF Claims
  <2>2. /\ claim'[rec.pilot] = r /\ \A p \in Pilots : p # rec.pilot => claim'[p] = claim[p]
        /\ record'[r] = "starting" /\ \A x \in Runs : x # r => record'[x] = record[x]
        /\ ClaimsTyped'
    BY <1>1, <1>4, <2>1 DEF ClaimsTyped
  <2>3. ClaimsKept({r})
    <3>1. \A p \in Pilots : claim'[p] = claim[p] \/ (claim[p] = None /\ claim'[p] = r) BY <1>7, <2>2
    <3> QED BY <2>2, <3>1 DEF ClaimsKept
  <2>4. ClaimsStand'
    <3>1. \A p \in Pilots : claim[p] # r BY <1>4, NoneApart DEF Inv, ClaimsStand
    <3>2. \A p \in Pilots : claim[p] \in Runs \cup {None} BY <1>1 DEF ClaimsTyped
    <3>3. ASSUME NEW p \in Pilots, claim'[p] # None PROVE record'[claim'[p]] \in {"starting", "flying", "ending", "blocked"}
      BY <2>2, <3>1, <3>2, <3>3 DEF Inv, ClaimsStand
    <3>4. ASSUME NEW p \in Pilots, NEW x \in Pilots, claim'[p] # None, claim'[x] = claim'[p] PROVE x = p
      BY <2>2, <3>1, <3>4 DEF Inv, ClaimsStand
    <3> QED BY <3>3, <3>4 DEF ClaimsStand
  <2>5. CASE rec.at # None /\ Of(held', rec.at) = rec.pilot
    <3> DEFINE m == [rec EXCEPT !.doing = "checking", !.handle = held'[rec.at], !.row = None]
    <3>1. req' = [req EXCEPT ![q] = m] /\ charOps' = co BY <1>7, <2>5 DEF Claims
    <3>2. /\ held'[rec.at] \in 0..Len(sessions) /\ held'[rec.at] # 0 /\ sessions[held'[rec.at]].pilot = rec.pilot
          /\ rec.at \in WebSessions
      <4>1. rec.at \in WebSessions BY <2>5 DEF WebSessions
      <4>2. held'[rec.at] \in 0..Len(sessions) BY <1>2, <4>1 DEF RowsTyped
      <4>3. Of(held', rec.at) # None BY <2>5, NoneApart
      <4> QED BY <2>5, <4>1, <4>2, <4>3 DEF Of
    <3>3. /\ m \in Request(Len(sessions)) /\ m.doing = "checking" /\ m.run = r /\ m.pilot = rec.pilot /\ m.at = rec.at
          /\ m.gave = rec.gave /\ m.handle = held'[rec.at]
      <4>1. "checking" \in Doings BY DEF Doings
      <4>2. rec \in Request(Len(sessions)) OBVIOUS
      <4> QED BY ONLY <3>2, <4>1, <4>2 DEF Request
    <3>4. req'[q] = m /\ req'[r] = req[r] /\ \A x \in Procs \ {q, r} : req'[x] = req[x] BY <1>1, <1>4, <3>1
    <3>5. req' \in [Procs -> Request(Len(sessions'))] BY <1>1, <1>2, <3>1, <3>3
    <3> HIDE DEF m
    <3>6. held'[r] = 0
      <4>1. \A x \in {q} : Starts(x) BY <1>1, Now
      <4>2. {q} \in SUBSET Procs /\ r \notin {q} BY <1>1, <1>4
      <4> QED BY <1>1, <1>4, <1>5, <4>1, <4>2, RowOfRun
    <3>7. ReservesTyped' /\ ReservesOwn(q) BY <2>1, <3>1 DEF ReservesTyped, ReservesOwn
    <3>8. Reserves(q)'
      <4>1. /\ req'[q].doing = "checking" /\ req'[q].at # None /\ req'[q].handle # 0
            /\ sessOps'[req'[q].at] = q /\ sessions'[req'[q].handle].pilot = req'[q].pilot
        BY <2>1, <2>5, <3>2, <3>3, <3>4
      <4> QED BY ONLY <4>1 DEF Reserves, Taking, InHand
    <3>9. KnowsRun(q)'
      <4>1. /\ req'[q].doing = "checking" /\ req'[q].run # None /\ req'[q].pilot # None
            /\ record'[req'[q].run] = "starting" /\ claim'[req'[q].pilot] = req'[q].run
            /\ req'[req'[q].run].doing = "idle" /\ held'[req'[q].run] = 0
        BY <1>4, <1>5, <2>2, <3>3, <3>4, <3>6, NoneApart
      <4> QED BY ONLY <4>1 DEF KnowsRun
    <3>10. OfItsKind(q)' BY <1>1, <3>3, <3>4 DEF OfItsKind
    <3>11. Reserves(r)' BY ONLY <1>5, <3>4 DEF Reserves, Taking, InHand
    <3>12. KnowsRun(r)' BY ONLY <1>5, <3>4 DEF KnowsRun
    <3>13. OfItsKind(r)' BY ONLY <1>5, <3>4 DEF OfItsKind
    <3>14. Lives(r)' BY ONLY <1>5, <2>2, <3>4, <3>6 DEF Lives
    <3>15. FliesOn(r) BY ONLY <1>5, <3>4, <3>6 DEF FliesOn, Flies
    <3>16. req'[q].run \in {None, r} /\ req'[r].run = None /\ ~(req'[q].doing \in Taking) /\ ~(req[r].doing \in InHand)
      BY <1>4, <1>5, <3>3, <3>4 DEF Taking, InHand, OfItsKind
    <3> HIDE DEF r
    <3> QED BY <1>2, <1>3, <1>4, <2>2, <2>3, <2>4, <3>4, <3>5, <3>7, <3>8, <3>9, <3>10, <3>11, <3>12, <3>13, <3>14, <3>15, <3>16, RunStep
  <2>6. CASE ~(rec.at # None /\ Of(held', rec.at) = rec.pilot)
    <3>1. Transferred(q, rec, co) BY <1>7, <2>6 DEF Claims
    <3>2. rec \in Request(Len(sessions)) /\ co \in [Pilots -> Procs \cup {None}] /\ rec.run = r OBVIOUS
    <3>3. /\ rec.pilot \in Pilots /\ rec.at \in Tabs \cup {None} /\ (rec.gave => rec.at # None)
          /\ \A p \in Pilots : co[p] = charOps[p] \/ charOps[p] \in {q, None}
          /\ sessOps' \in [WebSessions -> Procs \cup {None}]
          /\ \A s \in WebSessions : sessOps'[s] = sessOps[s] \/ sessOps[s] \in {q, None}
      BY <2>1
    <3> HIDE DEF r, StartsWith
    <3> QED BY <1>2, <1>3, <1>4, <1>5, <2>2, <2>3, <2>4, <3>1, <3>2, <3>3, TransferKeeps
  <2> QED BY <2>5, <2>6
<1>8. claim[rec.pilot] = None \/ claim[rec.pilot] # None OBVIOUS
<1> QED BY <1>6, <1>7

\* The other rows of the pilot are read, then the game server is asked, then he is claimed.
LEMMA ProbesKeeps ==
  ASSUME Inv, NEW q \in Requests, NEW rec, NEW co, NEW so, StartsWith(q, rec, co, so), Probes(q, rec, held', co, so),
         UNCHANGED <<sessions, late, lost>>, RowsTyped', Rows({q}), ~(req[q].doing \in Taking)
  PROVE  Inv'
<1> USE DEF StartsWith
<1>1. q \in Procs /\ q \notin Runs /\ TypeOK /\ req \in [Procs -> Request(Len(sessions))]
  BY NoneApart, TypesNow DEF Procs, Inv
<1>2. GameTyped' /\ Grow /\ Len(sessions') = Len(sessions) BY <1>1, GameStands
<1>3. Hands({q}) BY <1>1, <1>2, HandsOver DEF InHand, Taking
<1>4. ASSUME NEW d \in {"probing", "asking"}, NEW t \in WebSessions \cup {None}, NEW k \in 0..Len(sessions),
             req' = [req EXCEPT ![q] = [rec EXCEPT !.doing = d, !.row = t, !.handle = k]],
             d = "probing" => k # 0 /\ t # None,
             charOps' = co, sessOps' = so, UNCHANGED <<claim, record>>
      PROVE  Inv'
  <2> DEFINE m == [rec EXCEPT !.doing = d, !.row = t, !.handle = k]
  <2>1. req'[q] = m BY <1>1, <1>4
  <2>2. /\ m \in Request(Len(sessions)) /\ m.doing = d /\ m.run = rec.run /\ m.pilot = rec.pilot /\ m.at = rec.at
        /\ m.gave = rec.gave /\ m.back = rec.back /\ m.handle = k /\ m.row = t
    <3>1. d \in Doings BY <1>4 DEF Doings
    <3>2. rec \in Request(Len(sessions)) OBVIOUS
    <3> QED BY ONLY <3>1, <3>2, <1>4 DEF Request
  <2>3. req' = [req EXCEPT ![q] = m] BY <1>4
  <2> HIDE DEF m
  <2>4. ReservesTyped' /\ ReservesOwn(q) BY <1>4 DEF ReservesTyped, ReservesOwn
  <2>5. Reserves(q)'
    <3>1. /\ req'[q].doing \in {"probing", "asking"} /\ ~req'[q].back /\ (req'[q].gave => req'[q].at # None)
          /\ req'[q].at # None => sessOps'[req'[q].at] = q
          /\ req'[q].doing = "probing" => req'[q].handle # 0 /\ req'[q].row # None
      BY <1>4, <2>1, <2>2
    <3> QED BY ONLY <3>1 DEF Reserves, Taking, InHand
  <2>6. KnowsRun(q)'
    <3>1. /\ req'[q].doing \in {"probing", "asking"} /\ req'[q].run # None /\ req'[q].pilot # None
          /\ record'[req'[q].run] = "unused"
      BY <1>4, <2>1, <2>2, NoneApart
    <3> QED BY ONLY <3>1 DEF KnowsRun
  <2>7. OfItsKind(q)' BY <1>1, <1>4, <2>1, <2>2 DEF OfItsKind
  <2>8. m.run \in {None, req[q].run} \/ (m.run \in Runs /\ Fresh(m.run)) BY <2>2
  <2>9. ~(m.doing \in Taking) /\ m \in Request(Len(sessions')) BY <1>2, <1>4, <2>2 DEF Taking
  <2> QED BY <1>1, <1>2, <1>3, <1>4, <2>3, <2>4, <2>5, <2>6, <2>7, <2>8, <2>9, OneStep
<1> DEFINE others == {t \in WebSessions \ {rec.at} : Of(held', t) = rec.pilot}
           asks == rec.at # None /\ Of(held', rec.at) # rec.pilot
<1>5. ASSUME NEW t \in others, req' = [req EXCEPT ![q] = [rec EXCEPT !.doing = "probing", !.row = t, !.handle = held'[t]]],
             charOps' = co, sessOps' = so, UNCHANGED <<claim, record>>
      PROVE  Inv'
  <2>1. t \in WebSessions /\ Of(held', t) = rec.pilot BY <1>5
  <2>2. Of(held', t) # None BY <2>1, NoneApart
  <2>3. held'[t] \in 0..Len(sessions) /\ held'[t] # 0 BY <1>2, <2>1, <2>2 DEF RowsTyped, Of
  <2>4. t # None BY <2>1, NoneApart
  <2> HIDE DEF StartsWith
  <2> QED BY <1>4, <1>5, <2>1, <2>3, <2>4
<1>6. ASSUME req' = [req EXCEPT ![q] = [rec EXCEPT !.doing = "asking", !.row = None, !.handle = 0]],
             charOps' = co, sessOps' = so, UNCHANGED <<claim, record>>
      PROVE  Inv'
  <2>1. 0 \in 0..Len(sessions) BY <1>1, Now
  <2> HIDE DEF StartsWith
  <2> QED BY <1>4, <1>6, <2>1
<1> HIDE DEF StartsWith
<1>7. ASSUME Claims(q, rec, held', co, so) PROVE Inv' BY <1>7, ClaimsKeeps
<1>8. \/ /\ \E t \in others : req' = [req EXCEPT ![q] = [rec EXCEPT !.doing = "probing", !.row = t, !.handle = held'[t]]]
         /\ charOps' = co /\ sessOps' = so /\ UNCHANGED <<claim, record>>
      \/ /\ req' = [req EXCEPT ![q] = [rec EXCEPT !.doing = "asking", !.row = None, !.handle = 0]]
         /\ charOps' = co /\ sessOps' = so /\ UNCHANGED <<claim, record>>
      \/ Claims(q, rec, held', co, so)
  BY DEF Probes
<1> HIDE DEF others, asks
<1> QED BY <1>5, <1>6, <1>7, <1>8

LEMMA AskStartKeeps ==
  ASSUME Inv, NEW q \in Requests, NEW s \in Tabs, NEW p \in Pilots, NEW r \in Runs, AskStart(q, s, p, r)
  PROVE  Inv'
<1> DEFINE rec == [Idle EXCEPT !.at = s, !.pilot = p, !.run = r]
           co == [charOps EXCEPT ![p] = q]
           so == [sessOps EXCEPT ![s] = q]
<1>1. /\ req[q].doing = "idle" /\ Fresh(r) /\ Unreserved(s, p) /\ Probes(q, rec, held, co, so)
      /\ UNCHANGED <<sessions, late, lost, held, fenced>>
  BY DEF AskStart
<1>2. q \in Procs /\ s \in WebSessions /\ TypeOK /\ ReservesTyped BY TypesNow DEF Procs, WebSessions, Inv
<1>3. GameTyped' /\ Grow BY <1>1, <1>2, GameStands
<1>4. RowsTyped' /\ Rows({q}) BY <1>1, <1>2, <1>3, RowsStand
<1>5. StartsWith(q, rec, co, so)
  <2>1. /\ rec \in Request(Len(sessions)) /\ rec.run = r /\ rec.pilot = p /\ rec.at = s
        /\ rec.gave = FALSE /\ rec.back = FALSE
    <3>1. Idle \in Request(Len(sessions)) BY <1>2, OverTyped
    <3>2. rec \in Request(Len(sessions)) BY ONLY <1>2, <3>1, p \in Pilots, r \in Runs DEF Request
    <3> QED BY <3>2 DEF Idle
  <2>2. /\ co \in [Pilots -> Procs \cup {None}] /\ so \in [WebSessions -> Procs \cup {None}]
        /\ \A x \in Pilots : co[x] = charOps[x] \/ charOps[x] \in {q, None}
        /\ \A x \in WebSessions : so[x] = sessOps[x] \/ sessOps[x] \in {q, None}
        /\ so[s] = q
    BY <1>1, <1>2 DEF ReservesTyped, Unreserved
  <2> HIDE DEF rec, co, so
  <2> QED BY <1>1, <2>1, <2>2 DEF StartsWith, Fresh
<1>6. held' = held BY <1>1
<1> HIDE DEF rec, co, so
<1>7. Probes(q, rec, held', co, so) BY <1>1, <1>6
<1>8. ~(req[q].doing \in Taking) BY <1>1 DEF Taking
<1> QED BY <1>1, <1>4, <1>5, <1>7, <1>8, ProbesKeeps

LEMMA ResumeKeeps ==
  ASSUME Inv, NEW q \in Requests, NEW p \in Pilots, NEW r \in Runs, Resume(q, p, r)
  PROVE  Inv'
<1> DEFINE rec == [Idle EXCEPT !.pilot = p, !.run = r]
<1>1. /\ req[q].doing = "idle" /\ Fresh(r) /\ Probes(q, rec, held, charOps, sessOps)
      /\ UNCHANGED <<sessions, late, lost, held, fenced>>
  BY DEF Resume
<1>2. q \in Procs /\ TypeOK /\ ReservesTyped BY TypesNow DEF Procs, Inv
<1>3. GameTyped' /\ Grow BY <1>1, <1>2, GameStands
<1>4. RowsTyped' /\ Rows({q}) BY <1>1, <1>2, <1>3, RowsStand
<1>5. StartsWith(q, rec, charOps, sessOps)
  <2>1. /\ rec \in Request(Len(sessions)) /\ rec.run = r /\ rec.pilot = p /\ rec.at = None
        /\ rec.gave = FALSE /\ rec.back = FALSE
    <3>1. Idle \in Request(Len(sessions)) BY <1>2, OverTyped
    <3>2. rec \in Request(Len(sessions)) BY ONLY <3>1, p \in Pilots, r \in Runs DEF Request
    <3> QED BY <3>2 DEF Idle
  <2> HIDE DEF rec
  <2> QED BY <1>1, <1>2, <2>1 DEF StartsWith, Fresh, ReservesTyped
<1>6. held' = held BY <1>1
<1> HIDE DEF rec
<1>7. Probes(q, rec, held', charOps, sessOps) BY <1>1, <1>6
<1>8. ~(req[q].doing \in Taking) BY <1>1 DEF Taking
<1> QED BY <1>1, <1>4, <1>5, <1>7, <1>8, ProbesKeeps

\* A request that is over without a word: it was no run's.
LEMMA IdleAgainKeeps ==
  ASSUME Inv, NEW q \in Requests, req' = [req EXCEPT ![q] = Idle], Free(q),
         ~(req[q].doing \in Taking), UNCHANGED <<sessions, late, lost, held, fenced, claim, record>>
  PROVE  Inv'
<1>1. q \in Procs /\ q \notin Runs /\ TypeOK BY NoneApart DEF Procs, Inv
<1>2. GameTyped' /\ Grow /\ Len(sessions') = Len(sessions) BY <1>1, GameStands
<1>3. RowsTyped' /\ Rows({q}) BY <1>1, <1>2, RowsStand
<1>4. ReservesTyped' /\ ReservesOwn(q) BY <1>1, FreeKeeps
<1>5. Hands({q}) BY <1>1, <1>2, HandsOver DEF InHand, Taking
<1>6. Over(q, "done") = Idle BY <1>1 DEF Over
<1>7. /\ Idle \in Request(Len(sessions')) /\ Idle.run \in {None, req[q].run} /\ ~(Idle.doing \in Taking)
      /\ Reserves(q)' /\ KnowsRun(q)' /\ OfItsKind(q)'
  BY <1>1, <1>2, <1>6, OverKeeps
<1> QED BY <1>1, <1>2, <1>3, <1>4, <1>5, <1>7, OneStep

\* A start goes on from where it stands with its run not begun.
LEMMA StartsOn ==
  ASSUME Inv, NEW q \in Procs, req[q].doing \in {"probing", "asking"}, ~req[q].back
  PROVE  StartsWith(q, req[q], charOps, sessOps)
<1>1. q \in Requests BY Now DEF Lives
<1>2. /\ req[q].run # None /\ record[req[q].run] = "unused" /\ req[q].pilot # None
      /\ (req[q].gave => req[q].at # None) /\ (req[q].at # None => sessOps[req[q].at] = q)
      /\ req[q].at \in Tabs \cup {None}
  BY <1>1, Now DEF KnowsRun, Reserves, OfItsKind
<1>3. req[q] \in Request(Len(sessions)) /\ req[q].run \in Runs /\ req[q].pilot \in Pilots /\ ReservesTyped
  BY <1>2, Now, TypeParts, TypesNow
<1> QED BY <1>2, <1>3 DEF StartsWith, ReservesTyped

\* A row of the pilot was read.
LEMMA ProbeAnswersKeeps ==
  ASSUME Inv, NEW q \in Procs, ProbeAnswers(q)
  PROVE  Inv'
<1>1. req[q].doing = "probing" /\ UNCHANGED <<sessions, late, lost>> BY DEF ProbeAnswers
<1>2. q \in Requests /\ TypeOK /\ ~(req[q].doing \in Taking) BY <1>1, Now DEF Lives, Taking
<1>3. CASE StartRefused(q) /\ UNCHANGED <<held, fenced>>
  BY <1>1, <1>2, <1>3, IdleAgainKeeps DEF StartRefused
<1>4. ASSUME ~Live(req[q].handle), Forget(req[q].row, req[q].handle),
             Probes(q, req[q], Without(req[q].row, req[q].handle), charOps, sessOps)
      PROVE  Inv'
  <2>1. req[q].row \in WebSessions /\ req[q].handle \in 1..Len(sessions)
    BY <1>1, Now, TypeParts DEF Reserves
  <2>2. GameTyped' /\ Grow /\ Len(sessions') = Len(sessions) BY <1>1, <1>2, GameStands
  <2>3. sessions'[req[q].handle].at # "live" BY <1>1, <1>4 DEF Live
  <2>4. RowsTyped' /\ Rows({q}) BY <1>2, <1>4, <2>1, <2>2, <2>3, ForgetKeeps
  <2>5. held' = Without(req[q].row, req[q].handle) BY <1>4 DEF Forget
  <2>6. Probes(q, req[q], held', charOps, sessOps) BY <1>4, <2>5
  <2>7. ~req[q].back
    BY <1>1, Now DEF Reserves
  <2>8. StartsWith(q, req[q], charOps, sessOps) BY <1>1, <2>7, StartsOn
  <2> QED BY <1>1, <1>2, <2>4, <2>6, <2>8, ProbesKeeps
<1> QED BY <1>3, <1>4 DEF ProbeAnswers

\* The pilot was asked for, for a start or for his giving back.
LEMMA StatusAnswersKeeps ==
  ASSUME Inv, NEW q \in Procs, StatusAnswers(q)
  PROVE  Inv'
<1>1. req[q].doing = "asking" /\ UNCHANGED <<sessions, late, lost, held, fenced>> BY DEF StatusAnswers
<1>2. q \in Requests /\ q \notin Runs /\ TypeOK /\ ~(req[q].doing \in Taking) BY <1>1, Now DEF Lives, Taking
<1>3. GameTyped' /\ Grow /\ Len(sessions') = Len(sessions) BY <1>1, <1>2, GameStands
<1>4. RowsTyped' /\ Rows({q}) BY <1>1, <1>2, <1>3, RowsStand
<1>5. CASE StartRefused(q) BY <1>1, <1>2, <1>5, IdleAgainKeeps DEF StartRefused
<1>6. ASSUME ~req[q].back, Claims(q, req[q], held, charOps, sessOps) PROVE Inv'
  <2>1. StartsWith(q, req[q], charOps, sessOps) BY <1>1, <1>6, StartsOn
  <2>2. held' = held BY <1>1
  <2>3. Claims(q, req[q], held', charOps, sessOps) BY <1>6, <2>2
  <2> QED BY <1>1, <1>2, <1>4, <2>1, <2>3, ClaimsKeeps
<1>7. ASSUME req[q].back, Current(q), req' = [req EXCEPT ![q].doing = "selecting"], UNCHANGED host PROVE Inv'
  <2> DEFINE m == [req[q] EXCEPT !.doing = "selecting"]
  <2>1. req' = [req EXCEPT ![q] = m] BY <1>7, Now
  <2>2. req'[q] = m BY <2>1, Now
  <2>3. /\ m \in Request(Len(sessions)) /\ m.doing = "selecting" /\ m.run = req[q].run /\ m.pilot = req[q].pilot
        /\ m.at = req[q].at /\ m.gave = req[q].gave /\ m.back = req[q].back
    <3>1. "selecting" \in Doings BY DEF Doings
    <3>2. req[q] \in Request(Len(sessions)) BY Now
    <3> QED BY ONLY <3>1, <3>2 DEF Request
  <2> HIDE DEF m
  <2>4. UNCHANGED <<charOps, sessOps, claim, record>> BY <1>7 DEF host
  <2>5. ReservesTyped' /\ ReservesOwn(q) BY <1>2, <2>4, ReservesStand
  <2>6. Hands({q}) BY <1>1, <1>2, <1>3, HandsOver DEF InHand
  <2>7. /\ req[q].at # None /\ req[q].pilot # None /\ charOps[req[q].pilot] = q /\ sessOps[req[q].at] = q
        /\ claim[req[q].pilot] = None
    BY <1>1, <1>7, Now DEF Reserves, Current
  <2>8. Reserves(q)'
    <3>1. /\ req'[q].doing = "selecting" /\ req'[q].at # None /\ req'[q].pilot # None
          /\ charOps'[req'[q].pilot] = q /\ sessOps'[req'[q].at] = q
      BY <2>2, <2>3, <2>4, <2>7
    <3> QED BY ONLY <3>1 DEF Reserves, Taking, InHand
  <2>9. KnowsRun(q)' BY ONLY <2>2, <2>3 DEF KnowsRun
  <2>10. OfItsKind(q)'
    <3>1. OfItsKind(q) BY Now
    <3> QED BY ONLY <3>1, <2>2, <2>3 DEF OfItsKind
  <2>11. claim[m.pilot] = None /\ m \in Request(Len(sessions')) BY <1>3, <2>3, <2>7
  <2> QED BY <1>1, <1>2, <1>3, <1>4, <2>1, <2>3, <2>4, <2>5, <2>6, <2>8, <2>9, <2>10, <2>11, OneStep
<1> QED BY <1>5, <1>6, <1>7 DEF StatusAnswers

\* The run of a start that fails is logged out.
LEMMA StartFailsKeeps ==
  ASSUME Inv, NEW q \in Procs, StartFails(q),
         req[q].doing \in {"checking", "handing"} \/ (req[q].doing = "starting" /\ req[req[q].run].doing \in {"done", "refused"}),
         GameTyped', Grow, Len(sessions') = Len(sessions), RowsTyped', Rows({q}), Hands({q})
  PROVE  Inv'
<1>0. PICK r \in Runs : req[q].run = r
  <2>1. KnowsRun(q) BY Now
  <2> QED BY <2>1, Now, TypeParts DEF KnowsRun
<1> DEFINE m == [req[q] EXCEPT !.doing = "failing", !.handle = 0]
           n == [Idle EXCEPT !.doing = "to log out", !.at = r]
<1>1. /\ q \in Requests /\ q \notin Runs /\ TypeOK /\ req \in [Procs -> Request(Len(sessions))] /\ OwnRun(q)
  BY Now DEF Lives, Starts
<1>2. /\ r \in Runs /\ r # None /\ record[r] = "starting" /\ req[q].pilot # None
      /\ req[r].doing \in {"idle", "done", "refused"}
  <2>1. KnowsRun(q) BY Now
  <2> QED BY <2>1, TypeParts, NoneApart, <1>0, <1>1 DEF KnowsRun
<1>3. r \in Procs /\ r \in WebSessions /\ q # r /\ r \notin Requests BY <1>1, <1>2, Now, NoneApart DEF Procs, WebSessions
<1>4. /\ record' = [record EXCEPT ![r] = "ending"] /\ UNCHANGED <<charOps, sessOps, claim>>
      /\ req' = [req EXCEPT ![q] = m, ![r] = n]
  <2>1. req' = [req EXCEPT ![q].doing = "failing", ![q].handle = 0, ![r] = n] BY <1>0 DEF StartFails
  <2> QED BY <1>0, <1>1, <1>3, <2>1 DEF StartFails
<1>5. req'[q] = m /\ req'[r] = n /\ \A x \in Procs \ {q, r} : req'[x] = req[x] BY <1>1, <1>3, <1>4
<1>6. /\ m \in Request(Len(sessions)) /\ m.doing = "failing" /\ m.run = r /\ m.pilot = req[q].pilot /\ m.at = req[q].at
      /\ m.gave = req[q].gave
  <2>1. "failing" \in Doings BY DEF Doings
  <2>2. 0 \in 0..Len(sessions) /\ req[q] \in Request(Len(sessions)) BY Now
  <2> QED BY ONLY <1>0, <2>1, <2>2 DEF Request
<1>7. /\ n \in Request(Len(sessions)) /\ n.doing = "to log out" /\ n.run = None /\ n.at = r
      /\ n.gave = FALSE /\ n.back = FALSE
  <2>1. "to log out" \in Doings BY DEF Doings
  <2>2. Idle \in Request(Len(sessions)) BY <1>1, OverTyped
  <2>3. n \in Request(Len(sessions)) BY ONLY <1>3, <2>1, <2>2 DEF Request
  <2> QED BY <2>3 DEF Idle
<1>8. req' \in [Procs -> Request(Len(sessions'))] BY <1>1, <1>4, <1>6, <1>7
<1> HIDE DEF m, n
<1>9. ReservesTyped' /\ ReservesOwn(q) BY <1>1, <1>4, ReservesStand
<1>10. ClaimsTyped' /\ record'[r] = "ending" /\ \A x \in Runs : x # r => record'[x] = record[x]
  BY <1>1, <1>2, <1>4, TypesNow DEF ClaimsTyped
<1>11. ClaimsKept({r}) BY <1>4, <1>10 DEF ClaimsKept
<1>12. ClaimsStand'
  <2>1. \A p \in Pilots : claim[p] \in Runs \cup {None} BY <1>1, TypesNow DEF ClaimsTyped
  <2> QED BY <1>4, <1>10, <2>1 DEF Inv, ClaimsStand
<1>13. \A x \in Procs : x # q => req[x].run # r BY <1>0, <1>1, <1>2 DEF OwnRun
<1>14. held'[r] \in {0, held[r]}
  <2>1. \A x \in {q} : Starts(x) BY Now
  <2>2. {q} \in SUBSET Procs /\ r \notin {q} BY <1>3
  <2> QED BY <1>1, <1>2, <2>1, <2>2, RowOfRun
<1>15. Reserves(q)'
  <2>1. req[q].gave => req[q].at # None
    <3>1. Reserves(q) BY Now
    <3> QED BY ONLY <3>1 DEF Reserves
  <2>2. req'[q].doing = "failing" /\ (req'[q].gave => req'[q].at # None) BY <1>5, <1>6, <2>1
  <2> QED BY ONLY <2>2 DEF Reserves, Taking, InHand
<1>16. KnowsRun(q)'
  <2>1. /\ req'[q].doing = "failing" /\ req'[q].run # None /\ req'[q].pilot # None /\ record'[req'[q].run] = "ending"
    BY <1>2, <1>5, <1>6, <1>10
  <2> QED BY ONLY <2>1 DEF KnowsRun
<1>17. OfItsKind(q)'
  <2>1. req[q].at \in Tabs \cup {None} BY <1>1, Now DEF OfItsKind
  <2> QED BY <1>1, <1>5, <1>6, <2>1 DEF OfItsKind
<1>18. Reserves(r)' BY ONLY <1>5, <1>7 DEF Reserves, Taking, InHand
<1>19. KnowsRun(r)' BY ONLY <1>5, <1>7 DEF KnowsRun
<1>20. OfItsKind(r)' BY ONLY <1>3, <1>5, <1>7 DEF OfItsKind
<1>21. held'[r] # 0 => claim'[PilotIn(r)'] = r
  <2>1. Lives(r) BY <1>2, <1>3, Now
  <2>2. ASSUME held'[r] # 0 PROVE PilotIn(r)' = PilotIn(r) /\ held[r] # 0
    <3>1. held'[r] = held[r] /\ held[r] \in 1..Len(sessions) /\ PilotIn(r) = sessions[held[r]].pilot
      BY <1>1, <1>3, <1>14, <2>2, TypeParts
    <3>2. PilotIn(r)' = sessions'[held[r]].pilot BY <2>2, <3>1 DEF PilotIn, Of
    <3>3. sessions'[held[r]].pilot = sessions[held[r]].pilot BY <3>1 DEF Grow
    <3> QED BY <2>2, <3>1, <3>2, <3>3
  <2> QED BY <1>4, <2>1, <2>2 DEF Lives
<1>22. Lives(r)' BY ONLY <1>5, <1>7, <1>10, <1>21 DEF Lives
<1>23. FliesOn(r) BY ONLY <1>4, <1>5, <1>7, <1>14 DEF FliesOn, Flies
<1>24. /\ req'[q].run \in {None, r} /\ req'[r].run = None /\ ~(req'[q].doing \in Taking)
       /\ ~(req[r].doing \in InHand) /\ ~(req[q].doing \in Taking)
  BY <1>2, <1>5, <1>6, <1>7 DEF Taking, InHand
<1> QED BY <1>1, <1>2, <1>5, <1>8, <1>9, <1>10, <1>11, <1>12, <1>13, <1>15, <1>16, <1>17, <1>18, <1>19, <1>20, <1>22, <1>23, <1>24, RunStep

\* The caller was looked at.
LEMMA CheckAnswersKeeps ==
  ASSUME Inv, NEW q \in Procs, CheckAnswers(q)
  PROVE  Inv'
<1>1. req[q].doing = "checking" /\ UNCHANGED <<sessions, late, lost>> BY DEF CheckAnswers
<1>2. q \in Requests /\ q \notin Runs /\ TypeOK /\ req[q].handle \in 1..Len(sessions) /\ req[q].at \in WebSessions
  BY <1>1, Now DEF Lives, Reserves
<1>3. GameTyped' /\ Grow /\ Len(sessions') = Len(sessions) BY <1>1, <1>2, GameStands
<1>4. Hands({q}) BY <1>1, <1>2, <1>3, HandsOver DEF InHand
<1>5. ASSUME StartFails(q), IF Live(req[q].handle) THEN UNCHANGED <<held, fenced>> ELSE Forget(req[q].at, req[q].handle)
      PROVE  Inv'
  <2>1. RowsTyped' /\ Rows({q})
    <3>1. CASE Live(req[q].handle) BY <1>2, <1>3, <1>5, <3>1, RowsStand
    <3>2. CASE ~Live(req[q].handle)
      <4>1. sessions'[req[q].handle].at # "live" BY <1>1, <3>2 DEF Live
      <4> QED BY <1>2, <1>3, <1>5, <3>2, <4>1, ForgetKeeps
    <3> QED BY <3>1, <3>2
  <2> QED BY <1>1, <1>3, <1>4, <1>5, <2>1, StartFailsKeeps
<1>6. ASSUME held[req[q].at] = req[q].handle, req' = [req EXCEPT ![q].doing = "handing"], UNCHANGED <<held, fenced, host>>
      PROVE  Inv'
  <2> DEFINE m == [req[q] EXCEPT !.doing = "handing"]
  <2>1. req' = [req EXCEPT ![q] = m] BY <1>6, Now
  <2>2. req'[q] = m /\ \A x \in Procs : x # q => req'[x] = req[x] BY <2>1, Now
  <2>3. /\ m \in Request(Len(sessions)) /\ m.doing = "handing" /\ m.run = req[q].run /\ m.pilot = req[q].pilot
        /\ m.at = req[q].at /\ m.gave = req[q].gave /\ m.back = req[q].back /\ m.handle = req[q].handle
    <3>1. "handing" \in Doings BY DEF Doings
    <3>2. req[q] \in Request(Len(sessions)) BY Now
    <3> QED BY ONLY <3>1, <3>2 DEF Request
  <2> HIDE DEF m
  <2>4. UNCHANGED <<charOps, sessOps, claim, record>> BY <1>6 DEF host
  <2>5. ReservesTyped' /\ ReservesOwn(q) BY <1>2, <2>4, ReservesStand
  <2>6. RowsTyped' /\ Rows({q}) BY <1>2, <1>3, <1>6, RowsStand
  <2>7. Reserves(q)'
    <3>1. sessions[req[q].handle].pilot = req[q].pilot /\ sessOps[req[q].at] = q BY <1>1, <1>2, Now, NoneApart DEF Reserves
    <3>2. /\ req'[q].doing = "handing" /\ req'[q].at # None /\ req'[q].handle # 0 /\ sessOps'[req'[q].at] = q
          /\ sessions'[req'[q].handle].pilot = req'[q].pilot /\ held'[req'[q].at] = req'[q].handle
      BY <1>1, <1>2, <1>6, <2>2, <2>3, <2>4, <3>1, NoneApart
    <3> QED BY ONLY <3>2 DEF Reserves, Taking, InHand
  <2>8. KnowsRun(q)'
    <3>1. /\ req[q].run # None /\ req[q].run \in Runs /\ record[req[q].run] = "starting" /\ req[q].pilot # None
          /\ claim[req[q].pilot] = req[q].run /\ req[req[q].run].doing = "idle" /\ held[req[q].run] = 0
      BY <1>1, <1>2, Now, TypeParts DEF KnowsRun
    <3>2. req'[req[q].run] = req[req[q].run] BY <1>2, <2>2, <3>1 DEF Procs
    <3>3. /\ req'[q].run # None /\ record'[req'[q].run] = "starting" /\ req'[q].pilot # None
          /\ claim'[req'[q].pilot] = req'[q].run /\ req'[req'[q].run].doing = "idle" /\ held'[req'[q].run] = 0
          /\ req'[q].doing = "handing"
      BY <1>6, <2>2, <2>3, <2>4, <3>1, <3>2
    <3> QED BY ONLY <3>3 DEF KnowsRun
  <2>9. OfItsKind(q)'
    <3>1. OfItsKind(q) BY Now
    <3> QED BY ONLY <3>1, <2>2, <2>3 DEF OfItsKind
  <2>10. ~(m.doing \in Taking) /\ m \in Request(Len(sessions')) BY <1>3, <2>3 DEF Taking
  <2> QED BY <1>1, <1>2, <1>3, <1>4, <2>1, <2>3, <2>4, <2>5, <2>6, <2>7, <2>8, <2>9, <2>10, OneStep
<1> QED BY <1>5, <1>6 DEF CheckAnswers

\* The caller's session is released, or the start fails.
LEMMA HandAnswersKeeps ==
  ASSUME Inv, NEW q \in Procs, HandAnswers(q)
  PROVE  Inv'
<1>1. req[q].doing = "handing" /\ UNCHANGED late BY DEF HandAnswers
<1>2. PICK outcome \in {"released", "unconfirmed", "not found", "lost"} :
       /\ Released(req[q].handle, outcome)
       /\ Confirmed(req[q].at, req[q].handle, outcome)
       /\ IF outcome \in {"released", "not found"}
            THEN Transferred(q, [req[q] EXCEPT !.gave = TRUE], charOps) /\ UNCHANGED <<sessOps, claim, record>>
            ELSE StartFails(q)
  BY DEF HandAnswers
<1>3. q \in Requests /\ q \notin Runs /\ TypeOK /\ req[q].handle \in 1..Len(sessions) /\ req[q].at \in WebSessions
  BY <1>1, Now DEF Lives, Reserves
<1>4. /\ GameTyped' /\ Grow /\ Len(sessions') = Len(sessions)
      /\ outcome # "lost" => lost' = lost /\ sessions'[req[q].handle].at # "live"
      /\ outcome = "lost" => lost' # 0
  BY <1>1, <1>2, <1>3, ReleaseKeeps
<1>5. RowsTyped' /\ Rows({q})
  <2>1. CASE outcome \in {"released", "not found"}
    <3>1. Forget(req[q].at, req[q].handle) BY <1>2, <2>1 DEF Confirmed
    <3> QED BY <1>3, <1>4, <2>1, <3>1, ForgetKeeps
  <2>2. CASE outcome \notin {"released", "not found"}
    <3>1. UNCHANGED <<held, fenced>> BY <1>2, <2>2 DEF Confirmed
    <3> QED BY <1>3, <1>4, <2>2, <3>1, RowsStand
  <2> QED BY <2>1, <2>2
<1>6. Hands({q}) BY <1>1, <1>3, <1>4, HandsOver DEF InHand
<1>7. CASE outcome \in {"released", "not found"}
  <2> DEFINE rec == [req[q] EXCEPT !.gave = TRUE]
             r == req[q].run
  <2>1. Transferred(q, rec, charOps) /\ UNCHANGED <<sessOps, claim, record>> BY <1>2, <1>7
  <2>2. /\ rec \in Request(Len(sessions)) /\ rec.run = r /\ rec.pilot = req[q].pilot /\ rec.at = req[q].at
    <3>1. req[q] \in Request(Len(sessions)) BY Now
    <3> QED BY ONLY <3>1 DEF Request
  <2> HIDE DEF rec
  <2>3. /\ r # None /\ r \in Runs /\ record[r] = "starting" /\ req[q].pilot \in Pilots
        /\ claim[req[q].pilot] = r /\ req[r].doing = "idle" /\ held[r] = 0
    BY <1>1, <1>3, Now, TypeParts DEF KnowsRun
  <2>4. \A x \in Procs : x # q => req[x].run # r BY <2>3, Now DEF Starts, OwnRun
  <2>5. ReservesTyped /\ ClaimsTyped' BY <1>3, <2>1, TypesNow DEF ClaimsTyped
  <2>6. ClaimsKept({r}) /\ ClaimsStand' BY <2>1 DEF ClaimsKept, ClaimsStand, Inv
  <2>7. req[q].at \in Tabs \cup {None} /\ req[q].at # None /\ ~(req[q].doing \in Taking)
    BY <1>1, <1>3, Now, NoneApart DEF OfItsKind, Taking
  <2>8. /\ charOps \in [Pilots -> Procs \cup {None}] /\ sessOps' \in [WebSessions -> Procs \cup {None}]
        /\ record'[r] = "starting" /\ claim'[rec.pilot] = r /\ \A s \in WebSessions : sessOps'[s] = sessOps[s]
    BY <2>1, <2>2, <2>3, <2>5 DEF ReservesTyped
  <2>9. rec.pilot \in Pilots /\ rec.at \in Tabs \cup {None} /\ rec.at # None BY <2>2, <2>3, <2>7
  <2> HIDE DEF r
  <2> QED BY <1>3, <1>4, <1>5, <1>6, <2>1, <2>2, <2>3, <2>4, <2>5, <2>6, <2>7, <2>8, <2>9, TransferKeeps
<1>8. CASE outcome \notin {"released", "not found"}
  <2>1. StartFails(q) BY <1>2, <1>8
  <2> QED BY <1>1, <1>4, <1>5, <1>6, <2>1, StartFailsKeeps
<1> QED BY <1>7, <1>8

\* The run has its pilot and flies, or the start fails.
LEMMA StartReturnsKeeps ==
  ASSUME Inv, NEW q \in Procs, StartReturns(q)
  PROVE  Inv'
<1>1. req[q].doing = "starting" /\ UNCHANGED <<sessions, late, lost, held, fenced>> BY DEF StartReturns
<1>2. q \in Requests /\ q \notin Runs /\ TypeOK /\ req \in [Procs -> Request(Len(sessions))] /\ OwnRun(q)
  BY <1>1, Now DEF Lives, Starts
<1>3. GameTyped' /\ Grow /\ Len(sessions') = Len(sessions) BY <1>1, <1>2, GameStands
<1>4. RowsTyped' /\ Rows({q}) BY <1>1, <1>2, <1>3, RowsStand
<1>5. Hands({q}) BY <1>1, <1>2, <1>3, HandsOver DEF InHand
<1>6. ASSUME req[req[q].run].doing \in {"done", "refused"}, StartFails(q) PROVE Inv'
  BY <1>1, <1>3, <1>4, <1>5, <1>6, StartFailsKeeps
<1>7. ASSUME req[req[q].run].doing = "done", record' = [record EXCEPT ![req[q].run] = "flying"],
             req' = [req EXCEPT ![q] = Idle, ![req[q].run] = Idle], Free(q), UNCHANGED claim
      PROVE  Inv'
  <2>1. PICK r \in Runs : req[q].run = r
    <3>1. KnowsRun(q) BY Now
    <3> QED BY <1>1, <3>1, Now, TypeParts DEF KnowsRun
  <2>2. /\ r \in Procs /\ r \in WebSessions /\ q # r /\ r \notin Requests /\ req[r].doing = "done" /\ record[r] = "starting"
    BY <1>1, <1>2, <1>7, <2>1, Now, NoneApart DEF Procs, WebSessions, KnowsRun
  <2>3. /\ Idle \in Request(Len(sessions')) /\ Idle.doing = "idle" /\ Idle.run = None /\ Idle.at = None
        /\ Idle.gave = FALSE /\ Idle.back = FALSE
    BY <1>2, <1>3, OverTyped DEF Idle
  <2>4. req'[q] = Idle /\ req'[r] = Idle /\ \A x \in Procs \ {q, r} : req'[x] = req[x] BY <1>2, <1>7, <2>1, <2>2
  <2>5. req' \in [Procs -> Request(Len(sessions'))] BY <1>2, <1>3, <1>7, <2>3
  <2>6. ReservesTyped' /\ ReservesOwn(q) BY <1>2, <1>7, FreeKeeps
  <2>7. ClaimsTyped' /\ record'[r] = "flying" /\ \A x \in Runs : x # r => record'[x] = record[x]
    BY <1>2, <1>7, <2>1, TypesNow DEF ClaimsTyped
  <2>8. ClaimsKept({r}) BY <1>7, <2>7 DEF ClaimsKept
  <2>9. ClaimsStand'
    <3>1. \A p \in Pilots : claim[p] \in Runs \cup {None} BY <1>2, TypesNow DEF ClaimsTyped
    <3> QED BY <1>7, <2>7, <3>1 DEF Inv, ClaimsStand
  <2>10. \A x \in Procs : x # q => req[x].run # r BY <1>2, <2>1, NoneApart DEF OwnRun
  <2>11. ASSUME NEW x \in {q, r} PROVE Reserves(x)' /\ KnowsRun(x)' /\ OfItsKind(x)' /\ req'[x].doing = "idle"
    <3>1. /\ req'[x].doing = "idle" /\ req'[x].run = None /\ req'[x].at = None /\ req'[x].gave = FALSE
          /\ req'[x].back = FALSE
      BY <2>3, <2>4, <2>11
    <3>2. Reserves(x)' BY ONLY <3>1 DEF Reserves, Taking, InHand
    <3>3. KnowsRun(x)' BY ONLY <3>1 DEF KnowsRun
    <3>4. OfItsKind(x)' BY ONLY <3>1 DEF OfItsKind
    <3> QED BY <3>1, <3>2, <3>3, <3>4
  <2>12. held' = held /\ sessions' = sessions /\ claim' = claim BY <1>1, <1>7
  <2>13. PilotIn(r)' = PilotIn(r) BY <2>12 DEF PilotIn, Of
  <2>14. Lives(r) BY <2>2, Now
  <2>15. Lives(r)' BY ONLY <2>7, <2>11, <2>12, <2>13, <2>14 DEF Lives
  <2>16. FliesOn(r) BY ONLY <2>11, <2>12 DEF FliesOn, Flies
  <2>17. /\ req'[q].run \in {None, r} /\ req'[r].run = None /\ ~(req'[q].doing \in Taking)
         /\ ~(req[r].doing \in InHand) /\ ~(req[q].doing \in Taking)
    BY <1>1, <2>2, <2>3, <2>4 DEF Taking, InHand
  <2> QED BY <1>2, <1>3, <1>4, <1>5, <2>4, <2>5, <2>6, <2>7, <2>8, <2>9, <2>10, <2>11, <2>15, <2>16, <2>17, RunStep
<1> QED BY <1>6, <1>7 DEF StartReturns

\* A start that failed gives the pilot back, or is over.
LEMMA StartFailedKeeps ==
  ASSUME Inv, NEW q \in Procs, StartFailed(q)
  PROVE  Inv'
<1>1. req[q].doing = "failed" /\ UNCHANGED <<sessions, late, lost, held, fenced, claim, record>> BY DEF StartFailed
<1>2. q \in Requests /\ q \notin Runs /\ TypeOK /\ ~(req[q].doing \in Taking) BY <1>1, Now DEF Lives, Taking
<1>3. CASE ~MayGiveBack(q)
  <2>1. req' = [req EXCEPT ![q] = Idle] /\ Free(q) BY <1>3 DEF StartFailed
  <2> QED BY <1>1, <1>2, <2>1, IdleAgainKeeps
<1>4. CASE MayGiveBack(q)
  <2>0. /\ req[q].gave /\ charOps[req[q].pilot] = None /\ sessOps[req[q].at] = q BY <1>4 DEF MayGiveBack
  <2>1. /\ charOps' = [charOps EXCEPT ![req[q].pilot] = q]
        /\ req' = [req EXCEPT ![q].doing = "asking", ![q].back = TRUE, ![q].run = None]
        /\ UNCHANGED sessOps
    BY <1>4 DEF StartFailed
  <2> DEFINE m == [req[q] EXCEPT !.doing = "asking", !.back = TRUE, !.run = None]
  <2>2. req' = [req EXCEPT ![q] = m] BY <2>1, Now
  <2>3. req'[q] = m BY <2>2, Now
  <2>4. /\ m \in Request(Len(sessions)) /\ m.doing = "asking" /\ m.run = None /\ m.pilot = req[q].pilot
        /\ m.at = req[q].at /\ m.gave = req[q].gave /\ m.back = TRUE
    <3>1. "asking" \in Doings BY DEF Doings
    <3>2. req[q] \in Request(Len(sessions)) BY Now
    <3> QED BY ONLY <3>1, <3>2 DEF Request
  <2> HIDE DEF m
  <2>5. req[q].at # None /\ req[q].pilot # None /\ req[q].pilot \in Pilots
    BY <1>1, <2>0, Now DEF Reserves, KnowsRun
  <2>6. GameTyped' /\ Grow /\ Len(sessions') = Len(sessions) BY <1>1, <1>2, GameStands
  <2>7. RowsTyped' /\ Rows({q}) BY <1>1, <1>2, <2>6, RowsStand
  <2>8. Hands({q}) BY <1>1, <1>2, <2>6, HandsOver DEF InHand
  <2>9. ReservesTyped' /\ ReservesOwn(q) /\ charOps'[req[q].pilot] = q
    <3>1. ReservesTyped /\ q \in Procs BY <1>2, TypesNow
    <3> QED BY <2>0, <2>1, <2>5, <3>1 DEF ReservesTyped, ReservesOwn
  <2>10. Reserves(q)'
    <3>1. /\ req'[q].doing = "asking" /\ req'[q].at # None /\ req'[q].pilot # None /\ sessOps'[req'[q].at] = q
          /\ charOps'[req'[q].pilot] = q /\ req'[q].run = None
      BY <2>0, <2>1, <2>3, <2>4, <2>5, <2>9
    <3> QED BY ONLY <3>1 DEF Reserves, Taking, InHand
  <2>11. KnowsRun(q)'
    <3>1. req'[q].doing = "asking" /\ req'[q].back BY <2>3, <2>4
    <3> QED BY ONLY <3>1 DEF KnowsRun
  <2>12. OfItsKind(q)'
    <3>1. req[q].at \in Tabs \cup {None} BY <1>2, Now DEF OfItsKind
    <3> QED BY <1>2, <2>3, <2>4, <3>1 DEF OfItsKind
  <2>13. ~(m.doing \in Taking) /\ m \in Request(Len(sessions')) /\ m.run \in {None, req[q].run} BY <2>4, <2>6 DEF Taking
  <2> QED BY <1>1, <1>2, <2>2, <2>6, <2>7, <2>8, <2>9, <2>10, <2>11, <2>12, <2>13, OneStep
<1> QED BY <1>3, <1>4

-----------------------------------------------------------------------------
(* The end of a run.                                                       *)

LEMMA FinalizeKeeps ==
  ASSUME Inv, NEW r \in Runs, Finalize(r)
  PROVE  Inv'
<1> DEFINE n == [Idle EXCEPT !.doing = "to log out", !.at = r]
<1>1. /\ record[r] \in {"flying", "blocked"} /\ record' = [record EXCEPT ![r] = "ending"]
      /\ req' = [req EXCEPT ![r] = n]
      /\ UNCHANGED <<sessions, late, lost, held, fenced, charOps, sessOps, claim>>
  BY DEF Finalize
<1>2. /\ r \in Procs /\ r \in WebSessions /\ r \notin Requests /\ TypeOK /\ Lives(r) /\ ClaimsTyped
      /\ req \in [Procs -> Request(Len(sessions))]
  BY NoneApart, TypesNow DEF Inv, Procs, WebSessions
<1>3. req[r].doing = "idle" BY <1>1, <1>2 DEF Lives
<1>4. GameTyped' /\ Grow /\ Len(sessions') = Len(sessions) BY <1>1, <1>2, GameStands
<1>5. RowsTyped' /\ Rows({r}) BY <1>1, <1>2, <1>4, RowsStand
<1>6. ReservesTyped' BY <1>1, <1>2, ReservesStand
<1>7. /\ n \in Request(Len(sessions')) /\ n.doing = "to log out" /\ n.run = None /\ n.at = r
      /\ n.gave = FALSE /\ n.back = FALSE
  <2>1. "to log out" \in Doings BY DEF Doings
  <2>2. Idle \in Request(Len(sessions')) BY <1>2, <1>4, OverTyped
  <2>3. n \in Request(Len(sessions')) BY ONLY <1>2, <2>1, <2>2 DEF Request
  <2> QED BY <2>3 DEF Idle
<1>8. req'[r] = n /\ (\A x \in Procs : x # r => req'[x] = req[x]) /\ req' \in [Procs -> Request(Len(sessions'))]
  BY <1>1, <1>2, <1>4, <1>7
<1> HIDE DEF n
<1>9. ClaimsTyped' /\ record'[r] = "ending" /\ \A x \in Runs : x # r => record'[x] = record[x]
  BY <1>1, <1>2 DEF ClaimsTyped
<1>10. TypeOK' BY <1>4, <1>5, <1>6, <1>8, <1>9, TypesThen
<1>11. ClaimsStand'
  <2>1. \A p \in Pilots : claim[p] \in Runs \cup {None} BY <1>2 DEF ClaimsTyped
  <2> QED BY <1>1, <1>9, <2>1 DEF Inv, ClaimsStand
<1>12. RunsKept({r})
  <2> SUFFICES ASSUME NEW x \in Procs \ {r}, req[x].run # None
               PROVE  /\ req'[r].run # req[x].run
                      /\ req[x].doing \in OfRun =>
                           /\ record'[req[x].run] = record[req[x].run]
                           /\ req[req[x].run].doing = "idle" => req'[req[x].run].doing = "idle"
    BY <1>1 DEF RunsKept
  <2>1. req'[r].run # req[x].run BY <1>7, <1>8
  <2>2. req[x].run \in Runs /\ req[x].run \in Procs BY <1>2, TypeParts DEF Procs
  <2>3. ASSUME req[x].doing \in OfRun PROVE req[x].run # r
    <3>1. KnowsRun(x) /\ Reserves(x) /\ x \in Procs BY Now
    <3>2. (req[x].back /\ req[x].doing = "asking") \/ record[req[x].run] \in {"unused", "starting", "ending"}
      BY <2>3, <3>1 DEF KnowsRun, OfRun, Reserves
    <3>3. CASE record[req[x].run] \in {"unused", "starting", "ending"} BY <1>1, <3>3
    <3>4. CASE req[x].back /\ req[x].doing = "asking" BY <3>1, <3>4 DEF Reserves
    <3> QED BY <3>2, <3>3, <3>4
  <2> QED BY <1>8, <1>9, <2>1, <2>2, <2>3
<1>13. Guarantee({r})
  <2>1. Untouched({r}) BY <1>1, <1>8 DEF Untouched
  <2>2. ClaimsKept({r}) BY <1>1, <1>9 DEF ClaimsKept
  <2>3. TakesUnclaimed({r}) BY <1>2 DEF TakesUnclaimed
  <2>4. Hands({r}) BY <1>1, <1>2, <1>3, <1>4, HandsOver DEF InHand
  <2> QED BY <1>4, <1>5, <1>12, <2>1, <2>2, <2>3, <2>4 DEF Guarantee
<1>14. Reserves(r)' BY ONLY <1>7, <1>8 DEF Reserves, Taking, InHand
<1>15. Starts(r)'
  <2>1. OfItsKind(r)' BY ONLY <1>2, <1>7, <1>8 DEF OfItsKind
  <2>2. KnowsRun(r)' BY ONLY <1>7, <1>8 DEF KnowsRun
  <2>3. OwnRun(r)' BY <1>7, <1>8 DEF OwnRun
  <2> QED BY <2>1, <2>2, <2>3 DEF Starts
<1>16. held' = held /\ sessions' = sessions /\ claim' = claim BY <1>1
<1>17. PilotIn(r)' = PilotIn(r) BY <1>16 DEF PilotIn, Of
<1>18. Lives(r)' BY ONLY <1>2, <1>7, <1>8, <1>9, <1>16, <1>17 DEF Lives
<1>19. FliesOn(r) BY ONLY <1>7, <1>8, <1>16 DEF FliesOn, Flies
<1>20. /\ {r} \in SUBSET Procs /\ \A x \in {r} : Reserves(x)' /\ Starts(x)'
       /\ \A x \in {r} \cap Runs : Lives(x)' /\ (FliesOn(x) \/ Alone(x)')
  BY <1>2, <1>14, <1>15, <1>18, <1>19
<1> QED BY <1>10, <1>11, <1>13, <1>20, StepKeeps

\* The finalize of a run is over: its claim goes only with its row.
LEMMA FinalizedKeeps ==
  ASSUME Inv, NEW r \in Runs, Finalized(r)
  PROVE  Inv'
<1> DEFINE waits == {x \in Procs : req[x].doing = "failing" /\ req[x].run = r}
           Q == {r} \cup waits
<1>1. /\ record[r] = "ending" /\ req[r].doing \in {"done", "refused"} /\ req' = Resolved(r)
      /\ UNCHANGED <<sessions, late, lost, held, fenced, charOps, sessOps>>
      /\ IF req[r].doing = "done"
           THEN /\ record' = [record EXCEPT ![r] = "ended"]
                /\ claim' = [p \in Pilots |-> IF claim[p] = r THEN None ELSE claim[p]]
           ELSE record' = [record EXCEPT ![r] = "blocked"] /\ UNCHANGED claim
  BY DEF Finalized
<1>2. /\ r \in Procs /\ r \in WebSessions /\ r \notin Requests /\ r # None /\ TypeOK /\ Lives(r) /\ ClaimsTyped
      /\ req \in [Procs -> Request(Len(sessions))] /\ Q \in SUBSET Procs
  BY NoneApart, TypesNow DEF Inv, Procs, WebSessions
<1>3. req[r].doing = "done" => held[r] = 0 BY <1>1, <1>2 DEF Lives
<1>4. GameTyped' /\ Grow /\ Len(sessions') = Len(sessions) BY <1>1, <1>2, GameStands
<1>5. RowsTyped' /\ Rows(Q) BY <1>1, <1>2, <1>4, RowsStand
<1>6. ReservesTyped' BY <1>1, <1>2, ReservesStand
<1>7. /\ Idle \in Request(Len(sessions)) /\ Idle.doing = "idle" /\ Idle.run = None /\ Idle.at = None
      /\ Idle.gave = FALSE /\ Idle.back = FALSE
  BY <1>2, OverTyped DEF Idle
<1>8. /\ req'[r] = Idle
      /\ \A x \in waits : x # r => req'[x] = [req[x] EXCEPT !.doing = "failed"]
      /\ \A x \in Procs \ Q : req'[x] = req[x]
  BY <1>1, <1>2 DEF Resolved
<1>9. ASSUME NEW x \in waits
      PROVE  /\ x \in Requests /\ x \in Procs /\ x # r /\ x \notin Runs
             /\ req'[x] \in Request(Len(sessions)) /\ req'[x].doing = "failed" /\ req'[x].at = req[x].at
             /\ req'[x].run = r /\ req'[x].pilot = req[x].pilot /\ req'[x].gave = req[x].gave
  <2>1. x \in Requests /\ x \in Procs /\ x \notin Runs BY <1>9, Now DEF Lives
  <2>2. x # r BY <1>2, <2>1
  <2>3. req'[x] = [req[x] EXCEPT !.doing = "failed"] /\ req[x].run = r BY <1>8, <1>9, <2>2
  <2>4. "failed" \in Doings BY DEF Doings
  <2>5. req[x] \in Request(Len(sessions)) BY <1>2, <2>1
  <2>6. /\ req'[x] \in Request(Len(sessions)) /\ req'[x].doing = "failed" /\ req'[x].at = req[x].at
        /\ req'[x].run = r /\ req'[x].pilot = req[x].pilot /\ req'[x].gave = req[x].gave
    BY ONLY <2>3, <2>4, <2>5 DEF Request
  <2> QED BY <2>1, <2>2, <2>6
<1>10. req' \in [Procs -> Request(Len(sessions'))]
  <2>1. \A x \in Procs : req'[x] \in Request(Len(sessions)) BY <1>2, <1>7, <1>8, <1>9
  <2>2. req' = [x \in Procs |-> req'[x]] BY <1>1 DEF Resolved
  <2> QED BY <1>4, <2>1, <2>2
<1>11. /\ ClaimsTyped' /\ record'[r] \in {"ended", "blocked"} /\ \A x \in Runs : x # r => record'[x] = record[x]
       /\ record'[r] = "ended" => held[r] = 0 /\ \A p \in Pilots : claim'[p] # r
       /\ record'[r] = "blocked" => claim' = claim
       /\ \A p \in Pilots : claim'[p] = claim[p] \/ (claim[p] = r /\ claim'[p] = None)
  <2>1. CASE req[r].doing = "done" BY <1>1, <1>2, <1>3, <2>1 DEF ClaimsTyped
  <2>2. CASE req[r].doing = "refused" BY <1>1, <1>2, <2>2 DEF ClaimsTyped
  <2> QED BY <1>1, <2>1, <2>2
<1>12. TypeOK' BY <1>4, <1>5, <1>6, <1>10, <1>11, TypesThen
<1>13. ClaimsStand'
  <2>1. \A p \in Pilots : claim[p] \in Runs \cup {None} BY <1>2 DEF ClaimsTyped
  <2>2. ASSUME NEW p \in Pilots, claim'[p] # None PROVE record'[claim'[p]] \in {"starting", "flying", "ending", "blocked"}
    BY <1>11, <2>1, <2>2 DEF Inv, ClaimsStand
  <2>3. ASSUME NEW p \in Pilots, NEW x \in Pilots, claim'[p] # None, claim'[x] = claim'[p] PROVE x = p
    BY <1>11, <2>3 DEF Inv, ClaimsStand
  <2> QED BY <2>2, <2>3 DEF ClaimsStand
<1>14. RunsKept(Q)
  <2> SUFFICES ASSUME NEW x \in Procs \ Q, req[x].run # None
               PROVE  /\ \A y \in Q : req'[y].run # req[x].run
                      /\ req[x].doing \in OfRun =>
                           /\ record'[req[x].run] = record[req[x].run]
                           /\ \A p \in Pilots : claim[p] = req[x].run => claim'[p] = req[x].run
                           /\ req[req[x].run].doing = "idle" => req'[req[x].run].doing = "idle"
    BY DEF RunsKept
  <2>1. x \in Procs /\ KnowsRun(x) /\ Reserves(x) /\ OwnRun(x) /\ req[x].run \in Runs BY Now, TypeParts DEF Starts
  <2>2. ASSUME NEW y \in Q PROVE req'[y].run # req[x].run
    <3>1. CASE y = r BY <1>7, <1>8, <3>1
    <3>2. CASE y \in waits
      <4>1. req'[y].run = r /\ req[y].run = r /\ y \in Procs BY <1>9, <3>2
      <4> QED BY <2>1, <2>2, <4>1 DEF OwnRun
    <3> QED BY <2>2, <3>1, <3>2
  <2>3. ASSUME req[x].doing \in OfRun PROVE req[x].run # r
    <3>1. CASE req[x].doing = "failing" BY <2>1, <3>1
    <3>2. CASE req[x].doing # "failing"
      <4>1. (req[x].back /\ req[x].doing = "asking") \/ record[req[x].run] \in {"unused", "starting"}
        BY <2>1, <2>3, <3>2 DEF KnowsRun, OfRun, Reserves
      <4>2. ~(req[x].back /\ req[x].doing = "asking") BY <2>1 DEF Reserves
      <4> QED BY <1>1, <4>1, <4>2
    <3> QED BY <3>1, <3>2
  <2>4. ASSUME req[x].doing \in OfRun
        PROVE  /\ record'[req[x].run] = record[req[x].run]
               /\ \A p \in Pilots : claim[p] = req[x].run => claim'[p] = req[x].run
               /\ req[req[x].run].doing = "idle" => req'[req[x].run].doing = "idle"
    <3>1. req[x].run # r /\ req[x].run \in Procs /\ req[x].run \in Runs BY <2>1, <2>3, <2>4 DEF Procs
    <3>2. req[x].run \notin waits BY <1>9, <3>1
    <3>3. req'[req[x].run] = req[req[x].run] BY <1>8, <3>1, <3>2
    <3> QED BY <1>11, <3>1, <3>3
  <2> QED BY <2>2, <2>4
<1>15. Guarantee(Q)
  <2>1. Untouched(Q) BY <1>1, <1>8 DEF Untouched
  <2>2. ClaimsKept(Q)
    <3>1. \A p \in Pilots : claim'[p] = claim[p] \/ {claim[p], claim'[p]} \subseteq Q \cup {None} BY <1>11
    <3> QED BY <1>11, <3>1 DEF ClaimsKept
  <2>3. TakesUnclaimed(Q)
    <3>1. \A x \in Q \cap Requests : ~(req'[x].doing \in Taking) BY <1>2, <1>9 DEF Taking
    <3> QED BY <3>1 DEF TakesUnclaimed
  <2>4. Hands(Q)
    <3>1. \A x \in Q : ~(req[x].doing \in InHand) BY <1>1 DEF InHand
    <3>2. Len(sessions) \in Nat BY <1>2, TypeParts
    <3> QED BY <1>1, <3>1, <3>2 DEF Hands
  <2> QED BY <1>4, <1>5, <1>14, <2>1, <2>2, <2>3, <2>4 DEF Guarantee
<1>16. Reserves(r)' BY ONLY <1>7, <1>8 DEF Reserves, Taking, InHand
<1>17. Starts(r)'
  <2>1. OfItsKind(r)' BY ONLY <1>7, <1>8, <1>2 DEF OfItsKind
  <2>2. KnowsRun(r)' BY ONLY <1>7, <1>8 DEF KnowsRun
  <2>3. OwnRun(r)' BY <1>7, <1>8 DEF OwnRun
  <2> QED BY <2>1, <2>2, <2>3 DEF Starts
<1>18. ASSUME NEW x \in waits PROVE Reserves(x)' /\ Starts(x)'
  <2>1. /\ x \in Procs /\ Reserves(x) /\ KnowsRun(x) /\ OfItsKind(x) /\ OwnRun(x) /\ x \notin Runs
        /\ req[x].doing = "failing" /\ req[x].run = r
    BY <1>9, Now DEF Starts
  <2>2. Reserves(x)'
    <3>1. req'[x].doing = "failed" /\ (req'[x].gave => req'[x].at # None) BY <1>9, <1>18, <2>1 DEF Reserves
    <3> QED BY ONLY <3>1 DEF Reserves, Taking, InHand
  <2>3. KnowsRun(x)'
    <3>1. req'[x].doing = "failed" /\ req'[x].run # None /\ req'[x].pilot # None BY <1>2, <1>9, <1>18, <2>1 DEF KnowsRun
    <3> QED BY ONLY <3>1 DEF KnowsRun
  <2>4. OfItsKind(x)'
    <3>1. req[x].at \in Tabs \cup {None} BY <1>9, <1>18, <2>1 DEF OfItsKind
    <3>2. req'[x].at = req[x].at /\ req'[x].doing = "failed" BY <1>9, <1>18
    <3> QED BY ONLY <2>1, <3>1, <3>2 DEF OfItsKind
  <2>5. ASSUME NEW y \in Procs, req'[y].run = r PROVE y = x
    <3>1. CASE y = r BY <1>2, <1>7, <1>8, <2>5, <3>1
    <3>2. CASE y \in waits BY <1>2, <2>1, <3>2 DEF OwnRun
    <3>3. CASE y \notin Q BY <1>2, <1>8, <2>1, <2>5, <3>3 DEF OwnRun
    <3> QED BY <3>1, <3>2, <3>3
  <2>6. OwnRun(x)'
    <3>1. req'[x].run = r BY <1>9, <1>18
    <3> QED BY <2>5, <3>1 DEF OwnRun
  <2> QED BY <2>2, <2>3, <2>4, <2>6 DEF Starts
<1>19. held' = held /\ sessions' = sessions BY <1>1
<1>20. PilotIn(r)' = PilotIn(r) /\ (held[r] # 0 => PilotIn(r) \in Pilots)
  BY <1>2, <1>19, TypeParts DEF PilotIn, Of
<1>21. held'[r] # 0 => claim'[PilotIn(r)'] = r
  BY <1>2, <1>11, <1>19, <1>20 DEF Lives
<1>22. req'[r].doing = "idle" BY <1>7, <1>8
<1>23. record'[r] = "ended" => held'[r] = 0 BY <1>11, <1>19
<1>24. Lives(r)' BY ONLY <1>11, <1>21, <1>22, <1>23 DEF Lives
<1>25. FliesOn(r)
  <2>1. \A p \in Pilots : claim'[p] = r => claim[p] = r BY <1>2, <1>11
  <2> QED BY ONLY <1>19, <1>22, <2>1 DEF FliesOn, Flies
<1>26. /\ \A x \in Q : Reserves(x)' /\ Starts(x)'
       /\ \A x \in Q \cap Runs : Lives(x)' /\ (FliesOn(x) \/ Alone(x)')
  BY <1>9, <1>16, <1>17, <1>18, <1>24, <1>25
<1> HIDE DEF Q
<1> QED BY <1>2, <1>12, <1>13, <1>15, <1>26, StepKeeps

-----------------------------------------------------------------------------
(* The invariant.                                                          *)

LEMMA InitInv == Init => Inv
<1> SUFFICES ASSUME Init PROVE Inv OBVIOUS
<1> USE NoneApart
<1>1. sessions = <<>> /\ Len(sessions) = 0 /\ late = {} /\ lost = 0 /\ fenced = {} BY DEF Init
<1>2. \A s \in WebSessions : held[s] = 0 /\ PilotIn(s) = None BY DEF Init, PilotIn, Of
<1>3. \A q \in Procs : /\ req[q].doing = "idle" /\ req[q].at = None /\ req[q].run = None
                       /\ req[q].gave = FALSE /\ req[q].back = FALSE
  BY DEF Init, Idle
<1>4. \A p \in Pilots : claim[p] = None BY DEF Init
<1>5. \A r \in Runs : record[r] = "unused" /\ r \in Procs /\ r \in WebSessions BY DEF Init, Procs, WebSessions
<1>6. TypeOK
  <2>1. Idle \in Request(0)
    <3>1. 0 \in 0..0 /\ "idle" \in Doings /\ FALSE \in BOOLEAN BY DEF Doings
    <3> QED BY ONLY <3>1 DEF Idle, Request
  <2>2. req \in [Procs -> Request(Len(sessions))] BY <1>1, <2>1 DEF Init
  <2>3. GameTyped BY <1>1 DEF GameTyped
  <2>4. RowsTyped BY <1>1 DEF Init, RowsTyped
  <2>5. ReservesTyped /\ ClaimsTyped BY DEF Init, ReservesTyped, ClaimsTyped
  <2> QED BY <2>2, <2>3, <2>4, <2>5 DEF TypeOK, GameTyped, RowsTyped, ReservesTyped, ClaimsTyped, Session, Request
<1>7. ASSUME NEW q \in Procs PROVE Reserves(q) /\ Starts(q)
  <2>1. Reserves(q) BY ONLY <1>3, <1>7 DEF Reserves, Taking, InHand
  <2>2. OfItsKind(q) BY <1>3, <1>7 DEF OfItsKind
  <2>3. KnowsRun(q) BY ONLY <1>3, <1>7 DEF KnowsRun
  <2>4. OwnRun(q) BY <1>3 DEF OwnRun
  <2> QED BY <2>1, <2>2, <2>3, <2>4 DEF Starts
<1>8. ASSUME NEW r \in Runs PROVE Lives(r) /\ Alone(r)
  <2>1. Lives(r) BY ONLY <1>2, <1>3, <1>5, <1>8 DEF Lives
  <2>2. Alone(r) BY <1>4 DEF Alone
  <2> QED BY <2>1, <2>2
<1>9. ClaimsStand BY <1>4 DEF ClaimsStand
<1>10. LateIsLost /\ EverySessionAccountedFor BY <1>1 DEF LateIsLost, EverySessionAccountedFor
<1> QED BY <1>6, <1>7, <1>8, <1>9, <1>10 DEF Inv

LEMMA AskLogoutKeeps ==
  ASSUME Inv, NEW q \in Requests, NEW s \in Tabs, AskLogout(q, s)
  PROVE  Inv'
<1>1. q \in Procs /\ s \in WebSessions BY DEF Procs, WebSessions
<1>2. /\ req[q].doing = "idle" /\ held[s] # 0 /\ MayLeave(s) /\ LogoutBegins(q, s)
      /\ UNCHANGED <<sessions, late, lost, held, fenced, sessOps, claim, record>>
  BY DEF AskLogout
<1> QED BY <1>1, <1>2, LogoutBeginsKeeps

LEMMA AskSelectKeeps ==
  ASSUME Inv, NEW q \in Requests, NEW s \in Tabs, NEW p \in Pilots, AskSelect(q, s, p)
  PROVE  Inv'
<1>1. q \in Procs /\ s \in WebSessions BY DEF Procs, WebSessions
<1>2. /\ req[q].doing = "idle" /\ MayClaim(s, p) /\ Unreserved(s, p) /\ MayLeave(s) /\ SelectBegins(q, s, p)
      /\ UNCHANGED <<sessions, late, lost, claim, record>>
  BY DEF AskSelect
<1> QED BY <1>1, <1>2, SelectBeginsKeeps

LEMMA StutterKeeps ==
  ASSUME Inv, UNCHANGED vars
  PROVE  Inv'
<1>1. UNCHANGED <<sessions, late, lost, held, fenced, charOps, sessOps, claim, record, req>> BY DEF vars
<1>2. TypeOK' BY <1>1 DEF Inv, TypeOK
<1>3. Guarantee({})
  <2>1. TypeOK BY DEF Inv
  <2>2. Grow BY <1>1, <2>1, GameStands
  <2>3. Rows({}) BY <1>1 DEF Rows, RowMoves
  <2>4. Hands({})
    <3>1. Len(sessions) \in Nat BY <2>1, TypeParts
    <3> QED BY <1>1, <3>1 DEF Hands
  <2>5. Untouched({}) /\ RunsKept({}) /\ ClaimsKept({}) /\ TakesUnclaimed({})
    BY <1>1 DEF Untouched, RunsKept, ClaimsKept, TakesUnclaimed
  <2> QED BY <2>2, <2>3, <2>4, <2>5 DEF Guarantee
<1>4. ClaimsStand' BY <1>1 DEF Inv, ClaimsStand
<1> DEFINE Q == {}
<1>5. Guarantee(Q) /\ Q \in SUBSET Procs /\ (\A x \in Q : FALSE) BY <1>3
<1> HIDE DEF Q
<1> QED BY <1>2, <1>4, <1>5, StepKeeps

LEMMA AnswersKeeps ==
  ASSUME Inv, NEW q \in Procs, Answers(q)
  PROVE  Inv'
BY LeaveAnswersKeeps, GameSelectsKeeps, SelectFailsKeeps, SelectAnswersKeeps, CleanAnswersKeeps, LogoutAnswersKeeps,
   ReadAnswersKeeps, ProbeAnswersKeeps, StatusAnswersKeeps, CheckAnswersKeeps, HandAnswersKeeps, StartReturnsKeeps,
   StartFailedKeeps DEF Answers

LEMMA NextKeeps ==
  ASSUME Inv, [Next]_vars
  PROVE  Inv'
<1>1. CASE UNCHANGED vars BY <1>1, StutterKeeps
<1>2. CASE Next
  <2>1. ASSUME NEW q \in Requests, NEW s \in Tabs, AskLogout(q, s) \/ AskRead(q, s) PROVE Inv'
    BY <2>1, AskLogoutKeeps, AskReadKeeps
  <2>2. ASSUME NEW q \in Requests, NEW s \in Tabs, NEW p \in Pilots, AskSelect(q, s, p) PROVE Inv'
    BY <2>2, AskSelectKeeps
  <2>3. ASSUME NEW q \in Requests, NEW s \in Tabs, NEW p \in Pilots, NEW r \in Runs, AskStart(q, s, p, r) PROVE Inv'
    BY <2>3, AskStartKeeps
  <2>4. ASSUME NEW q \in Requests, NEW p \in Pilots, NEW r \in Runs, Resume(q, p, r) PROVE Inv'
    BY <2>4, ResumeKeeps
  <2>5. ASSUME NEW q \in Procs, Answers(q) PROVE Inv' BY <2>5, AnswersKeeps
  <2>6. ASSUME NEW r \in Runs, RunGoesOn(r) \/ Finalize(r) PROVE Inv'
    BY <2>6, RunSelectsKeeps, RunLogsOutKeeps, FinalizedKeeps, FinalizeKeeps DEF RunGoesOn
  <2>7. ASSUME NEW h \in DOMAIN sessions, GameEnds(h) PROVE Inv' BY <2>7, GameEndsKeeps
  <2>8. ASSUME NEW p \in Pilots, LateSelect(p) PROVE Inv' BY <2>8, LateSelectKeeps
  <2> QED BY <1>2, <2>1, <2>2, <2>3, <2>4, <2>5, <2>6, <2>7, <2>8 DEF Next
<1> QED BY <1>1, <1>2

\* Everything below rests on this: what every request has reserved and knows, what
\* every run may be doing, and that a run has the pilot it claims to itself, hold in
\* whatever order the handlers, the game server's answers and its own endings come.
THEOREM InvAlways == Spec => []Inv
<1>1. Init => Inv BY InitInv
<1>2. Inv /\ [Next]_vars => Inv' BY NextKeeps
<1> QED BY <1>1, <1>2, PTL DEF Spec

\* Every row and every request names a session the game server did begin, and no
\* variable leaves its type, whatever the number of tabs, runs, pilots and requests.
THEOREM OwnershipTyped == Spec => []TypeOK
<1>1. Inv => TypeOK BY DEF Inv
<1> QED BY <1>1, InvAlways, PTL

-----------------------------------------------------------------------------
(* The properties.                                                         *)

\* While a hosted run flies a pilot, no tab has him (bridge/select and bots in
\* server.js, with the claims of botHost.js): the run's claim stands, and no tab's row
\* is of the pilot, however the tabs' selects, logouts and Starts interleave with it.
THEOREM OneDriverAlways == Spec => []OneDriver
<1>1. Inv => OneDriver
  <2> SUFFICES ASSUME Inv, NEW r \in Runs, record[r] = "flying", held[r] # 0
               PROVE  /\ claim[sessions[held[r]].pilot] = r
                      /\ \A s \in Tabs : PilotIn(s) = PilotIn(r) => ~Live(held[s])
    BY DEF OneDriver
  <2>1. TypeOK /\ Lives(r) /\ Alone(r) /\ r \in WebSessions BY DEF Inv, WebSessions
  <2>2. PilotIn(r) = sessions[held[r]].pilot /\ PilotIn(r) \in Pilots BY <2>1, TypeParts
  <2>3. claim[PilotIn(r)] = r BY <2>1 DEF Lives
  <2>4. \A s \in Tabs : PilotIn(s) # PilotIn(r) BY <2>1, <2>2, <2>3 DEF Alone, Flies
  <2> QED BY <2>2, <2>3, <2>4
<1> QED BY <1>1, InvAlways, PTL

\* A claim stands until the release of the run's session is confirmed (finalize() in
\* botHost.js): it is of a run that is not over, and a run that is over has no row.
THEOREM ClaimsKeptAlways == Spec => []ClaimKeptUntilReleased
<1>1. Inv => ClaimKeptUntilReleased BY DEF Inv, ClaimsStand, Lives, ClaimKeptUntilReleased
<1> QED BY <1>1, InvAlways, PTL

\* While no call is lost no session that is alive is forgotten (server.js, every path
\* that drops or replaces a row): a row names it or a request has it in its hands.
THEOREM SessionsAccountedFor == Spec => []EverySessionAccountedFor
<1>1. Inv => EverySessionAccountedFor BY DEF Inv
<1> QED BY <1>1, InvAlways, PTL

\* Only its own answer ends a request that waits for a confirmed release.
LEMMA OthersLeave ==
  ASSUME Inv, Next, NEW q \in Procs, req[q].doing \in {"logging out", "handing"}, req'[q].doing # req[q].doing
  PROVE  LogoutAnswers(q) \/ HandAnswers(q)
<1>1. req \in [Procs -> Request(Len(sessions))] BY Now
<1>2. \A x \in Procs : req[x].run # None => req[x].run \in Runs BY Now, TypeParts
<1>3. ASSUME NEW x \in Requests, NEW s \in Tabs, AskLogout(x, s) \/ AskRead(x, s) PROVE FALSE
  BY <1>1, <1>3 DEF AskLogout, AskRead, LogoutBegins
<1>4. ASSUME NEW x \in Requests, NEW s \in Tabs, NEW p \in Pilots, AskSelect(x, s, p) PROVE FALSE
  BY <1>1, <1>4 DEF AskSelect, SelectBegins
<1>5. ASSUME NEW r \in Runs, record[r] \in {"unused", "flying", "blocked"}, r = q PROVE FALSE
  BY <1>5 DEF Inv, Lives
<1>6. ASSUME NEW x, NEW rec, NEW rows, NEW co, NEW so, x # q, rec.run # q, Probes(x, rec, rows, co, so) PROVE FALSE
  BY <1>1, <1>6 DEF Probes, Claims, Transferred
<1>7. ASSUME NEW x \in Requests, NEW r \in Runs, NEW s \in Tabs, NEW p \in Pilots, AskStart(x, s, p, r) PROVE FALSE
  <2> DEFINE rec == [Idle EXCEPT !.at = s, !.pilot = p, !.run = r]
  <2>1. /\ x # q /\ r # q /\ Probes(x, rec, held, [charOps EXCEPT ![p] = x], [sessOps EXCEPT ![s] = x])
    BY <1>5, <1>7 DEF AskStart, Fresh
  <2>2. rec.run = r BY DEF Idle
  <2> HIDE DEF rec
  <2> QED BY <1>6, <2>1, <2>2
<1>8. ASSUME NEW x \in Requests, NEW r \in Runs, NEW p \in Pilots, Resume(x, p, r) PROVE FALSE
  <2> DEFINE rec == [Idle EXCEPT !.pilot = p, !.run = r]
  <2>1. x # q /\ r # q /\ Probes(x, rec, held, charOps, sessOps)
    BY <1>5, <1>8 DEF Resume, Fresh
  <2>2. rec.run = r BY DEF Idle
  <2> HIDE DEF rec
  <2> QED BY <1>6, <2>1, <2>2
<1>9. ASSUME NEW x \in Procs, Answers(x) PROVE LogoutAnswers(q) \/ HandAnswers(q)
  <2>1. CASE LeaveAnswers(x) BY <1>1, <2>1 DEF LeaveAnswers
  <2>2. CASE GameSelects(x) BY <1>1, <2>2 DEF GameSelects
  <2>3. CASE SelectFails(x) BY <1>1, <2>3 DEF SelectFails
  <2>4. CASE SelectAnswers(x) BY <1>1, <2>4 DEF SelectAnswers
  <2>5. CASE CleanAnswers(x) BY <1>1, <2>5 DEF CleanAnswers
  <2>6. CASE LogoutAnswers(x)
    <3>1. x # q => req'[q] = req[q] BY <1>1, <2>6 DEF LogoutAnswers
    <3> QED BY <2>6, <3>1
  <2>7. CASE ReadAnswers(x) BY <1>1, <2>7 DEF ReadAnswers
  <2>8. KnowsRun(x) /\ OfItsKind(x) /\ Reserves(x) BY Now
  <2>9. ASSUME req[x].doing \in {"probing", "asking"}, ~req[x].back PROVE req[x].run # q /\ x # q
    BY <1>2, <1>5, <2>8, <2>9 DEF KnowsRun
  <2>10. CASE ProbeAnswers(x)
    <3>1. req[x].doing = "probing" /\ ~req[x].back BY <2>8, <2>10 DEF ProbeAnswers, Reserves
    <3>2. CASE StartRefused(x) BY <1>1, <3>1, <3>2 DEF StartRefused
    <3>3. CASE Probes(x, req[x], Without(req[x].row, req[x].handle), charOps, sessOps) BY <1>6, <2>9, <3>1, <3>3
    <3> QED BY <2>10, <3>2, <3>3 DEF ProbeAnswers
  <2>11. CASE StatusAnswers(x)
    <3>1. req[x].doing = "asking" BY <2>11 DEF StatusAnswers
    <3>2. CASE StartRefused(x) BY <1>1, <3>1, <3>2 DEF StartRefused
    <3>3. CASE ~req[x].back /\ Claims(x, req[x], held, charOps, sessOps)
      BY <1>1, <2>9, <3>1, <3>3 DEF Claims, Transferred
    <3>4. CASE req' = [req EXCEPT ![x].doing = "selecting"] BY <1>1, <3>1, <3>4
    <3> QED BY <2>11, <3>2, <3>3, <3>4 DEF StatusAnswers
  <2>12. ASSUME StartFails(x), req[x].run # q, x # q PROVE FALSE BY <1>1, <2>12 DEF StartFails
  <2>13. ASSUME req[x].doing \in {"checking", "handing"} PROVE req[x].run # q
    <3>1. req[req[x].run].doing = "idle" BY <2>8, <2>13 DEF KnowsRun
    <3> QED BY <3>1
  <2>14. CASE CheckAnswers(x)
    <3>1. req[x].doing = "checking" BY <2>14 DEF CheckAnswers
    <3>2. CASE req' = [req EXCEPT ![x].doing = "handing"] BY <1>1, <3>1, <3>2
    <3> QED BY <2>12, <2>13, <2>14, <3>1, <3>2 DEF CheckAnswers
  <2>15. CASE HandAnswers(x)
    <3>1. req[x].doing = "handing" /\ req[x].run # q BY <2>13, <2>15 DEF HandAnswers
    <3>2. ASSUME x # q, Transferred(x, [req[x] EXCEPT !.gave = TRUE], charOps) PROVE FALSE
      <4>1. [req[x] EXCEPT !.gave = TRUE].run = req[x].run BY <1>1 DEF Request
      <4> QED BY <1>1, <3>1, <3>2, <4>1 DEF Transferred
    <3> QED BY <2>12, <2>15, <3>1, <3>2 DEF HandAnswers
  <2>16. CASE StartReturns(x)
    <3>1. req[x].doing = "starting" /\ req[req[x].run].doing \in {"done", "refused"} BY <2>16 DEF StartReturns
    <3>2. req[x].run # q /\ x # q BY <3>1
    <3>3. CASE req' = [req EXCEPT ![x] = Idle, ![req[x].run] = Idle] BY <1>1, <3>2, <3>3
    <3> QED BY <2>12, <2>16, <3>2, <3>3 DEF StartReturns
  <2>17. CASE StartFailed(x) BY <1>1, <2>17 DEF StartFailed
  <2> QED BY <1>9, <2>1, <2>2, <2>3, <2>4, <2>5, <2>6, <2>7, <2>10, <2>11, <2>14, <2>15, <2>16, <2>17 DEF Answers
<1>10. ASSUME NEW r \in Runs, RunGoesOn(r) \/ Finalize(r) PROVE FALSE
  <2>1. CASE RunSelects(r) BY <1>1, <2>1 DEF RunSelects, SelectBegins
  <2>2. CASE RunLogsOut(r) BY <1>1, <2>2 DEF RunLogsOut, LogoutBegins
  <2>3. CASE Finalized(r)
    <3>1. req[r].doing \in {"done", "refused"} /\ req' = Resolved(r) BY <2>3 DEF Finalized
    <3>2. req'[q] = req[q] BY <3>1 DEF Resolved
    <3> QED BY <3>2
  <2>4. CASE Finalize(r)
    <3>1. r # q BY <1>5, <2>4 DEF Finalize
    <3> QED BY <1>1, <2>4, <3>1 DEF Finalize
  <2> QED BY <1>10, <2>1, <2>2, <2>3, <2>4 DEF RunGoesOn
<1>11. ASSUME NEW h \in DOMAIN sessions, GameEnds(h) PROVE FALSE BY <1>11 DEF GameEnds
<1>12. ASSUME NEW p \in Pilots, LateSelect(p) PROVE FALSE BY <1>12 DEF LateSelect
<1> QED BY <1>3, <1>4, <1>7, <1>8, <1>9, <1>10, <1>11, <1>12 DEF Next

\* A row given up by a logout or by the hand-over to a run (releaseHeldBridgeSession()
\* with its release confirmed) is of a session that no longer answers, even where the
\* row was dropped by another handler while the release was under way.
THEOREM LetGoOnlyWhenGone == Spec => NeverLetGoAlive
<1> DEFINE Gone == \A q \in Procs : req[q].doing \in {"logging out", "handing"} /\ req'[q].doing # req[q].doing
                                     /\ held'[req[q].at] = 0
                      => ~(sessions'[req[q].handle].at = "live")
<1>1. Inv /\ Next => Gone
  <2> SUFFICES ASSUME Inv, Next, NEW q \in Procs, req[q].doing \in {"logging out", "handing"},
                      req'[q].doing # req[q].doing, held'[req[q].at] = 0
               PROVE  sessions'[req[q].handle].at # "live"
    OBVIOUS
  <2>1. /\ TypeOK /\ req[q].handle \in 1..Len(sessions) /\ req[q].handle # 0
        /\ held[req[q].at] = req[q].handle \/ sessions[req[q].handle].at # "live"
    BY Now DEF Reserves, InHand
  <2>2. PICK outcome \in {"released", "unconfirmed", "not found", "lost"} :
          Released(req[q].handle, outcome) /\ Confirmed(req[q].at, req[q].handle, outcome) /\ UNCHANGED late
    BY OthersLeave DEF LogoutAnswers, HandAnswers
  <2>3. Grow /\ (outcome # "lost" => sessions'[req[q].handle].at # "live") BY <2>1, <2>2, ReleaseKeeps
  <2>4. CASE outcome = "lost"
    <3>1. held' = held BY <2>2, <2>4 DEF Confirmed
    <3>2. sessions[req[q].handle].at # "live" BY <2>1, <3>1
    <3> QED BY <2>1, <2>3, <3>2 DEF Grow
  <2> QED BY <2>3, <2>4
<1>2. Inv /\ [Next]_vars => [Gone]_vars BY <1>1
<1>3. Spec => [][Gone]_vars BY <1>2, InvAlways, PTL DEF Spec
<1> QED BY <1>3 DEF NeverLetGoAlive
=============================================================================
