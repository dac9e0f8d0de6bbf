------------------------ MODULE MiningOperationProofs ------------------------
(***************************************************************************)
(* Proofs about MiningOperation, for any operations, crews, targets and    *)
(* troubles: the types, that every claim is known, that a stopped          *)
(* operation has nobody out, that a Stop gives up a target only when the   *)
(* work at it has ended, and that a crew leaves no miner behind.           *)
(***************************************************************************)
EXTENDS MiningOperation, TLAPS

\* What a runtime, a target on the board, a launch, a Stop and what a tick read are made of.
Targeted == [target : Targets, claimed : BOOLEAN]
Drain    == [target : Targets, pending : (SUBSET Haulers) \ {{}}]
Barrier  == [required : SUBSET Pilots, ready : SUBSET Pilots]
Runtime  == [run : Runs, current : Targeted \cup {None}, drains : SUBSET Drain,
             barrier : Barrier \cup {None}, authorityLoss : BOOLEAN, released : BOOLEAN]
States   == {"AVAILABLE", "RESERVED", "ACTIVE", "DRAINING", "DEPLETED"}
Entry    == [owner : Operations \cup {None}, spent : BOOLEAN, state : States]
Launch   == [phase : {"members", "mains"}, left : SUBSET Pilots]
Stop     == [returning : BOOLEAN, crossed : BOOLEAN, failed : SUBSET Pilots]
RowStates == {"draft", "starting", "running", "paused", "ready", "unstarted", "failed",
              "parked", "stopped"}
Bots     == {"none", "waiting", "running", "paused", "settled", "blocked"}
Legs     == {"none", "settle", "settled", "park", "stop"}
Seen     == [target : Targets \cup {None}, state : States \cup {"none"}, waits : BOOLEAN, ready : BOOLEAN]

Typed ==
  /\ board \in [Targets -> Entry] /\ op \in [Operations -> Runtime]
  /\ row \in [Pilots -> RowStates] /\ host \in [Pilots -> Bots] /\ leg \in [Pilots -> Legs]
  /\ launch \in [Operations -> Launch \cup {None}]
  /\ \A o \in Operations : launch[o] # None => launch[o].left \subseteq Crew(o)
  /\ stop \in [Operations -> Stop \cup {None}]
  /\ view \in [Pilots -> Seen \cup Targets \cup {None}]
  /\ hold \in [Pilots -> BOOLEAN] /\ rocks \in [Targets -> BOOLEAN]
  /\ steady \subseteq Pilots /\ home \subseteq Pilots

\* Every claim of the operation on the board is one it knows of.
Known(o, r, b) ==
  \A t \in Targets : b[t].owner = o =>
    \/ r.current # None /\ r.current.target = t
    \/ \E d \in r.drains : d.target = t

\* While the crew meets at the barrier the claim of the target they leave, if it is still
\* there, is the haulers': letting the barrier go forgets no claim.
Leaving(o, r, b) ==
  r.barrier # None =>
    /\ r.current # None /\ r.barrier.required \subseteq Crew(o)
    /\ b[r.current.target].owner = o => \E d \in r.drains : d.target = r.current.target

\* An operation that is not at work has no target.
AtRest(r) == r.run \in {"draft", "stopped"} => r.current = None /\ r.drains = {}

Sound(o, r, b) == r \in Runtime /\ Known(o, r, b) /\ Leaving(o, r, b) /\ AtRest(r)

\* A bot that a Stop waits for, or that is in a tick, is there; what a Stop waits for is of
\* its kind, and who has settled does nothing.
Awaited ==
  \A p \in Pilots :
    /\ leg[p] # "none" => Hosted(p) /\ stop[OperationOf[p]] # None
    /\ view[p] # None => Hosted(p)
    /\ leg[p] \in {"settled", "park"} => host[p] = "settled"
    /\ leg[p] \in {"settle", "settled", "park"} => stop[OperationOf[p]].returning
    /\ leg[p] = "stop" => ~stop[OperationOf[p]].returning

\* Whom a Start has still to start is not there, and has the row it was given.
Expected(o) ==
  /\ launch[o] # None => op[o].run # "draft"
  /\ launch[o] # None /\ launch[o].phase = "members" =>
       \A p \in launch[o].left : ~Hosted(p) /\ row[p] = "starting"

\* A Stop answers for every bot there is or is still to come: it waits for it or it has
\* failed.
Answered(o) ==
  stop[o] # None =>
    /\ \A p \in Crew(o) : Hosted(p) /\ leg[p] = "none" => p \in stop[o].failed
    /\ launch[o] # None /\ launch[o].phase = "members" => launch[o].left \subseteq stop[o].failed

\* An operation not begun, or stopped, has nobody there, and nobody to come.
Home(o) ==
  op[o].run \in {"draft", "stopped"} =>
    /\ stop[o] = None /\ HostedCrew(o) = {}
    /\ launch[o] # None /\ launch[o].phase = "members" => launch[o].left = {}

Inv ==
  /\ Typed /\ Awaited
  /\ \A o \in Operations : Sound(o, op[o], board) /\ Expected(o) /\ Answered(o) /\ Home(o)

\* A pilot is of one operation.
LEMMA CrewOf ==
  ASSUME NEW p \in Pilots
  PROVE  /\ OperationOf[p] \in Operations
         /\ \A o \in Operations : p \in Crew(o) <=> OperationOf[p] = o
BY CrewAssumption DEF Crew

\* A board on which an operation has no claim it had not: what it knows still holds.
LEMMA FewerClaims ==
  ASSUME NEW o, NEW r, NEW b, NEW c, Sound(o, r, b), \A t \in Targets : c[t].owner = o => b[t].owner = o
  PROVE  Sound(o, r, c)
<1>1. r \in Runtime /\ Known(o, r, b) /\ Leaving(o, r, b) /\ AtRest(r) BY DEF Sound
<1>2. Known(o, r, c) BY <1>1 DEF Known
<1>3. Leaving(o, r, c)
  <2>1. r.current # None => r.current.target \in Targets BY <1>1 DEF Runtime, Targeted
  <2> QED BY <1>1, <2>1 DEF Leaving
<1> QED BY <1>1, <1>2, <1>3 DEF Sound

\* Being at work again forgets nothing.
LEMMA WorkingSound ==
  ASSUME NEW o, NEW r, NEW b, Sound(o, r, b)
  PROVE  Sound(o, [r EXCEPT !.run = "working"], b)
<1> DEFINE s == [r EXCEPT !.run = "working"]
<1>1. s \in Runtime /\ s.run = "working" /\ s.current = r.current /\ s.drains = r.drains /\ s.barrier = r.barrier
  BY DEF Sound, Runtime, Runs
<1> QED BY <1>1 DEF Sound, Known, Leaving, AtRest

LEMMA DegradedSound ==
  ASSUME NEW o, NEW r, NEW b, Sound(o, r, b)
  PROVE  Sound(o, Degraded(r), b) /\ Degraded(r).run \in {r.run, "working"}
<1>1. [r EXCEPT !.run = "working"].run = "working" BY DEF Sound, Runtime
<1> QED BY <1>1, WorkingSound DEF Degraded

\* A target whose claim is lost is given up: nothing is forgotten with it.
LEMMA LoseClaimSound ==
  ASSUME NEW o, NEW r, NEW b, NEW t, Sound(o, r, b), b[t].owner # o
  PROVE  Sound(o, LoseClaim(r, t), b) /\ LoseClaim(r, t).run \in {r.run, "working"}
<1>1. CASE r.current # None /\ r.current.target = t
  <2> DEFINE s == [r EXCEPT !.current = None, !.barrier = None, !.authorityLoss = TRUE]
  <2>1. /\ s \in Runtime /\ s.run = r.run /\ s.current = None /\ s.drains = r.drains /\ s.barrier = None
        /\ s.authorityLoss = TRUE
    BY DEF Sound, Runtime
  <2>2. Sound(o, s, b) BY <1>1, <2>1 DEF Sound, Known, Leaving, AtRest
  <2> QED BY <1>1, <2>1, <2>2, DegradedSound DEF LoseClaim
<1>2. CASE ~(r.current # None /\ r.current.target = t) BY <1>2 DEF LoseClaim
<1> QED BY <1>1, <1>2

LEMMA LoseDrainsSound ==
  ASSUME NEW o, NEW r, NEW b, NEW lost, Sound(o, r, b), \A t \in lost : b[t].owner # o
  PROVE  Sound(o, LoseDrainClaims(r, lost), b) /\ LoseDrainClaims(r, lost).run \in {r.run, "working"}
<1> DEFINE s == [r EXCEPT !.drains = {d \in @ : d.target \notin lost}]
<1>1. /\ s \in Runtime /\ s.run = r.run /\ s.current = r.current /\ s.barrier = r.barrier
      /\ s.drains = {d \in r.drains : d.target \notin lost}
  BY DEF Sound, Runtime
<1>2. Sound(o, s, b)
  <2>1. Known(o, s, b)
    <3> SUFFICES ASSUME NEW t \in Targets, b[t].owner = o, ~(r.current # None /\ r.current.target = t)
                 PROVE  \E d \in s.drains : d.target = t
      BY <1>1 DEF Known
    <3>1. PICK d \in r.drains : d.target = t BY DEF Sound, Known
    <3> QED BY <1>1, <3>1
  <2>2. Leaving(o, s, b)
    <3> SUFFICES ASSUME r.barrier # None, b[r.current.target].owner = o
                 PROVE  \E d \in s.drains : d.target = r.current.target
      BY <1>1 DEF Sound, Leaving
    <3>1. PICK d \in r.drains : d.target = r.current.target BY DEF Sound, Leaving
    <3> QED BY <1>1, <3>1
  <2> QED BY <1>1, <2>1, <2>2 DEF Sound, AtRest
<1> QED BY <1>1, <1>2, DegradedSound DEF LoseDrainClaims

LEMMA KeepCurrentSound ==
  ASSUME NEW o, NEW r, Sound(o, r, board)
  PROVE  Sound(o, KeepCurrent(o, r), board) /\ KeepCurrent(o, r).run \in {r.run, "working"}
BY LoseClaimSound DEF KeepCurrent

\* The barrier is let go: the target it is at is the haulers' or nobody's.
LEMMA ReleaseSound ==
  ASSUME NEW o, NEW r, NEW b, Sound(o, r, b)
  PROVE  Sound(o, ReleaseIfReady(r), b) /\ ReleaseIfReady(r).run \in {r.run, "working"}
<1>1. CASE ReadyToGo(r)
  <2> DEFINE s == [r EXCEPT !.barrier = None, !.current = None, !.run = "working"]
  <2>1. /\ s \in Runtime /\ s.run = "working" /\ s.current = None /\ s.drains = r.drains /\ s.barrier = None
    BY DEF Sound, Runtime, Runs
  <2>2. Known(o, s, b) BY <1>1, <2>1 DEF Sound, Known, Leaving, ReadyToGo
  <2> QED BY <1>1, <2>1, <2>2 DEF ReleaseIfReady, Sound, Leaving, AtRest
<1>2. CASE ~ReadyToGo(r) BY <1>2 DEF ReleaseIfReady
<1> QED BY <1>1, <1>2

LEMMA WithoutSound ==
  ASSUME NEW o, NEW r, NEW b, NEW gone, Sound(o, r, b)
  PROVE  Sound(o, Without(r, gone), b) /\ Without(r, gone).run = "working"
<1> DEFINE s == [r EXCEPT !.run = "working"]
           w == [s EXCEPT !.barrier.required = @ \ gone]
<1>1. Sound(o, s, b) /\ s \in Runtime /\ s.run = "working" BY WorkingSound DEF Sound, Runtime
<1>2. CASE s.barrier = None BY <1>1, <1>2 DEF Without
<1>3. CASE s.barrier # None
  <2>1. s.barrier \in Barrier BY <1>1, <1>3 DEF Runtime
  <2>2. /\ w \in Runtime /\ w.run = "working" /\ w.current = s.current /\ w.drains = s.drains
        /\ w.barrier.required = s.barrier.required \ gone
    BY <1>1, <2>1 DEF Runtime, Barrier
  <2>3. Known(o, w, b) /\ AtRest(w) BY <1>1, <2>2 DEF Sound, Known, AtRest
  <2>4. Leaving(o, w, b) BY <1>1, <1>3, <2>2 DEF Sound, Leaving
  <2> QED BY <1>3, <2>2, <2>3, <2>4 DEF Sound, Without
<1> QED BY <1>2, <1>3

\* A member's readiness is noted, and the barrier let go when it was the last.
LEMMA ReadySound ==
  ASSUME NEW o, NEW r, NEW rows, NEW b, NEW p \in Pilots, Sound(o, r, b), r.barrier # None
  PROVE  Sound(o, ReadyAt(r, rows, p).op, b) /\ ReadyAt(r, rows, p).op.run \in {r.run, "working"}
<1> DEFINE s == [r EXCEPT !.barrier.ready = @ \cup {p}]
<1>1. r.barrier \in Barrier /\ r \in Runtime BY DEF Sound, Runtime
<1>2. /\ s \in Runtime /\ s.run = r.run /\ s.current = r.current /\ s.drains = r.drains
      /\ s.barrier.required = r.barrier.required
  BY <1>1 DEF Runtime, Barrier
<1>3. Sound(o, s, b) BY <1>2 DEF Sound, Known, Leaving, AtRest
<1> QED BY <1>2, <1>3, ReleaseSound DEF ReadyAt

LEMMA ClearedSound ==
  ASSUME NEW o, NEW r \in Runtime, NEW b, NEW run \in Runs, NEW released \in BOOLEAN,
         \A t \in Targets : b[t].owner # o
  PROVE  /\ Sound(o, [Cleared(r) EXCEPT !.run = run], b)
         /\ Sound(o, [[Cleared(r) EXCEPT !.released = released] EXCEPT !.run = run], b)
<1> DEFINE s == [Cleared(r) EXCEPT !.run = run]
           u == [[Cleared(r) EXCEPT !.released = released] EXCEPT !.run = run]
<1>1. \A x \in {s, u} : x \in Runtime /\ x.current = None /\ x.drains = {} /\ x.barrier = None
  BY DEF Cleared, Runtime
<1>2. \A x \in {s, u} : Sound(o, x, b) BY <1>1 DEF Sound, Known, Leaving, AtRest
<1> QED BY <1>2
-----------------------------------------------------------------------------
\* A step that moves no bot, no launch and no Stop.
LEMMA StandsStill ==
  ASSUME Inv, UNCHANGED <<launch, stop, leg, host, home>>,
         op' \in [Operations -> Runtime],
         \A o \in Operations : Sound(o, op'[o], board') /\ op'[o].run \in {op[o].run, "working"},
         board' \in [Targets -> Entry], row' \in [Pilots -> RowStates],
         \A p \in Pilots : row[p] = "starting" /\ ~Hosted(p) => row'[p] = "starting",
         view' \in [Pilots -> Seen \cup Targets \cup {None}],
         \A p \in Pilots : view'[p] # None => Hosted(p),
         hold' \in [Pilots -> BOOLEAN], rocks' \in [Targets -> BOOLEAN], steady' \subseteq Pilots
  PROVE  Inv'
<1>1. Typed' BY DEF Inv, Typed
<1>2. Awaited' BY DEF Inv, Awaited, Hosted
<1>3. ASSUME NEW o \in Operations PROVE (Sound(o, op[o], board) /\ Expected(o) /\ Answered(o) /\ Home(o))'
  <2>1. launch[o] # None => launch[o].left \subseteq Pilots BY DEF Inv, Typed, Crew
  <2>2. Expected(o)' BY <2>1 DEF Inv, Expected, Hosted
  <2>3. Answered(o)' BY DEF Inv, Answered, Hosted
  <2>4. Home(o)' BY DEF Inv, Home, HostedCrew, Hosted
  <2> QED BY <2>2, <2>3, <2>4
<1> QED BY <1>1, <1>2, <1>3 DEF Inv

\* One runtime changes.
LEMMA OneRuntime ==
  ASSUME Inv, NEW o \in Operations, NEW s, op' = [op EXCEPT ![o] = s], Sound(o, s, board'),
         s.run \in {op[o].run, "working"},
         \A x \in Operations \ {o}, t \in Targets : board'[t].owner = x => board[t].owner = x
  PROVE  /\ op' \in [Operations -> Runtime]
         /\ \A x \in Operations : Sound(x, op'[x], board') /\ op'[x].run \in {op[x].run, "working"}
<1>1. op \in [Operations -> Runtime] /\ \A x \in Operations : Sound(x, op[x], board) BY DEF Inv, Typed
<1>2. \A x \in Operations \ {o} : Sound(x, op[x], board') BY <1>1, FewerClaims
<1>3. s \in Runtime BY DEF Sound
<1> QED BY <1>1, <1>2, <1>3

\* None changes.
LEMMA NoRuntime ==
  ASSUME Inv, op' = op,
         \A x \in Operations, t \in Targets : board'[t].owner = x => board[t].owner = x
  PROVE  /\ op' \in [Operations -> Runtime]
         /\ \A x \in Operations : Sound(x, op'[x], board') /\ op'[x].run \in {op[x].run, "working"}
<1>1. op \in [Operations -> Runtime] /\ \A x \in Operations : Sound(x, op[x], board) BY DEF Inv, Typed
<1>2. \A x \in Operations : Sound(x, op[x], board') BY <1>1, FewerClaims
<1> QED BY <1>1, <1>2

\* The rows when a barrier is let go, and when the bots are reconciled.
LEMMA ReleasedRows ==
  ASSUME NEW r, NEW rows \in [Pilots -> RowStates]
  PROVE  /\ RowsAtRelease(r, rows) \in [Pilots -> RowStates]
         /\ \A p \in Pilots : rows[p] = "starting" => RowsAtRelease(r, rows)[p] = "starting"
BY DEF RowsAtRelease, RowStates

LEMMA ReconciledSound ==
  ASSUME Inv, NEW o \in Operations
  PROVE  Sound(o, Reconciled(o), board) /\ Reconciled(o).run \in {op[o].run, "working"}
<1>1. Sound(o, op[o], board) BY DEF Inv
<1>2. CASE Gone(o) = {} BY <1>1, <1>2 DEF Reconciled
<1>3. CASE Gone(o) # {}
  <2>1. Sound(o, Without(op[o], Gone(o)), board) /\ Without(op[o], Gone(o)).run = "working" BY <1>1,
                                                                                               WithoutSound
  <2> QED BY <1>3, <2>1, ReleaseSound DEF Reconciled
<1> QED BY <1>2, <1>3

LEMMA ReconciledRowsKept ==
  ASSUME Inv
  PROVE  /\ RowsReconciled \in [Pilots -> RowStates]
         /\ \A p \in Pilots : row[p] = "starting" /\ ~Hosted(p) => RowsReconciled[p] = "starting"
<1>1. /\ ReconciledRows \in [Pilots -> RowStates]
      /\ \A p \in Pilots : row[p] = "starting" /\ ~Hosted(p) => ReconciledRows[p] = "starting"
  BY DEF Inv, Typed, ReconciledRows, HostStatus, Gone, RowStates
<1>2. \A r : /\ RowsAtRelease(r, ReconciledRows) \in [Pilots -> RowStates]
             /\ \A p \in Pilots : ReconciledRows[p] = "starting"
                                    => RowsAtRelease(r, ReconciledRows)[p] = "starting"
  BY <1>1, ReleasedRows
<1>3. \A p \in Pilots : RowsReconciled[p] = ReconciledRows[p]
                        \/ \E r : RowsReconciled[p] = RowsAtRelease(r, ReconciledRows)[p]
  BY DEF RowsReconciled
<1>4. RowsReconciled = [p \in Pilots |-> RowsReconciled[p]] BY DEF RowsReconciled
<1>5. ASSUME NEW p \in Pilots
      PROVE  /\ RowsReconciled[p] \in RowStates
             /\ row[p] = "starting" /\ ~Hosted(p) => RowsReconciled[p] = "starting"
  <2>1. CASE RowsReconciled[p] = ReconciledRows[p] BY <1>1, <2>1
  <2>2. ASSUME NEW r, RowsReconciled[p] = RowsAtRelease(r, ReconciledRows)[p]
        PROVE  /\ RowsReconciled[p] \in RowStates
               /\ row[p] = "starting" /\ ~Hosted(p) => RowsReconciled[p] = "starting"
    BY <1>1, <1>2, <2>2
  <2> QED BY <1>3, <2>1, <2>2
<1> QED BY <1>4, <1>5
-----------------------------------------------------------------------------
\* A pilot looks.
LEMMA LookKeeps ==
  ASSUME Inv, NEW p \in Pilots, Look(p)
  PROVE  Inv'
<1> DEFINE o == OperationOf[p]
           kept == KeepCurrent(o, op[o])
           tails == {d.target : d \in {e \in kept.drains : p \in e.pending}}
           c == kept.current
<1>0. o \in Operations /\ Typed BY CrewOf DEF Inv
<1>1. Sound(o, kept, board) /\ kept.run \in {op[o].run, "working"} /\ kept \in Runtime
  BY <1>0, KeepCurrentSound DEF Inv, Sound
<1>2. /\ UNCHANGED <<board, row, launch, stop, leg, host, hold, rocks, steady, home>>
      /\ host[p] = "running" /\ view[p] = None
  BY DEF Look
<1>3. PICK tail \in IF tails = {} THEN {None} ELSE tails :
        LET lost == tail # None /\ board[tail].owner # o
        IN  /\ op' = [op EXCEPT ![o] = IF lost THEN LoseDrainClaims(kept, {tail}) ELSE kept]
            /\ view' = [view EXCEPT ![p] =
                  IF Stopping(o) THEN None
                  ELSE IF p \in Haulers THEN IF lost THEN None ELSE tail
                  ELSE [target |-> IF c = None THEN None ELSE c.target,
                        state |-> IF c = None THEN "none"
                                  ELSE IF c.claimed THEN board[c.target].state ELSE "DEPLETED",
                        waits |-> kept.barrier # None,
                        ready |-> kept.barrier # None /\ p \in kept.barrier.ready]]
  BY DEF Look
<1> DEFINE lost == tail # None /\ board[tail].owner # o
           s == IF lost THEN LoseDrainClaims(kept, {tail}) ELSE kept
<1>4. Sound(o, s, board) /\ s.run \in {op[o].run, "working"}
  <2>1. CASE lost
    <3>1. \A t \in {tail} : board[t].owner # o BY <2>1
    <3>2. Sound(o, LoseDrainClaims(kept, {tail}), board)
          /\ LoseDrainClaims(kept, {tail}).run \in {kept.run, "working"}
      BY <1>0, <1>1, <3>1, LoseDrainsSound
    <3> QED BY <1>1, <2>1, <3>2
  <2>2. CASE ~lost BY <1>1, <2>2
  <2> QED BY <2>1, <2>2
<1>5. /\ op' \in [Operations -> Runtime]
      /\ \A x \in Operations : Sound(x, op'[x], board') /\ op'[x].run \in {op[x].run, "working"}
  <2>1. op' = [op EXCEPT ![o] = s] BY <1>3
  <2>2. Sound(o, s, board') BY <1>2, <1>4
  <2> HIDE DEF s
  <2> QED BY <1>0, <1>2, <1>4, <2>1, <2>2, OneRuntime
<1>6. /\ view' \in [Pilots -> Seen \cup Targets \cup {None}]
      /\ \A q \in Pilots : view'[q] # None => Hosted(q)
  <2>1. tail \in Targets \cup {None} BY <1>1 DEF Runtime, Drain
  <2>2. c = None \/ (c.target \in Targets /\ board[c.target].state \in States)
    BY <1>0, <1>1 DEF Runtime, Targeted, Typed, Entry
  <2>3. [target |-> IF c = None THEN None ELSE c.target,
         state |-> IF c = None THEN "none" ELSE IF c.claimed THEN board[c.target].state ELSE "DEPLETED",
         waits |-> kept.barrier # None,
         ready |-> kept.barrier # None /\ p \in kept.barrier.ready] \in Seen
    BY <2>2 DEF Seen, States
  <2>4. \E v \in Seen \cup Targets \cup {None} : view' = [view EXCEPT ![p] = v]
    BY <1>3, <2>1, <2>3
  <2>5. PICK v \in Seen \cup Targets \cup {None} : view' = [view EXCEPT ![p] = v] BY <2>4
  <2>6. Hosted(p) /\ \A q \in Pilots : view[q] # None => Hosted(q) BY <1>2 DEF Hosted, Inv, Awaited
  <2> QED BY <1>0, <2>5, <2>6 DEF Typed
<1> QED BY <1>0, <1>2, <1>5, <1>6, StandsStill DEF Typed

\* The tick ends.
LEMMA TickEnds ==
  ASSUME Inv, NEW p \in Pilots, Ends(p)
  PROVE  /\ view' \in [Pilots -> Seen \cup Targets \cup {None}]
         /\ \A q \in Pilots : view'[q] # None => Hosted(q)
BY DEF Inv, Typed, Awaited, Ends

\* The steps of a tick that touch neither board nor runtime.
LEMMA QuietTickKeeps ==
  ASSUME Inv, NEW p \in Pilots, Idle(p) \/ Mine(p) \/ Unload(p)
  PROVE  Inv'
<1>1. /\ UNCHANGED <<board, op, row, launch, stop, leg, host, home, steady>> /\ Ends(p)
      /\ hold' \in [Pilots -> BOOLEAN] /\ rocks' \in [Targets -> BOOLEAN]
  BY DEF Inv, Typed, Idle, Mine, Unload
<1>2. /\ op' \in [Operations -> Runtime]
      /\ \A x \in Operations : Sound(x, op'[x], board') /\ op'[x].run \in {op[x].run, "working"}
  BY <1>1, NoRuntime
<1> QED BY <1>1, <1>2, TickEnds, StandsStill DEF Inv, Typed

LEMMA JettisonKeeps ==
  ASSUME Inv, NEW p \in Pilots, Jettison(p)
  PROVE  Inv'
<1> DEFINE o == OperationOf[p]
           s == [op[o] EXCEPT !.run = "working"]
<1>1. /\ UNCHANGED <<board, row, launch, stop, leg, host, home, steady, rocks>> /\ Ends(p)
      /\ hold' \in [Pilots -> BOOLEAN]
  BY DEF Inv, Typed, Jettison
<1>2. o \in Operations /\ Sound(o, op[o], board) /\ op \in [Operations -> Runtime] BY CrewOf DEF Inv, Typed
<1>3. CASE op' = op
  <2>1. /\ op' \in [Operations -> Runtime]
        /\ \A x \in Operations : Sound(x, op'[x], board') /\ op'[x].run \in {op[x].run, "working"}
    BY <1>1, <1>3, NoRuntime
  <2> QED BY <1>1, <2>1, TickEnds, StandsStill DEF Inv, Typed
<1>4. CASE op' = [op EXCEPT ![o].run = "working"]
  <2>1. Sound(o, s, board') /\ s.run = "working" BY <1>1, <1>2, WorkingSound DEF Runtime
  <2>2. op' = [op EXCEPT ![o] = s] BY <1>4
  <2> HIDE DEF s
  <2>3. /\ op' \in [Operations -> Runtime]
        /\ \A x \in Operations : Sound(x, op'[x], board') /\ op'[x].run \in {op[x].run, "working"}
    BY <1>1, <1>2, <2>1, <2>2, OneRuntime
  <2> QED BY <1>1, <2>3, TickEnds, StandsStill DEF Inv, Typed
<1> QED BY <1>3, <1>4 DEF Jettison

\* A target is claimed for an operation, or its miner hears that it has one.
LEMMA ReserveKeeps ==
  ASSUME Inv, NEW p \in Pilots, NEW t \in Targets, ReserveTarget(p, t)
  PROVE  Inv'
<1> DEFINE o == OperationOf[p]
           r == Reconciled(o)
           others == [x \in Operations |-> Reconciled(x)]
           eligible == board[t].owner \in {None, o} /\ r.run \notin StopStates
           renewed == board[t].state = "DEPLETED"
           taken == eligible /\ r.current = None /\ (~board[t].spent \/ renewed)
           lost == eligible /\ r.current # None /\ board[r.current.target].owner # o
           s == IF lost THEN LoseClaim(r, r.current.target) ELSE r
           u == [r EXCEPT !.current = [target |-> t, claimed |-> TRUE], !.authorityLoss = FALSE,
                          !.run = "working"]
           entry == [owner |-> o, state |-> "RESERVED", spent |-> FALSE]
<1>0. o \in Operations /\ Typed BY CrewOf DEF Inv
<1>1. /\ UNCHANGED <<launch, stop, leg, host, hold, home>> /\ row' = RowsReconciled /\ Ends(p)
      /\ IF taken
         THEN /\ board' = [board EXCEPT ![t] = entry]
              /\ rocks' = [rocks EXCEPT ![t] = @ \/ renewed]
              /\ op' = [others EXCEPT ![o] = u]
              /\ steady' = (steady \ Crew(o)) \cup {q \in Crew(o) : host[q] = "running"}
         ELSE /\ op' = [others EXCEPT ![o] = s]
              /\ UNCHANGED <<board, rocks, steady>>
  BY DEF ReserveTarget
<1>2. /\ others \in [Operations -> Runtime]
      /\ \A x \in Operations : Sound(x, others[x], board) /\ others[x].run \in {op[x].run, "working"}
  BY ReconciledSound DEF Sound
<1>3. Sound(o, r, board) /\ r.run \in {op[o].run, "working"} /\ others[o] = r /\ r \in Runtime BY <1>0,
                                                                                                  <1>2 DEF Sound
<1>4. Sound(o, s, board) /\ s.run \in {op[o].run, "working"}
  <2>1. CASE lost BY <1>3, <2>1, LoseClaimSound
  <2>2. CASE ~lost BY <1>3, <2>2
  <2> QED BY <2>1, <2>2
<1>5. CASE ~taken
  <2>1. op' = [others EXCEPT ![o] = s] /\ board' = board /\ UNCHANGED <<rocks, steady>> BY <1>1, <1>5
  <2>2. s \in Runtime BY <1>4 DEF Sound
  <2> HIDE DEF s, others
  <2>3. /\ op' \in [Operations -> Runtime]
        /\ \A x \in Operations : Sound(x, op'[x], board') /\ op'[x].run \in {op[x].run, "working"}
    BY <1>0, <1>2, <1>4, <2>1, <2>2
  <2> QED BY <1>0, <1>1, <2>1, <2>3, TickEnds, ReconciledRowsKept, StandsStill DEF Typed
<1>6. CASE taken
  <2>1. /\ op' = [others EXCEPT ![o] = u] /\ board' = [board EXCEPT ![t] = entry]
        /\ rocks' = [rocks EXCEPT ![t] = @ \/ renewed]
        /\ steady' = (steady \ Crew(o)) \cup {q \in Crew(o) : host[q] = "running"}
    BY <1>1, <1>6
  <2>2. entry \in Entry /\ entry.owner = o BY <1>0 DEF Entry, States
  <2>3. board' \in [Targets -> Entry] /\ board'[t].owner = o /\ \A x \in Targets \ {t} : board'[x] = board[x]
    <3> HIDE DEF entry
    <3> QED BY <1>0, <2>1, <2>2 DEF Typed
  <2>4. /\ u \in Runtime /\ u.run = "working" /\ u.current.target = t /\ u.current # None
        /\ u.drains = r.drains /\ u.barrier = r.barrier
    <3>1. [target |-> t, claimed |-> TRUE] \in Targeted BY DEF Targeted
    <3>2. [target |-> t, claimed |-> TRUE] # None BY <3>1, CrewAssumption DEF Targeted
    <3> QED BY <1>3, <3>1, <3>2 DEF Runtime, Runs
  <2>5. Sound(o, u, board')
    <3>1. Known(o, u, board') BY <1>3, <1>6, <2>3, <2>4 DEF Sound, Known
    <3>2. r.barrier = None BY <1>3, <1>6 DEF Sound, Leaving
    <3> QED BY <2>4, <3>1, <3>2 DEF Sound, Leaving, AtRest
  <2>6. \A x \in Operations \ {o} : Sound(x, others[x], board')
    <3>1. \A x \in Operations \ {o}, z \in Targets : board'[z].owner = x => board[z].owner = x BY <2>3
    <3> QED BY <1>2, <3>1, FewerClaims
  <2> HIDE DEF u, others
  <2>7. /\ op' \in [Operations -> Runtime]
        /\ \A x \in Operations : Sound(x, op'[x], board') /\ op'[x].run \in {op[x].run, "working"}
    BY <1>0, <1>2, <2>1, <2>4, <2>5, <2>6
  <2>8. rocks' \in [Targets -> BOOLEAN] /\ steady' \subseteq Pilots BY <1>0, <2>1 DEF Typed, Crew
  <2> QED BY <1>0, <1>1, <2>3, <2>7, <2>8, TickEnds, ReconciledRowsKept, StandsStill DEF Typed
<1> QED BY <1>5, <1>6

LEMMA ActivateKeeps ==
  ASSUME Inv, NEW p \in Pilots, ActivateTarget(p)
  PROVE  Inv'
<1> DEFINE o == OperationOf[p]
           t == view[p].target
<1>0. o \in Operations /\ Typed /\ Sound(o, op[o], board) /\ op[o] \in Runtime BY CrewOf DEF Inv, Typed
<1>1. /\ UNCHANGED <<row, launch, stop, leg, host, hold, rocks, steady, home>> /\ Ends(p)
      /\ IF ~Heeded(p) THEN UNCHANGED <<board, op>>
         ELSE IF board[t].owner # o THEN op' = [op EXCEPT ![o] = LoseClaim(@, t)] /\ UNCHANGED board
         ELSE /\ board' = [board EXCEPT ![t].state = "ACTIVE"]
              /\ op' = [op EXCEPT ![o].current.claimed = TRUE, ![o].run = "working"]
  BY DEF ActivateTarget
<1>2. CASE ~Heeded(p)
  <2>1. /\ op' \in [Operations -> Runtime]
        /\ \A x \in Operations : Sound(x, op'[x], board') /\ op'[x].run \in {op[x].run, "working"}
    BY <1>1, <1>2, NoRuntime
  <2> QED BY <1>0, <1>1, <1>2, <2>1, TickEnds, StandsStill DEF Typed
<1>3. CASE Heeded(p) /\ board[t].owner # o
  <2> DEFINE s == LoseClaim(op[o], t)
  <2>1. board' = board /\ Sound(o, s, board') /\ s.run \in {op[o].run, "working"} /\ op' = [op EXCEPT ![o] = s]
    BY <1>0, <1>1, <1>3, LoseClaimSound
  <2> HIDE DEF s
  <2>2. /\ op' \in [Operations -> Runtime]
        /\ \A x \in Operations : Sound(x, op'[x], board') /\ op'[x].run \in {op[x].run, "working"}
    BY <1>0, <2>1, OneRuntime
  <2> QED BY <1>0, <1>1, <2>1, <2>2, TickEnds, StandsStill DEF Typed
<1>4. CASE Heeded(p) /\ board[t].owner = o
  <2> DEFINE r == op[o]
             s == [r EXCEPT !.current.claimed = TRUE, !.run = "working"]
  <2>1. r.current \in Targeted /\ r.current.target = t /\ t \in Targets
    BY <1>0, <1>4 DEF Heeded, Runtime, Targeted
  <2>2. board' = [board EXCEPT ![t].state = "ACTIVE"] /\ op' = [op EXCEPT ![o] = s] BY <1>0, <1>1,
                                                                                       <1>4 DEF Typed
  <2>3. board' \in [Targets -> Entry] /\ \A x \in Targets : board'[x].owner = board[x].owner
    BY <1>0, <2>1, <2>2 DEF Typed, Entry, States
  <2>4. /\ s \in Runtime /\ s.run = "working" /\ s.current.target = t /\ s.current # None
        /\ s.drains = r.drains /\ s.barrier = r.barrier
    <3>1. s.current = [r.current EXCEPT !.claimed = TRUE] BY <1>0 DEF Runtime
    <3>2. s.current \in Targeted /\ s.current.target = t BY <2>1, <3>1 DEF Targeted
    <3> QED BY <1>0, <3>2, CrewAssumption DEF Runtime, Runs, Targeted
  <2>5. Sound(o, s, board')
    <3>1. Known(o, s, board') BY <1>0, <1>4, <2>1, <2>3, <2>4 DEF Sound, Known
    <3>2. Leaving(o, s, board') BY <1>0, <1>4, <2>1, <2>3, <2>4 DEF Sound, Leaving
    <3> QED BY <2>4, <3>1, <3>2 DEF Sound, AtRest
  <2> HIDE DEF s
  <2>6. /\ op' \in [Operations -> Runtime]
        /\ \A x \in Operations : Sound(x, op'[x], board') /\ op'[x].run \in {op[x].run, "working"}
    BY <1>0, <2>2, <2>3, <2>4, <2>5, OneRuntime
  <2> QED BY <1>0, <1>1, <2>3, <2>6, TickEnds, StandsStill DEF Typed
<1> QED BY <1>2, <1>3, <1>4
-----------------------------------------------------------------------------
\* A target of an operation, and one its haulers still work on.
LEMMA TargetedIs ==
  ASSUME NEW t \in Targets, NEW claimed \in BOOLEAN
  PROVE  LET now == [target |-> t, claimed |-> claimed]
         IN  now \in Targeted /\ now # None /\ now.target = t
BY CrewAssumption DEF Targeted

LEMMA DrainIs ==
  ASSUME NEW t \in Targets, NEW haulers \in SUBSET Haulers, haulers # {}
  PROVE  [target |-> t, pending |-> haulers] \in Drain
BY DEF Drain

\* The first report: the target is current still, and the haulers' if there are any.
LEMMA FirstReportKeeps ==
  ASSUME Inv, NEW p \in Pilots, NEW clear \in BOOLEAN, FirstReport(OperationOf[p], p, clear), Heeded(p),
         op[OperationOf[p]].barrier = None, board[view[p].target].owner = OperationOf[p]
  PROVE  /\ op' \in [Operations -> Runtime] /\ board' \in [Targets -> Entry]
         /\ \A x \in Operations : Sound(x, op'[x], board') /\ op'[x].run \in {op[x].run, "working"}
         /\ row' \in [Pilots -> RowStates]
         /\ \A q \in Pilots : row[q] = "starting" /\ q # p => row'[q] = "starting"
<1> DEFINE o == OperationOf[p]
           t == view[p].target
           haulers == IF o \in Serviced THEN AtWork(o, Haulers) ELSE {}
           draining == haulers # {}
           ready == IF o \in Serviced /\ clear THEN {p} ELSE {}
           r == [op[o] EXCEPT
                   !.run = "working",
                   !.current = [target |-> t, claimed |-> draining],
                   !.drains = @ \cup (IF draining THEN {[target |-> t, pending |-> haulers]} ELSE {}),
                   !.barrier = [required |-> AtWork(o, Miners), ready |-> ready]]
           rows == IF o \in Serviced THEN [row EXCEPT ![p] = IF clear THEN "ready" ELSE "running"] ELSE row
           spent == [owner |-> o, state |-> "DRAINING", spent |-> TRUE]
           entry == IF draining THEN spent ELSE Unclaimed(spent)
           s == IF o \in Serviced THEN ReleaseIfReady(r) ELSE r
<1>0. o \in Operations /\ Typed /\ Sound(o, op[o], board) /\ op[o] \in Runtime BY CrewOf DEF Inv, Typed
<1>1. /\ board' = [board EXCEPT ![t] = entry] /\ op' = [op EXCEPT ![o] = s]
      /\ row' = IF o \in Serviced THEN RowsAtRelease(r, rows) ELSE rows
  BY DEF FirstReport
<1>2. t \in Targets /\ op[o].current # None /\ op[o].current.target = t
  BY <1>0 DEF Heeded, Runtime, Targeted
<1>3. /\ entry \in Entry /\ (~draining => entry.owner = None) /\ entry.owner \in {o, None}
  BY <1>0 DEF Entry, States, Unclaimed
<1>4. /\ board' \in [Targets -> Entry] /\ board'[t] = entry /\ \A x \in Targets \ {t} : board'[x] = board[x]
  <2> HIDE DEF entry
  <2> QED BY <1>0, <1>1, <1>2, <1>3 DEF Typed
<1>5. /\ haulers \subseteq Haulers /\ AtWork(o, Miners) \subseteq Crew(o) /\ Crew(o) \subseteq Pilots
      /\ ready \subseteq Pilots
  BY DEF AtWork, Crew
<1>6. /\ r \in Runtime /\ r.run = "working" /\ r.current # None /\ r.current.target = t
      /\ r.barrier # None => r.barrier.required = AtWork(o, Miners)
      /\ op[o].drains \subseteq r.drains
      /\ draining => \E d \in r.drains : d.target = t
  <2> DEFINE now == [target |-> t, claimed |-> draining]
             drain == [target |-> t, pending |-> haulers]
             barrier == [required |-> AtWork(o, Miners), ready |-> ready]
             added == IF draining THEN {drain} ELSE {}
  <2>1. now \in Targeted /\ now # None /\ now.target = t
    <3>1. draining \in BOOLEAN OBVIOUS
    <3> HIDE DEF draining
    <3> QED BY <1>2, <3>1, TargetedIs
  <2>2. draining => drain \in Drain /\ drain.target = t
    <3>1. haulers \in SUBSET Haulers BY <1>5
    <3> HIDE DEF haulers
    <3> QED BY <1>2, <3>1, DrainIs
  <2>3. barrier \in Barrier /\ barrier.required = AtWork(o, Miners) BY <1>5 DEF Barrier
  <2>4. added \subseteq Drain BY <2>2
  <2>5. r = [op[o] EXCEPT !.run = "working", !.current = now, !.drains = @ \cup added, !.barrier = barrier]
    OBVIOUS
  <2> HIDE DEF r, now, barrier
  <2>6. /\ r.run = "working" /\ r.current = now /\ r.drains = op[o].drains \cup added /\ r.barrier = barrier
        /\ r \in Runtime
    <3> HIDE DEF added
    <3> QED BY <1>0, <2>1, <2>3, <2>4, <2>5 DEF Runtime, Runs
  <2> QED BY <2>1, <2>2, <2>3, <2>6
<1>7. Sound(o, r, board')
  <2> HIDE DEF r, entry
  <2>1. Known(o, r, board') BY <1>0, <1>2, <1>4, <1>6 DEF Sound, Known
  <2>2. board'[t].owner = o => draining BY <1>0, <1>3, <1>4, CrewAssumption
  <2>3. Leaving(o, r, board') BY <1>5, <1>6, <2>2 DEF Leaving
  <2> QED BY <1>6, <2>1, <2>3 DEF Sound, AtRest
<1>8. Sound(o, s, board') /\ s.run \in {op[o].run, "working"}
  <2> HIDE DEF r
  <2>1. ReleaseIfReady(r).run \in {r.run, "working"} /\ Sound(o, ReleaseIfReady(r), board')
    BY <1>7, ReleaseSound
  <2> QED BY <1>6, <1>7, <2>1
<1>9. \A x \in Operations \ {o}, z \in Targets : board'[z].owner = x => board[z].owner = x
  <2> HIDE DEF entry
  <2> QED BY <1>3, <1>4, CrewAssumption
<1>10. /\ op' \in [Operations -> Runtime]
       /\ \A x \in Operations : Sound(x, op'[x], board') /\ op'[x].run \in {op[x].run, "working"}
  <2> HIDE DEF s
  <2> QED BY <1>0, <1>1, <1>8, <1>9, OneRuntime
<1>11. /\ rows \in [Pilots -> RowStates]
       /\ \A q \in Pilots : row[q] = "starting" /\ q # p => rows[q] = "starting"
  BY <1>0 DEF Typed, RowStates
<1>12. /\ row' \in [Pilots -> RowStates]
       /\ \A q \in Pilots : row[q] = "starting" /\ q # p => row'[q] = "starting"
  <2> HIDE DEF rows, r
  <2> QED BY <1>1, <1>11, ReleasedRows
<1> QED BY <1>4, <1>10, <1>12

\* What any report does.
LEMMA DepleteKeeps ==
  ASSUME Inv, NEW p \in Pilots, NEW clear \in BOOLEAN, DepleteTarget(p, clear)
  PROVE  /\ op' \in [Operations -> Runtime] /\ board' \in [Targets -> Entry]
         /\ \A x \in Operations : Sound(x, op'[x], board') /\ op'[x].run \in {op[x].run, "working"}
         /\ row' \in [Pilots -> RowStates]
         /\ \A q \in Pilots : row[q] = "starting" /\ q # p => row'[q] = "starting"
<1> DEFINE o == OperationOf[p]
           t == view[p].target
           after == ReadyAt(op[o], row, p)
           lost == LoseClaim(op[o], t)
<1>0. o \in Operations /\ Typed /\ Sound(o, op[o], board) BY CrewOf DEF Inv
<1>1. CASE UNCHANGED <<board, op, row>> BY <1>0, <1>1, NoRuntime DEF Typed
<1>2. CASE board[t].owner # o /\ op' = [op EXCEPT ![o] = lost] /\ UNCHANGED <<board, row>>
  <2>1. Sound(o, lost, board') /\ lost.run \in {op[o].run, "working"} BY <1>0, <1>2, LoseClaimSound
  <2> HIDE DEF lost
  <2> QED BY <1>0, <1>2, <2>1, OneRuntime DEF Typed
<1>3. CASE op[o].barrier # None /\ op' = [op EXCEPT ![o] = after.op] /\ row' = after.rows /\ UNCHANGED board
  <2>1. Sound(o, after.op, board') /\ after.op.run \in {op[o].run, "working"} BY <1>0, <1>3, ReadySound
  <2>2. row' \in [Pilots -> RowStates] /\ \A q \in Pilots : row[q] = "starting" /\ q # p => row'[q] = "starting"
    <3> DEFINE rows == [row EXCEPT ![p] = "ready"]
               s == [op[o] EXCEPT !.barrier.ready = @ \cup {p}]
    <3>1. rows \in [Pilots -> RowStates] /\ \A q \in Pilots : row[q] = "starting" /\ q # p => rows[q] = "starting"
      BY <1>0 DEF Typed, RowStates
    <3>2. row' = RowsAtRelease(s, rows) BY <1>3 DEF ReadyAt
    <3> HIDE DEF rows, s
    <3> QED BY <3>1, <3>2, ReleasedRows
  <2> HIDE DEF after
  <2> QED BY <1>0, <1>3, <2>1, <2>2, OneRuntime DEF Typed
<1>4. CASE Heeded(p) /\ op[o].barrier = None /\ board[t].owner = o /\ FirstReport(o, p, clear)
  BY <1>4, FirstReportKeeps
<1> QED BY <1>1, <1>2, <1>3, <1>4 DEF DepleteTarget

LEMMA ReportKeeps ==
  ASSUME Inv, NEW p \in Pilots, Report(p)
  PROVE  Inv'
<1>1. /\ UNCHANGED <<launch, stop, leg, host, hold, rocks, steady, home>> /\ Ends(p)
      /\ \E clear \in BOOLEAN : DepleteTarget(p, clear)
      /\ view[p] # None
  BY DEF Report, OnTarget
<1>2. Hosted(p) BY <1>1 DEF Inv, Awaited
<1> QED BY <1>1, <1>2, DepleteKeeps, TickEnds, StandsStill DEF Inv, Typed

LEMMA MarkReadyKeeps ==
  ASSUME Inv, NEW p \in Pilots, MarkReady(p)
  PROVE  Inv'
<1> DEFINE o == OperationOf[p]
           after == ReadyAt(op[o], row, p)
<1>0. o \in Operations /\ Typed /\ Sound(o, op[o], board) BY CrewOf DEF Inv
<1>1. /\ UNCHANGED <<board, launch, stop, leg, host, hold, rocks, steady, home>> /\ Ends(p)
      /\ view[p] # None
      /\ \/ UNCHANGED <<op, row>>
         \/ op[o].barrier # None /\ op' = [op EXCEPT ![o] = after.op] /\ row' = after.rows
  BY DEF MarkReady
<1>2. Hosted(p) BY <1>1 DEF Inv, Awaited
<1>3. CASE UNCHANGED <<op, row>>
  <2>1. /\ op' \in [Operations -> Runtime]
        /\ \A x \in Operations : Sound(x, op'[x], board') /\ op'[x].run \in {op[x].run, "working"}
    BY <1>1, <1>3, NoRuntime
  <2> QED BY <1>0, <1>1, <1>3, <2>1, TickEnds, StandsStill DEF Typed
<1>4. CASE op[o].barrier # None /\ op' = [op EXCEPT ![o] = after.op] /\ row' = after.rows
  <2>1. Sound(o, after.op, board') /\ after.op.run \in {op[o].run, "working"} BY <1>0, <1>1, <1>4,
                                                                                 ReadySound
  <2>2. row' \in [Pilots -> RowStates] /\ \A q \in Pilots : row[q] = "starting" /\ q # p => row'[q] = "starting"
    <3> DEFINE rows == [row EXCEPT ![p] = "ready"]
               s == [op[o] EXCEPT !.barrier.ready = @ \cup {p}]
    <3>1. rows \in [Pilots -> RowStates] /\ \A q \in Pilots : row[q] = "starting" /\ q # p => rows[q] = "starting"
      BY <1>0 DEF Typed, RowStates
    <3>2. row' = RowsAtRelease(s, rows) BY <1>4 DEF ReadyAt
    <3> HIDE DEF rows, s
    <3> QED BY <3>1, <3>2, ReleasedRows
  <2> HIDE DEF after
  <2>3. /\ op' \in [Operations -> Runtime]
        /\ \A x \in Operations : Sound(x, op'[x], board') /\ op'[x].run \in {op[x].run, "working"}
    BY <1>0, <1>1, <1>4, <2>1, OneRuntime
  <2> QED BY <1>0, <1>1, <1>2, <2>2, <2>3, TickEnds, StandsStill DEF Typed
<1> QED BY <1>1, <1>3, <1>4

LEMMA UnclaimedIs ==
  ASSUME NEW e \in Entry
  PROVE  Unclaimed(e) \in Entry /\ Unclaimed(e).owner = None
BY DEF Entry, States, Unclaimed

\* A hauler is clear of the old target: its claim goes with the last one.
LEMMA FinishDrainKeeps ==
  ASSUME Inv, NEW p \in Pilots, FinishDrain(p)
  PROVE  Inv'
<1> DEFINE o == OperationOf[p]
           t == view[p]
           mine == {d \in op[o].drains : d.target = t}
           less == {[d EXCEPT !.pending = @ \ {p}] : d \in mine}
           kept == {d \in less : d.pending # {}}
           drains == (op[o].drains \ mine) \cup kept
           s == [op[o] EXCEPT !.drains = drains]
           atBarrier == op[o].barrier # None /\ op[o].current.target = t
           lost == LoseDrainClaims(op[o], {t})
<1>0. o \in Operations /\ Typed /\ Sound(o, op[o], board) /\ op[o] \in Runtime BY CrewOf DEF Inv, Typed
<1>1. /\ UNCHANGED <<launch, stop, leg, host, hold, rocks, steady, home>> /\ Ends(p) /\ view[p] # None
      /\ IF Stopping(o) \/ atBarrier \/ ~\E d \in mine : p \in d.pending
         THEN UNCHANGED <<board, op, row>>
         ELSE IF board[t].owner # o
         THEN op' = [op EXCEPT ![o] = lost] /\ UNCHANGED <<board, row>>
         ELSE /\ op' = [op EXCEPT ![o].drains = drains]
              /\ board' = IF kept = less THEN board ELSE [board EXCEPT ![t] = Unclaimed(@)]
              /\ row' = [row EXCEPT ![p] = "running"]
  BY <1>0 DEF FinishDrain, Typed
<1>2. Hosted(p) BY <1>1 DEF Inv, Awaited
<1>3. CASE UNCHANGED <<board, op, row>>
  <2>1. /\ op' \in [Operations -> Runtime]
        /\ \A x \in Operations : Sound(x, op'[x], board') /\ op'[x].run \in {op[x].run, "working"}
    BY <1>3, NoRuntime
  <2> QED BY <1>0, <1>1, <1>3, <2>1, TickEnds, StandsStill DEF Typed
<1>4. CASE board[t].owner # o /\ op' = [op EXCEPT ![o] = lost] /\ UNCHANGED <<board, row>>
  <2>1. Sound(o, lost, board') /\ lost.run \in {op[o].run, "working"} BY <1>0, <1>4, LoseDrainsSound
  <2> HIDE DEF lost
  <2>2. /\ op' \in [Operations -> Runtime]
        /\ \A x \in Operations : Sound(x, op'[x], board') /\ op'[x].run \in {op[x].run, "working"}
    BY <1>0, <1>4, <2>1, OneRuntime
  <2> QED BY <1>0, <1>1, <1>4, <2>2, TickEnds, StandsStill DEF Typed
<1>5. CASE /\ ~Stopping(o) /\ ~atBarrier /\ \E d \in mine : p \in d.pending /\ board[t].owner = o
           /\ op' = [op EXCEPT ![o].drains = drains]
           /\ board' = IF kept = less THEN board ELSE [board EXCEPT ![t] = Unclaimed(@)]
           /\ row' = [row EXCEPT ![p] = "running"]
  <2>1. PICK m \in mine : p \in m.pending BY <1>5
  <2>2. mine \subseteq Drain /\ t \in Targets /\ board[t].owner = o BY <1>0, <1>5, <2>1 DEF Runtime, Drain
  <2>3. board' \in [Targets -> Entry] /\ (\A x \in Targets \ {t} : board'[x] = board[x])
        /\ (kept # less => board'[t].owner = None) /\ board'[t].owner \in {o, None}
    <3>1. board[t] \in Entry BY <1>0, <2>2 DEF Typed
    <3>2. Unclaimed(board[t]) \in Entry /\ Unclaimed(board[t]).owner = None BY <3>1, UnclaimedIs
    <3> HIDE DEF kept, less
    <3> QED BY <1>0, <1>5, <2>2, <3>2 DEF Typed
  <2>4. /\ \A d \in less : d.target = t /\ (d.pending # {} => d \in Drain)
        /\ [m EXCEPT !.pending = @ \ {p}] \in less
    BY <2>1, <2>2 DEF Drain
  <2>5. drains \subseteq Drain /\ (\A d \in op[o].drains : d.target # t => d \in drains)
        /\ (kept = less => \E d \in drains : d.target = t)
    <3> HIDE DEF less
    <3> QED BY <1>0, <2>4 DEF Runtime
  <2> HIDE DEF drains
  <2>6. /\ s \in Runtime /\ s.run = op[o].run /\ s.current = op[o].current /\ s.drains = drains
        /\ s.barrier = op[o].barrier
    BY <1>0, <2>5 DEF Runtime
  <2>7. op' = [op EXCEPT ![o] = s] BY <1>0, <1>5 DEF Typed
  <2> HIDE DEF s, less, kept
  <2>8. Sound(o, s, board')
    <3>1. Known(o, s, board') BY <1>0, <2>3, <2>5, <2>6, CrewAssumption DEF Sound, Known
    <3>2. Leaving(o, s, board')
      <4>1. op[o].current # None => op[o].current.target \in Targets BY <1>0 DEF Runtime, Targeted
      <4> QED BY <1>0, <1>5, <2>3, <2>5, <2>6, <4>1 DEF Sound, Leaving
    <3>3. op[o].run \notin {"draft", "stopped"} BY <1>0, <2>1 DEF Sound, AtRest
    <3> QED BY <2>6, <3>1, <3>2, <3>3 DEF Sound, AtRest
  <2>9. \A x \in Operations \ {o}, z \in Targets : board'[z].owner = x => board[z].owner = x
    BY <2>3, CrewAssumption
  <2>10. /\ op' \in [Operations -> Runtime]
         /\ \A x \in Operations : Sound(x, op'[x], board') /\ op'[x].run \in {op[x].run, "working"}
    BY <1>0, <2>6, <2>7, <2>8, <2>9, OneRuntime
  <2>11. row' \in [Pilots -> RowStates] /\ \A q \in Pilots : row[q] = "starting" /\ q # p => row'[q] = "starting"
    BY <1>0, <1>5 DEF Typed, RowStates
  <2> QED BY <1>0, <1>1, <1>2, <2>3, <2>10, <2>11, TickEnds, StandsStill DEF Typed
<1> QED
  <2> HIDE DEF mine, drains, kept, less, lost, atBarrier
  <2> QED BY <1>1, <1>3, <1>4, <1>5

\* What the page asks for, and a lease that runs out.
LEMMA ListKeeps ==
  ASSUME Inv, List
  PROVE  Inv'
<1>1. /\ op' = [o \in Operations |-> Renewed(o, Reconciled(o))] /\ row' = RowsReconciled
      /\ UNCHANGED <<board, launch, stop, leg, host, view, hold, rocks, steady, home>>
  BY DEF List
<1>2. ASSUME NEW o \in Operations
      PROVE  Sound(o, Renewed(o, Reconciled(o)), board) /\ Renewed(o, Reconciled(o)).run \in {op[o].run, "working"}
  <2> DEFINE r == Reconciled(o)
             k == KeepCurrent(o, r)
             lost == {d.target : d \in {e \in k.drains : board[e.target].owner # o}}
  <2>1. Sound(o, r, board) /\ r.run \in {op[o].run, "working"} BY ReconciledSound
  <2>2. Sound(o, k, board) /\ k.run \in {op[o].run, "working"} BY <2>1, KeepCurrentSound
  <2>3. \A t \in lost : board[t].owner # o OBVIOUS
  <2>4. Renewed(o, r) \in {r, LoseDrainClaims(k, lost)} BY DEF Renewed
  <2> HIDE DEF r, k, lost
  <2>5. Sound(o, LoseDrainClaims(k, lost), board) /\ LoseDrainClaims(k, lost).run \in {op[o].run, "working"}
    BY <2>2, <2>3, LoseDrainsSound
  <2> QED BY <2>1, <2>4, <2>5 DEF r
<1>3. op' \in [Operations -> Runtime]
      /\ \A o \in Operations : Sound(o, op'[o], board') /\ op'[o].run \in {op[o].run, "working"}
  BY <1>1, <1>2 DEF Sound
<1> QED BY <1>1, <1>3, ReconciledRowsKept, StandsStill DEF Inv, Typed, Awaited

LEMMA LeaseKeeps ==
  ASSUME Inv, NEW t \in Targets, LeaseRunsOut(t)
  PROVE  Inv'
<1>1. /\ UNCHANGED <<op, row, launch, stop, leg, host, view, hold, rocks, steady, home>>
      /\ board' = [board EXCEPT ![t] = Unclaimed(@)] /\ board \in [Targets -> Entry]
  BY DEF LeaseRunsOut, Inv, Typed
<1>2. board' \in [Targets -> Entry] /\ \A x \in Operations, z \in Targets : board'[z].owner = x => board[z].owner = x
  <2>1. Unclaimed(board[t]) \in Entry /\ Unclaimed(board[t]).owner = None BY <1>1, UnclaimedIs
  <2> QED BY <1>1, <2>1, CrewAssumption
<1>3. /\ op' \in [Operations -> Runtime]
      /\ \A x \in Operations : Sound(x, op'[x], board') /\ op'[x].run \in {op[x].run, "working"}
  BY <1>1, <1>2, NoRuntime
<1> QED BY <1>1, <1>2, <1>3, StandsStill DEF Inv, Typed, Awaited
-----------------------------------------------------------------------------
\* A bot that pauses, resumes, or ends by itself: no Stop waits for it.
LEMMA BotKeeps ==
  ASSUME Inv, NEW p \in Pilots, Pause(p) \/ Resume(p) \/ BotEnds(p)
  PROVE  Inv'
<1>1. /\ UNCHANGED <<board, op, row, launch, stop, leg, hold, rocks, home>>
      /\ leg[p] = "none" /\ Hosted(p)
      /\ \/ host' = [host EXCEPT ![p] = "none"] /\ view' = [view EXCEPT ![p] = None]
         \/ \E status \in {"paused", "running"} :
              host' = [host EXCEPT ![p] = status] /\ view' \in {view, [view EXCEPT ![p] = None]}
      /\ steady' = steady \ {p}
  BY DEF Pause, Resume, BotEnds, BotChanges, Ends, Hosted
<1>2. /\ host' \in [Pilots -> Bots] /\ \A q \in Pilots \ {p} : host'[q] = host[q]
      /\ view' \in [Pilots -> Seen \cup Targets \cup {None}] /\ \A q \in Pilots \ {p} : view'[q] = view[q]
      /\ host'[p] \in {"none", "paused", "running"} /\ (host'[p] = "none" => view'[p] = None)
  BY <1>1 DEF Inv, Typed, Bots
<1>3. Typed' BY <1>1, <1>2 DEF Inv, Typed
<1>4. Awaited' BY <1>1, <1>2 DEF Inv, Awaited, Hosted
<1>5. ASSUME NEW o \in Operations PROVE (Sound(o, op[o], board) /\ Expected(o) /\ Answered(o) /\ Home(o))'
  <2>1. (launch[o] # None => launch[o].left \subseteq Crew(o)) /\ Crew(o) \subseteq Pilots
    BY DEF Inv, Typed, Crew
  <2>2. Sound(o, op[o], board)' BY <1>1 DEF Inv
  <2>3. Expected(o)' BY <1>1, <1>2, <2>1 DEF Inv, Expected, Hosted
  <2>4. Answered(o)' BY <1>1, <1>2, <2>1 DEF Inv, Answered, Hosted
  <2>5. Home(o)' BY <1>1, <1>2, <2>1 DEF Inv, Home, HostedCrew, Hosted
  <2> QED BY <2>2, <2>3, <2>4, <2>5
<1> QED BY <1>3, <1>4, <1>5 DEF Inv
-----------------------------------------------------------------------------
\* A step in which one operation, its crew and its claims change.
LEMMA OneOperation ==
  ASSUME Inv, NEW o \in Operations, Typed', Awaited',
         \A x \in Operations \ {o} : op'[x] = op[x] /\ launch'[x] = launch[x] /\ stop'[x] = stop[x],
         \A x \in Operations \ {o}, t \in Targets : board'[t].owner = x => board[t].owner = x,
         \A q \in Pilots \ Crew(o) : /\ host'[q] = host[q] /\ leg'[q] = leg[q]
                                     /\ row[q] = "starting" => row'[q] = "starting",
         (Sound(o, op[o], board) /\ Expected(o) /\ Answered(o) /\ Home(o))'
  PROVE  Inv'
<1>1. ASSUME NEW x \in Operations \ {o}
      PROVE  (Sound(x, op[x], board) /\ Expected(x) /\ Answered(x) /\ Home(x))'
  <2>1. Crew(x) \subseteq Pilots \ Crew(o) BY DEF Crew
  <2>2. launch[x] # None => launch[x].left \subseteq Crew(x) BY DEF Inv, Typed
  <2>3. Sound(x, op[x], board)'
    <3>1. Sound(x, op[x], board) BY DEF Inv
    <3>2. Sound(x, op[x], board') BY <3>1, FewerClaims
    <3> QED BY <3>2
  <2>4. Expected(x)' BY <2>1, <2>2 DEF Inv, Expected, Hosted
  <2>5. Answered(x)' BY <2>1 DEF Inv, Answered, Hosted
  <2>6. Home(x)' BY <2>1 DEF Inv, Home, HostedCrew, Hosted
  <2> QED BY <2>3, <2>4, <2>5, <2>6
<1>2. \A x \in Operations : (Sound(x, op[x], board) /\ Expected(x) /\ Answered(x) /\ Home(x))'
  BY <1>1
<1> QED BY <1>2 DEF Inv

\* Start: nobody is there, and nothing was claimed.
LEMMA StartKeeps ==
  ASSUME Inv, NEW o \in Operations, Start(o)
  PROVE  Inv'
<1> DEFINE s == Fresh("assembling")
           l == [phase |-> "members", left |-> Crew(o)]
<1>1. /\ op[o].run \in {"draft", "stopped"} /\ op' = [op EXCEPT ![o] = s]
      /\ row' = [p \in Pilots |-> IF p \in Crew(o) THEN "starting" ELSE row[p]]
      /\ launch' = [launch EXCEPT ![o] = l] /\ home' = home \ Crew(o)
      /\ UNCHANGED <<board, stop, leg, host, view, hold, rocks, steady>>
  BY DEF Start
<1>2. /\ s \in Runtime /\ s.run = "assembling" /\ s.current = None /\ s.drains = {} /\ s.barrier = None
  BY DEF Fresh, Runtime, Runs
<1>3. l \in Launch /\ l.left = Crew(o) /\ Crew(o) \subseteq Pilots BY DEF Launch, Crew
<1>4. Sound(o, op[o], board) /\ Home(o) /\ Typed /\ Awaited BY DEF Inv
<1>5. HostedCrew(o) = {} /\ stop[o] = None /\ \A t \in Targets : board[t].owner # o
  BY <1>1, <1>4 DEF Home, Sound, AtRest, Known
<1>6. Sound(o, s, board) BY <1>2, <1>5 DEF Sound, Known, Leaving, AtRest
<1> HIDE DEF s, l
<1>7. /\ op' \in [Operations -> Runtime] /\ op'[o] = s
      /\ launch' \in [Operations -> Launch \cup {None}] /\ launch'[o] = l
      /\ row' \in [Pilots -> RowStates] /\ \A p \in Crew(o) : row'[p] = "starting"
      /\ \A x \in Operations \ {o} : op'[x] = op[x] /\ launch'[x] = launch[x] /\ stop'[x] = stop[x]
      /\ \A q \in Pilots \ Crew(o) : row'[q] = row[q]
  BY <1>1, <1>2, <1>3, <1>4 DEF Typed, RowStates
<1>8. Typed' BY <1>1, <1>3, <1>4, <1>7 DEF Typed
<1>9. Awaited' BY <1>1, <1>4 DEF Awaited, Hosted
<1>10. Sound(o, op[o], board)' BY <1>1, <1>6, <1>7
<1>11. Expected(o)' BY <1>1, <1>2, <1>3, <1>5, <1>7 DEF Expected, HostedCrew, Hosted
<1>12. Answered(o)' BY <1>1, <1>5 DEF Answered
<1>13. Home(o)' BY <1>2, <1>7 DEF Home
<1> QED BY <1>1, <1>7, <1>8, <1>9, <1>10, <1>11, <1>12, <1>13, OneOperation

\* What the steps of a launch have in common: who comes now has a Stop answered for already.
LEMMA LaunchKeeps ==
  ASSUME Inv, NEW p \in Pilots, NEW s, NEW l, NEW status \in {"waiting", "running"},
         UNCHANGED <<board, stop, leg, view, hold, rocks, steady, home>>,
         op' = [op EXCEPT ![OperationOf[p]] = s], Sound(OperationOf[p], s, board),
         s.run \in {op[OperationOf[p]].run, "working"},
         launch' = [launch EXCEPT ![OperationOf[p]] = l], launch[OperationOf[p]] # None,
         l = None \/ (l \in Launch /\ l.left \subseteq Crew(OperationOf[p])),
         l # None /\ l.phase = "members" =>
           /\ launch[OperationOf[p]].phase = "members"
           /\ l.left \subseteq launch[OperationOf[p]].left \ {p},
         row' \in [Pilots -> RowStates], \A q \in Pilots \ {p} : row[q] = "starting" => row'[q] = "starting",
         \/ host' = host
         \/ /\ host' = [host EXCEPT ![p] = status] /\ leg[p] = "none"
            /\ s.run \notin {"draft", "stopped"}
            /\ Hosted(p) \/ (stop[OperationOf[p]] # None => p \in stop[OperationOf[p]].failed)
  PROVE  Inv'
<1> DEFINE o == OperationOf[p]
<1>1. /\ o \in Operations /\ p \in Crew(o) /\ Crew(o) \subseteq Pilots
      /\ Typed /\ Awaited /\ Expected(o) /\ Answered(o) /\ Home(o)
  BY CrewOf DEF Inv, Crew
<1>2. /\ host' \in [Pilots -> Bots] /\ \A q \in Pilots \ {p} : host'[q] = host[q]
      /\ host'[p] = host[p] \/ (host'[p] \in {"waiting", "running"} /\ leg[p] = "none")
  BY <1>1 DEF Typed, Bots
<1>3. /\ op' \in [Operations -> Runtime] /\ op'[o] = s
      /\ launch' \in [Operations -> Launch \cup {None}] /\ launch'[o] = l
      /\ \A x \in Operations \ {o} : op'[x] = op[x] /\ launch'[x] = launch[x] /\ stop'[x] = stop[x]
  BY <1>1 DEF Typed, Sound
<1>4. Typed' BY <1>1, <1>2, <1>3 DEF Typed
<1>5. Awaited' BY <1>1, <1>2 DEF Awaited, Hosted
<1>6. Sound(o, op[o], board)' BY <1>3
<1>7. Expected(o)' BY <1>1, <1>2, <1>3 DEF Expected, Hosted
<1>8. Answered(o)' BY <1>1, <1>2, <1>3 DEF Answered, Hosted
<1>9. Home(o)'
  <2>1. CASE s.run \in {"draft", "stopped"}
    <3>1. host' = host /\ op[o].run \in {"draft", "stopped"} BY <2>1
    <3> QED BY <1>1, <1>3, <3>1 DEF Home, HostedCrew, Hosted
  <2>2. CASE s.run \notin {"draft", "stopped"} BY <1>3, <2>2 DEF Home
  <2> QED BY <2>1, <2>2
<1> QED BY <1>1, <1>2, <1>3, <1>4, <1>5, <1>6, <1>7, <1>8, <1>9, OneOperation

\* The launch is finished, and a member has failed.
LEMMA FinishSound ==
  ASSUME NEW o, NEW r, NEW b, NEW left, Sound(o, r, b)
  PROVE  /\ Sound(o, FinishLaunch(r, left), b) /\ FinishLaunch(r, left).run \in {r.run, "working"}
         /\ left = {} => FinishLaunch(r, left).run = "working"
<1>1. [r EXCEPT !.run = "working"].run = "working" BY DEF Sound, Runtime
<1> QED BY <1>1, WorkingSound DEF FinishLaunch

LEMMA FailedSound ==
  ASSUME Inv, NEW p \in Pilots
  PROVE  Sound(OperationOf[p], Failed(p), board) /\ Failed(p).run = "working"
<1> DEFINE o == OperationOf[p]
           w == Without(op[o], {p})
<1>1. Sound(o, op[o], board) BY CrewOf DEF Inv
<1>2. Sound(o, w, board) /\ w.run = "working" BY <1>1, WithoutSound
<1> HIDE DEF w
<1>3. Sound(o, ReleaseIfReady(w), board) /\ ReleaseIfReady(w).run \in {w.run, "working"} BY <1>2,
                                                                                            ReleaseSound
<1> QED BY <1>2, <1>3 DEF w, Failed

LEMMA FailedRows ==
  ASSUME Inv, NEW p \in Pilots, NEW status \in {"unstarted", "failed"}
  PROVE  /\ RowsFailed(p, status) \in [Pilots -> RowStates]
         /\ \A q \in Pilots \ {p} : row[q] = "starting" => RowsFailed(p, status)[q] = "starting"
<1> DEFINE w == Without(op[OperationOf[p]], {p})
           rows == [row EXCEPT ![p] = IF @ = "parked" THEN @ ELSE status]
<1>1. rows \in [Pilots -> RowStates] /\ \A q \in Pilots \ {p} : rows[q] = row[q] BY DEF Inv, Typed,
                                                                                    RowStates
<1>2. RowsFailed(p, status) = RowsAtRelease(w, rows) BY DEF RowsFailed
<1> HIDE DEF w, rows
<1> QED BY <1>1, <1>2, ReleasedRows

LEMMA StartMemberKeeps ==
  ASSUME Inv, NEW p \in Pilots, StartMember(p)
  PROVE  Inv'
<1> DEFINE o == OperationOf[p]
           left == launch[o].left \ {p}
           there == [host EXCEPT ![p] = "waiting"]
           less == [launch[o] EXCEPT !.left = left]
           mains == [phase |-> "mains", left |-> Crew(o)]
<1>0. /\ o \in Operations /\ p \in Crew(o) /\ Crew(o) \subseteq Pilots
      /\ Typed /\ Awaited /\ Expected(o) /\ Answered(o) /\ Home(o) /\ Sound(o, op[o], board)
  BY CrewOf DEF Inv, Crew
<1>1. /\ launch[o] # None /\ launch[o].phase = "members" /\ p \in launch[o].left
      /\ launch[o] \in Launch /\ launch[o].left \subseteq Crew(o)
  BY <1>0 DEF StartMember, LeftIn, Typed
<1>2. ~Hosted(p) /\ leg[p] = "none" /\ (stop[o] # None => p \in stop[o].failed)
      /\ op[o].run \notin {"draft", "stopped"}
  BY <1>0, <1>1 DEF Expected, Awaited, Answered, Home
<1>3. /\ less \in Launch /\ less.phase = "members" /\ less.left = left /\ left \subseteq Crew(o)
      /\ mains \in Launch /\ mains.phase = "mains" /\ mains.left = Crew(o)
  BY <1>0, <1>1 DEF Launch
<1>4. UNCHANGED <<board, stop, leg, view, hold, rocks, steady, home>> BY DEF StartMember
<1>5. CASE /\ host' = there /\ row' = [row EXCEPT ![p] = "running"]
           /\ \/ op' = op /\ launch' \in {[launch EXCEPT ![o].left = left], [launch EXCEPT ![o] = mains]}
              \/ launch' = [launch EXCEPT ![o] = None] /\ op' = [op EXCEPT ![o] = FinishLaunch(@, left)]
  <2>1. row' \in [Pilots -> RowStates] /\ \A q \in Pilots \ {p} : row'[q] = row[q]
    BY <1>0, <1>5 DEF Typed, RowStates
  <2>2. \E l \in {less, mains, None} : launch' = [launch EXCEPT ![o] = l] BY <1>5
  <2>3. \E s \in {op[o], FinishLaunch(op[o], left)} : op' = [op EXCEPT ![o] = s] BY <1>0, <1>5 DEF Typed
  <2>4. PICK l \in {less, mains, None} : launch' = [launch EXCEPT ![o] = l] BY <2>2
  <2>5. PICK s \in {op[o], FinishLaunch(op[o], left)} : op' = [op EXCEPT ![o] = s] BY <2>3
  <2>6. Sound(o, s, board) /\ s.run \in {op[o].run, "working"} BY <1>0, <2>5, FinishSound
  <2>7. l = None \/ (l \in Launch /\ l.left \subseteq Crew(o)) BY <1>3, <2>4
  <2>8. l # None /\ l.phase = "members" => l.left \subseteq launch[o].left \ {p} BY <1>3, <2>4
  <2>9. s.run \notin {"draft", "stopped"} BY <1>2, <2>6
  <2> HIDE DEF left, less, mains
  <2> QED BY <1>1, <1>2, <1>4, <1>5, <2>1, <2>4, <2>5, <2>6, <2>7, <2>8, <2>9, LaunchKeeps
<1>6. CASE /\ host' = host /\ row' = RowsFailed(p, "unstarted")
           /\ op' = [op EXCEPT ![o] = FinishLaunch(Failed(p), left)]
           /\ launch' = [launch EXCEPT ![o] = IF left = {} THEN None ELSE [@ EXCEPT !.left = left]]
  <2> DEFINE l == IF left = {} THEN None ELSE less
             s == FinishLaunch(Failed(p), left)
  <2>1. launch' = [launch EXCEPT ![o] = l] BY <1>0, <1>6 DEF Typed
  <2>2. /\ l = None \/ (l \in Launch /\ l.left \subseteq Crew(o))
        /\ l # None /\ l.phase = "members" => l.left \subseteq launch[o].left \ {p}
    BY <1>3
  <2>3. Sound(o, s, board) /\ s.run \in {op[o].run, "working"} BY FailedSound, FinishSound
  <2>4. op' = [op EXCEPT ![o] = s] BY <1>6
  <2>5. /\ row' \in [Pilots -> RowStates]
        /\ \A q \in Pilots \ {p} : row[q] = "starting" => row'[q] = "starting"
    BY <1>6, FailedRows
  <2> HIDE DEF l, s
  <2> QED BY <1>1, <1>4, <1>6, <2>1, <2>2, <2>3, <2>4, <2>5, LaunchKeeps
<1> QED BY <1>5, <1>6 DEF StartMember

LEMMA StartMainKeeps ==
  ASSUME Inv, NEW p \in Pilots, StartMain(p)
  PROVE  Inv'
<1> DEFINE o == OperationOf[p]
           left == launch[o].left \ {p}
           l == IF left = {} THEN None ELSE [launch[o] EXCEPT !.left = left]
<1>0. /\ o \in Operations /\ p \in Crew(o) /\ Crew(o) \subseteq Pilots
      /\ Typed /\ Home(o) /\ Sound(o, op[o], board)
  BY CrewOf DEF Inv, Crew
<1>1. /\ launch[o] # None /\ launch[o].phase = "mains" /\ launch[o] \in Launch /\ launch[o].left \subseteq Crew(o)
      /\ launch' = [launch EXCEPT ![o] = l]
      /\ UNCHANGED <<board, stop, leg, view, hold, rocks, steady, home>>
  BY <1>0 DEF StartMain, LeftIn, Typed
<1>2. /\ l = None \/ (l \in Launch /\ l.left \subseteq Crew(o))
      /\ l # None => l.phase # "members"
  BY <1>1 DEF Launch
<1>3. CASE /\ host[p] = "waiting" /\ leg[p] = "none" /\ host' = [host EXCEPT ![p] = "running"]
           /\ op' = [op EXCEPT ![o] = FinishLaunch(@, left)] /\ row' = row
  <2> DEFINE s == FinishLaunch(op[o], left)
  <2>1. Sound(o, s, board) /\ s.run \in {op[o].run, "working"} /\ op' = [op EXCEPT ![o] = s]
    BY <1>0, <1>3, FinishSound
  <2>2. Hosted(p) /\ op[o].run \notin {"draft", "stopped"} BY <1>0, <1>3 DEF Hosted, HostedCrew, Home
  <2> HIDE DEF l, s
  <2> QED BY <1>0, <1>1, <1>2, <1>3, <2>1, <2>2, LaunchKeeps DEF Typed
<1>4. CASE /\ host' = host /\ op' = [op EXCEPT ![o] = FinishLaunch(Failed(p), left)]
           /\ row' = RowsFailed(p, "failed")
  <2> DEFINE s == FinishLaunch(Failed(p), left)
  <2>1. Sound(o, s, board) /\ s.run \in {op[o].run, "working"} /\ op' = [op EXCEPT ![o] = s]
    BY <1>4, FailedSound, FinishSound
  <2>2. /\ row' \in [Pilots -> RowStates]
        /\ \A q \in Pilots \ {p} : row[q] = "starting" => row'[q] = "starting"
    BY <1>4, FailedRows
  <2> HIDE DEF l, s
  <2> QED BY <1>1, <1>2, <1>4, <2>1, <2>2, LaunchKeeps
<1> QED BY <1>3, <1>4 DEF StartMain
-----------------------------------------------------------------------------
\* What a Stop under way consists of.
LEMMA StopIs ==
  ASSUME NEW returning \in BOOLEAN, NEW crossed \in BOOLEAN, NEW failed \in SUBSET Pilots
  PROVE  LET x == [returning |-> returning, crossed |-> crossed, failed |-> failed]
         IN  x \in Stop /\ x # None
BY CrewAssumption DEF Stop

\* Only whether it is at work changes: to a state of a Stop.
LEMMA StopSound ==
  ASSUME NEW o, NEW r, NEW b, NEW run \in StopStates \ {"stopped"}, Sound(o, r, b)
  PROVE  Sound(o, [r EXCEPT !.run = run], b) /\ [r EXCEPT !.run = run].run = run
<1> DEFINE s == [r EXCEPT !.run = run]
<1>1. s \in Runtime /\ s.run = run /\ s.current = r.current /\ s.drains = r.drains /\ s.barrier = r.barrier
  BY DEF Sound, Runtime, Runs, StopStates
<1> QED BY <1>1 DEF Sound, Known, Leaving, AtRest, StopStates

\* A Stop begins, in a launch too: it answers for those still to come.
LEMMA BeginStopKeeps ==
  ASSUME Inv, NEW o \in Operations, NEW returning \in BOOLEAN, BeginStop(o, returning)
  PROVE  Inv'
<1> DEFINE s == [op[o] EXCEPT !.run = "stopping"]
           x == [returning |-> returning, crossed |-> FALSE, failed |-> Missing(o)]
<1>0. /\ Crew(o) \subseteq Pilots /\ Typed /\ Awaited /\ Expected(o) /\ Sound(o, op[o], board)
      /\ launch[o] # None => launch[o].left \subseteq Crew(o)
  BY DEF Inv, Crew, Typed
<1>1. /\ stop[o] = None /\ op' = [op EXCEPT ![o] = s] /\ stop' = [stop EXCEPT ![o] = x]
      /\ leg' = [p \in Pilots |-> IF p \in HostedCrew(o) THEN IF returning THEN "settle" ELSE "stop"
                                  ELSE leg[p]]
      /\ UNCHANGED <<board, row, launch, host, view, hold, rocks, steady, home>>
  BY <1>0 DEF BeginStop, Typed
<1>2. Sound(o, s, board) /\ s.run = "stopping" BY <1>0, StopSound DEF StopStates
<1>3. x \in Stop /\ x # None /\ x.returning = returning /\ x.failed = Missing(o)
  <2>1. Missing(o) \in SUBSET Pilots BY DEF Missing, Crew
  <2> QED BY <2>1, StopIs
<1> HIDE DEF s, x
<1>4. /\ op' \in [Operations -> Runtime] /\ op'[o] = s
      /\ stop' \in [Operations -> Stop \cup {None}] /\ stop'[o] = x
      /\ \A y \in Operations \ {o} : op'[y] = op[y] /\ launch'[y] = launch[y] /\ stop'[y] = stop[y]
  BY <1>0, <1>1, <1>2, <1>3 DEF Typed, Sound
<1>5. leg' \in [Pilots -> Legs] /\ \A q \in Pilots \ Crew(o) : leg'[q] = leg[q]
  BY <1>0, <1>1 DEF Typed, Legs, HostedCrew
<1>6. Typed' BY <1>0, <1>1, <1>4, <1>5 DEF Typed
<1>7. Awaited'
  <2> SUFFICES ASSUME NEW p \in Pilots
      PROVE  (/\ leg[p] # "none" => Hosted(p) /\ stop[OperationOf[p]] # None
              /\ view[p] # None => Hosted(p)
              /\ leg[p] \in {"settled", "park"} => host[p] = "settled"
              /\ leg[p] \in {"settle", "settled", "park"} => stop[OperationOf[p]].returning
              /\ leg[p] = "stop" => ~stop[OperationOf[p]].returning)'
    BY DEF Awaited
  <2>1. CASE p \in Crew(o)
    <3>1. OperationOf[p] = o /\ leg[p] = "none" BY <1>0, <1>1, <2>1 DEF Crew, Awaited
    <3>2. leg'[p] = IF Hosted(p) THEN IF returning THEN "settle" ELSE "stop" ELSE "none"
      BY <1>1, <2>1, <3>1 DEF HostedCrew
    <3>3. Hosted(p)' <=> Hosted(p) BY <1>1 DEF Hosted
    <3>4. view'[p] # None => Hosted(p)' BY <1>0, <1>1, <3>3 DEF Awaited
    <3> QED BY <1>3, <1>4, <3>1, <3>2, <3>3, <3>4
  <2>2. CASE p \notin Crew(o)
    <3>1. OperationOf[p] \in Operations \ {o} BY <2>2, CrewOf
    <3>2. leg'[p] = leg[p] /\ stop'[OperationOf[p]] = stop[OperationOf[p]] /\ view' = view /\ host' = host
      BY <1>1, <1>4, <1>5, <2>2, <3>1
    <3> QED BY <1>0, <3>2 DEF Awaited, Hosted
  <2> QED BY <2>1, <2>2
<1>8. Sound(o, op[o], board)' BY <1>1, <1>2, <1>4
<1>9. Expected(o)' BY <1>0, <1>1, <1>2, <1>4 DEF Expected, Hosted
<1>10. Answered(o)'
  <2>1. \A p \in Crew(o) : Hosted(p) => leg'[p] # "none" BY <1>0, <1>1 DEF HostedCrew
  <2>2. launch[o] # None /\ launch[o].phase = "members" => launch[o].left \subseteq Missing(o)
    BY <1>0 DEF Expected, Missing
  <2> QED BY <1>1, <1>3, <1>4, <2>1, <2>2 DEF Answered, Hosted
<1>11. Home(o)' BY <1>2, <1>4 DEF Home
<1> QED BY <1>1, <1>4, <1>5, <1>6, <1>7, <1>8, <1>9, <1>10, <1>11, OneOperation

LEMMA StopKeeps ==
  ASSUME Inv, NEW o \in Operations, StopRoute(o) \/ Deadline(o)
  PROVE  Inv'
<1>1. \E returning \in BOOLEAN : BeginStop(o, returning)
  <2>1. CASE StopRoute(o)
    <3>1. (o \notin Stays) \in BOOLEAN OBVIOUS
    <3>2. BeginStop(o, o \notin Stays) BY <2>1 DEF StopRoute
    <3> QED BY <3>1, <3>2
  <2>2. CASE Deadline(o) BY <2>2 DEF Deadline
  <2> QED BY <2>1, <2>2
<1> QED BY <1>1, BeginStopKeeps

\* What a bot that a Stop waits for does: it settles, it is let go, or it fails.
LEMMA LegKeeps ==
  ASSUME Inv, NEW p \in Pilots, leg[p] # "none",
         UNCHANGED <<board, op, launch, view, hold, rocks>>,
         \/ /\ leg[p] = "settle" /\ leg' = [leg EXCEPT ![p] = "settled"]
            /\ host' = [host EXCEPT ![p] = "settled"] /\ stop' = stop
         \/ /\ view[p] = None /\ leg' = [leg EXCEPT ![p] = "none"]
            /\ host' = [host EXCEPT ![p] = "none"] /\ stop' = stop
         \/ Fails(p),
         row' \in [Pilots -> RowStates], \A q \in Pilots \ {p} : row'[q] = row[q],
         steady' \subseteq Pilots, home' \subseteq Pilots
  PROVE  Inv'
<1> DEFINE o == OperationOf[p]
<1>0. /\ o \in Operations /\ p \in Crew(o) /\ Crew(o) \subseteq Pilots
      /\ Typed /\ Awaited /\ Expected(o) /\ Answered(o) /\ Home(o) /\ Sound(o, op[o], board)
      /\ launch[o] # None => launch[o].left \subseteq Crew(o)
  BY CrewOf DEF Inv, Crew, Typed
<1>1. Hosted(p) /\ stop[o] # None /\ stop[o] \in Stop BY <1>0 DEF Awaited, Typed
<1>2. /\ stop' \in [Operations -> Stop \cup {None}] /\ stop'[o] # None
      /\ \A y \in Operations \ {o} : stop'[y] = stop[y]
      /\ stop'[o].returning = stop[o].returning /\ stop[o].failed \subseteq stop'[o].failed
      /\ Fails(p) => p \in stop'[o].failed
  <2>1. CASE stop' = stop /\ ~Fails(p) BY <1>0, <1>1, <2>1 DEF Typed
  <2>2. CASE Fails(p)
    <3> DEFINE x == [stop[o] EXCEPT !.failed = @ \cup {p}]
    <3>1. stop' = [stop EXCEPT ![o] = x] BY <1>0, <2>2 DEF Fails, Typed
    <3>2. x \in Stop /\ x.returning = stop[o].returning /\ x.failed = stop[o].failed \cup {p} BY <1>1 DEF Stop
    <3>3. x # None BY <3>2, CrewAssumption DEF Stop
    <3> HIDE DEF x
    <3> QED BY <1>0, <3>1, <3>2, <3>3 DEF Typed
  <2> QED BY <2>1, <2>2
<1>3. /\ leg' \in [Pilots -> Legs] /\ host' \in [Pilots -> Bots]
      /\ \A q \in Pilots \ {p} : leg'[q] = leg[q] /\ host'[q] = host[q]
      /\ \/ leg'[p] = "settled" /\ host'[p] = "settled" /\ leg[p] = "settle"
         \/ leg'[p] = "none" /\ host'[p] = "none" /\ view[p] = None
         \/ leg'[p] = "none" /\ host'[p] = "blocked" /\ Fails(p)
  BY <1>0 DEF Typed, Legs, Bots, Fails
<1>4. \A y \in Operations \ {o} : op'[y] = op[y] /\ launch'[y] = launch[y] /\ stop'[y] = stop[y]
  BY <1>2
<1>5. Typed' BY <1>0, <1>2, <1>3 DEF Typed
<1>6. Awaited'
  <2> SUFFICES ASSUME NEW q \in Pilots
      PROVE  (/\ leg[q] # "none" => Hosted(q) /\ stop[OperationOf[q]] # None
              /\ view[q] # None => Hosted(q)
              /\ leg[q] \in {"settled", "park"} => host[q] = "settled"
              /\ leg[q] \in {"settle", "settled", "park"} => stop[OperationOf[q]].returning
              /\ leg[q] = "stop" => ~stop[OperationOf[q]].returning)'
    BY DEF Awaited
  <2>1. CASE q = p
    <3>1. leg[p] = "settle" => stop[o].returning BY <1>0 DEF Awaited
    <3>2. Hosted(p)' <=> host'[p] # "none" BY DEF Hosted
    <3>3. view' = view OBVIOUS
    <3> HIDE DEF o
    <3> QED BY <1>2, <1>3, <2>1, <3>1, <3>2, <3>3 DEF o
  <2>2. CASE q # p
    <3>1. OperationOf[q] \in Operations BY CrewOf
    <3>2. /\ stop[OperationOf[q]] # None => stop'[OperationOf[q]] # None
          /\ stop'[OperationOf[q]].returning = stop[OperationOf[q]].returning
      BY <1>1, <1>2, <3>1
    <3>3. leg'[q] = leg[q] /\ host'[q] = host[q] /\ view' = view BY <1>3, <2>2
    <3>4. /\ leg[q] # "none" => Hosted(q) /\ stop[OperationOf[q]] # None
          /\ view[q] # None => Hosted(q)
          /\ leg[q] \in {"settled", "park"} => host[q] = "settled"
          /\ leg[q] \in {"settle", "settled", "park"} => stop[OperationOf[q]].returning
          /\ leg[q] = "stop" => ~stop[OperationOf[q]].returning
      BY <1>0 DEF Awaited
    <3> QED BY <3>2, <3>3, <3>4 DEF Hosted
  <2> QED BY <2>1, <2>2
<1>7. Sound(o, op[o], board)' BY <1>0
<1>8. Expected(o)' BY <1>0, <1>1, <1>3 DEF Expected, Hosted
<1>9. Answered(o)' BY <1>0, <1>1, <1>2, <1>3 DEF Answered, Hosted
<1>10. Home(o)' BY <1>0, <1>1 DEF Home
<1> QED BY <1>0, <1>3, <1>4, <1>5, <1>6, <1>7, <1>8, <1>9, <1>10, OneOperation

LEMMA SettleKeeps ==
  ASSUME Inv, NEW p \in Pilots, Settle(p)
  PROVE  Inv'
<1>1. Typed BY DEF Inv
<1> QED BY <1>1, LegKeeps DEF Settle, Typed

LEMMA BroughtInKeeps ==
  ASSUME Inv, NEW p \in Pilots, BroughtIn(p)
  PROVE  Inv'
<1>1. Typed BY DEF Inv
<1>2. row' \in [Pilots -> RowStates] /\ \A q \in Pilots \ {p} : row'[q] = row[q]
  BY <1>1 DEF BroughtIn, Typed, RowStates
<1>3. steady' \subseteq Pilots /\ home' \subseteq Pilots BY <1>1 DEF BroughtIn, Typed
<1> QED BY <1>1, <1>2, <1>3, LegKeeps DEF BroughtIn

\* The claims of an operation are released: it has none, and the others have theirs.
LEMMA ReleasedBoard ==
  ASSUME NEW o \in Operations, board \in [Targets -> Entry]
  PROVE  /\ ReleaseOperation(o) \in [Targets -> Entry]
         /\ \A t \in Targets : ReleaseOperation(o)[t].owner # o
         /\ \A x \in Operations \ {o}, t \in Targets :
              ReleaseOperation(o)[t].owner = x => board[t].owner = x
<1>1. \A t \in Targets : Unclaimed(board[t]) \in Entry /\ Unclaimed(board[t]).owner = None
  BY UnclaimedIs
<1> QED BY <1>1, CrewAssumption DEF ReleaseOperation

\* Every settlement has ended: the targets are released, or they are not.
LEMMA CrossKeeps ==
  ASSUME Inv, NEW o \in Operations, Cross(o)
  PROVE  Inv'
<1> DEFINE settled == {p \in Crew(o) : leg[p] = "settled"}
           release == MayRelease(o)
           r == IF release THEN [Cleared(op[o]) EXCEPT !.released = TRUE] ELSE op[o]
           s == IF settled = {} THEN r ELSE [r EXCEPT !.run = "parking"]
           x == [stop[o] EXCEPT !.crossed = TRUE]
<1>0. /\ Crew(o) \subseteq Pilots /\ Typed /\ Awaited /\ Expected(o) /\ Answered(o) /\ Home(o)
      /\ Sound(o, op[o], board) /\ op[o] \in Runtime
  BY DEF Inv, Crew, Typed
<1>1. /\ stop[o] # None /\ stop' = [stop EXCEPT ![o] = x] /\ stop[o] \in Stop
      /\ board' = IF release THEN ReleaseOperation(o) ELSE board
      /\ op' = [op EXCEPT ![o] = s]
      /\ leg' = [p \in Pilots |-> IF p \in settled THEN "park" ELSE leg[p]]
      /\ UNCHANGED <<row, launch, host, view, hold, rocks, steady, home>>
  BY <1>0 DEF Cross, Typed
<1>2. x \in Stop /\ x # None /\ x.returning = stop[o].returning /\ x.failed = stop[o].failed
  <2>1. x \in Stop /\ x.returning = stop[o].returning /\ x.failed = stop[o].failed BY <1>1 DEF Stop
  <2> QED BY <2>1, CrewAssumption DEF Stop
<1>3. /\ board' \in [Targets -> Entry] /\ (release => \A t \in Targets : board'[t].owner # o)
      /\ (~release => board' = board)
      /\ \A y \in Operations \ {o}, t \in Targets : board'[t].owner = y => board[t].owner = y
  <2> HIDE DEF release
  <2> QED BY <1>0, <1>1, ReleasedBoard DEF Typed
<1>4. op[o].run \notin {"draft", "stopped"} BY <1>0, <1>1 DEF Home
<1>5. Sound(o, s, board') /\ s.run \in {op[o].run, "parking"}
  <2>1. Sound(o, r, board') /\ r.run = op[o].run
    <3>1. CASE release
      <4>1. /\ r \in Runtime /\ r.current = None /\ r.drains = {} /\ r.barrier = None /\ r.run = op[o].run
        BY <1>0, <3>1 DEF Cleared, Runtime
      <4> HIDE DEF r, release
      <4> QED BY <1>3, <3>1, <4>1 DEF Sound, Known, Leaving, AtRest
    <3>2. CASE ~release BY <1>0, <1>3, <3>2
    <3> QED BY <3>1, <3>2
  <2> HIDE DEF r, settled
  <2>2. Sound(o, [r EXCEPT !.run = "parking"], board') /\ [r EXCEPT !.run = "parking"].run = "parking"
    BY <2>1, StopSound DEF StopStates
  <2> QED BY <2>1, <2>2
<1> HIDE DEF s, x, release, r
<1>6. /\ op' \in [Operations -> Runtime] /\ op'[o] = s
      /\ stop' \in [Operations -> Stop \cup {None}] /\ stop'[o] = x
      /\ \A y \in Operations \ {o} : op'[y] = op[y] /\ launch'[y] = launch[y] /\ stop'[y] = stop[y]
  BY <1>0, <1>1, <1>2, <1>5 DEF Typed, Sound
<1>7. /\ leg' \in [Pilots -> Legs] /\ \A q \in Pilots \ Crew(o) : leg'[q] = leg[q]
      /\ \A q \in Pilots : leg'[q] = leg[q] \/ (leg[q] = "settled" /\ leg'[q] = "park" /\ q \in Crew(o))
  BY <1>0, <1>1 DEF Typed, Legs
<1>8. Typed' BY <1>0, <1>1, <1>3, <1>6, <1>7 DEF Typed
<1>9. Awaited'
  <2>1. \A q \in Pilots : OperationOf[q] \in Operations BY CrewOf
  <2>2. \A y \in Operations : /\ stop[y] # None => stop'[y] # None
                              /\ stop'[y].returning = stop[y].returning
    BY <1>2, <1>6
  <2> QED BY <1>0, <1>1, <1>7, <2>1, <2>2 DEF Awaited, Hosted
<1>10. Sound(o, op[o], board)' BY <1>5, <1>6
<1>11. s.run \notin {"draft", "stopped"} BY <1>4, <1>5
<1>12. Expected(o)' BY <1>0, <1>1, <1>6, <1>11 DEF Expected, Hosted
<1>13. Answered(o)' BY <1>0, <1>1, <1>2, <1>6, <1>7 DEF Answered, Hosted
<1>14. Home(o)' BY <1>6, <1>11 DEF Home
<1> QED BY <1>1, <1>3, <1>6, <1>7, <1>8, <1>9, <1>10, <1>12, <1>13, <1>14, OneOperation

\* A Stop that has nobody to wait for, and nobody who failed, has everybody home.
LEMMA EveryoneIn ==
  ASSUME Inv, NEW o \in Operations, stop[o] # None, stop[o].failed = {}, \A p \in Crew(o) : leg[p] = "none"
  PROVE  HostedCrew(o) = {} /\ (launch[o] # None /\ launch[o].phase = "members" => launch[o].left = {})
BY DEF Inv, Answered, HostedCrew

LEMMA EndStopKeeps ==
  ASSUME Inv, NEW o \in Operations, EndStop(o)
  PROVE  Inv'
<1> DEFINE halt == IF stop[o].returning THEN "parking_failed" ELSE "stopping"
           s == IF stop[o].failed # {} THEN [op[o] EXCEPT !.run = halt] ELSE [Cleared(op[o]) EXCEPT !.run = "stopped"]
<1>0. /\ Crew(o) \subseteq Pilots /\ Typed /\ Awaited /\ Expected(o) /\ Home(o)
      /\ Sound(o, op[o], board) /\ op[o] \in Runtime
      /\ launch[o] # None => launch[o].left \subseteq Crew(o)
  BY DEF Inv, Crew, Typed
<1>1. /\ stop[o] # None /\ (\A p \in Crew(o) : leg[p] = "none") /\ stop' = [stop EXCEPT ![o] = None]
      /\ op' = [op EXCEPT ![o] = s]
      /\ IF stop[o].failed # {} THEN UNCHANGED <<board, row>>
         ELSE /\ board' = ReleaseOperation(o)
              /\ row' = [p \in Pilots |-> IF p \in Crew(o) /\ row[p] \notin {"unstarted", "failed", "parked"}
                                          THEN "stopped" ELSE row[p]]
      /\ UNCHANGED <<launch, leg, host, view, hold, rocks, steady, home>>
  BY <1>0 DEF EndStop, Typed
<1>2. /\ board' \in [Targets -> Entry] /\ (stop[o].failed = {} => \A t \in Targets : board'[t].owner # o)
      /\ \A y \in Operations \ {o}, t \in Targets : board'[t].owner = y => board[t].owner = y
  <2> HIDE DEF s
  <2> QED BY <1>0, <1>1, ReleasedBoard DEF Typed
<1>3. Sound(o, s, board') /\ (stop[o].failed # {} => s.run \notin {"draft", "stopped"}) /\ s.run # "draft"
  <2>1. CASE stop[o].failed # {}
    <3>1. halt \in StopStates \ {"stopped"} BY DEF StopStates
    <3> HIDE DEF halt
    <3>2. Sound(o, [op[o] EXCEPT !.run = halt], board) /\ [op[o] EXCEPT !.run = halt].run = halt
      BY <1>0, <3>1, StopSound
    <3> QED BY <1>1, <2>1, <3>1, <3>2 DEF StopStates
  <2>2. CASE stop[o].failed = {}
    <3>1. /\ s \in Runtime /\ s.run = "stopped" /\ s.current = None /\ s.drains = {} /\ s.barrier = None
      BY <1>0, <2>2 DEF Cleared, Runtime, Runs, StopStates
    <3> HIDE DEF s
    <3> QED BY <1>2, <2>2, <3>1 DEF Sound, Known, Leaving, AtRest
  <2> QED BY <2>1, <2>2
<1> HIDE DEF s
<1>4. /\ op' \in [Operations -> Runtime] /\ op'[o] = s
      /\ stop' \in [Operations -> Stop \cup {None}] /\ stop'[o] = None
      /\ \A y \in Operations \ {o} : op'[y] = op[y] /\ launch'[y] = launch[y] /\ stop'[y] = stop[y]
  BY <1>0, <1>1, <1>3 DEF Typed, Sound
<1>5. row' \in [Pilots -> RowStates] /\ \A q \in Pilots \ Crew(o) : row'[q] = row[q]
  BY <1>0, <1>1 DEF Typed, RowStates
<1>6. Typed' BY <1>0, <1>1, <1>2, <1>4, <1>5 DEF Typed
<1>7. Awaited'
  <2>1. \A q \in Pilots : leg[q] # "none" => OperationOf[q] \in Operations \ {o} BY <1>1, CrewOf
  <2> QED BY <1>0, <1>1, <1>4, <2>1 DEF Awaited, Hosted
<1>8. Sound(o, op[o], board)' BY <1>3, <1>4
<1>9. Expected(o)'
  <2>1. CASE stop[o].failed # {} BY <1>0, <1>1, <1>3, <1>4, <2>1 DEF Expected, Hosted
  <2>2. CASE stop[o].failed = {} BY <1>1, <1>3, <1>4, <2>2, EveryoneIn DEF Expected
  <2> QED BY <2>1, <2>2
<1>10. Answered(o)' BY <1>4 DEF Answered
<1>11. Home(o)'
  <2>1. CASE stop[o].failed # {} BY <1>3, <1>4, <2>1 DEF Home
  <2>2. CASE stop[o].failed = {} BY <1>1, <1>4, <2>2, EveryoneIn DEF Home, HostedCrew, Hosted
  <2> QED BY <2>1, <2>2
<1> QED BY <1>1, <1>2, <1>4, <1>5, <1>6, <1>7, <1>8, <1>9, <1>10, <1>11, OneOperation
-----------------------------------------------------------------------------
LEMMA InvInit ==
  ASSUME Init
  PROVE  Inv
<1> DEFINE s == Fresh("draft")
<1>1. /\ s \in Runtime /\ s.current = None /\ s.drains = {} /\ s.barrier = None /\ s.run = "draft"
  BY DEF Fresh, Runtime, Runs
<1>2. /\ op = [o \in Operations |-> s] /\ launch = [o \in Operations |-> None]
      /\ stop = [o \in Operations |-> None]
      /\ board = [t \in Targets |-> [owner |-> None, state |-> "AVAILABLE", spent |-> FALSE]]
      /\ leg = [p \in Pilots |-> "none"] /\ host = [p \in Pilots |-> "none"] /\ view = [p \in Pilots |-> None]
  BY DEF Init
<1> HIDE DEF s
<1>3. board \in [Targets -> Entry] /\ \A t \in Targets : board[t].owner = None BY <1>2 DEF Entry, States
<1>4. Typed
  <2>1. /\ row = [p \in Pilots |-> "draft"] /\ hold = [p \in Pilots |-> FALSE]
        /\ rocks = [t \in Targets |-> TRUE] /\ steady = {} /\ home = {}
    BY DEF Init
  <2>2. row \in [Pilots -> RowStates] /\ host \in [Pilots -> Bots] /\ leg \in [Pilots -> Legs]
    BY <1>2, <2>1 DEF RowStates, Bots, Legs
  <2>3. op \in [Operations -> Runtime] BY <1>1, <1>2
  <2> QED BY <1>2, <1>3, <2>1, <2>2, <2>3 DEF Typed
<1>5. Awaited BY <1>2 DEF Awaited
<1>6. \A o \in Operations : Sound(o, op[o], board)
  BY <1>1, <1>2, <1>3, CrewAssumption DEF Sound, Known, Leaving, AtRest
<1>7. \A o \in Operations : Expected(o) /\ Answered(o) /\ Home(o)
  BY <1>2 DEF Expected, Answered, Home, HostedCrew, Hosted, Crew
<1> QED BY <1>4, <1>5, <1>6, <1>7 DEF Inv

LEMMA InvStep ==
  ASSUME Inv, [Next]_vars
  PROVE  Inv'
<1>1. ASSUME NEW p \in Pilots, OfPilot(p) PROVE Inv'
  BY <1>1, StartMemberKeeps, StartMainKeeps, LookKeeps, QuietTickKeeps, ReserveKeeps, ActivateKeeps,
     JettisonKeeps, ReportKeeps, MarkReadyKeeps, FinishDrainKeeps, BotKeeps, SettleKeeps, BroughtInKeeps
  DEF OfPilot
<1>2. ASSUME NEW o \in Operations, OfOperation(o) PROVE Inv'
  BY <1>2, StartKeeps, StopKeeps, CrossKeeps, EndStopKeeps DEF OfOperation
<1>3. CASE List BY <1>3, ListKeeps
<1>4. ASSUME NEW t \in Targets, LeaseRunsOut(t) PROVE Inv' BY <1>4, LeaseKeeps
<1>5. CASE UNCHANGED vars
  BY <1>5 DEF vars, counts, Inv, Typed, Awaited, Sound, Expected, Answered, Home, HostedCrew, Hosted
<1> QED BY <1>1, <1>2, <1>3, <1>4, <1>5 DEF Next

LEMMA InvAlways == Spec => []Inv
<1>1. Init => Inv BY InvInit
<1>2. Inv /\ [Next]_vars => Inv' BY InvStep
<1> QED BY <1>1, <1>2, PTL DEF Spec
-----------------------------------------------------------------------------
\* Every variable keeps its type, with what belongs together: a barrier has a target, a launch
\* and a barrier are of the crew, and a bot is waited for only in a Stop.
THEOREM MiningTyped == Spec => []TypeOK
<1>1. Inv => TypeOK
  <2> SUFFICES ASSUME Inv PROVE TypeOK OBVIOUS
  <2>1. Typed /\ Awaited BY DEF Inv
  <2>2. \A o \in Operations :
          /\ op[o] \in Runtime /\ Leaving(o, op[o], board)
          /\ launch[o] = None \/ (launch[o] \in Launch /\ launch[o].left \subseteq Crew(o))
    BY DEF Inv, Sound, Typed
  <2>3. \A o \in Operations :
          /\ op[o].run \in Runs
          /\ op[o].current \in [target : Targets, claimed : BOOLEAN] \cup {None}
          /\ op[o].drains \subseteq [target : Targets, pending : (SUBSET Haulers) \ {{}}]
          /\ op[o].barrier = None \/ (op[o].current # None /\ op[o].barrier.required \subseteq Crew(o))
    BY <2>2 DEF Runtime, Targeted, Drain, Leaving
  <2>4. \A o \in Operations :
          launch[o] = None \/ launch[o] \in [phase : {"members", "mains"}, left : SUBSET Crew(o)]
    BY <2>2 DEF Launch
  <2> QED BY <2>1, <2>3, <2>4 DEF TypeOK, Typed, Awaited, Entry, States, RowStates, Bots, Legs
<1> QED BY <1>1, InvAlways, PTL

\* Every claim on the board is its operation's current target or one its haulers still work
\* on, whatever is lost, found or let go in whatever order (miningOperations.js: loseClaim,
\* depleteTarget, finishDrain, releaseRendezvousIfReady; miningTargetBoard.js).
THEOREM ClaimsAlwaysKnown == Spec => []ClaimsKnown
<1>1. Inv => ClaimsKnown BY DEF Inv, Sound, Known, ClaimsKnown
<1> QED BY <1>1, InvAlways, PTL

\* An operation that is stopped has no pilot out, also when the Stop met a launch, an earlier
\* Stop that failed, or a pilot that did not settle (miningOperationStop.js: stop, finishStop).
THEOREM StoppedAlwaysHome == Spec => []StoppedMeansHome
<1>1. Inv => StoppedMeansHome BY DEF Inv, Home, StoppedMeansHome
<1> QED BY <1>1, InvAlways, PTL

\* A step gives up a target and changes a Stop only when it crosses or ends the Stop.
LEMMA GivenUpByStop ==
  ASSUME Inv, Next, NEW o \in Operations, stop'[o] # stop[o], board' # board
  PROVE  (Cross(o) /\ MayRelease(o)) \/ (EndStop(o) /\ stop[o].failed = {})
<1>0. Typed BY DEF Inv
<1>1. ASSUME NEW p \in Pilots, OfPilot(p) PROVE FALSE
  <2>1. UNCHANGED stop \/ UNCHANGED board
    BY <1>1 DEF OfPilot, StartMember, StartMain, Look, Idle, ReserveTarget, ActivateTarget, Mine, Jettison,
       Unload, Report, MarkReady, FinishDrain, Pause, Resume, BotEnds, BotChanges, Settle, BroughtIn
  <2> QED BY <2>1
<1>2. ASSUME NEW x \in Operations, OfOperation(x)
      PROVE  (Cross(o) /\ MayRelease(o)) \/ (EndStop(o) /\ stop[o].failed = {})
  <2>1. CASE Start(x) \/ StopRoute(x) \/ Deadline(x) BY <2>1 DEF Start, StopRoute, Deadline, BeginStop
  <2>2. CASE Cross(x)
    <3>1. MayRelease(x) BY <2>2 DEF Cross
    <3>2. x = o BY <1>0, <2>2 DEF Cross, Typed
    <3> QED BY <2>2, <3>1, <3>2
  <2>3. CASE EndStop(x)
    <3>1. stop[x].failed = {} BY <2>3 DEF EndStop
    <3>2. x = o BY <1>0, <2>3 DEF EndStop, Typed
    <3> QED BY <2>3, <3>1, <3>2
  <2> QED BY <1>2, <2>1, <2>2, <2>3 DEF OfOperation
<1>3. CASE List BY <1>3 DEF List
<1>4. ASSUME NEW t \in Targets, LeaseRunsOut(t) PROVE FALSE BY <1>4 DEF LeaseRunsOut
<1> QED BY <1>1, <1>2, <1>3, <1>4 DEF Next

\* A Stop gives up a target that is not worked out only when every pilot of the operation has
\* settled or is gone (miningOperationStop.js; miningOperations.js: releaseStopTargets).
THEOREM TargetsOutliveWork == Spec => TargetsOutliveTheWork
<1> DEFINE A == \A t \in Targets, o \in Operations :
                  board[t].owner = o /\ ~board[t].spent /\ board'[t].owner # o /\ stop'[o] # stop[o] =>
                      \A p \in Crew(o) : host[p] \in {"none", "settled"}
<1>1. ASSUME Inv, Next PROVE A
  <2> SUFFICES ASSUME NEW t \in Targets, NEW o \in Operations, board[t].owner = o, board'[t].owner # o,
                      stop'[o] # stop[o], NEW p \in Crew(o)
               PROVE  host[p] \in {"none", "settled"}
    OBVIOUS
  <2>1. Typed /\ Awaited /\ Answered(o) /\ p \in Pilots BY <1>1 DEF Inv, Crew
  <2>2. (Cross(o) /\ MayRelease(o)) \/ (EndStop(o) /\ stop[o].failed = {}) BY <1>1, GivenUpByStop
  <2>3. CASE Cross(o) /\ MayRelease(o)
    <3>1. /\ stop[o] # None /\ stop[o].returning /\ leg[p] # "settle" /\ stop[o].failed = {}
          /\ OperationOf[p] = o
      BY <2>3 DEF Cross, MayRelease, Crew
    <3>2. Hosted(p) => leg[p] \in {"settled", "park"} BY <2>1, <3>1 DEF Answered, Awaited, Typed, Legs
    <3> QED BY <2>1, <3>2 DEF Awaited, Hosted
  <2>4. CASE EndStop(o) /\ stop[o].failed = {}
    BY <2>1, <2>4 DEF EndStop, Answered, Hosted
  <2> QED BY <2>2, <2>3, <2>4
<1>2. ASSUME UNCHANGED vars PROVE A BY <1>2 DEF vars
<1>3. Inv /\ [Next]_vars => [A]_vars BY <1>1, <1>2
<1> QED BY <1>3, InvAlways, PTL DEF Spec, TargetsOutliveTheWork
-----------------------------------------------------------------------------
\* Who is at work without a break has a bot that runs; whom a launch has left has none.
Steadily == \A p \in steady : host[p] = "running"

Unbegun(o) ==
  /\ launch[o] # None /\ launch[o].phase = "members" =>
       \A p \in Crew(o) : host[p] \notin {"running", "paused"}
  /\ launch[o] # None /\ launch[o].phase = "mains" =>
       \A p \in launch[o].left : host[p] \notin {"running", "paused"}

\* The crew at a target: until it is reported worked out, the rows of those at work without a
\* break say so. At the barrier their miners are waited for; there is nothing to mine while the
\* claim is held, and no way back to it once it was given up; and who is ready has nothing
\* aboard, and sees the target that is left.
Serving(o) ==
  /\ op[o].current # None /\ op[o].barrier = None =>
       \A p \in steady \cap Crew(o) : row[p] = "running"
  /\ op[o].barrier # None =>
       LET c == op[o].current
           b == op[o].barrier
       IN  /\ steady \cap Crew(o) \cap Miners \subseteq b.required
           /\ b.ready \subseteq Crew(o) \cap Miners
           /\ IF c.claimed THEN board[c.target].owner = o => ~rocks[c.target]
              ELSE board[c.target].owner # o
           /\ \A p \in b.ready :
                /\ (c.claimed => board[c.target].owner = o) => ~hold[p]
                /\ view[p] # None => /\ view[p].target = c.target
                                     /\ ~c.claimed => view[p].state # "ACTIVE"

CrewInv == Steadily /\ (\A o \in Operations : Unbegun(o)) /\ \A o \in Serviced : Serving(o)
-----------------------------------------------------------------------------
\* What a handler makes of a runtime: the barrier may be let go, because all it required and
\* who are not gone were ready or because the claim was lost, or it is kept, and then nobody
\* else is forgotten.
Follows(r, s, gone, more) ==
  \/ /\ r.barrier = None /\ s.barrier = None /\ (s.current # None => r.current # None)
     /\ r.authorityLoss = TRUE => s.authorityLoss = TRUE
  \/ /\ r.barrier # None /\ s.barrier = None /\ s.current = None
     /\ s.authorityLoss = TRUE \/ r.barrier.required \ gone \subseteq r.barrier.ready \cup more
  \/ /\ r.barrier # None /\ s.barrier # None /\ s.current = r.current
     /\ s.barrier.ready = r.barrier.ready \cup more
     /\ r.barrier.required \ gone \subseteq s.barrier.required

LEMMA SameFollows ==
  ASSUME NEW r, NEW s, s.barrier = r.barrier, s.current = r.current, s.authorityLoss = r.authorityLoss
  PROVE  Follows(r, s, {}, {})
BY DEF Follows

LEMMA FollowsThen ==
  ASSUME NEW r, NEW s, NEW u, NEW gone, NEW more, Follows(r, s, gone, more), Follows(s, u, {}, {})
  PROVE  Follows(r, u, gone, more)
BY DEF Follows

LEMMA RunFollows ==
  ASSUME NEW r \in Runtime, NEW run
  PROVE  Follows(r, [r EXCEPT !.run = run], {}, {})
<1> DEFINE s == [r EXCEPT !.run = run]
<1>1. s.barrier = r.barrier /\ s.current = r.current /\ s.authorityLoss = r.authorityLoss BY DEF Runtime
<1> QED BY <1>1, SameFollows

LEMMA DegradedFollows ==
  ASSUME NEW r \in Runtime
  PROVE  Follows(r, Degraded(r), {}, {})
<1>1. Follows(r, r, {}, {}) BY SameFollows
<1> QED BY <1>1, RunFollows DEF Degraded

LEMMA LoseClaimFollows ==
  ASSUME NEW r \in Runtime, NEW t
  PROVE  Follows(r, LoseClaim(r, t), {}, {})
<1>1. Follows(r, r, {}, {}) BY SameFollows
<1> DEFINE s == [r EXCEPT !.current = None, !.barrier = None, !.authorityLoss = TRUE]
<1>2. s \in Runtime /\ s.current = None /\ s.barrier = None /\ s.authorityLoss = TRUE BY DEF Runtime
<1> HIDE DEF s
<1>3. Follows(r, s, {}, {}) BY <1>2 DEF Follows
<1>4. Follows(s, Degraded(s), {}, {}) BY <1>2, DegradedFollows
<1>5. Follows(r, Degraded(s), {}, {}) BY <1>3, <1>4, FollowsThen
<1> QED BY <1>1, <1>5 DEF LoseClaim, s

LEMMA LoseDrainsFollows ==
  ASSUME NEW r \in Runtime, NEW lost
  PROVE  Follows(r, LoseDrainClaims(r, lost), {}, {})
<1>1. Follows(r, r, {}, {}) BY SameFollows
<1> DEFINE s == [r EXCEPT !.drains = {d \in @ : d.target \notin lost}]
<1>2. s \in Runtime /\ s.current = r.current /\ s.barrier = r.barrier /\ s.authorityLoss = r.authorityLoss
  BY DEF Runtime
<1> HIDE DEF s
<1>3. Follows(r, s, {}, {}) BY <1>2, SameFollows
<1>4. Follows(s, Degraded(s), {}, {}) BY <1>2, DegradedFollows
<1>5. Follows(r, Degraded(s), {}, {}) BY <1>3, <1>4, FollowsThen
<1> QED BY <1>1, <1>5 DEF LoseDrainClaims, s

LEMMA KeepCurrentFollows ==
  ASSUME NEW r \in Runtime, NEW o
  PROVE  Follows(r, KeepCurrent(o, r), {}, {})
<1>1. Follows(r, r, {}, {}) BY SameFollows
<1> QED BY <1>1, LoseClaimFollows DEF KeepCurrent

LEMMA ReleaseFollows ==
  ASSUME NEW r \in Runtime
  PROVE  Follows(r, ReleaseIfReady(r), {}, {})
<1>1. Follows(r, r, {}, {}) BY SameFollows
<1> DEFINE s == [r EXCEPT !.barrier = None, !.current = None, !.run = "working"]
<1>2. s.current = None /\ s.barrier = None /\ s.authorityLoss = r.authorityLoss BY DEF Runtime
<1> HIDE DEF s
<1>3. ReadyToGo(r) => Follows(r, s, {}, {}) BY <1>2 DEF ReadyToGo, Follows
<1> QED BY <1>1, <1>3 DEF ReleaseIfReady, s

LEMMA WithoutFollows ==
  ASSUME NEW r \in Runtime, NEW gone
  PROVE  Follows(r, Without(r, gone), gone, {})
<1> DEFINE s == [r EXCEPT !.run = "working"]
           w == [s EXCEPT !.barrier.required = @ \ gone]
<1>1. s \in Runtime /\ s.barrier = r.barrier /\ s.current = r.current /\ s.authorityLoss = r.authorityLoss
  BY DEF Runtime, Runs
<1>2. CASE s.barrier = None BY <1>1, <1>2 DEF Without, Follows
<1>3. CASE s.barrier # None
  <2>1. s.barrier \in Barrier BY <1>1, <1>3 DEF Runtime
  <2>2. w.current = s.current /\ w.barrier = [s.barrier EXCEPT !.required = @ \ gone] BY <1>1 DEF Runtime
  <2>3. w.barrier.ready = s.barrier.ready /\ w.barrier.required = s.barrier.required \ gone
        /\ w.barrier \in Barrier
    BY <2>1, <2>2 DEF Barrier
  <2>4. w.barrier # None BY <2>3, CrewAssumption DEF Barrier
  <2>5. Without(r, gone) = w BY <1>3 DEF Without
  <2> HIDE DEF w, s
  <2> QED BY <1>1, <1>3, <2>2, <2>3, <2>4, <2>5 DEF Follows
<1> QED BY <1>2, <1>3

LEMMA ReadyFollows ==
  ASSUME NEW r \in Runtime, NEW rows, NEW p \in Pilots, r.barrier # None
  PROVE  Follows(r, ReadyAt(r, rows, p).op, {}, {p})
<1> DEFINE s == [r EXCEPT !.barrier.ready = @ \cup {p}]
<1>1. r.barrier \in Barrier BY DEF Runtime
<1>2. s.current = r.current /\ s.barrier = [r.barrier EXCEPT !.ready = @ \cup {p}] BY DEF Runtime
<1>3. s.barrier.ready = r.barrier.ready \cup {p} /\ s.barrier.required = r.barrier.required /\ s.barrier \in Barrier
  BY <1>1, <1>2 DEF Barrier
<1>4. s.barrier # None /\ s \in Runtime BY <1>2, <1>3, CrewAssumption DEF Barrier, Runtime
<1>5. ReadyAt(r, rows, p).op = ReleaseIfReady(s) BY DEF ReadyAt
<1> HIDE DEF s
<1>6. Follows(r, s, {}, {p}) BY <1>2, <1>3, <1>4 DEF Follows
<1>7. Follows(s, ReleaseIfReady(s), {}, {}) BY <1>4, ReleaseFollows
<1> QED BY <1>5, <1>6, <1>7, FollowsThen

LEMMA FailedFollows ==
  ASSUME Inv, NEW p \in Pilots, NEW left
  PROVE  Follows(op[OperationOf[p]], FinishLaunch(Failed(p), left), {p}, {})
<1> DEFINE o == OperationOf[p]
           w == Without(op[o], {p})
           f == ReleaseIfReady(w)
<1>1. op[o] \in Runtime /\ Sound(o, op[o], board) BY CrewOf DEF Inv, Sound
<1>2. Follows(op[o], w, {p}, {}) BY <1>1, WithoutFollows
<1>3. w \in Runtime BY <1>1, WithoutSound DEF Sound
<1>4. Follows(w, f, {}, {}) BY <1>3, ReleaseFollows
<1>5. Failed(p) = f /\ f \in Runtime BY FailedSound DEF Failed, Sound
<1>6. Follows(op[o], f, {p}, {}) BY <1>2, <1>4, FollowsThen
<1>7. Follows(f, [f EXCEPT !.run = "working"], {}, {}) BY <1>5, RunFollows
<1>8. Follows(op[o], [f EXCEPT !.run = "working"], {p}, {}) BY <1>6, <1>7, FollowsThen
<1> QED BY <1>5, <1>6, <1>8 DEF FinishLaunch

LEMMA ReconciledFollows ==
  ASSUME Inv, NEW o \in Operations
  PROVE  Follows(op[o], Reconciled(o), Gone(o), {}) /\ Reconciled(o) \in Runtime
<1> DEFINE w == Without(op[o], Gone(o))
<1>1. op[o] \in Runtime /\ Sound(o, op[o], board) BY DEF Inv, Sound
<1>2. Reconciled(o) \in Runtime BY ReconciledSound DEF Sound
<1>3. CASE Gone(o) = {} BY <1>2, <1>3, SameFollows DEF Reconciled
<1>4. CASE Gone(o) # {}
  <2>1. Follows(op[o], w, Gone(o), {}) BY <1>1, WithoutFollows
  <2>2. w \in Runtime BY <1>1, WithoutSound DEF Sound
  <2>3. Follows(w, ReleaseIfReady(w), {}, {}) BY <2>2, ReleaseFollows
  <2>4. Follows(op[o], ReleaseIfReady(w), Gone(o), {}) BY <2>1, <2>3, FollowsThen
  <2> QED BY <1>2, <1>4, <2>4 DEF Reconciled
<1> QED BY <1>3, <1>4

LEMMA RenewedFollows ==
  ASSUME NEW r \in Runtime, NEW o, Sound(o, r, board)
  PROVE  Follows(r, Renewed(o, r), {}, {})
<1> DEFINE k == KeepCurrent(o, r)
           lost == {d.target : d \in {e \in k.drains : board[e.target].owner # o}}
<1>1. Follows(r, r, {}, {}) BY SameFollows
<1>2. Follows(r, k, {}, {}) BY KeepCurrentFollows
<1>3. k \in Runtime BY KeepCurrentSound DEF Sound
<1>4. Renewed(o, r) \in {r, LoseDrainClaims(k, lost)} BY DEF Renewed
<1> HIDE DEF k, lost
<1>5. Follows(k, LoseDrainClaims(k, lost), {}, {}) BY <1>3, LoseDrainsFollows
<1>6. Follows(r, LoseDrainClaims(k, lost), {}, {}) BY <1>2, <1>5, FollowsThen
<1> QED BY <1>1, <1>4, <1>6
-----------------------------------------------------------------------------
\* The crew of an operation gets no new claim and nothing to mine at, mines only where there
\* is something, and sees only the target that is current.
Undisturbed(o) ==
  /\ steady' \cap Crew(o) \subseteq steady
  /\ \A t \in Targets : board'[t].owner = o => board[t].owner = o /\ (rocks'[t] => rocks[t])
  /\ \A p \in Crew(o) : hold'[p] =>
       hold[p] \/ (view[p] # None /\ view[p].state = "ACTIVE" /\ rocks[view[p].target])
  /\ \A p \in Crew(o) \cap Miners : view'[p] # None /\ op'[o].current # None =>
       \/ view'[p] = view[p]
       \/ /\ view'[p].target = op'[o].current.target
          /\ ~op'[o].current.claimed => view'[p].state # "ACTIVE"

\* The step lets the barrier go only when nobody is left behind.
LetsGo(o) ==
  /\ op[o].barrier # None /\ op'[o].barrier = None /\ StillHeld(o)
  /\ ~op'[o].authorityLoss /\ ~Stopping(o)
  => \A p \in steady \cap Crew(o) \cap Miners : ~hold[p]

LEMMA FollowsKeeps ==
  ASSUME Inv, NEW o \in Operations, Serving(o), NEW gone, NEW more, Follows(op[o], op'[o], gone, more),
         gone \cap steady = {}, more \subseteq Crew(o) \cap Miners,
         \A p \in more : ~hold[p] /\ ~hold'[p] /\ view'[p] = None,
         op[o].barrier = None => \A p \in steady \cap Crew(o) : row[p] = "running" => row'[p] = "running",
         Undisturbed(o)
  PROVE  Serving(o)' /\ LetsGo(o)
<1> DEFINE r == op[o]
           s == op'[o]
<1>0. /\ r \in Runtime /\ (r.barrier # None => r.current \in Targeted /\ r.barrier \in Barrier)
      /\ \A p \in Crew(o) : p \in Pilots
  BY DEF Inv, Typed, Runtime, Sound, Leaving, Crew
<1>1. CASE r.barrier = None /\ s.barrier = None /\ (s.current # None => r.current # None)
  BY <1>1 DEF Serving, LetsGo, Undisturbed
<1>2. CASE /\ r.barrier # None /\ s.barrier = None /\ s.current = None
           /\ s.authorityLoss = TRUE \/ r.barrier.required \ gone \subseteq r.barrier.ready \cup more
  <2>1. Serving(o)' BY <1>2 DEF Serving
  <2>2. LetsGo(o)
    <3> SUFFICES ASSUME StillHeld(o), r.barrier.required \ gone \subseteq r.barrier.ready \cup more,
                        NEW p \in steady \cap Crew(o) \cap Miners
                 PROVE  ~hold[p]
      BY <1>2 DEF LetsGo
    <3>1. p \in r.barrier.required /\ p \notin gone BY <1>2 DEF Serving
    <3>2. CASE p \in r.barrier.ready BY <1>2, <3>2 DEF Serving, StillHeld
    <3>3. CASE p \in more BY <3>3
    <3> QED BY <3>1, <3>2, <3>3
  <2> QED BY <2>1, <2>2
<1>3. CASE /\ r.barrier # None /\ s.barrier # None /\ s.current = r.current
           /\ s.barrier.ready = r.barrier.ready \cup more
           /\ r.barrier.required \ gone \subseteq s.barrier.required
  <2> DEFINE c == r.current
             Held == c.claimed => board[c.target].owner = o
             Held1 == c.claimed => board'[c.target].owner = o
  <2>1. c.target \in Targets BY <1>0, <1>3 DEF Targeted
  <2>2. /\ steady \cap Crew(o) \cap Miners \subseteq r.barrier.required
        /\ r.barrier.ready \subseteq Crew(o) \cap Miners
        /\ c.claimed => (board[c.target].owner = o => ~rocks[c.target])
        /\ ~c.claimed => board[c.target].owner # o
        /\ \A p \in r.barrier.ready :
             /\ Held => ~hold[p]
             /\ view[p] # None => view[p].target = c.target /\ (~c.claimed => view[p].state # "ACTIVE")
    BY <1>3 DEF Serving
  <2>3. steady' \cap Crew(o) \cap Miners \subseteq s.barrier.required
        /\ s.barrier.ready \subseteq Crew(o) \cap Miners
    BY <1>3, <2>2 DEF Undisturbed
  <2>4. /\ c.claimed => (board'[c.target].owner = o => ~rocks'[c.target])
        /\ ~c.claimed => board'[c.target].owner # o
        /\ Held1 => Held
    BY <2>1, <2>2 DEF Undisturbed
  <2>5. ASSUME NEW p \in s.barrier.ready
        PROVE  /\ Held1 => ~hold'[p]
               /\ view'[p] # None => view'[p].target = c.target /\ (~c.claimed => view'[p].state # "ACTIVE")
    <3>1. CASE p \in more BY <3>1
    <3>2. CASE p \in r.barrier.ready
      <4>1. p \in Crew(o) \cap Miners BY <2>2, <3>2
      <4>2. Held1 => ~hold'[p] BY <2>2, <2>4, <3>2, <4>1 DEF Undisturbed
      <4>3. s.current # None BY <1>0, <1>3, CrewAssumption DEF Targeted
      <4>4. view'[p] # None => view'[p].target = c.target /\ (~c.claimed => view'[p].state # "ACTIVE")
        BY <1>3, <2>2, <3>2, <4>1, <4>3 DEF Undisturbed
      <4> QED BY <4>2, <4>4
    <3> QED BY <1>3, <3>1, <3>2
  <2>6. Serving(o)' BY <1>3, <2>3, <2>4, <2>5 DEF Serving
  <2>7. LetsGo(o) BY <1>3 DEF LetsGo
  <2> QED BY <2>6, <2>7
<1> QED BY <1>1, <1>2, <1>3 DEF Follows

-----------------------------------------------------------------------------
\* The bots of a launch, and of those at work.
LEMMA HostsKeep ==
  ASSUME Inv, CrewInv, Next
  PROVE  Steadily' /\ \A o \in Operations : Unbegun(o)'
<1>0. /\ Typed /\ Awaited /\ Steadily /\ \A o \in Operations : Unbegun(o) /\ Expected(o) /\ Home(o)
      /\ \A o \in Operations : Crew(o) \subseteq Pilots /\ (launch[o] # None => launch[o].left \subseteq Crew(o))
  BY DEF Inv, CrewInv, Crew, Typed
<1>1. ASSUME UNCHANGED <<host, launch>>, \A p \in steady' : p \in steady \/ host[p] = "running"
      PROVE  Steadily' /\ \A o \in Operations : Unbegun(o)'
  BY <1>0, <1>1 DEF Steadily, Unbegun
<1>2. ASSUME NEW p \in Pilots, StartMember(p) PROVE Steadily' /\ \A o \in Operations : Unbegun(o)'
  <2> DEFINE o == OperationOf[p]
             left == launch[o].left \ {p}
  <2>1. /\ o \in Operations /\ launch[o] # None /\ launch[o].phase = "members" /\ p \in launch[o].left
        /\ launch[o] \in Launch
    BY <1>0, <1>2, CrewOf DEF StartMember, LeftIn, Typed
  <2>2. host[p] = "none" BY <1>0, <2>1 DEF Expected, Hosted
  <2>3. steady' = steady /\ host' \in {host, [host EXCEPT ![p] = "waiting"]}
        /\ \E l : launch' = [launch EXCEPT ![o] = l]
             /\ l \in {None, [launch[o] EXCEPT !.left = left], [phase |-> "mains", left |-> Crew(o)]}
    BY <1>0, <1>2 DEF StartMember, Typed
  <2>4. PICK l : /\ launch' = [launch EXCEPT ![o] = l]
                 /\ l \in {None, [launch[o] EXCEPT !.left = left], [phase |-> "mains", left |-> Crew(o)]}
    BY <2>3
  <2>5. l # None => l.left \subseteq Crew(o)
    <3> DEFINE less == [launch[o] EXCEPT !.left = left]
               mains == [phase |-> "mains", left |-> Crew(o)]
    <3>1. less.left = left /\ left \subseteq Crew(o) /\ mains.left = Crew(o) BY <1>0, <2>1 DEF Launch
    <3>2. l \in {None, less, mains} BY <2>4
    <3> HIDE DEF less, mains, left
    <3> QED BY <3>1, <3>2
  <2>6. \A q \in Crew(o) : host'[q] \notin {"running", "paused"}
    BY <1>0, <2>1, <2>3 DEF Unbegun, Typed
  <2>7. Unbegun(o)' BY <1>0, <2>1, <2>4, <2>5, <2>6 DEF Unbegun, Typed
  <2>8. \A x \in Operations \ {o} : Unbegun(x)'
    <3>1. \A x \in Operations \ {o} : p \notin Crew(x) /\ launch'[x] = launch[x] BY <1>0, <2>4 DEF Crew,
                                                                                    Typed
    <3> QED BY <1>0, <2>3, <3>1 DEF Unbegun, Typed
  <2>9. Steadily' BY <1>0, <2>2, <2>3 DEF Steadily, Typed
  <2> QED BY <2>7, <2>8, <2>9
<1>3. ASSUME NEW p \in Pilots, StartMain(p) PROVE Steadily' /\ \A o \in Operations : Unbegun(o)'
  <2> DEFINE o == OperationOf[p]
             left == launch[o].left \ {p}
  <2>1. /\ o \in Operations /\ launch[o] # None /\ launch[o].phase = "mains" /\ p \in launch[o].left
        /\ launch[o] \in Launch
    BY <1>0, <1>3, CrewOf DEF StartMain, LeftIn, Typed
  <2>2. /\ steady' = steady
        /\ host' = host \/ (host[p] = "waiting" /\ host' = [host EXCEPT ![p] = "running"])
        /\ launch' = [launch EXCEPT ![o] = IF left = {} THEN None ELSE [launch[o] EXCEPT !.left = left]]
    BY <1>0, <1>3 DEF StartMain, Typed
  <2>3. Unbegun(o)'
    <3> DEFINE less == [launch[o] EXCEPT !.left = left]
    <3>1. less.left = left /\ less.phase = "mains" BY <2>1 DEF Launch
    <3>2. launch'[o] \in {None, less} BY <1>0, <2>1, <2>2 DEF Typed
    <3>3. \A q \in left : host'[q] \notin {"running", "paused"} BY <1>0, <2>1, <2>2 DEF Unbegun, Typed
    <3> HIDE DEF less
    <3> QED BY <3>1, <3>2, <3>3 DEF Unbegun
  <2>4. \A x \in Operations \ {o} : Unbegun(x)'
    <3>1. \A x \in Operations \ {o} : p \notin Crew(x) /\ launch'[x] = launch[x] BY <1>0, <2>2 DEF Crew,
                                                                                    Typed
    <3> QED BY <1>0, <2>2, <3>1 DEF Unbegun, Typed
  <2>5. Steadily' BY <1>0, <2>2 DEF Steadily, Typed
  <2> QED BY <2>3, <2>4, <2>5
<1>4. ASSUME NEW p \in Pilots, Pause(p) \/ Resume(p) \/ BotEnds(p)
      PROVE  Steadily' /\ \A o \in Operations : Unbegun(o)'
  <2>1. /\ UNCHANGED launch /\ steady' = steady \ {p}
        /\ \E s \in {"paused", "running", "none"} : host' = [host EXCEPT ![p] = s]
        /\ host[p] \in {"running", "paused"} \/ host' = [host EXCEPT ![p] = "none"]
    BY <1>4 DEF Pause, Resume, BotEnds, BotChanges
  <2>2. Steadily' BY <1>0, <2>1 DEF Steadily, Typed
  <2>3. \A o \in Operations : Unbegun(o)' BY <1>0, <2>1 DEF Unbegun, Typed
  <2> QED BY <2>2, <2>3
<1>5. ASSUME NEW p \in Pilots, Settle(p) \/ BroughtIn(p)
      PROVE  Steadily' /\ \A o \in Operations : Unbegun(o)'
  <2>1. /\ UNCHANGED launch /\ steady' = steady \ {p}
        /\ \E s \in {"settled", "blocked", "none"} : host' = [host EXCEPT ![p] = s]
    BY <1>5 DEF Settle, BroughtIn, Fails
  <2>2. Steadily' BY <1>0, <2>1 DEF Steadily, Typed
  <2>3. \A o \in Operations : Unbegun(o)' BY <1>0, <2>1 DEF Unbegun, Typed
  <2> QED BY <2>2, <2>3
<1>6. ASSUME NEW p \in Pilots, OfPilot(p) PROVE Steadily' /\ \A o \in Operations : Unbegun(o)'
  <2>1. CASE Look(p) \/ Idle(p) \/ ActivateTarget(p) \/ Mine(p) \/ Jettison(p) \/ Unload(p)
             \/ Report(p) \/ MarkReady(p) \/ FinishDrain(p)
    <3>1. UNCHANGED <<host, launch, steady>>
      BY <2>1 DEF Look, Idle, ActivateTarget, Mine, Jettison, Unload, Report, MarkReady, FinishDrain
    <3> QED BY <1>1, <3>1
  <2>2. CASE \E t \in Targets : ReserveTarget(p, t)
    <3>1. UNCHANGED <<host, launch>> /\ \A q \in steady' : q \in steady \/ host[q] = "running"
      BY <2>2 DEF ReserveTarget
    <3> QED BY <1>1, <3>1
  <2> QED BY <1>2, <1>3, <1>4, <1>5, <1>6, <2>1, <2>2 DEF OfPilot
<1>7. ASSUME NEW o \in Operations, OfOperation(o) PROVE Steadily' /\ \A x \in Operations : Unbegun(x)'
  <2>1. CASE Start(o)
    <3>1. /\ host' = host /\ steady' = steady /\ op[o].run \in {"draft", "stopped"}
          /\ launch' = [launch EXCEPT ![o] = [phase |-> "members", left |-> Crew(o)]]
      BY <2>1 DEF Start
    <3>2. \A q \in Crew(o) : host[q] = "none" BY <1>0, <3>1 DEF Home, HostedCrew, Hosted
    <3>3. Unbegun(o)' BY <1>0, <3>1, <3>2 DEF Unbegun, Typed
    <3>4. \A x \in Operations \ {o} : Unbegun(x)' BY <1>0, <3>1 DEF Unbegun, Typed
    <3> QED BY <1>0, <3>1, <3>3, <3>4 DEF Steadily
  <2>2. CASE StopRoute(o) \/ Deadline(o) \/ Cross(o) \/ EndStop(o)
    <3>1. UNCHANGED <<host, launch, steady>> BY <2>2 DEF StopRoute, Deadline, BeginStop, Cross, EndStop
    <3> QED BY <1>1, <3>1
  <2> QED BY <1>7, <2>1, <2>2 DEF OfOperation
<1>8. CASE List \/ \E t \in Targets : LeaseRunsOut(t)
  <2>1. UNCHANGED <<host, launch, steady>> BY <1>8 DEF List, LeaseRunsOut
  <2> QED BY <1>1, <2>1
<1> QED BY <1>6, <1>7, <1>8 DEF Next

-----------------------------------------------------------------------------
\* Nothing about an operation changes that its crew at a target depends on.
LEMMA Untouched ==
  ASSUME Inv, NEW o \in Operations, Serving(o), op'[o] = op[o],
         \A p \in steady \cap Crew(o) : row[p] = "running" => row'[p] = "running",
         Undisturbed(o)
  PROVE  Serving(o)' /\ LetsGo(o)
<1>1. Follows(op[o], op'[o], {}, {}) BY SameFollows
<1> QED BY <1>1, FollowsKeeps

\* What may be assumed of an operation that haulers serve.
LEMMA ServingHere ==
  ASSUME Inv, CrewInv, NEW o \in Serviced
  PROVE  /\ o \in Operations /\ Serving(o) /\ Steadily /\ op[o] \in Runtime /\ Sound(o, op[o], board) /\ Typed
         /\ Crew(o) \subseteq Pilots
         /\ \A x \in Operations \ {o} : Crew(x) \cap Crew(o) = {}
BY CrewAssumption DEF Inv, CrewInv, Typed, Crew

LEMMA OthersFollow ==
  ASSUME Inv, NEW x \in Operations, NEW s, op' = [op EXCEPT ![x] = s]
  PROVE  op'[x] = s /\ \A o \in Operations \ {x} : op'[o] = op[o]
BY DEF Inv, Typed

\* The rows that a launch leaves, and that say running.
LEMMA RunningRows ==
  ASSUME NEW r, NEW rows, NEW p \in Pilots, rows[p] = "running"
  PROVE  RowsAtRelease(r, rows)[p] = "running"
BY DEF RowsAtRelease

LEMMA LaunchServes ==
  ASSUME Inv, CrewInv, NEW p \in Pilots, StartMember(p) \/ StartMain(p), NEW o \in Serviced
  PROVE  Serving(o)' /\ LetsGo(o)
<1> DEFINE x == OperationOf[p]
           left == launch[x].left \ {p}
<1>0. /\ o \in Operations /\ Serving(o) /\ Steadily /\ op[o] \in Runtime /\ Typed /\ Crew(o) \subseteq Pilots
      /\ x \in Operations /\ p \in Crew(x)
  BY ServingHere, CrewOf
<1>1. p \notin steady
  <2>1. Expected(x) /\ Unbegun(x) BY <1>0 DEF Inv, CrewInv
  <2>2. host[p] # "running" BY <2>1 DEF StartMember, StartMain, LeftIn, Expected, Unbegun, Hosted
  <2> QED BY <1>0, <2>2 DEF Steadily
<1>2. Undisturbed(o) BY <1>0 DEF StartMember, StartMain, Undisturbed
<1>3. \A q \in Pilots \ {p} : row[q] = "running" => row'[q] = "running"
  <2>1. \A status : \A q \in Pilots \ {p} : row[q] = "running" => RowsFailed(p, status)[q] = "running"
    <3> TAKE status
    <3> DEFINE rows == [row EXCEPT ![p] = IF @ = "parked" THEN @ ELSE status]
    <3>1. \A q \in Pilots \ {p} : rows[q] = row[q] BY <1>0 DEF Typed
    <3>2. RowsFailed(p, status) = RowsAtRelease(Without(op[x], {p}), rows) BY DEF RowsFailed
    <3> HIDE DEF rows
    <3> QED BY <3>1, <3>2, RunningRows
  <2>2. row' \in {row, [row EXCEPT ![p] = "running"], RowsFailed(p, "unstarted"), RowsFailed(p, "failed")}
    BY DEF StartMember, StartMain
  <2> QED BY <1>0, <2>1, <2>2 DEF Typed
<1>4. op' \in {op, [op EXCEPT ![x] = FinishLaunch(op[x], left)], [op EXCEPT ![x] = FinishLaunch(Failed(p), left)]}
  BY <1>0 DEF StartMember, StartMain, Typed
<1>5. CASE o = x
  <2>1. \E gone \in {{}, {p}} : Follows(op[o], op'[o], gone, {})
    <3>1. CASE op' = op BY <3>1, SameFollows
    <3>2. CASE op' = [op EXCEPT ![x] = FinishLaunch(op[x], left)]
      <4>1. op'[o] = FinishLaunch(op[o], left) BY <1>0, <1>5, <3>2, OthersFollow
      <4>2. Follows(op[o], op[o], {}, {}) /\ Follows(op[o], [op[o] EXCEPT !.run = "working"], {}, {})
        BY <1>0, SameFollows, RunFollows
      <4> QED BY <4>1, <4>2 DEF FinishLaunch
    <3>3. CASE op' = [op EXCEPT ![x] = FinishLaunch(Failed(p), left)]
      <4>1. op'[o] = FinishLaunch(Failed(p), left) BY <1>0, <1>5, <3>3, OthersFollow
      <4>2. Follows(op[x], FinishLaunch(Failed(p), left), {p}, {}) BY FailedFollows
      <4> HIDE DEF left
      <4> QED BY <1>5, <4>1, <4>2
    <3> QED BY <1>4, <3>1, <3>2, <3>3
  <2>2. PICK gone \in {{}, {p}} : Follows(op[o], op'[o], gone, {}) BY <2>1
  <2>3. gone \cap steady = {} BY <1>1, <2>2
  <2>4. \A q \in steady \cap Crew(o) : row[q] = "running" => row'[q] = "running" BY <1>0, <1>1, <1>3
  <2> QED BY <1>0, <1>2, <2>2, <2>3, <2>4, FollowsKeeps
<1>6. CASE o # x
  <2>1. op'[o] = op[o] BY <1>0, <1>4, <1>6, OthersFollow
  <2>2. \A q \in steady \cap Crew(o) : row[q] = "running" => row'[q] = "running" BY <1>0, <1>1, <1>3
  <2> QED BY <1>0, <1>2, <2>1, <2>2, Untouched
<1> QED BY <1>5, <1>6

LEMMA LookServes ==
  ASSUME Inv, CrewInv, NEW p \in Pilots, Look(p), NEW o \in Serviced
  PROVE  Serving(o)' /\ LetsGo(o)
<1> DEFINE x == OperationOf[p]
           kept == KeepCurrent(x, op[x])
           tails == {d.target : d \in {e \in kept.drains : p \in e.pending}}
           c == kept.current
<1>0. /\ o \in Operations /\ Serving(o) /\ op[o] \in Runtime /\ Typed /\ Crew(o) \subseteq Pilots
      /\ x \in Operations /\ p \in Crew(x)
  BY ServingHere, CrewOf
<1>1. Sound(x, kept, board) /\ kept \in Runtime BY <1>0, KeepCurrentSound DEF Inv, Sound
<1>2. /\ UNCHANGED <<board, row, hold, rocks, steady>>
      /\ \E tail \in IF tails = {} THEN {None} ELSE tails :
           LET lost == tail # None /\ board[tail].owner # x
           IN  /\ op' = [op EXCEPT ![x] = IF lost THEN LoseDrainClaims(kept, {tail}) ELSE kept]
               /\ view' = [view EXCEPT ![p] =
                     IF Stopping(x) THEN None
                     ELSE IF p \in Haulers THEN IF lost THEN None ELSE tail
                     ELSE [target |-> IF c = None THEN None ELSE c.target,
                           state |-> IF c = None THEN "none"
                                     ELSE IF c.claimed THEN board[c.target].state ELSE "DEPLETED",
                           waits |-> kept.barrier # None,
                           ready |-> kept.barrier # None /\ p \in kept.barrier.ready]]
  BY DEF Look
<1>3. PICK tail \in IF tails = {} THEN {None} ELSE tails :
           LET lost == tail # None /\ board[tail].owner # x
           IN  /\ op' = [op EXCEPT ![x] = IF lost THEN LoseDrainClaims(kept, {tail}) ELSE kept]
               /\ view' = [view EXCEPT ![p] =
                     IF Stopping(x) THEN None
                     ELSE IF p \in Haulers THEN IF lost THEN None ELSE tail
                     ELSE [target |-> IF c = None THEN None ELSE c.target,
                           state |-> IF c = None THEN "none"
                                     ELSE IF c.claimed THEN board[c.target].state ELSE "DEPLETED",
                           waits |-> kept.barrier # None,
                           ready |-> kept.barrier # None /\ p \in kept.barrier.ready]]
  BY <1>2
<1>4. \A q \in Pilots \ {p} : view'[q] = view[q] BY <1>0, <1>3 DEF Typed
<1>5. CASE o # x
  <2>1. op'[o] = op[o] BY <1>0, <1>3, <1>5, OthersFollow
  <2>2. Undisturbed(o) BY <1>0, <1>2, <1>4, <1>5 DEF Undisturbed, Crew
  <2> QED BY <1>0, <1>2, <2>1, <2>2, Untouched
<1>6. CASE o = x
  <2> DEFINE lost == tail # None /\ board[tail].owner # x
             s == IF lost THEN LoseDrainClaims(kept, {tail}) ELSE kept
  <2>1. op'[o] = s
    <3>1. op' = [op EXCEPT ![x] = s] BY <1>3
    <3> HIDE DEF s
    <3> QED BY <1>0, <1>6, <3>1, OthersFollow
  <2>2. Follows(op[o], kept, {}, {}) BY <1>0, <1>6, KeepCurrentFollows
  <2>3. Follows(kept, LoseDrainClaims(kept, {tail}), {}, {}) BY <1>1, LoseDrainsFollows
  <2>4. Follows(op[o], s, {}, {})
    <3> HIDE DEF kept, lost
    <3> QED BY <2>2, <2>3, FollowsThen
  <2>5. p \in Miners => tails = {} /\ p \notin Haulers /\ ~lost
    <3>1. p \in Miners => tails = {} BY <1>1, CrewAssumption DEF Runtime, Drain
    <3>2. p \in Miners => tail = None
      <4> HIDE DEF tails
      <4> QED BY <1>3, <3>1
    <3> QED BY <3>1, <3>2, CrewAssumption
  <2>6. ASSUME p \in Miners, view'[p] # None, op'[o].current # None
        PROVE  /\ view'[p].target = op'[o].current.target
               /\ ~op'[o].current.claimed => view'[p].state # "ACTIVE"
    <3>1. op'[o] = kept BY <2>1, <2>5, <2>6
    <3>2. view'[p] = [target |-> IF c = None THEN None ELSE c.target,
                      state |-> IF c = None THEN "none"
                                ELSE IF c.claimed THEN board[c.target].state ELSE "DEPLETED",
                      waits |-> kept.barrier # None,
                      ready |-> kept.barrier # None /\ p \in kept.barrier.ready]
      BY <1>0, <1>3, <2>5, <2>6 DEF Typed
    <3> HIDE DEF kept
    <3> QED BY <2>6, <3>1, <3>2
  <2>7. Undisturbed(o)
    <3> HIDE DEF s
    <3> QED BY <1>0, <1>2, <1>4, <2>6 DEF Undisturbed
  <2>8. Follows(op[o], op'[o], {}, {}) BY <2>1, <2>4
  <2>9. row' = row /\ {} \cap steady = {} /\ {} \subseteq Crew(o) \cap Miners BY <1>2
  <2>10. op[o].barrier = None => \A q \in steady \cap Crew(o) : row[q] = "running" => row'[q] = "running"
    BY <2>9
  <2> HIDE DEF s, kept, tails, lost, c, x
  <2> QED BY <1>0, <2>7, <2>8, <2>9, <2>10, FollowsKeeps
<1> QED BY <1>5, <1>6

\* The steps of a tick that leave the runtimes alone, or only degrade one.
LEMMA QuietTickServes ==
  ASSUME Inv, CrewInv, NEW p \in Pilots, Idle(p) \/ Mine(p) \/ Unload(p) \/ Jettison(p), NEW o \in Serviced
  PROVE  Serving(o)' /\ LetsGo(o)
<1> DEFINE x == OperationOf[p]
<1>0. /\ o \in Operations /\ Serving(o) /\ op[o] \in Runtime /\ Typed /\ Crew(o) \subseteq Pilots
      /\ x \in Operations /\ p \in Crew(x)
  BY ServingHere, CrewOf
<1>1. /\ UNCHANGED <<board, row, steady>> /\ Ends(p)
      /\ \A q \in Pilots \ {p} : hold'[q] = hold[q]
      /\ hold'[p] => hold[p] \/ (view[p] # None /\ view[p].state = "ACTIVE" /\ rocks[view[p].target])
      /\ \A t \in Targets : rocks'[t] => rocks[t]
      /\ op' \in {op, [op EXCEPT ![x].run = "working"]}
  BY <1>0 DEF Idle, Mine, Unload, Jettison, OnTarget, Typed
<1>2. \A q \in Pilots : view'[q] \in {view[q], None} BY <1>0, <1>1 DEF Typed, Ends
<1>3. Undisturbed(o) BY <1>0, <1>1, <1>2 DEF Undisturbed
<1>4. Follows(op[o], op'[o], {}, {})
  <2>1. Follows(op[o], op[o], {}, {}) BY SameFollows
  <2>2. Follows(op[o], [op[o] EXCEPT !.run = "working"], {}, {}) BY <1>0, RunFollows
  <2>3. op'[o] \in {op[o], [op[o] EXCEPT !.run = "working"]} BY <1>0, <1>1 DEF Typed
  <2> QED BY <2>1, <2>2, <2>3
<1> QED BY <1>0, <1>1, <1>3, <1>4, FollowsKeeps

\* Who is required and not gone is ready: nobody is left behind.
LEMMA AllClear ==
  ASSUME Inv, CrewInv, NEW o \in Serviced, op[o].barrier # None, StillHeld(o),
         op[o].barrier.required \ Gone(o) \subseteq op[o].barrier.ready
  PROVE  \A p \in steady \cap Crew(o) \cap Miners : ~hold[p]
<1>1. Gone(o) \cap steady = {} BY ServingHere DEF Gone, Steadily, Hosted
<1> QED BY <1>1, ServingHere DEF Serving, StillHeld

LEMMA ReconciledReady ==
  ASSUME Inv, NEW o \in Operations, op[o].barrier # None, Reconciled(o).barrier = None
  PROVE  op[o].barrier.required \ Gone(o) \subseteq op[o].barrier.ready
<1> DEFINE w == Without(op[o], Gone(o))
           s == [op[o] EXCEPT !.run = "working"]
<1>0. op[o] \in Runtime BY DEF Inv, Sound
<1>1. Gone(o) # {} /\ ReleaseIfReady(w).barrier = None BY DEF Reconciled
<1>2. /\ s.barrier = op[o].barrier /\ s.current = op[o].current /\ s \in Runtime
      /\ op[o].barrier \in Barrier
  BY <1>0 DEF Runtime, Runs
<1>3. w = [s EXCEPT !.barrier.required = @ \ Gone(o)] BY <1>2 DEF Without
<1>4. w.barrier = [op[o].barrier EXCEPT !.required = @ \ Gone(o)] BY <1>2, <1>3 DEF Runtime
<1>5. w.barrier.required = op[o].barrier.required \ Gone(o) /\ w.barrier.ready = op[o].barrier.ready
      /\ w.barrier \in Barrier
  BY <1>2, <1>4 DEF Barrier
<1>6. w.barrier # None BY <1>5, CrewAssumption DEF Barrier
<1> HIDE DEF w
<1>7. ReadyToGo(w) BY <1>1, <1>6 DEF ReleaseIfReady
<1> QED BY <1>5, <1>7 DEF ReadyToGo

\* Reconciled, the rows of bots that run say so.
LEMMA ReconciledRunning ==
  ASSUME NEW p \in Pilots, host[p] = "running"
  PROVE  RowsReconciled[p] = "running"
<1>1. ReconciledRows[p] = "running" BY DEF ReconciledRows, HostStatus, Hosted
<1> QED BY <1>1, RunningRows DEF RowsReconciled

LEMMA ReserveServes ==
  ASSUME Inv, CrewInv, NEW p \in Pilots, NEW t \in Targets, ReserveTarget(p, t), NEW o \in Serviced
  PROVE  Serving(o)' /\ LetsGo(o)
<1> DEFINE x == OperationOf[p]
           r == Reconciled(x)
           others == [y \in Operations |-> Reconciled(y)]
           eligible == board[t].owner \in {None, x} /\ r.run \notin StopStates
           renewed == board[t].state = "DEPLETED"
           taken == eligible /\ r.current = None /\ (~board[t].spent \/ renewed)
           lost == eligible /\ r.current # None /\ board[r.current.target].owner # x
           s == IF lost THEN LoseClaim(r, r.current.target) ELSE r
           u == [r EXCEPT !.current = [target |-> t, claimed |-> TRUE], !.authorityLoss = FALSE,
                          !.run = "working"]
           entry == [owner |-> x, state |-> "RESERVED", spent |-> FALSE]
<1>0. /\ o \in Operations /\ Serving(o) /\ Steadily /\ op[o] \in Runtime /\ Typed /\ Crew(o) \subseteq Pilots
      /\ x \in Operations /\ p \in Crew(x)
      /\ \A y \in Operations \ {o} : Crew(y) \cap Crew(o) = {}
  BY ServingHere, CrewOf
<1>1. /\ UNCHANGED <<hold, host>> /\ row' = RowsReconciled /\ Ends(p)
      /\ IF taken
         THEN /\ board' = [board EXCEPT ![t] = entry]
              /\ rocks' = [rocks EXCEPT ![t] = @ \/ renewed]
              /\ op' = [others EXCEPT ![x] = u]
              /\ steady' = (steady \ Crew(x)) \cup {q \in Crew(x) : host[q] = "running"}
         ELSE /\ op' = [others EXCEPT ![x] = s]
              /\ UNCHANGED <<board, rocks, steady>>
  BY DEF ReserveTarget
<1>2. \A q \in Pilots : view'[q] \in {view[q], None} BY <1>0, <1>1 DEF Typed, Ends
<1>3. \A q \in Pilots : host[q] = "running" => row'[q] = "running" BY <1>1, ReconciledRunning
<1>4. Follows(op[o], Reconciled(o), Gone(o), {}) /\ Reconciled(o) \in Runtime BY <1>0, ReconciledFollows
<1>5. Gone(o) \cap steady = {} BY <1>0 DEF Gone, Steadily, Hosted
<1>6. \A q \in steady \cap Crew(o) : row'[q] = "running" BY <1>0, <1>3 DEF Steadily
<1>7. CASE ~(taken /\ o = x)
  <2>1. Undisturbed(o)
    <3>1. CASE taken /\ o # x
      <4>1. /\ board'[t].owner = x /\ \A z \in Targets \ {t} : board'[z] = board[z] /\ rocks'[z] = rocks[z]
            /\ steady' \cap Crew(o) \subseteq steady
        <5>1. entry.owner = x OBVIOUS
        <5> HIDE DEF entry, taken, renewed
        <5> QED BY <1>0, <1>1, <3>1, <5>1 DEF Typed
      <4> HIDE DEF taken, entry, x
      <4> QED BY <1>0, <1>1, <1>2, <3>1, <4>1 DEF Undisturbed
    <3>2. CASE ~taken
      <4>1. UNCHANGED <<board, rocks, steady>> BY <1>1, <3>2
      <4> HIDE DEF taken
      <4> QED BY <1>0, <1>1, <1>2, <4>1 DEF Undisturbed
    <3> QED BY <1>7, <3>1, <3>2
  <2>2. Follows(op[o], op'[o], Gone(o), {})
    <3>1. CASE o # x
      <4>1. op'[o] = Reconciled(o)
        <5> HIDE DEF taken, u, s
        <5> QED BY <1>0, <1>1, <3>1
      <4> QED BY <1>4, <4>1
    <3>2. CASE o = x
      <4>1. op'[o] = s
        <5> HIDE DEF taken, u, s
        <5> QED BY <1>0, <1>1, <1>7, <3>2
      <4>2. Follows(r, LoseClaim(r, r.current.target), {}, {}) BY <1>4, <3>2, LoseClaimFollows
      <4>3. Follows(op[o], LoseClaim(r, r.current.target), Gone(o), {}) BY <1>4, <3>2, <4>2, FollowsThen
      <4> HIDE DEF lost
      <4> QED BY <1>4, <3>2, <4>1, <4>3
    <3> QED BY <3>1, <3>2
  <2> HIDE DEF taken
  <2> QED BY <1>0, <1>5, <1>6, <2>1, <2>2, FollowsKeeps
<1>8. CASE taken /\ o = x
  <2>1. op'[o] = u /\ steady' \cap Crew(o) = {q \in Crew(o) : host[q] = "running"}
    <3> HIDE DEF u, taken
    <3> QED BY <1>0, <1>1, <1>8
  <2>2. Reconciled(o).barrier = None
    <3>1. Sound(o, Reconciled(o), board) BY <1>0, ReconciledSound
    <3> QED BY <1>8, <3>1 DEF Sound, Leaving
  <2>3. u.barrier = None BY <1>4, <1>8, <2>2 DEF Runtime
  <2> HIDE DEF u, taken
  <2>4. Serving(o)' BY <1>0, <1>3, <2>1, <2>3 DEF Serving
  <2>5. LetsGo(o) BY <1>0, <2>2, ReconciledReady, AllClear DEF LetsGo
  <2> QED BY <2>4, <2>5
<1> QED BY <1>7, <1>8

LEMMA ActivateServes ==
  ASSUME Inv, CrewInv, NEW p \in Pilots, ActivateTarget(p), NEW o \in Serviced
  PROVE  Serving(o)' /\ LetsGo(o)
<1> DEFINE x == OperationOf[p]
           t == view[p].target
           r == op[x]
           lost == LoseClaim(r, t)
           s == [r EXCEPT !.current.claimed = TRUE, !.run = "working"]
<1>0. /\ o \in Operations /\ Serving(o) /\ op[o] \in Runtime /\ Typed /\ Crew(o) \subseteq Pilots
      /\ x \in Operations /\ p \in Crew(x) /\ r \in Runtime
  BY ServingHere, CrewOf DEF Inv, Typed
<1>1. /\ UNCHANGED <<row, hold, rocks, steady>> /\ Ends(p)
      /\ \/ UNCHANGED <<board, op>>
         \/ op' = [op EXCEPT ![x] = lost] /\ UNCHANGED board
         \/ /\ Heeded(p) /\ board[t].owner = x /\ board' = [board EXCEPT ![t].state = "ACTIVE"]
            /\ op' = [op EXCEPT ![x] = s]
  BY <1>0 DEF ActivateTarget, Typed
<1>2. \A z \in Targets : board'[z].owner = board[z].owner BY <1>0, <1>1 DEF Typed, Entry
<1>3. \A q \in Pilots : view'[q] \in {view[q], None} BY <1>0, <1>1 DEF Typed, Ends
<1>4. Undisturbed(o) BY <1>0, <1>1, <1>2, <1>3 DEF Undisturbed
<1>5. Follows(op[o], op'[o], {}, {})
  <2>1. CASE op'[o] = op[o] BY <2>1, SameFollows
  <2>2. CASE op' = [op EXCEPT ![x] = lost]
    <3>1. Follows(op[x], lost, {}, {}) BY <1>0, LoseClaimFollows
    <3> HIDE DEF lost
    <3>2. op'[x] = lost /\ (o # x => op'[o] = op[o]) BY <1>0, <2>2, OthersFollow
    <3> QED BY <2>1, <3>1, <3>2
  <2>3. CASE Heeded(p) /\ board[t].owner = x /\ op' = [op EXCEPT ![x] = s] /\ o = x
    <3>1. r.current \in Targeted /\ r.current.target = t /\ r.current # None
      BY <1>0, <2>3 DEF Heeded, Runtime
    <3>2. s.barrier = r.barrier /\ s.authorityLoss = r.authorityLoss
          /\ s.current = [r.current EXCEPT !.claimed = TRUE]
      BY <1>0 DEF Runtime
    <3>3. r.barrier # None => r.current.claimed = TRUE
      <4>1. r.current.claimed \in BOOLEAN BY <3>1 DEF Targeted
      <4> QED BY <1>0, <2>3, <3>1, <4>1 DEF Serving
    <3>4. r.barrier # None => s.current = r.current BY <3>1, <3>2, <3>3 DEF Targeted
    <3>5. op'[x] = s
      <4> HIDE DEF s
      <4> QED BY <1>0, <2>3, OthersFollow
    <3> HIDE DEF s
    <3> QED BY <2>3, <3>1, <3>2, <3>4, <3>5 DEF Follows
  <2>4. CASE op' = [op EXCEPT ![x] = s] /\ o # x
    <3> HIDE DEF s
    <3> QED BY <1>0, <2>1, <2>4, OthersFollow
  <2> HIDE DEF s, lost
  <2> QED BY <1>1, <2>1, <2>2, <2>3, <2>4
<1> QED BY <1>0, <1>1, <1>4, <1>5, FollowsKeeps

\* The first report of an operation that haulers serve: the barrier waits for every miner
\* that is at work.
LEMMA FirstReportServes ==
  ASSUME Inv, CrewInv, NEW p \in Pilots, NEW clear \in BOOLEAN, FirstReport(OperationOf[p], p, clear), Heeded(p),
         OperationOf[p] \in Serviced, op[OperationOf[p]].barrier = None,
         board[view[p].target].owner = OperationOf[p], clear => ~hold[p], ~rocks[view[p].target],
         p \in Miners, UNCHANGED <<hold, rocks, steady>>, Ends(p)
  PROVE  Serving(OperationOf[p])' /\ LetsGo(OperationOf[p])
<1> DEFINE o == OperationOf[p]
           t == view[p].target
           haulers == IF o \in Serviced THEN AtWork(o, Haulers) ELSE {}
           draining == haulers # {}
           ready == IF o \in Serviced /\ clear THEN {p} ELSE {}
           now == [target |-> t, claimed |-> draining]
           barrier == [required |-> AtWork(o, Miners), ready |-> ready]
           r == [op[o] EXCEPT
                   !.run = "working",
                   !.current = now,
                   !.drains = @ \cup (IF draining THEN {[target |-> t, pending |-> haulers]} ELSE {}),
                   !.barrier = barrier]
           spent == [owner |-> o, state |-> "DRAINING", spent |-> TRUE]
           entry == IF draining THEN spent ELSE Unclaimed(spent)
           s == IF o \in Serviced THEN ReleaseIfReady(r) ELSE r
<1>0. o \in Operations /\ Typed /\ Serving(o) /\ op[o] \in Runtime /\ Crew(o) \subseteq Pilots /\ p \in Crew(o)
  BY CrewOf, ServingHere
<1>1. board' = [board EXCEPT ![t] = entry] /\ op' = [op EXCEPT ![o] = s] BY DEF FirstReport
<1>2. t \in Targets /\ op[o].current # None BY <1>0 DEF Heeded, Runtime, Targeted
<1>3. board'[t] = entry
  <2> HIDE DEF entry
  <2> QED BY <1>0, <1>1, <1>2 DEF Typed
<1>4. ~draining => board'[t].owner # o BY <1>0, <1>3, CrewAssumption DEF Unclaimed
<1>5. r \in Runtime /\ r.barrier = barrier /\ r.current = now /\ barrier # None
  <2>1. now \in Targeted
    <3>1. draining \in BOOLEAN OBVIOUS
    <3> HIDE DEF draining
    <3> QED BY <1>2, <3>1, TargetedIs
  <2>2. draining => [target |-> t, pending |-> haulers] \in Drain
    <3>1. haulers \in SUBSET Haulers BY DEF AtWork
    <3> HIDE DEF haulers
    <3> QED BY <1>2, <3>1, DrainIs
  <2>3. barrier \in Barrier /\ barrier # None BY <1>0, CrewAssumption DEF Barrier, AtWork
  <2> HIDE DEF now, barrier
  <2> QED BY <1>0, <2>1, <2>2, <2>3 DEF Runtime, Runs
<1>6. op'[o] = s
  <2> HIDE DEF s
  <2> QED BY <1>0, <1>1, OthersFollow
<1>7. (s.barrier # None => s = r) /\ (s.barrier = None => s.current = None)
  <2> HIDE DEF r
  <2>1. LET go == [r EXCEPT !.barrier = None, !.current = None, !.run = "working"]
        IN  go.barrier = None /\ go.current = None
    BY <1>5 DEF Runtime
  <2> QED BY <1>5, <2>1 DEF ReleaseIfReady
<1>8. view'[p] = None BY <1>0 DEF Ends, Typed
<1>9. steady \cap Crew(o) \cap Miners \subseteq barrier.required
  BY <1>0, <1>2 DEF Serving, AtWork
<1>10. barrier.ready \subseteq {p} /\ (p \in barrier.ready => ~hold[p]) OBVIOUS
<1>11. now.target = t /\ (now.claimed <=> draining) OBVIOUS
<1> HIDE DEF s, r, now, barrier, entry, draining
<1>12. Serving(o)'
  <2>1. CASE s.barrier = None BY <1>6, <1>7, <2>1 DEF Serving
  <2>2. CASE s.barrier # None
    <3>1. op'[o].barrier = barrier /\ op'[o].current = now BY <1>5, <1>6, <1>7, <2>2
    <3> QED BY <1>0, <1>4, <1>6, <1>8, <1>9, <1>10, <1>11, <2>2, <3>1 DEF Serving
  <2> QED BY <2>1, <2>2
<1> QED BY <1>12 DEF LetsGo

LEMMA ReportServes ==
  ASSUME Inv, CrewInv, NEW p \in Pilots, Report(p), NEW o \in Serviced
  PROVE  Serving(o)' /\ LetsGo(o)
<1> DEFINE x == OperationOf[p]
           t == view[p].target
           after == ReadyAt(op[x], row, p)
           lost == LoseClaim(op[x], t)
<1>0. /\ o \in Operations /\ Serving(o) /\ op[o] \in Runtime /\ Typed /\ Crew(o) \subseteq Pilots
      /\ x \in Operations /\ p \in Crew(x) /\ op[x] \in Runtime
  BY ServingHere, CrewOf DEF Inv, Typed
<1>1. /\ UNCHANGED <<hold, rocks, steady>> /\ Ends(p) /\ p \in Miners /\ ~rocks[t]
      /\ \E clear \in BOOLEAN : DepleteTarget(p, clear) /\ (clear => ~hold[p])
  BY DEF Report, OnTarget
<1>2. PICK clear \in BOOLEAN : DepleteTarget(p, clear) /\ (clear => ~hold[p]) BY <1>1
<1>3. view'[p] = None /\ \A q \in Pilots : view'[q] \in {view[q], None} BY <1>0, <1>1 DEF Typed, Ends
<1>4. CASE UNCHANGED board /\ \E s \in {op[x], lost} : op' = [op EXCEPT ![x] = s] /\ row' = row
  <2>1. PICK s \in {op[x], lost} : op' = [op EXCEPT ![x] = s] BY <1>4
  <2>2. Undisturbed(o) BY <1>0, <1>1, <1>3, <1>4 DEF Undisturbed
  <2>3. Follows(op[x], op[x], {}, {}) /\ Follows(op[x], lost, {}, {}) BY <1>0, SameFollows, LoseClaimFollows
  <2> HIDE DEF lost
  <2>4. op'[x] = s /\ (o # x => op'[o] = op[o]) BY <1>0, <2>1, OthersFollow
  <2>5. Follows(op[o], op'[o], {}, {})
    <3>1. CASE o = x BY <2>1, <2>3, <2>4, <3>1
    <3>2. CASE o # x BY <2>4, <3>2, SameFollows
    <3> QED BY <3>1, <3>2
  <2> QED BY <1>0, <1>4, <2>2, <2>5, FollowsKeeps
<1>5. CASE /\ op[x].barrier # None /\ Confirms(x, clear) /\ UNCHANGED board
           /\ op' = [op EXCEPT ![x] = after.op] /\ row' = after.rows
  <2>1. Undisturbed(o) BY <1>0, <1>1, <1>3, <1>5 DEF Undisturbed
  <2>2. Follows(op[x], after.op, {}, {p}) BY <1>0, <1>5, ReadyFollows
  <2> HIDE DEF after
  <2>3. op'[x] = after.op /\ (o # x => op'[o] = op[o]) BY <1>0, <1>5, OthersFollow
  <2>4. CASE o = x
    <3>1. ~hold[p] /\ ~hold'[p] BY <1>1, <1>2, <1>5, <2>4 DEF Confirms
    <3>2. \A q \in {p} : ~hold[q] /\ ~hold'[q] /\ view'[q] = None BY <1>3, <3>1
    <3>3. {p} \subseteq Crew(o) \cap Miners BY <1>0, <1>1, <2>4
    <3> HIDE DEF x
    <3> QED BY <1>0, <1>5, <2>1, <2>2, <2>3, <2>4, <3>2, <3>3, FollowsKeeps
  <2>5. CASE o # x
    <3>1. \A q \in steady \cap Crew(o) : row[q] = "running" => row'[q] = "running"
      <4> DEFINE rows == [row EXCEPT ![p] = "ready"]
      <4>1. \A q \in Crew(o) : rows[q] = row[q] BY <1>0, <2>5 DEF Typed, Crew
      <4>2. \E r : row' = RowsAtRelease(r, rows) BY <1>5 DEF ReadyAt, after
      <4> HIDE DEF rows
      <4> QED BY <1>0, <4>1, <4>2, RunningRows
    <3> QED BY <1>0, <2>1, <2>3, <2>5, <3>1, Untouched
  <2> QED BY <2>4, <2>5
<1>6. CASE /\ Heeded(p) /\ op[x].barrier = None /\ board[t].owner = x /\ FirstReport(x, p, clear)
  <2>1. CASE o = x BY <1>1, <1>2, <1>6, <2>1, FirstReportServes
  <2>2. CASE o # x
    <3>1. /\ \E s : op' = [op EXCEPT ![x] = s]
          /\ \E e : board' = [board EXCEPT ![t] = e] /\ e.owner \in {x, None}
          /\ \E r, rows : (\A q \in Pilots \ {p} : rows[q] = row[q]) /\ row' \in {rows, RowsAtRelease(r, rows)}
      <4> DEFINE haulers == IF x \in Serviced THEN AtWork(x, Haulers) ELSE {}
                 draining == haulers # {}
                 rows == IF x \in Serviced THEN [row EXCEPT ![p] = IF clear THEN "ready" ELSE "running"] ELSE row
                 spent == [owner |-> x, state |-> "DRAINING", spent |-> TRUE]
                 entry == IF draining THEN spent ELSE Unclaimed(spent)
      <4>1. \E s : op' = [op EXCEPT ![x] = s] BY <1>6 DEF FirstReport
      <4>2. board' = [board EXCEPT ![t] = entry] BY <1>6 DEF FirstReport
      <4>3. entry.owner \in {x, None} BY DEF Unclaimed
      <4>4. \E r : row' \in {rows, RowsAtRelease(r, rows)} BY <1>6 DEF FirstReport
      <4>5. \A q \in Pilots \ {p} : rows[q] = row[q] BY <1>0 DEF Typed
      <4> HIDE DEF rows, entry
      <4> QED BY <4>1, <4>2, <4>3, <4>4, <4>5
    <3>2. op'[o] = op[o] BY <1>0, <2>2, <3>1, OthersFollow
    <3>3. \A z \in Targets : board'[z].owner = o => board[z].owner = o
      BY <1>0, <2>2, <3>1, CrewAssumption DEF Typed
    <3>4. Undisturbed(o) BY <1>0, <1>1, <1>3, <3>3 DEF Undisturbed
    <3>5. \A q \in steady \cap Crew(o) : row[q] = "running" => row'[q] = "running"
      <4>1. \A q \in Crew(o) : q # p BY <1>0, <2>2 DEF Crew
      <4> QED BY <1>0, <3>1, <4>1, RunningRows
    <3> QED BY <1>0, <3>2, <3>4, <3>5, Untouched
  <2> QED BY <2>1, <2>2
<1> QED
  <2>1. \/ UNCHANGED <<board, op, row>>
        \/ op' = [op EXCEPT ![x] = lost] /\ UNCHANGED <<board, row>>
        \/ /\ op[x].barrier # None /\ Confirms(x, clear) /\ UNCHANGED board
           /\ op' = [op EXCEPT ![x] = after.op] /\ row' = after.rows
        \/ Heeded(p) /\ op[x].barrier = None /\ board[t].owner = x /\ FirstReport(x, p, clear)
    BY <1>0, <1>2 DEF DepleteTarget, Typed
  <2>2. op = [op EXCEPT ![x] = op[x]] BY <1>0 DEF Typed
  <2> HIDE DEF after, lost
  <2> QED BY <1>4, <1>5, <1>6, <2>1, <2>2

LEMMA MarkReadyServes ==
  ASSUME Inv, CrewInv, NEW p \in Pilots, MarkReady(p), NEW o \in Serviced
  PROVE  Serving(o)' /\ LetsGo(o)
<1> DEFINE x == OperationOf[p]
           rows == [row EXCEPT ![p] = "ready"]
<1>0. /\ o \in Operations /\ Serving(o) /\ Typed /\ Crew(o) \subseteq Pilots
      /\ x \in Operations /\ p \in Crew(x)
  BY ServingHere, CrewOf
<1>1. /\ UNCHANGED <<board, hold, rocks, steady>> /\ Ends(p) /\ o # x
      /\ \E s : op' = [op EXCEPT ![x] = s]
      /\ row' = row \/ \E r : row' = RowsAtRelease(r, rows)
  <2>1. op = [op EXCEPT ![x] = op[x]] BY <1>0 DEF Typed
  <2> QED BY <2>1 DEF MarkReady, ReadyAt
<1>2. \A q \in Pilots : view'[q] \in {view[q], None} BY <1>0, <1>1 DEF Typed, Ends
<1>3. op'[o] = op[o] BY <1>0, <1>1, OthersFollow
<1>4. \A q \in steady \cap Crew(o) : row[q] = "running" => row'[q] = "running"
  <2>1. \A q \in Crew(o) : rows[q] = row[q] BY <1>0, <1>1 DEF Typed, Crew
  <2> HIDE DEF rows
  <2> QED BY <1>0, <1>1, <2>1, RunningRows
<1>5. Undisturbed(o) BY <1>0, <1>1, <1>2 DEF Undisturbed
<1> QED BY <1>0, <1>3, <1>4, <1>5, Untouched

LEMMA FinishDrainServes ==
  ASSUME Inv, CrewInv, NEW p \in Pilots, FinishDrain(p), NEW o \in Serviced
  PROVE  Serving(o)' /\ LetsGo(o)
<1> DEFINE x == OperationOf[p]
           t == view[p]
           lost == LoseDrainClaims(op[x], {t})
<1>0. /\ o \in Operations /\ Serving(o) /\ op[o] \in Runtime /\ Typed /\ Crew(o) \subseteq Pilots
      /\ x \in Operations /\ p \in Crew(x) /\ op[x] \in Runtime
  BY ServingHere, CrewOf DEF Inv, Typed
<1>1. /\ UNCHANGED <<hold, rocks, steady>> /\ Ends(p)
      /\ row' \in {row, [row EXCEPT ![p] = "running"]}
      /\ board' \in {board, [board EXCEPT ![t] = Unclaimed(@)]}
      /\ \/ op' = op \/ op' = [op EXCEPT ![x] = lost]
         \/ \E drains : op' = [op EXCEPT ![x].drains = drains]
  BY DEF FinishDrain
<1>2. \A q \in Pilots : view'[q] \in {view[q], None} BY <1>0, <1>1 DEF Typed, Ends
<1>3. \A z \in Targets : board'[z].owner = o => board[z].owner = o
  <2>1. \A z \in Targets : Unclaimed(board[z]).owner = None BY <1>0, UnclaimedIs DEF Typed
  <2> QED BY <1>0, <1>1, <2>1, CrewAssumption DEF Typed
<1>4. Undisturbed(o) BY <1>0, <1>1, <1>2, <1>3 DEF Undisturbed
<1>5. Follows(op[o], op'[o], {}, {})
  <2>1. CASE op'[o] = op[o] BY <2>1, SameFollows
  <2>2. CASE op' = [op EXCEPT ![x] = lost]
    <3>1. Follows(op[x], lost, {}, {}) BY <1>0, LoseDrainsFollows
    <3> HIDE DEF lost
    <3>2. op'[x] = lost /\ (o # x => op'[o] = op[o]) BY <1>0, <2>2, OthersFollow
    <3> QED BY <2>1, <3>1, <3>2
  <2>3. ASSUME NEW drains, op' = [op EXCEPT ![x].drains = drains] PROVE Follows(op[o], op'[o], {}, {})
    <3> DEFINE s == [op[x] EXCEPT !.drains = drains]
    <3>1. op' = [op EXCEPT ![x] = s] BY <1>0, <2>3 DEF Typed
    <3>2. s.barrier = op[x].barrier /\ s.current = op[x].current /\ s.authorityLoss = op[x].authorityLoss
      BY <1>0 DEF Runtime
    <3> HIDE DEF s
    <3>3. op'[x] = s /\ (o # x => op'[o] = op[o]) BY <1>0, <3>1, OthersFollow
    <3>4. Follows(op[x], s, {}, {}) BY <3>2, SameFollows
    <3> QED BY <2>1, <3>3, <3>4
  <2> HIDE DEF lost
  <2> QED BY <1>1, <2>1, <2>2, <2>3
<1>6. \A q \in steady \cap Crew(o) : row[q] = "running" => row'[q] = "running" BY <1>0, <1>1 DEF Typed
<1> QED BY <1>0, <1>1, <1>4, <1>5, <1>6, FollowsKeeps

LEMMA ListServes ==
  ASSUME Inv, CrewInv, List, NEW o \in Serviced
  PROVE  Serving(o)' /\ LetsGo(o)
<1>0. o \in Operations /\ Serving(o) /\ Steadily /\ Crew(o) \subseteq Pilots /\ Typed BY ServingHere
<1>1. /\ op' = [y \in Operations |-> Renewed(y, Reconciled(y))] /\ row' = RowsReconciled
      /\ UNCHANGED <<board, view, hold, rocks, steady>>
  BY DEF List
<1>2. Undisturbed(o) BY <1>0, <1>1 DEF Undisturbed
<1>3. Follows(op[o], Reconciled(o), Gone(o), {}) /\ Reconciled(o) \in Runtime BY <1>0, ReconciledFollows
<1>4. Follows(Reconciled(o), Renewed(o, Reconciled(o)), {}, {})
  BY <1>0, <1>3, ReconciledSound, RenewedFollows
<1>5. Follows(op[o], op'[o], Gone(o), {}) BY <1>0, <1>1, <1>3, <1>4, FollowsThen
<1>6. Gone(o) \cap steady = {} BY <1>0 DEF Gone, Steadily, Hosted
<1>7. \A q \in steady \cap Crew(o) : row'[q] = "running" BY <1>0, <1>1, ReconciledRunning DEF Steadily
<1> QED BY <1>0, <1>2, <1>5, <1>6, <1>7, FollowsKeeps

\* The steps that move bots, Stops and leases, and leave the runtimes alone.
LEMMA OutsideServes ==
  ASSUME Inv, CrewInv, NEW o \in Serviced,
         \/ \E t \in Targets : LeaseRunsOut(t)
         \/ \E p \in Pilots : Pause(p) \/ Resume(p) \/ BotEnds(p) \/ Settle(p) \/ BroughtIn(p)
         \/ UNCHANGED vars
  PROVE  Serving(o)' /\ LetsGo(o)
<1>0. o \in Operations /\ Serving(o) /\ Steadily /\ Typed /\ Awaited /\ Crew(o) \subseteq Pilots
  BY ServingHere DEF Inv
<1>1. /\ UNCHANGED <<op, hold, rocks>> /\ steady' \subseteq steady
      /\ view' = view \/ \E p \in Pilots : view' = [view EXCEPT ![p] = None]
      /\ \A q \in Pilots : row'[q] = row[q] \/ host[q] = "settled"
      /\ board' = board \/ \E t \in Targets : board' = [board EXCEPT ![t] = Unclaimed(@)]
  <2>1. CASE \E t \in Targets : LeaseRunsOut(t) BY <2>1 DEF LeaseRunsOut
  <2>2. ASSUME NEW p \in Pilots, Pause(p) \/ Resume(p) \/ BotEnds(p)
        PROVE  /\ UNCHANGED <<op, hold, rocks, row, board>> /\ steady' \subseteq steady
               /\ view' = view \/ view' = [view EXCEPT ![p] = None]
    BY <2>2 DEF Pause, Resume, BotEnds, BotChanges, Ends
  <2>3. ASSUME NEW p \in Pilots, Settle(p) \/ BroughtIn(p)
        PROVE  /\ UNCHANGED <<op, hold, rocks, view, board>> /\ steady' \subseteq steady
               /\ \A q \in Pilots : row'[q] = row[q] \/ host[q] = "settled"
    BY <1>0, <2>3 DEF Settle, BroughtIn, Awaited, Typed
  <2>4. CASE UNCHANGED vars BY <2>4 DEF vars
  <2> QED BY <2>1, <2>2, <2>3, <2>4
<1>2. \A t \in Targets : board'[t].owner = o => board[t].owner = o
  <2>1. \A z \in Targets : Unclaimed(board[z]).owner = None BY <1>0, UnclaimedIs DEF Typed
  <2> QED BY <1>0, <1>1, <2>1, CrewAssumption DEF Typed
<1>3. \A q \in Pilots : view'[q] \in {view[q], None} BY <1>0, <1>1 DEF Typed
<1>4. Undisturbed(o) BY <1>0, <1>1, <1>2, <1>3 DEF Undisturbed
<1>5. \A q \in steady \cap Crew(o) : row'[q] = row[q] BY <1>0, <1>1 DEF Steadily
<1> QED BY <1>0, <1>1, <1>4, <1>5, Untouched

LEMMA StartServes ==
  ASSUME Inv, CrewInv, NEW x \in Operations, Start(x), NEW o \in Serviced
  PROVE  Serving(o)' /\ LetsGo(o)
<1>0. /\ o \in Operations /\ Serving(o) /\ Typed /\ Crew(o) \subseteq Pilots
      /\ \A y \in Operations \ {o} : Crew(y) \cap Crew(o) = {}
  BY ServingHere
<1>1. /\ op[x].run \in {"draft", "stopped"} /\ op' = [op EXCEPT ![x] = Fresh("assembling")]
      /\ row' = [p \in Pilots |-> IF p \in Crew(x) THEN "starting" ELSE row[p]]
      /\ UNCHANGED <<board, view, hold, rocks, steady>>
  BY DEF Start
<1>2. CASE o = x
  <2>1. op'[o].current = None /\ op'[o].barrier = None
    <3>1. op'[o] = Fresh("assembling") BY <1>0, <1>1, <1>2, OthersFollow
    <3> QED BY <3>1 DEF Fresh
  <2>2. op[o].barrier = None
    <3>1. AtRest(op[o]) /\ Leaving(o, op[o], board) BY <1>0 DEF Inv, Sound
    <3> QED BY <1>1, <1>2, <3>1 DEF AtRest, Leaving
  <2> QED BY <2>1, <2>2 DEF Serving, LetsGo
<1>3. CASE o # x
  <2>1. op'[o] = op[o] BY <1>0, <1>1, <1>3, OthersFollow
  <2>2. Undisturbed(o) BY <1>0, <1>1 DEF Undisturbed
  <2>3. \A q \in steady \cap Crew(o) : row'[q] = row[q] BY <1>0, <1>1, <1>3
  <2> QED BY <1>0, <2>1, <2>2, <2>3, Untouched
<1> QED BY <1>2, <1>3

LEMMA StopServes ==
  ASSUME Inv, CrewInv, NEW x \in Operations, StopRoute(x) \/ Deadline(x) \/ Cross(x) \/ EndStop(x), NEW o \in Serviced
  PROVE  Serving(o)' /\ LetsGo(o)
<1>0. /\ o \in Operations /\ Serving(o) /\ Steadily /\ Typed /\ Crew(o) \subseteq Pilots /\ op[x] \in Runtime
      /\ \A y \in Operations \ {o} : Crew(y) \cap Crew(o) = {}
  BY ServingHere DEF Inv, Typed
<1>1. /\ UNCHANGED <<view, hold, rocks, steady>>
      /\ \A q \in Pilots \ Crew(x) : row'[q] = row[q]
      /\ board' \in {board, ReleaseOperation(x)}
      /\ \E s : op' = [op EXCEPT ![x] = s]
  BY <1>0 DEF StopRoute, Deadline, BeginStop, Cross, EndStop, Typed
<1>2. \A t \in Targets : board'[t].owner = o => board[t].owner = o
  <2>1. board \in [Targets -> Entry] BY <1>0 DEF Typed
  <2>2. \A t \in Targets : ReleaseOperation(x)[t].owner = o => board[t].owner = o
    <3>1. CASE o = x BY <1>0, <2>1, <3>1, ReleasedBoard
    <3>2. CASE o # x BY <1>0, <2>1, <3>2, ReleasedBoard
    <3> QED BY <3>1, <3>2
  <2> QED BY <1>1, <2>2
<1>3. Undisturbed(o) BY <1>0, <1>1, <1>2 DEF Undisturbed
<1>4. CASE o # x
  <2>1. op'[o] = op[o] BY <1>0, <1>1, <1>4, OthersFollow
  <2>2. \A q \in steady \cap Crew(o) : row'[q] = row[q] BY <1>0, <1>1, <1>4
  <2> QED BY <1>0, <1>3, <2>1, <2>2, Untouched
<1>5. CASE /\ o = x /\ row' = row
           /\ \E run : op' \in {op, [op EXCEPT ![x] = [op[x] EXCEPT !.run = run]]}
  <2>1. PICK run : op' \in {op, [op EXCEPT ![x] = [op[x] EXCEPT !.run = run]]} BY <1>5
  <2>2. Follows(op[x], op[x], {}, {}) /\ Follows(op[x], [op[x] EXCEPT !.run = run], {}, {})
    BY <1>0, SameFollows, RunFollows
  <2>3. op'[o] \in {op[o], [op[o] EXCEPT !.run = run]} BY <1>0, <1>5, <2>1, OthersFollow
  <2>4. Follows(op[o], op'[o], {}, {}) BY <1>5, <2>2, <2>3
  <2> QED BY <1>0, <1>3, <1>5, <2>4, FollowsKeeps
<1>6. CASE /\ o = x /\ (Stopping(o) \/ steady \cap Crew(o) = {})
           /\ op'[o].current = None /\ op'[o].barrier = None
  BY <1>6 DEF Serving, LetsGo
<1>7. CASE StopRoute(x) \/ Deadline(x)
  <2>1. row' = row /\ op' = [op EXCEPT ![x] = [op[x] EXCEPT !.run = "stopping"]]
    BY <1>0, <1>7 DEF StopRoute, Deadline, BeginStop, Typed
  <2> QED BY <1>4, <1>5, <2>1
<1>8. CASE Cross(x) /\ o = x
  <2> DEFINE c == [Cleared(op[x]) EXCEPT !.released = TRUE]
  <2>1. row' = row BY <1>8 DEF Cross
  <2>2. CASE ~MayRelease(x)
    <3>1. op' \in {[op EXCEPT ![x] = op[x]], [op EXCEPT ![x] = [op[x] EXCEPT !.run = "parking"]]}
      BY <1>8, <2>2 DEF Cross
    <3>2. [op EXCEPT ![x] = op[x]] = op BY <1>0 DEF Typed
    <3> QED BY <1>5, <1>8, <2>1, <3>1, <3>2
  <2>3. CASE MayRelease(x)
    <3>1. op' \in {[op EXCEPT ![x] = c], [op EXCEPT ![x] = [c EXCEPT !.run = "parking"]]}
      BY <1>8, <2>3 DEF Cross
    <3>2. c \in Runtime /\ c.current = None /\ c.barrier = None BY <1>0 DEF Cleared, Runtime
    <3> HIDE DEF c
    <3>3. [c EXCEPT !.run = "parking"].current = None /\ [c EXCEPT !.run = "parking"].barrier = None
      BY <3>2 DEF Runtime
    <3>4. op'[o] \in {c, [c EXCEPT !.run = "parking"]} BY <1>0, <1>8, <3>1, OthersFollow
    <3>5. Stopping(o) BY <1>8, <2>3 DEF MayRelease
    <3> QED BY <1>6, <1>8, <3>2, <3>3, <3>4, <3>5
  <2> QED BY <2>2, <2>3
<1>9. CASE EndStop(x) /\ o = x
  <2>1. CASE stop[x].failed # {}
    <3>1. row' = row /\ \E run : op' = [op EXCEPT ![x] = [op[x] EXCEPT !.run = run]]
      BY <1>0, <1>9, <2>1 DEF EndStop, Typed
    <3> QED BY <1>5, <1>9, <3>1
  <2>2. CASE stop[x].failed = {}
    <3> DEFINE c == [Cleared(op[x]) EXCEPT !.run = "stopped"]
    <3>1. op' = [op EXCEPT ![x] = c] /\ stop[x] # None /\ \A p \in Crew(x) : leg[p] = "none"
      BY <1>9, <2>2 DEF EndStop
    <3>2. c.current = None /\ c.barrier = None BY <1>0 DEF Cleared, Runtime
    <3> HIDE DEF c
    <3>3. op'[o] = c BY <1>0, <1>9, <3>1, OthersFollow
    <3>4. HostedCrew(o) = {} BY <1>0, <1>9, <2>2, <3>1, EveryoneIn
    <3>5. steady \cap Crew(o) = {} BY <1>0, <3>4 DEF Steadily, HostedCrew, Hosted
    <3> QED BY <1>6, <1>9, <3>2, <3>3, <3>5
  <2> QED BY <2>1, <2>2
<1> QED BY <1>4, <1>7, <1>8, <1>9

LEMMA StepServes ==
  ASSUME Inv, CrewInv, [Next]_vars, NEW o \in Serviced
  PROVE  Serving(o)' /\ LetsGo(o)
<1>1. ASSUME NEW p \in Pilots, OfPilot(p) PROVE Serving(o)' /\ LetsGo(o)
  BY <1>1, LaunchServes, LookServes, QuietTickServes, ReserveServes, ActivateServes, ReportServes,
     MarkReadyServes, FinishDrainServes, OutsideServes DEF OfPilot
<1>2. ASSUME NEW x \in Operations, OfOperation(x) PROVE Serving(o)' /\ LetsGo(o)
  BY <1>2, StartServes, StopServes DEF OfOperation
<1>3. CASE List BY <1>3, ListServes
<1>4. CASE (\E t \in Targets : LeaseRunsOut(t)) \/ UNCHANGED vars BY <1>4, OutsideServes
<1> QED BY <1>1, <1>2, <1>3, <1>4 DEF Next

LEMMA ServesAlways == Spec => [](Inv /\ CrewInv)
<1>1. Init => CrewInv BY CrewAssumption DEF Init, CrewInv, Steadily, Unbegun, Serving, Fresh
<1>2. Inv /\ CrewInv /\ [Next]_vars => CrewInv'
  <2> SUFFICES ASSUME Inv, CrewInv, [Next]_vars PROVE CrewInv' OBVIOUS
  <2>1. CASE Next BY <2>1, HostsKeep, StepServes DEF CrewInv
  <2>2. CASE UNCHANGED vars BY <2>2, StepServes DEF CrewInv, vars, Steadily, Unbegun
  <2> QED BY <2>1, <2>2
<1> QED BY <1>1, <1>2, InvAlways, PTL DEF Spec

\* The barrier at a target that haulers serve is let go only when no miner that was at work
\* there all the time has ore aboard, while the target is still the operation's
\* (miningOperations.js: depleteTarget, releaseRendezvousIfReady, memberFailed, reconcileBots).
THEOREM NobodyIsLeftBehind == Spec => NobodyLeftBehind
<1> DEFINE A == \A o \in Serviced :
                  /\ op[o].barrier # None /\ op'[o].barrier = None /\ StillHeld(o)
                  /\ ~op'[o].authorityLoss /\ ~Stopping(o)
                  => \A p \in steady \cap Crew(o) \cap Miners : ~hold[p]
<1>1. Inv /\ CrewInv /\ [Next]_vars => [A]_vars BY StepServes DEF LetsGo
<1> QED BY <1>1, ServesAlways, PTL DEF Spec, NobodyLeftBehind
=============================================================================
