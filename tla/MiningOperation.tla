--------------------------- MODULE MiningOperation ---------------------------
(* Mining operations: the server's runtime of each operation                 *)
(* (src/miningOperations.js), the board on which operations claim targets    *)
(* (src/miningTargetBoard.js), the Start route (src/server.js) and the Stop  *)
(* (src/miningOperationStop.js) that work on a whole crew over awaits, and   *)
(* the ticks of the pilots: each reads its assignment, decides, and issues   *)
(* one action, while the others do the same (web/src/nav/scriptMacros.ts).   *)
(*                                                                           *)
(* Of an operation at work only that it is at work is kept: SELECTING,       *)
(* TRAVELING, MINING, UNLOADING, DRAINING, RELOCATING and DEGRADED are       *)
(* "working", since no handler decides by which of them it is. A belt and a  *)
(* site differ only in when a miner that finds nothing more says so, and     *)
(* either may be a target. Not modelled: the ranking of candidates, support  *)
(* pilots, preparation before the main program, and operations recovered     *)
(* after a restart.                                                          *)
EXTENDS Integers, FiniteSets

CONSTANTS
    Operations,     \* mining operations
    Miners,         \* the pilots that mine, of all operations
    Haulers,        \* the pilots that haul
    OperationOf,    \* the operation of each pilot
    Serviced,       \* the operations whose unload policy is HAULER_SERVICE
    Stays,          \* the operations whose parking mode is STAY_IN_PLACE
    Targets,        \* belts and sites
    MaxStarts,      \* how often operations are started
    MaxTroubles,    \* how often something goes wrong
    None

Pilots == Miners \cup Haulers
Crew(o) == {p \in Pilots : OperationOf[p] = o}

ASSUME CrewAssumption ==
    /\ Miners \cap Haulers = {} /\ OperationOf \in [Pilots -> Operations]
    /\ Serviced \subseteq Operations /\ Stays \subseteq Operations
    /\ MaxStarts \in Nat /\ MaxTroubles \in Nat
    /\ \A o \in Operations : IsFiniteSet(Crew(o))
    /\ None \notin Operations
    /\ None \notin [target : Targets, claimed : BOOLEAN]
    /\ None \notin [required : SUBSET Pilots, ready : SUBSET Pilots]
    /\ None \notin [returning : BOOLEAN, crossed : BOOLEAN, failed : SUBSET Pilots]

VARIABLES
    board,      \* per target: owner of the claim, state, and whether spent
    op,         \* the runtime of each operation
    row,        \* runtimeState of each pilot in its operation's member rows
    launch,     \* per operation: the Start under way and whom it has left, or None
    stop,       \* per operation: the Stop under way, or None
    leg,        \* per pilot: what a Stop is waiting for from it
    host,       \* per pilot: its hosted bot
    view,       \* per pilot: what its tick under way has read, or None
    hold,       \* per pilot: whether there is ore aboard
    rocks,      \* per target: whether anything is left to mine
    steady,     \* pilots at work without a break since their target was claimed
    home,       \* pilots a Stop has brought in since they were launched
    starts,     \* Starts so far
    troubles    \* pilots that failed, paused, ended or did not settle and
                \* leases and cans that were lost, so far

counts == <<starts, troubles>>
vars == <<board, op, row, launch, stop, leg, host, view, hold, rocks, steady, home, counts>>

StopStates == {"stopping", "parking", "parking_failed", "stopped"}
Hosted(p) == host[p] # "none"
HostedCrew(o) == {p \in Crew(o) : Hosted(p)}
Stopping(o) == op[o].run \in StopStates

-----------------------------------------------------------------------------
(* The board. A lease that runs out is noticed by whoever looks next, which  *)
(* comes to the same as the claim going by itself.                           *)
Unclaimed(e) == [e EXCEPT !.owner = None, !.state = IF e.spent THEN "DEPLETED" ELSE "AVAILABLE"]

(* Only the claims of targets that are not worked out released. *)
ReleaseUnspent(o) ==
    [t \in Targets |-> IF board[t].owner = o /\ ~board[t].spent THEN Unclaimed(board[t]) ELSE board[t]]

(* The board with every claim of the operation released. *)
ReleaseOperation(o) == [t \in Targets |-> IF board[t].owner = o THEN Unclaimed(board[t]) ELSE board[t]]

-----------------------------------------------------------------------------
(* The runtime of an operation, as functions of it. *)
Fresh(run) == [run |-> run, current |-> None, drains |-> {}, barrier |-> None,
               authorityLoss |-> FALSE, released |-> FALSE]

Cleared(r) == [r EXCEPT !.current = None, !.drains = {}, !.barrier = None]

Degraded(r) == IF r.run \in StopStates THEN r ELSE [r EXCEPT !.run = "working"]

(* The target given up and its barrier kept. *)
(* The claim of the current target is found to be lost. *)
LoseClaim(r, t) ==
    IF r.current # None /\ r.current.target = t
    THEN Degraded([r EXCEPT !.current = None, !.barrier = None, !.authorityLoss = TRUE])
    ELSE r

(* The claims of targets still being hauled from are found to be lost. *)
LoseDrainClaims(r, lost) ==
    IF \E d \in r.drains : d.target \in lost
    THEN Degraded([r EXCEPT !.drains = {d \in @ : d.target \notin lost}])
    ELSE r

(* The heartbeat of the current target: none is sent for one whose claim was *)
(* given up when it was reported depleted.                                   *)
KeepCurrent(o, r) ==
    IF r.current # None /\ r.current.claimed /\ board[r.current.target].owner # o
    THEN LoseClaim(r, r.current.target) ELSE r

ReadyToGo(r) == r.barrier # None /\ r.barrier.required \subseteq r.barrier.ready

(* The barrier is let go once everyone it requires is ready. *)
ReleaseIfReady(r) ==
    IF ReadyToGo(r) THEN [r EXCEPT !.barrier = None, !.current = None, !.run = "working"] ELSE r

RowsAtRelease(r, rows) ==
    [p \in Pilots |-> IF ReadyToGo(r) /\ p \in r.barrier.required /\ rows[p] = "ready"
                      THEN "running" ELSE rows[p]]

(* Members found failed: the operation is degraded whatever it was doing,    *)
(* and nobody waits for them at the barrier any more.                        *)
Without(r, gone) ==
    LET s == [r EXCEPT !.run = "working"]
    IN  IF s.barrier = None THEN s ELSE [s EXCEPT !.barrier.required = @ \ gone]

(* reconcileBots(): rows take the status of their bots, and a row whose bot  *)
(* has gone fails, unless the operation is stopping.                         *)
HostStatus(p) == IF host[p] = "running" THEN "running" ELSE "paused"
Gone(o) ==
    IF op[o].run \in {"draft"} \cup StopStates THEN {}
    ELSE {p \in Crew(o) : ~Hosted(p) /\ row[p] \in {"running", "paused", "ready"}}
ReconciledRows ==
    [p \in Pilots |-> IF Hosted(p) THEN HostStatus(p)
                      ELSE IF p \in Gone(OperationOf[p]) THEN "failed" ELSE row[p]]
Reconciled(o) == IF Gone(o) = {} THEN op[o] ELSE ReleaseIfReady(Without(op[o], Gone(o)))
RowsReconciled ==
    [p \in Pilots |->
        LET o == OperationOf[p]
        IN  IF Gone(o) = {} THEN ReconciledRows[p]
            ELSE RowsAtRelease(Without(op[o], Gone(o)), ReconciledRows)[p]]

-----------------------------------------------------------------------------
Init ==
    /\ board = [t \in Targets |-> [owner |-> None, state |-> "AVAILABLE", spent |-> FALSE]]
    /\ op = [o \in Operations |-> Fresh("draft")]
    /\ row = [p \in Pilots |-> "draft"]
    /\ launch = [o \in Operations |-> None]
    /\ stop = [o \in Operations |-> None]
    /\ leg = [p \in Pilots |-> "none"]
    /\ host = [p \in Pilots |-> "none"]
    /\ view = [p \in Pilots |-> None]
    /\ hold = [p \in Pilots |-> FALSE]
    /\ rocks = [t \in Targets |-> TRUE]
    /\ steady = {}
    /\ home = {}
    /\ starts = 0 /\ troubles = 0

Trouble == troubles < MaxTroubles /\ troubles' = troubles + 1 /\ UNCHANGED starts

-----------------------------------------------------------------------------
(* Start: begin(); then the members are started one by one, to wait; when    *)
(* every one is there and prepared, their main programs are begun one by     *)
(* one, otherwise nobody's. finishLaunch() follows at once on the last step. *)
Start(o) ==
    /\ op[o].run \in {"draft", "stopped"} /\ launch[o] = None
    /\ op' = [op EXCEPT ![o] = Fresh("assembling")]
    /\ row' = [p \in Pilots |-> IF p \in Crew(o) THEN "starting" ELSE row[p]]
    /\ launch' = [launch EXCEPT ![o] = [phase |-> "members", left |-> Crew(o)]]
    /\ home' = home \ Crew(o)
    /\ starts < MaxStarts /\ starts' = starts + 1 /\ UNCHANGED troubles
    /\ UNCHANGED <<board, stop, leg, host, view, hold, rocks, steady>>

LeftIn(p, phase) ==
    LET l == launch[OperationOf[p]] IN l # None /\ l.phase = phase /\ p \in l.left

FinishLaunch(r, left) == IF left = {} THEN [r EXCEPT !.run = "working"] ELSE r

(* memberFailed(): the operation is degraded from that moment, with the rest *)
(* of its members still to be started. One that was parked still counts so.  *)
Failed(p) == ReleaseIfReady(Without(op[OperationOf[p]], {p}))
RowsFailed(p, status) ==
    RowsAtRelease(Without(op[OperationOf[p]], {p}),
                  [row EXCEPT ![p] = IF @ = "parked" THEN @ ELSE status])

(* operationPreparationBarrier(): all are there, and none is being stopped.  *)
Assembled(o, hosts) == ~Stopping(o) /\ \A p \in Crew(o) : hosts[p] \in {"waiting", "running", "paused"}

StartMember(p) ==
    LET o == OperationOf[p]
        left == launch[o].left \ {p}
        there == [host EXCEPT ![p] = "waiting"]
    IN  /\ LeftIn(p, "members")
        /\ \/ /\ host' = there /\ row' = [row EXCEPT ![p] = "running"]
              /\ \/ /\ left # {} /\ launch' = [launch EXCEPT ![o].left = left]
                    /\ UNCHANGED <<op, counts>>
                 \/ /\ left = {} /\ Assembled(o, there)
                    /\ launch' = [launch EXCEPT ![o] = [phase |-> "mains", left |-> Crew(o)]]
                    /\ UNCHANGED <<op, counts>>
                 \/ /\ left = {} /\ IF Assembled(o, there) THEN Trouble ELSE UNCHANGED counts
                    /\ launch' = [launch EXCEPT ![o] = None]
                    /\ op' = [op EXCEPT ![o] = FinishLaunch(@, left)]
           \/ /\ Trouble /\ UNCHANGED host
              /\ row' = RowsFailed(p, "unstarted")
              /\ op' = [op EXCEPT ![o] = FinishLaunch(Failed(p), left)]
              /\ launch' = [launch EXCEPT ![o] = IF left = {} THEN None ELSE [@ EXCEPT !.left = left]]
        /\ UNCHANGED <<board, stop, leg, view, hold, rocks, steady, home>>

(* activateOperationMember(), which asks again whether all are there.        *)
StartMain(p) ==
    LET o == OperationOf[p]
        left == launch[o].left \ {p}
    IN  /\ LeftIn(p, "mains")
        /\ launch' = [launch EXCEPT ![o] = IF left = {} THEN None ELSE [@ EXCEPT !.left = left]]
        /\ \/ /\ host[p] = "waiting" /\ leg[p] = "none" /\ Assembled(o, host)
              /\ host' = [host EXCEPT ![p] = "running"]
              /\ op' = [op EXCEPT ![o] = FinishLaunch(@, left)]
              /\ UNCHANGED <<row, counts>>
           \/ /\ IF host[p] = "waiting" /\ leg[p] = "none" /\ Assembled(o, host)
                 THEN Trouble ELSE UNCHANGED counts
              /\ op' = [op EXCEPT ![o] = FinishLaunch(Failed(p), left)]
              /\ row' = RowsFailed(p, "failed")
              /\ UNCHANGED host
        /\ UNCHANGED <<board, stop, leg, view, hold, rocks, steady, home>>

-----------------------------------------------------------------------------
(* A pilot's tick: it reads its assignment, which renews the claims it is    *)
(* about and finds those that are lost. A bot being stopped begins none, and *)
(* a hauler that has no old target to clear does nothing here. Of what it    *)
(* reads a miner uses the target and the barrier, a hauler the old target.   *)
Look(p) ==
    LET o == OperationOf[p]
        kept == KeepCurrent(o, op[o])
        tails == {d.target : d \in {e \in kept.drains : p \in e.pending}}
        c == kept.current
    IN  /\ host[p] = "running" /\ leg[p] = "none" /\ view[p] = None
        /\ \E tail \in IF tails = {} THEN {None} ELSE tails :
              LET lost == tail # None /\ board[tail].owner # o
              IN  /\ op' = [op EXCEPT ![o] = IF lost THEN LoseDrainClaims(kept, {tail}) ELSE kept]
                  /\ view' = [view EXCEPT ![p] =
                        IF Stopping(o) THEN None
                        ELSE IF p \in Haulers THEN IF lost THEN None ELSE tail
                        ELSE [target |-> IF c = None THEN None ELSE c.target,
                              state |-> IF c = None THEN "none"
                                        ELSE IF c.claimed THEN board[c.target].state ELSE "DEPLETED",
                              waits |-> kept.barrier # None,
                              ready |-> kept.barrier # None /\ p \in kept.barrier.ready]]
        /\ UNCHANGED <<board, row, launch, stop, leg, host, hold, rocks, steady, home, counts>>

(* The tick ends: after its action, or without one. *)
Ends(p) == view' = [view EXCEPT ![p] = None]

Idle(p) ==
    /\ view[p] # None
    /\ Ends(p)
    /\ UNCHANGED <<board, op, row, launch, stop, leg, host, hold, rocks, steady, home, counts>>

(* target/reserve. The bots are reconciled first, of every operation. A      *)
(* target found depleted is free again once belt memory has forgotten it or  *)
(* the scanner shows it anew: a different field, with something in it.       *)
ReserveTarget(p, t) ==
    LET o == OperationOf[p]
        r == Reconciled(o)
        others == [x \in Operations |-> Reconciled(x)]
        eligible == board[t].owner \in {None, o} /\ r.run \notin StopStates
        renewed == board[t].state = "DEPLETED"
        taken == eligible /\ r.current = None /\ (~board[t].spent \/ renewed)
    IN  /\ p \in Miners /\ view[p] # None /\ view[p].target = None
        /\ row' = RowsReconciled
        /\ IF taken
           THEN /\ board' = [board EXCEPT ![t] = [owner |-> o, state |-> "RESERVED", spent |-> FALSE]]
                /\ rocks' = [rocks EXCEPT ![t] = @ \/ renewed]
                /\ op' = [others EXCEPT ![o] = [r EXCEPT !.current = [target |-> t, claimed |-> TRUE],
                                                        !.authorityLoss = FALSE, !.run = "working"]]
                /\ steady' = (steady \ Crew(o)) \cup {q \in Crew(o) : host[q] = "running"}
           ELSE /\ op' = [others EXCEPT ![o] =
                      IF eligible /\ r.current # None /\ board[r.current.target].owner # o
                      THEN LoseClaim(r, r.current.target) ELSE r]
                /\ UNCHANGED <<board, rocks, steady>>
        /\ Ends(p)
        /\ UNCHANGED <<launch, stop, leg, host, hold, home, counts>>

(* What the actions of a miner on the target it has read require: it is the  *)
(* operation's still, and the operation is not stopping.                     *)
OnTarget(p) == p \in Miners /\ view[p] # None /\ view[p].target # None
Heeded(p) ==
    LET o == OperationOf[p]
    IN  ~Stopping(o) /\ op[o].current # None /\ op[o].current.target = view[p].target

(* target/activate. *)
ActivateTarget(p) ==
    LET o == OperationOf[p]
        t == view[p].target
    IN  /\ OnTarget(p) /\ view[p].state = "RESERVED"
        /\ IF ~Heeded(p) THEN UNCHANGED <<board, op>>
           ELSE IF board[t].owner # o THEN op' = [op EXCEPT ![o] = LoseClaim(@, t)] /\ UNCHANGED board
           ELSE /\ board' = [board EXCEPT ![t].state = "ACTIVE"]
                /\ op' = [op EXCEPT ![o].current.claimed = TRUE, ![o].run = "working"]
        /\ Ends(p)
        /\ UNCHANGED <<row, launch, stop, leg, host, hold, rocks, steady, home, counts>>

(* A tick of mining, perhaps of the last rock. *)
Mine(p) ==
    /\ OnTarget(p) /\ view[p].state = "ACTIVE" /\ rocks[view[p].target]
    /\ hold' = [hold EXCEPT ![p] = TRUE]
    /\ rocks' \in {rocks, [rocks EXCEPT ![view[p].target] = FALSE]}
    /\ Ends(p)
    /\ UNCHANGED <<board, op, row, launch, stop, leg, host, steady, home, counts>>

(* Ore jettisoned for the haulers. When its can cannot be told apart, the    *)
(* operation is degraded, whatever it is doing (blockContainerProvenance).   *)
Jettison(p) ==
    /\ OnTarget(p) /\ OperationOf[p] \in Serviced /\ hold[p]
    /\ hold' = [hold EXCEPT ![p] = FALSE]
    /\ \/ UNCHANGED <<op, counts>>
       \/ op' = [op EXCEPT ![OperationOf[p]].run = "working"] /\ Trouble
    /\ Ends(p)
    /\ UNCHANGED <<board, row, launch, stop, leg, host, rocks, steady, home>>

(* Ore delivered by the miner itself. *)
Unload(p) ==
    /\ OnTarget(p) /\ OperationOf[p] \notin Serviced /\ hold[p]
    /\ hold' = [hold EXCEPT ![p] = FALSE]
    /\ Ends(p)
    /\ UNCHANGED <<board, op, row, launch, stop, leg, host, rocks, steady, home, counts>>

-----------------------------------------------------------------------------
(* target/depleted: the first report sets the barrier, each later one is the *)
(* confirmation of its miner, which in a serviced operation must have dumped *)
(* what it had.                                                              *)
ConfirmsAnyway(o, clear) == TRUE
Confirms(o, clear) == o \notin Serviced \/ clear

ReadyAt(r, rows, p) ==
    LET s == [r EXCEPT !.barrier.ready = @ \cup {p}]
    IN  [op |-> ReleaseIfReady(s), rows |-> RowsAtRelease(s, [rows EXCEPT ![p] = "ready"])]

AtWork(o, role) == {q \in Crew(o) \cap role : row[q] = "running"}

FirstReport(o, p, clear) ==
    LET t == view[p].target
        haulers == IF o \in Serviced THEN AtWork(o, Haulers) ELSE {}
        draining == haulers # {}
        ready == IF o \in Serviced /\ clear THEN {p} ELSE {}
        r == [op[o] EXCEPT
                 !.run = "working",
                 !.current = [target |-> t, claimed |-> draining],
                 !.drains = @ \cup (IF draining THEN {[target |-> t, pending |-> haulers]} ELSE {}),
                 !.barrier = [required |-> AtWork(o, Miners), ready |-> ready]]
        rows == IF o \in Serviced THEN [row EXCEPT ![p] = IF clear THEN "ready" ELSE "running"] ELSE row
        spent == [owner |-> o, state |-> "DRAINING", spent |-> TRUE]
    IN  /\ board' = [board EXCEPT ![t] = IF draining THEN spent ELSE Unclaimed(spent)]
        /\ op' = [op EXCEPT ![o] = IF o \in Serviced THEN ReleaseIfReady(r) ELSE r]
        /\ row' = IF o \in Serviced THEN RowsAtRelease(r, rows) ELSE rows

DepleteTarget(p, clear) ==
    LET o == OperationOf[p]
        t == view[p].target
        after == ReadyAt(op[o], row, p)
    IN  IF ~Heeded(p) THEN UNCHANGED <<board, op, row>>
        ELSE IF board[t].owner # o /\ op[o].current.claimed
        THEN op' = [op EXCEPT ![o] = LoseClaim(@, t)] /\ UNCHANGED <<board, row>>
        ELSE IF op[o].barrier # None
        THEN /\ UNCHANGED board
             /\ IF Confirms(o, clear) THEN op' = [op EXCEPT ![o] = after.op] /\ row' = after.rows
                ELSE UNCHANGED <<op, row>>
        ELSE IF board[t].owner # o
        THEN op' = [op EXCEPT ![o] = LoseClaim(@, t)] /\ UNCHANGED <<board, row>>
        ELSE FirstReport(o, p, clear)

(* A miner reports when it finds nothing more to mine, and in a serviced     *)
(* operation again when it is clear. At a belt a serviced miner dumps what   *)
(* it has before the first report too; at a site it reports at once.         *)
Report(p) ==
    /\ OnTarget(p)
    /\ \/ view[p].state = "ACTIVE" /\ ~rocks[view[p].target] /\ DepleteTarget(p, FALSE)
       \/ /\ OperationOf[p] \in Serviced /\ ~hold[p] /\ ~view[p].ready
          /\ view[p].state # "RESERVED" /\ ~rocks[view[p].target]
          /\ DepleteTarget(p, TRUE)
    /\ Ends(p)
    /\ UNCHANGED <<launch, stop, leg, host, hold, rocks, steady, home, counts>>

(* member/ready, from a miner that has unloaded for the barrier it read of.  *)
MarkReady(p) ==
    LET o == OperationOf[p]
        after == ReadyAt(op[o], row, p)
    IN  /\ p \in Miners /\ view[p] # None /\ o \notin Serviced
        /\ view[p].waits /\ ~view[p].ready /\ ~hold[p]
        /\ IF Stopping(o) \/ op[o].barrier = None THEN UNCHANGED <<op, row>>
           ELSE op' = [op EXCEPT ![o] = after.op] /\ row' = after.rows
        /\ Ends(p)
        /\ UNCHANGED <<board, launch, stop, leg, host, hold, rocks, steady, home, counts>>

(* member/drain-complete: the old grid and the freight from it are clear.    *)
FinishDrain(p) ==
    LET o == OperationOf[p]
        t == view[p]
        mine == {d \in op[o].drains : d.target = t}
        less == {[d EXCEPT !.pending = @ \ {p}] : d \in mine}
        kept == {d \in less : d.pending # {}}
        atBarrier == op[o].barrier # None /\ op[o].current.target = t
    IN  /\ view[p] # None /\ p \in Haulers
        /\ IF Stopping(o) \/ atBarrier \/ ~\E d \in mine : p \in d.pending
           THEN UNCHANGED <<board, op, row>>
           ELSE IF board[t].owner # o
           THEN op' = [op EXCEPT ![o] = LoseDrainClaims(@, {t})] /\ UNCHANGED <<board, row>>
           ELSE /\ op' = [op EXCEPT ![o].drains = (@ \ mine) \cup kept]
                /\ board' = IF kept = less THEN board ELSE [board EXCEPT ![t] = Unclaimed(@)]
                /\ row' = [row EXCEPT ![p] = "running"]
        /\ Ends(p)
        /\ UNCHANGED <<launch, stop, leg, host, hold, rocks, steady, home, counts>>

-----------------------------------------------------------------------------
(* list(), asked by the page: bots are reconciled, and the claims of every   *)
(* operation that has a bot are renewed or found lost.                       *)
Renewed(o, r) ==
    IF HostedCrew(o) = {} THEN r
    ELSE LoseDrainClaims(KeepCurrent(o, r),
                         {d.target : d \in {e \in KeepCurrent(o, r).drains : board[e.target].owner # o}})

List ==
    /\ op' = [o \in Operations |-> Renewed(o, Reconciled(o))]
    /\ row' = RowsReconciled
    /\ UNCHANGED <<board, launch, stop, leg, host, view, hold, rocks, steady, home, counts>>

(* A claim that nobody renewed for as long as its lease. *)
LeaseRunsOut(t) ==
    /\ board[t].owner # None
    /\ board' = [board EXCEPT ![t] = Unclaimed(@)]
    /\ Trouble
    /\ UNCHANGED <<op, row, launch, stop, leg, host, view, hold, rocks, steady, home>>

(* A bot pauses, for its session to be recovered or for its player, resumes, *)
(* or ends by itself.                                                        *)
BotChanges(p, status) ==
    /\ host' = [host EXCEPT ![p] = status]
    /\ steady' = steady \ {p}
    /\ UNCHANGED <<board, op, row, launch, stop, hold, rocks, home>>

Pause(p) ==
    /\ host[p] = "running" /\ leg[p] = "none"
    /\ BotChanges(p, "paused") /\ Ends(p) /\ Trouble /\ UNCHANGED leg

Resume(p) ==
    /\ host[p] = "paused" /\ leg[p] = "none"
    /\ BotChanges(p, "running") /\ UNCHANGED <<leg, view, counts>>

BotEnds(p) ==
    /\ host[p] \in {"waiting", "running", "paused"} /\ leg[p] = "none"
    /\ BotChanges(p, "none") /\ Ends(p) /\ Trouble /\ UNCHANGED leg

-----------------------------------------------------------------------------
(* Stop. An operation that stays in place lets its pilots stop where they    *)
(* are; another, and any at its deadline, first settles every pilot, then    *)
(* releases its targets, then brings them home. A Stop asked while one is    *)
(* under way shares it. Of a pilot without a bot only one that never had any *)
(* or was brought in before is known to be safe.                             *)
Missing(o) ==
    IF op[o].run = "draft" THEN {}
    ELSE {p \in Crew(o) : ~Hosted(p) /\ row[p] \notin {"unstarted", "draft", "stopped", "parked"}}

BeginStop(o, returning) ==
    /\ stop[o] = None /\ op[o].run # "stopped"
    /\ op' = [op EXCEPT ![o].run = "stopping"]
    /\ stop' = [stop EXCEPT ![o] = [returning |-> returning, crossed |-> FALSE, failed |-> Missing(o)]]
    /\ leg' = [p \in Pilots |-> IF p \in HostedCrew(o) THEN IF returning THEN "settle" ELSE "stop"
                                ELSE leg[p]]
    /\ UNCHANGED <<board, row, launch, host, view, hold, rocks, steady, home, counts>>

(* The Stop route refuses while the members are being started. *)
StopRoute(o) == op[o].run # "assembling" /\ BeginStop(o, o \notin Stays)

(* A bot's grant runs out; it was given for far longer than a launch takes.  *)
Deadline(o) == launch[o] = None /\ HostedCrew(o) # {} /\ BeginStop(o, TRUE)

(* A Stop stops when its bot has settled; what its tick had already issued   *)
(* ends first. One that does not settle keeps its pilot.                     *)
FailsUncounted(p) ==
    /\ leg' = [leg EXCEPT ![p] = "none"]
    /\ host' = [host EXCEPT ![p] = "blocked"]
    /\ Trouble
    /\ UNCHANGED stop

Fails(p) ==
    /\ stop' = [stop EXCEPT ![OperationOf[p]].failed = @ \cup {p}]
    /\ leg' = [leg EXCEPT ![p] = "none"]
    /\ host' = [host EXCEPT ![p] = "blocked"]
    /\ Trouble

Settle(p) ==
    /\ leg[p] = "settle"
    /\ \/ /\ view[p] = None
          /\ leg' = [leg EXCEPT ![p] = "settled"]
          /\ host' = [host EXCEPT ![p] = "settled"]
          /\ UNCHANGED <<stop, counts>>
       \/ Fails(p)
    /\ steady' = steady \ {p}
    /\ UNCHANGED <<board, op, row, launch, view, hold, rocks, home>>

(* releaseStopTargets(): only when no pilot failed to settle, only once in a *)
(* run, and only while the operation is seen to be stopping.                 *)
MayReleaseAnyway(o) == Stopping(o) /\ ~op[o].released
MayRelease(o) == stop[o].failed = {} /\ Stopping(o) /\ ~op[o].released

(* Every settlement has ended. *)
Cross(o) ==
    LET settled == {p \in Crew(o) : leg[p] = "settled"}
        release == MayRelease(o)
        r == IF release THEN [Cleared(op[o]) EXCEPT !.released = TRUE] ELSE op[o]
    IN  /\ stop[o] # None /\ stop[o].returning /\ ~stop[o].crossed
        /\ \A p \in Crew(o) : leg[p] # "settle"
        /\ stop' = [stop EXCEPT ![o].crossed = TRUE]
        /\ board' = IF release THEN ReleaseOperation(o) ELSE board
        /\ op' = [op EXCEPT ![o] = IF settled = {} THEN r ELSE [r EXCEPT !.run = "parking"]]
        /\ leg' = [p \in Pilots |-> IF p \in settled THEN "park" ELSE leg[p]]
        /\ UNCHANGED <<row, launch, host, view, hold, rocks, steady, home, counts>>

(* A pilot is brought in and let go, or is not. *)
BroughtIn(p) ==
    /\ leg[p] \in {"park", "stop"}
    /\ \/ /\ view[p] = None
          /\ leg' = [leg EXCEPT ![p] = "none"]
          /\ host' = [host EXCEPT ![p] = "none"]
          /\ row' = IF leg[p] = "park" THEN [row EXCEPT ![p] = "parked"] ELSE row
          /\ home' = home \cup {p}
          /\ UNCHANGED <<stop, counts>>
       \/ Fails(p) /\ UNCHANGED <<row, home>>
    /\ steady' = steady \ {p}
    /\ UNCHANGED <<board, op, launch, view, hold, rocks>>

(* finishStop(). *)
EndStop(o) ==
    /\ stop[o] # None /\ (stop[o].returning => stop[o].crossed)
    /\ \A p \in Crew(o) : leg[p] = "none"
    /\ stop' = [stop EXCEPT ![o] = None]
    /\ IF stop[o].failed # {}
       THEN /\ op' = [op EXCEPT ![o].run = IF stop[o].returning THEN "parking_failed" ELSE "stopping"]
            /\ UNCHANGED <<board, row>>
       ELSE /\ board' = ReleaseOperation(o)
            /\ op' = [op EXCEPT ![o] = [Cleared(op[o]) EXCEPT !.run = "stopped"]]
            /\ row' = [p \in Pilots |-> IF p \in Crew(o) /\ row[p] \notin {"unstarted", "failed", "parked"}
                                        THEN "stopped" ELSE row[p]]
    /\ UNCHANGED <<launch, leg, host, view, hold, rocks, steady, home, counts>>

-----------------------------------------------------------------------------
OfPilot(p) ==
    \/ StartMember(p) \/ StartMain(p) \/ Look(p) \/ Idle(p) \/ (\E t \in Targets : ReserveTarget(p, t))
    \/ ActivateTarget(p) \/ Mine(p) \/ Jettison(p) \/ Unload(p) \/ Report(p) \/ MarkReady(p)
    \/ FinishDrain(p) \/ Pause(p) \/ Resume(p) \/ BotEnds(p) \/ Settle(p) \/ BroughtIn(p)

OfOperation(o) ==
    \/ Start(o) \/ StopRoute(o) \/ Deadline(o) \/ Cross(o) \/ EndStop(o)

Next ==
    \/ \E p \in Pilots : OfPilot(p)
    \/ \E o \in Operations : OfOperation(o)
    \/ List
    \/ \E t \in Targets : LeaseRunsOut(t)

Spec == Init /\ [][Next]_vars

-----------------------------------------------------------------------------
(* Every variable keeps its type: the board, the runtimes with their         *)
(* barriers and drains, the rows, the bots, the ticks and the Stops.         *)
Runs == {"draft", "assembling", "working"} \cup StopStates
TypeOK ==
    /\ board \in [Targets -> [owner : Operations \cup {None}, spent : BOOLEAN,
                              state : {"AVAILABLE", "RESERVED", "ACTIVE", "DRAINING", "DEPLETED"}]]
    /\ \A o \in Operations :
          /\ op[o].run \in Runs
          /\ op[o].current \in [target : Targets, claimed : BOOLEAN] \cup {None}
          /\ op[o].drains \subseteq [target : Targets, pending : (SUBSET Haulers) \ {{}}]
          /\ op[o].barrier = None \/ (op[o].current # None /\ op[o].barrier.required \subseteq Crew(o))
    /\ row \in [Pilots -> {"draft", "starting", "running", "paused", "ready", "unstarted", "failed",
                        "parked", "stopped"}]
    /\ \A o \in Operations :
          launch[o] = None \/ launch[o] \in [phase : {"members", "mains"}, left : SUBSET Crew(o)]
    /\ host \in [Pilots -> {"none", "waiting", "running", "paused", "settled", "blocked"}]
    /\ leg \in [Pilots -> {"none", "settle", "settled", "park", "stop"}]
    /\ \A p \in Pilots : leg[p] # "none" => stop[OperationOf[p]] # None
    /\ hold \in [Pilots -> BOOLEAN] /\ rocks \in [Targets -> BOOLEAN]
    /\ steady \subseteq Pilots /\ home \subseteq Pilots

(* Every claim on the board is one its operation knows of, as its current    *)
(* target or as one its haulers still work on: a claim nobody knows of would *)
(* be kept by nobody and given back by nobody.                               *)
ClaimsKnown ==
    \A t \in Targets, o \in Operations :
        board[t].owner = o =>
            \/ op[o].current # None /\ op[o].current.target = t
            \/ \E d \in op[o].drains : d.target = t

(* An operation said to be stopped has no pilot flying, whatever happened    *)
(* while it was launched, worked and was stopped, also in several attempts.  *)
StoppedMeansHome == \A o \in Operations : op[o].run = "stopped" => HostedCrew(o) = {}

(* A target that is not worked out is given up in the course of a Stop only  *)
(* when every pilot of the operation has settled or is gone: until then      *)
(* another operation could come to the place its drones are still at.        *)
TargetsOutliveTheWork ==
    [][\A t \in Targets, o \in Operations :
         board[t].owner = o /\ ~board[t].spent /\ board'[t].owner # o /\ stop'[o] # stop[o] =>
             \A p \in Crew(o) : host[p] \in {"none", "settled"}]_vars

\* The operation has the claim of the target its crew meets at, unless it gave it up itself.
StillHeld(o) == op[o].current.claimed => board[op[o].current.target].owner = o

(* The barrier at a target that haulers serve is let go only when no miner   *)
(* that was at work there all the time has ore aboard still: it has dumped   *)
(* it for them. Of miners that unload themselves the second one to report    *)
(* the target worked out is taken for unloaded, and once the claim has run   *)
(* out another operation may begin the place anew, for all to mine at (see   *)
(* the README).                                                              *)
NobodyLeftBehind ==
    [][\A o \in Serviced :
         /\ op[o].barrier # None /\ op'[o].barrier = None /\ StillHeld(o)
         /\ ~op'[o].authorityLoss /\ ~Stopping(o)
         => \A p \in steady \cap Crew(o) \cap Miners : ~hold[p]]_vars
=============================================================================
