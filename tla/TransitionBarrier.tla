-------------------------- MODULE TransitionBarrier --------------------------
(***************************************************************************)
(* The session changes of one held pilot: undocking, docking, jumping and  *)
(* boarding (src/transitionBarrier.js and the routes of src/server.js that *)
(* go by it).  Every route reads where the pilot is, claims the change,    *)
(* asks the game server once and waits for the read that shows it; the     *)
(* page polls the same read all the while, and the game server changes the *)
(* pilot's ship by itself.                                                 *)
(*                                                                         *)
(* A route is one command asked of the BFF.  A read is asked, then seen by *)
(* the game server, then taken by the BFF, and anybody may step between.   *)
(***************************************************************************)
EXTENDS Integers, FiniteSetsExt, SequencesExt

CONSTANTS Routes,    \* the commands, numbered from 1
          Plans,     \* what they may be, as assignments of kinds
          Pollers,   \* the page's polls of the flight status, that may overlap
          Start,     \* where the pilot is at first
          MaxLost,   \* bound: ships the game server takes from the pilot by itself
          ReadsFail  \* whether a command's first read may fail

Kinds == {"undock", "dock", "stargate", "board", "leave"}
InSpace == {"space", "beyond"}
Places  == InSpace \cup {"station"}

ASSUME RoutesAssumption ==
  /\ Routes \subseteq Nat \ {0} /\ Routes # {} /\ IsFiniteSet(Routes)
  /\ Plans \subseteq [Routes -> Kinds]
  /\ Pollers \cap Routes = {} /\ Start \in Places /\ MaxLost \in Nat
  /\ ReadsFail \in BOOLEAN

VARIABLES
  \* held, the BFF's record of the pilot
  transition, \* its epoch, its phase, and the route it was begun for
  epoch,      \* transitionEpoch
  cooling,    \* whether cooldownUntilMs is still to come
  reserved,   \* transitionReservation: the route that waits for it, 0 for none
  active,     \* activeShipID
  crossed,    \* history: an error of a command has settled a change another one waits for
  \* The routes
  kind,       \* what each of them does, the same all along
  pc, expected, mine, answer,
  rd,         \* the read each route and poll has under way
  \* The game server
  place,      \* where the pilot is, "nowhere" in between
  bound,      \* where to, in between
  been,       \* the ships it has been in, the last one now
  afloat,     \* commands the game server may still carry out
  lost

heldVars  == <<transition, epoch, cooling, reserved, active, crossed>>
routeVars == <<pc, expected, mine, answer>>
gameVars  == <<place, bound, been, afloat, lost, kind>>
vars == <<heldVars, routeVars, rd, gameVars>>

Readers == Routes \cup Pollers
ship    == Last(been)

NoTransition == [epoch |-> 0, phase |-> "none", of |-> 0]
NoRead       == [st |-> "none", epoch |-> 0, place |-> "nowhere", ship |-> 0, ego |-> 0]
NotExpected  == [from |-> "nowhere", ship |-> 0]
Asked        == [NoRead EXCEPT !.st = "asked", !.epoch = epoch]

\* The ship of the start is 0, the hull route r boards is r, and the capsules
\* the pilot finds itself in follow.
Capsule == 1 + Len(been) + Max(Routes)

Init ==
  /\ transition = NoTransition /\ epoch = 0 /\ cooling = FALSE /\ reserved = 0 /\ active = 0
  /\ crossed = FALSE /\ kind \in Plans
  /\ pc = [r \in Routes |-> "idle"]
  /\ expected = [r \in Routes |-> NotExpected]
  /\ mine = [r \in Routes |-> 0]
  /\ answer = [r \in Routes |-> "none"]
  /\ rd = [x \in Readers |-> NoRead]
  /\ place = Start /\ bound = Start /\ been = <<0>> /\ afloat = {} /\ lost = 0

(***************************************************************************)
(* transitionBarrier.js                                                    *)
(***************************************************************************)

IsFreeOnceAnswered(row) == row.phase # "requested"

\* The phases beginHeldTransition() may begin from.
IsFree(row) == row.phase \in {"none", "ready"}

\* evaluateReadiness(): what route r waits for, by a read of the flight and the
\* ship the space read has for the pilot's own.
Ready(r, flight, ego) ==
  LET e == expected[r]
      seated == flight.place # "nowhere" /\ (flight.place \in InSpace => ego = flight.ship)
  IN CASE kind[r] = "dock"     -> flight.place = "station" /\ flight.ship = e.ship
       [] kind[r] = "undock"   -> flight.place = "space" /\ ego = e.ship /\ flight.ship = e.ship
       [] kind[r] = "stargate" -> flight.place \in InSpace \ {e.from} /\ ego = e.ship /\ flight.ship = e.ship
       [] kind[r] = "board"    -> seated /\ flight.ship = r
       [] kind[r] = "leave"    -> seated /\ flight.ship # e.ship

\* resolveFailedTransition(): a latched change by a read of the flight alone.
Landed(flight) == transition.phase = "failed" /\ Ready(transition.of, flight, flight.ship)

RevertedAtHome(flight) == transition.phase = "failed" /\ ~Landed(flight) /\ flight.place = "station"

Reverted(flight) == transition.phase = "failed" /\ ~Landed(flight) /\ flight.place # "nowhere"

\* What readHeldFlight() makes of the record: its change and its ship.
Shown(flight) ==
  CASE Landed(flight)   -> [transition |-> [transition EXCEPT !.phase = "ready"], active |-> flight.ship]
    [] Reverted(flight) -> [transition |-> NoTransition, active |-> active]
    [] OTHER            -> [transition |-> transition, active |-> active]

AdoptsAnyEpoch(flight, shown) == flight.ship # shown.active /\ IsFree(shown.transition) /\ ~cooling

AdoptsFirstOnly(flight, shown) ==
  flight.ship # shown.active /\ shown.transition.phase = "none" /\ epoch = flight.epoch /\ ~cooling

\* adoptObservedShip(): the ship the game server changed by itself.
Adopts(flight, shown) ==
  flight.ship # shown.active /\ IsFree(shown.transition) /\ epoch = flight.epoch /\ ~cooling

KindOf(r) == IF kind[r] = "leave" THEN "board" ELSE kind[r]

\* What a route does with the change it finds when it catches an error: one of its
\* kind is released where it was only asked for, a dock always, and latched otherwise.
Caught(r) ==
  IF transition.of = 0 \/ KindOf(transition.of) # KindOf(r) THEN transition
  ELSE IF transition.phase = "requested" \/ kind[r] = "dock" THEN NoTransition
  ELSE [transition EXCEPT !.phase = "failed"]

\* cancelHeldTransition() gives back the cooldown of before, which has run.
Release(row) ==
  /\ transition' = row
  /\ cooling' = (cooling /\ ~(row = NoTransition /\ transition # NoTransition))

(***************************************************************************)
(* The routes of server.js                                                 *)
(***************************************************************************)

\* Where a command asks for a change or waits for it.
Changing == {"writing", "waiting", "poll"}

Answers(r, what) ==
  /\ pc' = [pc EXCEPT ![r] = "done"]
  /\ answer' = [answer EXCEPT ![r] = what]

\* Whose change it settles is not asked, only of which kind it is.
Catch(r) ==
  /\ Release(Caught(r)) /\ Answers(r, "error")
  /\ crossed' = (crossed \/ (Caught(r) # transition /\ \E q \in Routes \ {r} :
                                                         transition.of = q /\ pc[q] \in Changing))

\* A command arrives; the gate refuses it while a change is not ready.
Arrives(r) ==
  /\ pc[r] = "idle"
  /\ IF IsFree(transition)
       THEN /\ pc' = [pc EXCEPT ![r] = "before"]
            /\ rd' = [rd EXCEPT ![r] = Asked]
            /\ UNCHANGED answer
       ELSE Answers(r, "refused") /\ UNCHANGED rd
  /\ UNCHANGED <<heldVars, expected, mine, gameVars>>

\* What the routes ask of the flight they read first.
MayAsk(r, flight) ==
  CASE kind[r] = "undock"               -> flight.place \notin InSpace
    [] kind[r] \in {"dock", "stargate"} -> flight.place \in InSpace
    [] OTHER                            -> TRUE

\* beginHeldTransition(), and the game server asked.
Begin(r) ==
  /\ epoch' = epoch + 1
  /\ cooling' = TRUE
  /\ transition' = [epoch |-> epoch + 1, phase |-> "requested", of |-> r]
  /\ afloat' = afloat \cup {r}
  /\ pc' = [pc EXCEPT ![r] = "writing"]

\* One route at a time waits for the cooldown.
TimerTaken(r) == reserved \notin {0, r}

\* acquireRouteTransition(), with the record as the route's own read left it.
Acquire(r, row) ==
  \/ /\ ~IsFree(row) \/ TimerTaken(r)
     /\ Answers(r, "refused")
     /\ transition' = row
     /\ UNCHANGED <<epoch, cooling, reserved, mine, afloat>>
  \/ /\ IsFree(row) /\ ~TimerTaken(r) /\ cooling
     /\ reserved' = r
     /\ mine' = [mine EXCEPT ![r] = epoch]
     /\ pc' = [pc EXCEPT ![r] = "sleeping"]
     /\ transition' = row
     /\ UNCHANGED <<epoch, cooling, answer, afloat>>
  \/ /\ IsFree(row) /\ ~TimerTaken(r) /\ ~cooling
     /\ Begin(r)
     /\ UNCHANGED <<reserved, mine, answer>>

\* The first read is taken.
BeforeRead(r) ==
  LET flight == rd[r]
      shown  == Shown(flight)
  IN
  /\ pc[r] = "before" /\ flight.st = "seen"
  /\ rd' = [rd EXCEPT ![r] = NoRead]
  /\ active' = shown.active
  /\ \/ /\ MayAsk(r, flight)
        /\ expected' = [expected EXCEPT ![r] = [from |-> flight.place, ship |-> flight.ship]]
        /\ Acquire(r, shown.transition)
     \/ /\ ~MayAsk(r, flight)
        /\ Answers(r, "refused")
        /\ transition' = shown.transition
        /\ UNCHANGED <<expected, epoch, cooling, reserved, mine, afloat>>
  /\ UNCHANGED <<place, bound, been, lost, kind, crossed>>

BeforeFails(r) ==
  /\ ReadsFail
  /\ pc[r] = "before"
  /\ rd' = [rd EXCEPT ![r] = NoRead]
  /\ Catch(r)
  /\ UNCHANGED <<epoch, reserved, active, expected, mine, gameVars>>

\* The cooldown that was waited for has run.
Wakes(r) ==
  /\ pc[r] = "sleeping" /\ ~(cooling /\ epoch = mine[r])
  /\ reserved' = IF reserved = r THEN 0 ELSE reserved
  /\ \/ IsFree(transition) /\ Begin(r) /\ UNCHANGED answer
     \/ ~IsFree(transition) /\ Answers(r, "refused") /\ UNCHANGED <<epoch, cooling, transition, afloat>>
  /\ UNCHANGED <<active, expected, mine, rd, place, bound, been, lost, kind, crossed>>

\* The call is answered: markTransitionAccepted(), and the wait begins, for the
\* change it finds.
Answered(r) ==
  /\ pc[r] = "writing"
  /\ transition' = IF IsFree(transition) THEN transition ELSE [transition EXCEPT !.phase = "accepted"]
  /\ \/ /\ transition = NoTransition
        /\ Answers(r, "superseded")
        /\ UNCHANGED <<mine, rd>>
     \/ /\ transition # NoTransition
        /\ mine' = [mine EXCEPT ![r] = transition.epoch]
        /\ pc' = [pc EXCEPT ![r] = "waiting"]
        /\ rd' = [rd EXCEPT ![r] = Asked]
        /\ UNCHANGED answer
  /\ UNCHANGED <<epoch, cooling, reserved, active, crossed, expected, gameVars>>

\* The call is refused, and not carried out.
Refused(r) ==
  /\ pc[r] = "writing" /\ r \in afloat
  /\ afloat' = afloat \ {r}
  /\ Catch(r)
  /\ UNCHANGED <<epoch, reserved, active, expected, mine, rd, place, bound, been, lost, kind>>

\* The call is not answered in time, and may yet be carried out.
CallTimesOut(r) ==
  /\ pc[r] = "writing"
  /\ Catch(r)
  /\ UNCHANGED <<epoch, reserved, active, expected, mine, rd, gameVars>>

NeedsSpace(r, flight) ==
  \/ kind[r] \in {"undock", "stargate"}
  \/ kind[r] \in {"board", "leave"} /\ flight.place \in InSpace

\* The wait puts its verdict on whatever change it finds, and throws where there
\* is none.
Judge(r, shown, flight) ==
  LET row == shown.transition IN
  /\ rd' = [rd EXCEPT ![r] = NoRead]
  /\ \/ /\ row = NoTransition
        /\ transition' = row /\ active' = shown.active
        /\ Answers(r, "crashed")
     \/ /\ row # NoTransition /\ Ready(r, flight, flight.ego)
        /\ transition' = [row EXCEPT !.phase = "ready"] /\ active' = flight.ship
        /\ Answers(r, "ok")
     \/ /\ row # NoTransition /\ ~Ready(r, flight, flight.ego)
        /\ transition' = [row EXCEPT !.phase = "session-changing"] /\ active' = shown.active
        /\ pc' = [pc EXCEPT ![r] = "poll"]
        /\ UNCHANGED answer

\* The flight has been read: the space is read where the change is judged by it.
FlightRead(r) ==
  LET flight == rd[r]
      shown  == Shown(flight)
  IN
  /\ pc[r] = "waiting" /\ flight.st = "seen"
  /\ \/ /\ NeedsSpace(r, flight)
        /\ rd' = [rd EXCEPT ![r].st = "space"]
        /\ transition' = shown.transition /\ active' = shown.active
        /\ UNCHANGED <<pc, answer>>
     \/ ~NeedsSpace(r, flight) /\ Judge(r, shown, flight)
  /\ UNCHANGED <<epoch, cooling, reserved, crossed, expected, mine, gameVars>>

SpaceRead(r) ==
  /\ pc[r] = "waiting" /\ rd[r].st = "both"
  /\ Judge(r, [transition |-> transition, active |-> active], rd[r])
  /\ UNCHANGED <<epoch, cooling, reserved, crossed, expected, mine, gameVars>>

\* A read that fails is a missed observation.
WaitReadFails(r) ==
  /\ pc[r] = "waiting"
  /\ rd' = [rd EXCEPT ![r] = NoRead]
  /\ pc' = [pc EXCEPT ![r] = "poll"]
  /\ UNCHANGED <<heldVars, expected, mine, answer, gameVars>>

\* The wait looks again, unless the change is not the one it began with.
Polls(r) ==
  /\ pc[r] = "poll"
  /\ \/ /\ transition.epoch = mine[r]
        /\ pc' = [pc EXCEPT ![r] = "waiting"]
        /\ rd' = [rd EXCEPT ![r] = Asked]
        /\ UNCHANGED <<transition, cooling, answer>>
     \/ /\ transition.epoch # mine[r]
        /\ Answers(r, "superseded")
        /\ UNCHANGED <<transition, cooling, rd>>
  /\ UNCHANGED <<epoch, reserved, active, crossed, expected, mine, gameVars>>

\* The time is up: a dock is released, any other change latched.
Deadline(r) ==
  /\ pc[r] = "poll"
  /\ \/ kind[r] = "dock" /\ Release(NoTransition)
     \/ kind[r] # "dock" /\ transition # NoTransition /\ Release([transition EXCEPT !.phase = "failed"])
     \/ kind[r] # "dock" /\ transition = NoTransition /\ UNCHANGED <<transition, cooling>>
  /\ Answers(r, "timeout")
  /\ UNCHANGED <<epoch, reserved, active, crossed, expected, mine, rd, gameVars>>

CooldownEnds ==
  /\ cooling
  /\ cooling' = FALSE
  /\ UNCHANGED <<transition, epoch, reserved, active, crossed, routeVars, rd, gameVars>>

\* The page's poll of the flight status.
PollAsks(p) ==
  /\ rd[p].st = "none"
  /\ rd' = [rd EXCEPT ![p] = Asked]
  /\ UNCHANGED <<heldVars, routeVars, gameVars>>

PollReads(p) ==
  LET flight == rd[p]
      shown  == Shown(flight)
      adopts == Adopts(flight, shown)
  IN
  /\ flight.st = "seen"
  /\ rd' = [rd EXCEPT ![p] = NoRead]
  /\ transition' = shown.transition
  /\ active' = IF adopts THEN flight.ship ELSE shown.active
  /\ epoch' = IF adopts THEN epoch + 1 ELSE epoch
  /\ UNCHANGED <<cooling, reserved, crossed, routeVars, gameVars>>

(***************************************************************************)
(* The game server                                                         *)
(***************************************************************************)

\* A read sees the pilot as it is then.
Sees(x) ==
  /\ \/ /\ rd[x].st = "asked"
        /\ rd' = [rd EXCEPT ![x].st = "seen", ![x].place = place, ![x].ship = ship]
     \/ /\ rd[x].st = "space"
        /\ rd' = [rd EXCEPT ![x].st = "both", ![x].ego = IF place \in InSpace THEN ship ELSE -1]
  /\ UNCHANGED <<heldVars, routeVars, gameVars>>

To(r) == CASE kind[r] = "undock" /\ place = "station" -> "space"
           [] kind[r] = "dock" /\ place = "space"     -> "station"
           [] kind[r] = "stargate" /\ place = "space" -> "beyond"
           [] kind[r] = "stargate" /\ place = "beyond" -> "space"
           [] OTHER -> place

\* A command is carried out: a place is left for another, or another ship boarded.
CarriesOut(r) ==
  /\ r \in afloat /\ place # "nowhere"
  /\ afloat' = afloat \ {r}
  /\ \/ /\ kind[r] \in {"undock", "dock", "stargate"} /\ To(r) # place
        /\ place' = "nowhere" /\ bound' = To(r)
        /\ UNCHANGED been
     \/ /\ kind[r] = "board" /\ been' = Append(been, r) /\ UNCHANGED <<place, bound>>
     \/ /\ kind[r] = "leave" /\ been' = Append(been, Capsule) /\ UNCHANGED <<place, bound>>
  /\ UNCHANGED <<heldVars, routeVars, rd, lost, kind>>

\* It comes to nothing.
Declines(r) ==
  /\ r \in afloat
  /\ afloat' = afloat \ {r}
  /\ UNCHANGED <<heldVars, routeVars, rd, place, bound, been, lost, kind>>

PilotArrives ==
  /\ place = "nowhere"
  /\ place' = bound
  /\ UNCHANGED <<heldVars, routeVars, rd, bound, been, afloat, lost, kind>>

ShipLost ==
  /\ place \in InSpace /\ lost < MaxLost
  /\ lost' = lost + 1
  /\ been' = Append(been, Capsule)
  /\ UNCHANGED <<heldVars, routeVars, rd, place, bound, afloat, kind>>

RouteSteps(r) ==
  \/ BeforeRead(r) \/ BeforeFails(r) \/ Wakes(r) \/ Answered(r) \/ Refused(r) \/ CallTimesOut(r)
  \/ FlightRead(r) \/ SpaceRead(r) \/ WaitReadFails(r) \/ Polls(r) \/ Deadline(r)

Next ==
  \/ \E r \in Routes : Arrives(r) \/ RouteSteps(r) \/ CarriesOut(r) \/ Declines(r)
  \/ \E p \in Pollers : PollAsks(p) \/ PollReads(p)
  \/ \E x \in Readers : Sees(x)
  \/ CooldownEnds \/ PilotArrives \/ ShipLost

Spec == Init /\ [][Next]_vars

\* Timers run, reads are answered or fail, the page goes on polling, and the game
\* server is done with a command some time.
Fairness ==
  /\ WF_vars(CooldownEnds) /\ WF_vars(PilotArrives)
  /\ \A r \in Routes : /\ WF_vars(RouteSteps(r)) /\ SF_vars(Deadline(r))
                       /\ WF_vars(CarriesOut(r) \/ Declines(r))
  /\ \A p \in Pollers : WF_vars(PollAsks(p)) /\ WF_vars(PollReads(p))
  /\ \A x \in Readers : WF_vars(Sees(x))

FairSpec == Spec /\ Fairness

(***************************************************************************)
(* Properties                                                              *)
(***************************************************************************)

PhasesHeld == {"requested", "accepted", "session-changing", "ready", "failed"}
ShipNumbers == 0..(2 + 2 * Cardinality(Routes) + Max(Routes) + MaxLost)

\* Every variable holds what its place in the code can hold.
TypeOK ==
  /\ transition \in [epoch : Nat \ {0}, phase : PhasesHeld, of : Routes] \cup {NoTransition} /\ epoch \in Nat
  /\ cooling \in BOOLEAN /\ reserved \in Routes \cup {0} /\ active \in ShipNumbers
  /\ crossed \in BOOLEAN /\ kind \in [Routes -> Kinds]
  /\ pc \in [Routes -> {"idle", "before", "sleeping", "writing", "waiting", "poll", "done"}]
  /\ expected \in [Routes -> [from : Places \cup {"nowhere"}, ship : ShipNumbers]]
  /\ mine \in [Routes -> Nat]
  /\ answer \in [Routes -> {"none", "ok", "refused", "superseded", "timeout", "error", "crashed"}]
  /\ rd \in [Readers -> [st : {"none", "asked", "seen", "space", "both"}, epoch : Nat,
                        place : Places \cup {"nowhere"}, ship : ShipNumbers, ego : ShipNumbers \cup {-1}]]
  /\ place \in Places \cup {"nowhere"} /\ bound \in Places /\ been \in Seq(ShipNumbers)
  /\ afloat \subseteq Routes /\ lost \in 0..MaxLost

At(r, where) == pc[r] \in where

\* While a change is asked for or waited for it is the one the record holds, from
\* the claim to the verdict, so that what a wait settles is its own: up to the first time
\* a command's error settles the change another command of its kind waits for.  That the code
\* does (server.js, the catch of dispatchPlaceChangeWrite and of dispatchShipSwapWrite,
\* which compare kinds): of two dockings under way the first read of the one fails while
\* the other is asked for, and the other's change is released under it.
OneChangeAtATime ==
  ~crossed => \A r \in Routes : At(r, Changing) =>
    /\ transition.of = r /\ transition.phase \in {"requested", "accepted", "session-changing"}
    /\ \A q \in Routes \ {r} : ~At(q, Changing)

\* The first time the pilot was in a ship.
Since(s, ships) == CHOOSE i \in DOMAIN ships : ships[i] = s

\* The read a reader had under way is taken in this step.
Taken(x) == rd[x].st # "none" /\ rd'[x].st = "none"

\* A read asked before the last change was begun gives the record no ship, however late it
\* is taken (adoptObservedShip, the epoch of a read), and one asked later none from before
\* the ship that change was begun in: that hull itself it may give back, where the game
\* server saw the read before it carried the change out.  A failed change is resolved from
\* any read, whatever its epoch; and after an error has settled another command's change
\* (crossed) the wait that has lost its change judges the next one by its own reads.
ShipNotFromBefore ==
  [][~crossed /\ active' # active /\ transition.of # 0 /\ transition.phase # "failed"
       => /\ \A x \in Readers : Taken(x) => rd[x].epoch >= transition.epoch
          /\ Since(active', been') >= Since(expected[transition.of].ship, been')]_vars

\* A change that is not ready is resolved in the end, and commands are let through.
NeverLatchedForGood == ~IsFree(transition) ~> IsFree(transition)

\* When nothing changes the pilot's ship any more the record comes to hold it.
ShipFollowed == <>[](active = ship)
=============================================================================
