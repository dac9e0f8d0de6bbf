----------------------- MODULE TransitionBarrierProofs -----------------------
(***************************************************************************)
(* Proofs about TransitionBarrier, for any commands, polls and ships lost: *)
(* the types; and up to the first error that settles a change another      *)
(* command waits for (crossed), that a change under way is the record's,   *)
(* and that its ship is none from before the one the change began in.      *)
(***************************************************************************)
EXTENDS TransitionBarrier, SequenceTheorems, FiniteSetTheorems, WellFoundedInduction, TLAPS

-----------------------------------------------------------------------------
(* The invariant's parts.                                                  *)

Early == {"idle", "before", "sleeping"}

Transitions == [epoch : Nat \ {0}, phase : PhasesHeld, of : Routes] \cup {NoTransition}

Flights == [st : {"none", "asked", "seen", "space", "both"}, epoch : Nat, place : Places \cup {"nowhere"},
            ship : ShipNumbers, ego : ShipNumbers \cup {-1}]

\* The commands that may still give the pilot a ship.
ToCome == {r \in Routes : pc[r] \in Early \/ r \in afloat}

\* The pilot has had no more ships than were boarded or lost.
Counted ==
  /\ been # <<>>
  /\ \A r \in afloat : pc[r] \notin Early
  /\ Len(been) + Cardinality(ToCome) <= 1 + lost + Cardinality(Routes)

-----------------------------------------------------------------------------
(* Numbers of routes and of ships.                                         *)

\* The routes have a last one.
LEMMA LastRoute ==
  /\ Max(Routes) \in Routes /\ \A r \in Routes : r <= Max(Routes)
<1> DEFINE Covers(T) == \A y \in Routes : \E x \in T : x >= y
           I == {T \in FiniteSubsetsOf(Routes) : T # {} /\ Covers(T)}
           R == StrictSubsetOrdering(Routes)
<1>1. Routes \subseteq Nat /\ Routes # {} /\ IsFiniteSet(Routes) BY RoutesAssumption
<1>2. Routes \in I /\ I \subseteq FiniteSubsetsOf(Routes)
  <2>1. \A y \in Routes : y >= y BY <1>1
  <2> QED BY <1>1, <2>1 DEF FiniteSubsetsOf
<1>3. IsWellFoundedOn(R, FiniteSubsetsOf(Routes)) BY FS_StrictSubsetOrderingWellFounded
<1> HIDE DEF R
<1>4. PICK T \in I : \A U \in I : <<U, T>> \notin R BY <1>2, <1>3, WFMin
<1>5. T \subseteq Routes /\ IsFiniteSet(T) /\ T # {} /\ Covers(T) BY DEF FiniteSubsetsOf
<1>6. ASSUME NEW U, U \subseteq T, U # T, U # {}, Covers(U) PROVE FALSE
  <2>1. IsFiniteSet(U) BY <1>5, <1>6, FS_Subset
  <2>2. U \in I BY <1>5, <1>6, <2>1 DEF FiniteSubsetsOf
  <2>3. <<U, T>> \in R BY <1>5, <1>6 DEF R, StrictSubsetOrdering
  <2> QED BY <1>4, <2>2, <2>3
<1>7. PICK x \in T : TRUE BY <1>5
<1>8. T = {x}
  <2> SUFFICES ASSUME NEW z \in T, z # x PROVE FALSE OBVIOUS
  <2>1. x \in Nat /\ z \in Nat BY <1>1, <1>5
  <2> DEFINE low == IF z <= x THEN z ELSE x
             U == T \ {low}
  <2>2. \E w \in U : w >= low BY <2>1
  <2>3. \A y \in Routes : \E w \in U : w >= y
    <3> SUFFICES ASSUME NEW y \in Routes PROVE \E w \in U : w >= y OBVIOUS
    <3>1. PICK w \in T : w >= y BY <1>5
    <3>2. CASE w # low BY <3>1, <3>2
    <3>3. CASE w = low
      <4>1. PICK v \in U : v >= low BY <2>2
      <4>2. v \in Nat /\ w \in Nat /\ y \in Nat BY <1>1, <1>5
      <4> HIDE DEF low
      <4>3. v >= y BY <3>1, <3>3, <4>1, <4>2
      <4> QED BY <4>1, <4>3
    <3> QED BY <3>2, <3>3
  <2>4. U # T /\ U # {} BY <2>2
  <2> QED BY <1>6, <2>3, <2>4
<1>9. x \in Routes /\ \A y \in Routes : x >= y BY <1>5, <1>8
<1>10. Max(Routes) \in Routes /\ \A y \in Routes : Max(Routes) >= y BY <1>9 DEF Max
<1> QED BY <1>1, <1>10

LEMMA Constants ==
  /\ 0 \notin Routes /\ \A p \in Pollers : p \notin Routes
  /\ Routes \subseteq Nat /\ IsFiniteSet(Routes) /\ Cardinality(Routes) \in Nat /\ Max(Routes) \in Nat
  /\ MaxLost \in Nat /\ Start \in Places
  /\ 0 \in ShipNumbers /\ ShipNumbers \subseteq Nat
  /\ \A r \in Routes : r \in ShipNumbers
<1>1. /\ Routes \subseteq Nat \ {0} /\ IsFiniteSet(Routes) /\ MaxLost \in Nat /\ Start \in Places
      /\ Pollers \cap Routes = {}
  BY RoutesAssumption
<1>2. Cardinality(Routes) \in Nat BY <1>1, FS_CardinalityType
<1>3. Max(Routes) \in Nat /\ \A r \in Routes : r <= Max(Routes) /\ r \in Nat BY <1>1, LastRoute
<1> DEFINE c == Cardinality(Routes)
           m == Max(Routes)
           top == 2 + 2 * c + m + MaxLost
<1>4. c \in Nat /\ m \in Nat BY <1>2, <1>3
<1> HIDE DEF c, m
<1>5. top \in Nat /\ \A k \in Nat : k <= m => k <= top BY <1>1, <1>4
<1>6. ShipNumbers = 0..top BY DEF ShipNumbers, c, m
<1>7. \A r \in Routes : r \in Nat /\ r <= m BY <1>3 DEF m
<1> HIDE DEF top
<1> QED BY <1>1, <1>2, <1>3, <1>5, <1>6, <1>7

LEMMA RowTypes ==
  ASSUME NEW row \in Transitions
  PROVE  /\ row = NoTransition <=> row.of = 0
         /\ row = NoTransition <=> row.phase = "none"
         /\ row = NoTransition <=> row.epoch = 0
         /\ row.epoch \in Nat
         /\ row # NoTransition => row.of \in Routes /\ row.phase \in PhasesHeld
         /\ row # NoTransition => \A p \in PhasesHeld : /\ [row EXCEPT !.phase = p] \in Transitions
                                                       /\ [row EXCEPT !.phase = p].of = row.of
                                                       /\ [row EXCEPT !.phase = p].phase = p
                                                       /\ [row EXCEPT !.phase = p].epoch = row.epoch
<1>1. NoTransition.of = 0 /\ NoTransition.phase = "none" /\ NoTransition.epoch = 0 BY DEF NoTransition
<1>2. 0 \notin Routes BY Constants
<1>3. CASE row = NoTransition BY <1>1, <1>3
<1>4. CASE row \in [epoch : Nat \ {0}, phase : PhasesHeld, of : Routes]
  <2>1. row.of # 0 /\ row.phase # "none" /\ row.epoch # 0 /\ row.epoch \in Nat
    BY <1>2, <1>4 DEF PhasesHeld
  <2> QED BY <1>1, <1>4, <2>1 DEF Transitions
<1> QED BY <1>3, <1>4 DEF Transitions

\* What a read makes of the record is the record's change still, ready or none.
LEMMA ShownTypes ==
  ASSUME transition \in Transitions, active \in ShipNumbers, NEW flight \in Flights
  PROVE  /\ Shown(flight).transition \in Transitions /\ Shown(flight).active \in ShipNumbers
         /\ transition.phase # "failed" => Shown(flight) = [transition |-> transition, active |-> active]
         /\ \/ Shown(flight).transition = transition
            \/ Shown(flight).transition = NoTransition
            \/ Shown(flight).transition = [transition EXCEPT !.phase = "ready"] /\ transition # NoTransition
<1>1. transition \in Transitions /\ active \in ShipNumbers /\ flight.ship \in ShipNumbers
  BY DEF Flights
<1>2. CASE transition.phase # "failed"
  <2>1. ~Landed(flight) /\ ~Reverted(flight) BY <1>2 DEF Landed, Reverted
  <2>2. Shown(flight) = [transition |-> transition, active |-> active] BY <2>1 DEF Shown
  <2> QED BY <1>1, <2>2
<1>3. CASE transition.phase = "failed"
  <2>1. transition # NoTransition BY <1>3 DEF NoTransition
  <2>2. [transition EXCEPT !.phase = "ready"] \in Transitions /\ NoTransition \in Transitions
    BY <1>1, <2>1, RowTypes DEF PhasesHeld, Transitions
  <2>3. CASE Landed(flight)
    <3>1. Shown(flight) = [transition |-> [transition EXCEPT !.phase = "ready"], active |-> flight.ship]
      <4>1. ~Reverted(flight) BY <2>3 DEF Reverted
      <4> QED BY <2>3, <4>1 DEF Shown
    <3> QED BY <1>1, <1>3, <2>1, <2>2, <3>1
  <2>4. CASE ~Landed(flight) /\ Reverted(flight)
    <3>1. Shown(flight) = [transition |-> NoTransition, active |-> active] BY <2>4 DEF Shown
    <3> QED BY <1>1, <1>3, <2>2, <3>1
  <2>5. CASE ~Landed(flight) /\ ~Reverted(flight)
    <3>1. Shown(flight) = [transition |-> transition, active |-> active] BY <2>5 DEF Shown
    <3> QED BY <1>1, <1>3, <3>1
  <2> QED BY <2>3, <2>4, <2>5
<1> QED BY <1>2, <1>3

Outcomes == [Routes -> {"none", "ok", "refused", "superseded", "timeout", "error", "crashed"}]

Where == {"idle", "before", "sleeping", "writing", "waiting", "poll", "done"}

HeldOK ==
  /\ transition \in Transitions /\ epoch \in Nat /\ cooling \in BOOLEAN
  /\ reserved \in Routes \cup {0} /\ active \in ShipNumbers

RoutesOK ==
  /\ expected \in [Routes -> [from : Places \cup {"nowhere"}, ship : ShipNumbers]]
  /\ mine \in [Routes -> Nat]
  /\ answer \in Outcomes

GameOK ==
  /\ place \in Places \cup {"nowhere"} /\ bound \in Places
  /\ been \in Seq(ShipNumbers) /\ lost \in 0..MaxLost

\* What CommandsKept keeps of the commands: where each of them is, what is afloat and
\* how many ships there have been.
CommandsOK == pc \in [Routes -> Where] /\ afloat \subseteq Routes /\ Counted

Typed == HeldOK /\ RoutesOK /\ rd \in [Readers -> Flights] /\ GameOK /\ CommandsOK

\* What no step looks into: what the commands are, and whether an error has crossed.
Planned == crossed \in BOOLEAN /\ kind \in [Routes -> Kinds]

LEMMA TypedParts == TypeOK /\ Counted <=> Typed /\ Planned
BY DEF TypeOK, Typed, Planned, HeldOK, RoutesOK, GameOK, CommandsOK, Transitions, Flights, Where, Outcomes

LEMMA ReadersTyped ==
  /\ Routes \subseteq Readers /\ Pollers \subseteq Readers
  /\ NoRead \in Flights /\ Asked.epoch = epoch /\ Asked.st = "asked" /\ Asked.ship = 0
  /\ NotExpected \in [from : Places \cup {"nowhere"}, ship : ShipNumbers] /\ NotExpected.ship = 0
<1>1. 0 \in ShipNumbers BY Constants
<1> QED BY <1>1 DEF Readers, NoRead, Flights, Asked, NotExpected

LEMMA AskedTyped == ASSUME HeldOK PROVE Asked \in Flights
<1>1. NoRead \in Flights /\ epoch \in Nat BY ReadersTyped DEF HeldOK
<1> QED BY <1>1 DEF Asked, Flights

LEMMA ToComeFinite == IsFiniteSet(ToCome) /\ Cardinality(ToCome) \in Nat /\ ToCome \subseteq Routes
<1>1. ToCome \subseteq Routes BY DEF ToCome
<1> QED BY <1>1, Constants, FS_Subset, FS_CardinalityType

\* No new command to come, no new ship.
LEMMA CountedStays ==
  ASSUME Typed, UNCHANGED <<been, lost>>, ToCome' \subseteq ToCome, \A q \in afloat' : pc'[q] \notin Early
  PROVE  Counted'
<1>1. IsFiniteSet(ToCome) /\ Cardinality(ToCome) \in Nat BY ToComeFinite
<1>2. Cardinality(ToCome') <= Cardinality(ToCome) /\ Cardinality(ToCome') \in Nat
  BY <1>1, FS_Subset, FS_CardinalityType
<1> DEFINE a == Cardinality(ToCome)
           b == Cardinality(ToCome')
           n == Len(been)
           k == 1 + lost + Cardinality(Routes)
<1>3. n \in Nat /\ k \in Nat /\ n + a <= k /\ been # <<>>
  BY Constants DEF Typed, GameOK, CommandsOK, Counted
<1>4. a \in Nat /\ b \in Nat /\ b <= a BY <1>1, <1>2
<1>5. b = Cardinality(ToCome)' /\ n = Len(been') /\ k = (1 + lost + Cardinality(Routes))' OBVIOUS
<1> HIDE DEF a, b, n, k
<1>6. n + b <= k BY <1>3, <1>4
<1> QED BY <1>3, <1>5, <1>6 DEF Counted

\* A route that goes on adds no command to come.
LEMMA RouteMoves ==
  ASSUME Typed, NEW r \in Routes, NEW w \in Where, pc' = [pc EXCEPT ![r] = w], UNCHANGED <<been, lost>>,
         \/ w \notin Early /\ afloat' \subseteq afloat
         \/ w \notin Early /\ pc[r] \in Early /\ afloat' = afloat \cup {r}
         \/ w \in Early /\ pc[r] \in Early /\ afloat' = afloat
  PROVE  CommandsOK'
<1>1. pc \in [Routes -> Where] /\ afloat \subseteq Routes /\ \A q \in afloat : pc[q] \notin Early
  BY DEF Typed, CommandsOK, Counted
<1>2. pc' \in [Routes -> Where] /\ pc'[r] = w /\ \A q \in Routes : q # r => pc'[q] = pc[q] BY <1>1
<1>3. afloat' \subseteq Routes BY <1>1
<1>4. \A q \in afloat' : pc'[q] \notin Early BY <1>1, <1>2
<1>5. ToCome' \subseteq ToCome BY <1>1, <1>2 DEF ToCome
<1>6. Counted' BY <1>4, <1>5, CountedStays
<1> QED BY <1>2, <1>3, <1>6 DEF CommandsOK

LEMMA CommandsStay ==
  ASSUME Typed, UNCHANGED <<pc, been, lost>>, afloat' \subseteq afloat
  PROVE  CommandsOK'
<1>1. pc \in [Routes -> Where] /\ afloat \subseteq Routes /\ \A q \in afloat : pc[q] \notin Early
  BY DEF Typed, CommandsOK, Counted
<1>2. ToCome' \subseteq ToCome BY DEF ToCome
<1>3. Counted' BY <1>1, <1>2, CountedStays
<1> QED BY <1>1, <1>3 DEF CommandsOK

\* There is a number for the next capsule.
LEMMA CapsuleNumbered ==
  ASSUME Typed, lost < MaxLost \/ ToCome # {}
  PROVE  Capsule \in ShipNumbers /\ Capsule \in Nat
<1> DEFINE a == Cardinality(ToCome)
           n == Len(been)
           c == Cardinality(Routes)
           m == Max(Routes)
<1>1. a \in Nat /\ n \in Nat /\ c \in Nat /\ m \in Nat /\ lost \in Nat /\ MaxLost \in Nat /\ lost <= MaxLost
      /\ n + a <= 1 + lost + c
  BY Constants, ToComeFinite DEF Typed, GameOK, CommandsOK, Counted
<1>2. ToCome # {} => a # 0 BY ToComeFinite, FS_EmptySet
<1>3. Capsule = 1 + n + m /\ ShipNumbers = 0..(2 + 2 * c + m + MaxLost) BY DEF Capsule, ShipNumbers
<1> HIDE DEF a, n, c, m
<1>4. n <= c + MaxLost BY <1>1, <1>2
<1> QED BY <1>1, <1>3, <1>4

-----------------------------------------------------------------------------
(* What the routes share.                                                  *)

\* A change is let go, or the cooldown stands.
LEMMA ReleaseTyped ==
  ASSUME Typed, NEW row \in Transitions, Release(row), UNCHANGED <<epoch, reserved, active>>
  PROVE  HeldOK'
BY DEF Release, Typed, HeldOK

LEMMA CaughtTyped ==
  ASSUME Typed, NEW r \in Routes
  PROVE  /\ Caught(r) \in Transitions
         /\ Caught(r) # NoTransition => Caught(r).of = transition.of /\ transition # NoTransition
                                        /\ Caught(r).epoch = transition.epoch
<1>1. transition \in Transitions /\ NoTransition \in Transitions BY DEF Typed, HeldOK, Transitions
<1>2. CASE transition.of = 0 \/ KindOf(transition.of) # KindOf(r)
  BY <1>1, <1>2, RowTypes DEF Caught
<1>3. CASE ~(transition.of = 0 \/ KindOf(transition.of) # KindOf(r))
  <2>1. transition # NoTransition BY <1>3, <1>1, RowTypes
  <2> QED BY <1>1, <1>3, <2>1, RowTypes DEF Caught, PhasesHeld
<1> QED BY <1>2, <1>3

LEMMA AnswersTyped ==
  ASSUME Typed, NEW r \in Routes, NEW what, Answers(r, what), UNCHANGED <<been, lost>>, afloat' \subseteq afloat,
         what \in {"ok", "refused", "superseded", "timeout", "error", "crashed"}
  PROVE  /\ CommandsOK' /\ pc' = [pc EXCEPT ![r] = "done"]
         /\ answer' \in Outcomes
<1>1. pc' = [pc EXCEPT ![r] = "done"] /\ answer' = [answer EXCEPT ![r] = what] BY DEF Answers
<1>2. answer \in Outcomes
  BY DEF Typed, RoutesOK
<1>3. answer' \in Outcomes BY <1>1, <1>2 DEF Outcomes
<1>4. "done" \in Where /\ "done" \notin Early BY DEF Where, Early
<1>5. CommandsOK' BY <1>1, <1>4, RouteMoves
<1> QED BY <1>1, <1>3, <1>5

LEMMA BeginTyped ==
  ASSUME Typed, NEW r \in Routes, pc[r] \in Early, Begin(r), UNCHANGED <<been, lost>>
  PROVE  /\ CommandsOK' /\ transition' \in Transitions /\ epoch' \in Nat /\ cooling' = TRUE
         /\ transition'.of = r /\ transition'.epoch = epoch + 1 /\ transition'.phase = "requested"
<1>1. epoch \in Nat /\ epoch + 1 \in Nat \ {0} BY DEF Typed, HeldOK
<1>2. transition' = [epoch |-> epoch + 1, phase |-> "requested", of |-> r] BY DEF Begin
<1>3. transition' \in Transitions BY <1>1, <1>2 DEF Transitions, PhasesHeld
<1>4. "writing" \in Where /\ "writing" \notin Early BY DEF Where, Early
<1>5. CommandsOK' BY <1>4, RouteMoves DEF Begin
<1> QED BY <1>1, <1>2, <1>3, <1>5 DEF Begin

LEMMA ShownTyped ==
  ASSUME Typed, NEW x \in Readers
  PROVE  /\ rd[x] \in Flights
         /\ Shown(rd[x]).transition \in Transitions /\ Shown(rd[x]).active \in ShipNumbers
<1>1. transition \in Transitions /\ active \in ShipNumbers BY DEF Typed, HeldOK
<1>2. rd[x] \in Flights BY DEF Typed
<1> QED BY <1>1, <1>2, ShownTypes

LEMMA ReadDone ==
  ASSUME Typed, NEW x \in Readers, NEW v \in Flights, rd' = [rd EXCEPT ![x] = v]
  PROVE  rd' \in [Readers -> Flights]
BY DEF Typed

-----------------------------------------------------------------------------
(* One lemma for each step that may disturb the types.                     *)

LEMMA ArrivesTyped == ASSUME Typed, NEW r \in Routes, Arrives(r) PROVE Typed'
<1>1. UNCHANGED <<transition, epoch, cooling, reserved, active, expected, mine, place, bound, been, afloat, lost>>
      /\ pc[r] = "idle"
  BY DEF Arrives, heldVars, gameVars
<1>2. HeldOK' /\ GameOK' BY <1>1 DEF Typed, HeldOK, GameOK
<1>3. CASE /\ pc' = [pc EXCEPT ![r] = "before"] /\ rd' = [rd EXCEPT ![r] = Asked] /\ UNCHANGED answer
  <2>1. "before" \in Where /\ "before" \in Early /\ pc[r] \in Early BY <1>1 DEF Where, Early
  <2>2. CommandsOK' BY <1>1, <1>3, <2>1, RouteMoves
  <2>3. rd' \in [Readers -> Flights] BY <1>3, AskedTyped, ReadersTyped, ReadDone DEF Typed
  <2>4. RoutesOK' BY <1>1, <1>3 DEF Typed, RoutesOK
  <2> QED BY <1>2, <2>2, <2>3, <2>4 DEF Typed
<1>4. CASE Answers(r, "refused") /\ UNCHANGED rd
  <2>1. CommandsOK' /\ answer' \in Outcomes
    BY <1>1, <1>4, AnswersTyped
  <2>2. RoutesOK' BY <1>1, <2>1 DEF Typed, RoutesOK
  <2>3. rd' \in [Readers -> Flights] BY <1>4 DEF Typed
  <2> QED BY <1>2, <2>1, <2>2, <2>3 DEF Typed
<1> QED BY <1>3, <1>4 DEF Arrives

\* acquireRouteTransition() refuses, waits or begins.
LEMMA AcquireTyped ==
  ASSUME Typed, NEW r \in Routes, NEW row \in Transitions, pc[r] \in Early, Acquire(r, row), UNCHANGED <<been, lost>>
  PROVE  /\ CommandsOK' /\ transition' \in Transitions /\ epoch' \in Nat /\ cooling' \in BOOLEAN
         /\ reserved' \in Routes \cup {0} /\ mine' \in [Routes -> Nat]
         /\ answer' \in Outcomes
<1>1. /\ epoch \in Nat /\ cooling \in BOOLEAN /\ reserved \in Routes \cup {0} /\ mine \in [Routes -> Nat]
      /\ answer \in Outcomes
  BY DEF Typed, HeldOK, RoutesOK
<1>2. CASE Answers(r, "refused") /\ transition' = row /\ UNCHANGED <<epoch, cooling, reserved, mine, afloat>>
  BY <1>1, <1>2, AnswersTyped
<1>3. CASE /\ reserved' = r /\ mine' = [mine EXCEPT ![r] = epoch] /\ pc' = [pc EXCEPT ![r] = "sleeping"]
           /\ transition' = row /\ UNCHANGED <<epoch, cooling, answer, afloat>>
  <2>1. "sleeping" \in Where /\ "sleeping" \in Early BY DEF Where, Early
  <2>2. CommandsOK' BY <1>3, <2>1, RouteMoves
  <2> QED BY <1>1, <1>3, <2>2
<1>4. CASE Begin(r) /\ UNCHANGED <<reserved, mine, answer>>
  BY <1>1, <1>4, BeginTyped
<1> QED BY <1>2, <1>3, <1>4 DEF Acquire

LEMMA BeforeReadTyped == ASSUME Typed, NEW r \in Routes, BeforeRead(r) PROVE Typed'
<1> DEFINE flight == rd[r]
           shown  == Shown(flight)
<1>1. r \in Readers BY ReadersTyped
<1>2. flight \in Flights /\ shown.transition \in Transitions /\ shown.active \in ShipNumbers BY <1>1, ShownTyped
<1>3. /\ pc[r] = "before" /\ rd' = [rd EXCEPT ![r] = NoRead] /\ active' = shown.active
      /\ UNCHANGED <<place, bound, been, lost>>
      /\ \/ /\ expected' = [expected EXCEPT ![r] = [from |-> flight.place, ship |-> flight.ship]]
            /\ Acquire(r, shown.transition)
         \/ /\ Answers(r, "refused")
            /\ transition' = shown.transition
            /\ UNCHANGED <<expected, epoch, cooling, reserved, mine, afloat>>
  BY DEF BeforeRead
<1> HIDE DEF shown
<1>4. pc[r] \in Early BY <1>3 DEF Early
<1>5. rd' \in [Readers -> Flights] BY <1>1, <1>3, ReadDone, ReadersTyped
<1>6. GameOK' BY <1>3 DEF Typed, GameOK
<1>7. active' \in ShipNumbers BY <1>2, <1>3
<1>8. CASE /\ expected' = [expected EXCEPT ![r] = [from |-> flight.place, ship |-> flight.ship]]
           /\ Acquire(r, shown.transition)
  <2>1. [from |-> flight.place, ship |-> flight.ship] \in [from : Places \cup {"nowhere"}, ship : ShipNumbers]
    BY <1>2 DEF Flights
  <2>2. expected' \in [Routes -> [from : Places \cup {"nowhere"}, ship : ShipNumbers]]
    BY <1>8, <2>1 DEF Typed, RoutesOK
  <2>3. /\ CommandsOK' /\ transition' \in Transitions /\ epoch' \in Nat /\ cooling' \in BOOLEAN
        /\ reserved' \in Routes \cup {0} /\ mine' \in [Routes -> Nat]
        /\ answer' \in Outcomes
    BY <1>2, <1>3, <1>4, <1>8, AcquireTyped
  <2> QED BY <1>5, <1>6, <1>7, <2>2, <2>3 DEF Typed, HeldOK, RoutesOK
<1>9. CASE /\ Answers(r, "refused") /\ transition' = shown.transition
           /\ UNCHANGED <<expected, epoch, cooling, reserved, mine, afloat>>
  <2>1. CommandsOK' /\ answer' \in Outcomes
    BY <1>3, <1>9, AnswersTyped
  <2>2. HeldOK' BY <1>2, <1>7, <1>9 DEF Typed, HeldOK
  <2>3. RoutesOK' BY <1>9, <2>1 DEF Typed, RoutesOK
  <2> QED BY <1>5, <1>6, <2>1, <2>2, <2>3 DEF Typed
<1> QED BY <1>3, <1>8, <1>9

\* A caught error settles the change, if it is of the route's kind, and answers.
LEMMA CatchTyped ==
  ASSUME Typed, NEW r \in Routes, Catch(r), UNCHANGED <<epoch, reserved, active, expected, mine>>,
         UNCHANGED <<place, bound, been, lost>>, afloat' \subseteq afloat, rd' \in [Readers -> Flights]
  PROVE  Typed'
<1>1. Caught(r) \in Transitions BY CaughtTyped
<1>2. HeldOK' BY <1>1, ReleaseTyped DEF Catch
<1>3. CommandsOK' /\ answer' \in Outcomes
  BY AnswersTyped DEF Catch
<1>4. RoutesOK' /\ GameOK' BY <1>3 DEF Typed, RoutesOK, GameOK
<1> QED BY <1>2, <1>3, <1>4 DEF Typed

LEMMA BeforeFailsTyped == ASSUME Typed, NEW r \in Routes, BeforeFails(r) PROVE Typed'
<1>1. rd' \in [Readers -> Flights] BY ReadDone, ReadersTyped DEF BeforeFails
<1> QED BY <1>1, CatchTyped DEF BeforeFails, gameVars

LEMMA RefusedTyped == ASSUME Typed, NEW r \in Routes, Refused(r) PROVE Typed'
<1>1. rd' \in [Readers -> Flights] BY DEF Refused, Typed
<1> QED BY <1>1, CatchTyped DEF Refused

LEMMA CallTimesOutTyped == ASSUME Typed, NEW r \in Routes, CallTimesOut(r) PROVE Typed'
<1>1. rd' \in [Readers -> Flights] BY DEF CallTimesOut, Typed
<1> QED BY <1>1, CatchTyped DEF CallTimesOut, gameVars

LEMMA WakesTyped == ASSUME Typed, NEW r \in Routes, Wakes(r) PROVE Typed'
<1>1. /\ pc[r] = "sleeping" /\ reserved' = IF reserved = r THEN 0 ELSE reserved
      /\ UNCHANGED <<active, expected, mine, rd, place, bound, been, lost>>
  BY DEF Wakes
<1>2. GameOK' /\ rd' \in [Readers -> Flights] BY <1>1 DEF Typed, GameOK
<1>3. reserved' \in Routes \cup {0} BY <1>1 DEF Typed, HeldOK
<1>4. pc[r] \in Early BY <1>1 DEF Early
<1>5. CASE Begin(r) /\ UNCHANGED answer
  <2>1. CommandsOK' /\ transition' \in Transitions /\ epoch' \in Nat /\ cooling' \in BOOLEAN
    BY <1>1, <1>4, <1>5, BeginTyped
  <2>2. HeldOK' BY <1>1, <1>3, <2>1 DEF Typed, HeldOK
  <2>3. RoutesOK' BY <1>1, <1>5 DEF Typed, RoutesOK
  <2> QED BY <1>2, <2>1, <2>2, <2>3 DEF Typed
<1>6. CASE Answers(r, "refused") /\ UNCHANGED <<epoch, cooling, transition, afloat>>
  <2>1. CommandsOK' /\ answer' \in Outcomes
    BY <1>1, <1>6, AnswersTyped
  <2>2. HeldOK' BY <1>1, <1>3, <1>6 DEF Typed, HeldOK
  <2>3. RoutesOK' BY <1>1, <2>1 DEF Typed, RoutesOK
  <2> QED BY <1>2, <2>1, <2>2, <2>3 DEF Typed
<1> QED BY <1>5, <1>6 DEF Wakes

LEMMA AnsweredTyped == ASSUME Typed, NEW r \in Routes, Answered(r) PROVE Typed'
<1>1. /\ pc[r] = "writing" /\ UNCHANGED <<epoch, cooling, reserved, active, expected>>
      /\ UNCHANGED <<place, bound, been, afloat, lost>>
      /\ transition' = IF IsFree(transition) THEN transition ELSE [transition EXCEPT !.phase = "accepted"]
  BY DEF Answered, gameVars
<1>2. transition' \in Transitions
  <2>1. transition \in Transitions BY DEF Typed, HeldOK
  <2>2. CASE IsFree(transition) BY <1>1, <2>1, <2>2
  <2>3. CASE ~IsFree(transition)
    <3>1. transition # NoTransition BY <2>3 DEF IsFree, NoTransition
    <3>2. [transition EXCEPT !.phase = "accepted"] \in Transitions BY <2>1, <3>1, RowTypes DEF PhasesHeld
    <3> QED BY <1>1, <2>3, <3>2
  <2> QED BY <2>2, <2>3
<1>3. HeldOK' /\ GameOK' BY <1>1, <1>2 DEF Typed, HeldOK, GameOK
<1>4. CASE Answers(r, "superseded") /\ UNCHANGED <<mine, rd>>
  <2>1. CommandsOK' /\ answer' \in Outcomes
    BY <1>1, <1>4, AnswersTyped
  <2> QED BY <1>1, <1>3, <1>4, <2>1 DEF Typed, RoutesOK
<1>5. CASE /\ mine' = [mine EXCEPT ![r] = transition.epoch] /\ pc' = [pc EXCEPT ![r] = "waiting"]
           /\ rd' = [rd EXCEPT ![r] = Asked] /\ UNCHANGED answer
  <2>1. "waiting" \in Where /\ "waiting" \notin Early BY DEF Where, Early
  <2>2. CommandsOK' BY <1>1, <1>5, <2>1, RouteMoves
  <2>3. rd' \in [Readers -> Flights] BY <1>5, AskedTyped, ReadersTyped, ReadDone DEF Typed
  <2>4. transition.epoch \in Nat BY RowTypes DEF Typed, HeldOK
  <2>5. mine' \in [Routes -> Nat] BY <1>5, <2>4 DEF Typed, RoutesOK
  <2>6. RoutesOK' BY <1>1, <1>5, <2>5 DEF Typed, RoutesOK
  <2> QED BY <1>3, <2>2, <2>3, <2>6 DEF Typed
<1> QED BY <1>4, <1>5 DEF Answered

\* The verdict of a wait is put on the change it finds.
LEMMA JudgeTyped ==
  ASSUME Typed, NEW r \in Routes, NEW shown, NEW flight \in Flights,
         shown.transition \in Transitions, shown.active \in ShipNumbers, Judge(r, shown, flight),
         UNCHANGED <<epoch, cooling, reserved, expected, mine, gameVars>>
  PROVE  Typed'
<1>1. UNCHANGED <<place, bound, been, afloat, lost>> BY DEF gameVars
<1>2. rd' \in [Readers -> Flights] BY ReadDone, ReadersTyped DEF Judge
<1>3. GameOK' BY <1>1 DEF Typed, GameOK
<1>4. flight.ship \in ShipNumbers BY DEF Flights
<1>5. CASE /\ transition' = shown.transition /\ active' = shown.active /\ Answers(r, "crashed")
  <2>1. CommandsOK' /\ answer' \in Outcomes
    BY <1>1, <1>5, AnswersTyped
  <2> QED BY <1>2, <1>3, <1>5, <2>1 DEF Typed, HeldOK, RoutesOK
<1>6. CASE /\ shown.transition # NoTransition
           /\ transition' = [shown.transition EXCEPT !.phase = "ready"] /\ active' = flight.ship
           /\ Answers(r, "ok")
  <2>1. CommandsOK' /\ answer' \in Outcomes
    BY <1>1, <1>6, AnswersTyped
  <2>2. transition' \in Transitions BY <1>6, RowTypes DEF PhasesHeld
  <2> QED BY <1>2, <1>3, <1>4, <1>6, <2>1, <2>2 DEF Typed, HeldOK, RoutesOK
<1>7. CASE /\ shown.transition # NoTransition
           /\ transition' = [shown.transition EXCEPT !.phase = "session-changing"] /\ active' = shown.active
           /\ pc' = [pc EXCEPT ![r] = "poll"] /\ UNCHANGED answer
  <2>1. "poll" \in Where /\ "poll" \notin Early BY DEF Where, Early
  <2>2. CommandsOK' BY <1>1, <1>7, <2>1, RouteMoves
  <2>3. transition' \in Transitions BY <1>7, RowTypes DEF PhasesHeld
  <2> QED BY <1>2, <1>3, <1>7, <2>2, <2>3 DEF Typed, HeldOK, RoutesOK
<1> QED BY <1>5, <1>6, <1>7 DEF Judge

LEMMA FlightReadTyped == ASSUME Typed, NEW r \in Routes, FlightRead(r) PROVE Typed'
<1> DEFINE flight == rd[r]
           shown  == Shown(flight)
<1>1. r \in Readers BY ReadersTyped
<1>2. flight \in Flights /\ shown.transition \in Transitions /\ shown.active \in ShipNumbers BY <1>1, ShownTyped
<1>3. /\ UNCHANGED <<epoch, cooling, reserved, expected, mine, gameVars>>
      /\ \/ /\ rd' = [rd EXCEPT ![r].st = "space"]
            /\ transition' = shown.transition /\ active' = shown.active
            /\ UNCHANGED <<pc, answer>>
         \/ Judge(r, shown, flight)
  BY DEF FlightRead
<1> HIDE DEF shown
<1>4. CASE /\ rd' = [rd EXCEPT ![r].st = "space"]
           /\ transition' = shown.transition /\ active' = shown.active
           /\ UNCHANGED <<pc, answer>>
  <2>1. [flight EXCEPT !.st = "space"] \in Flights BY <1>2 DEF Flights
  <2>2. rd' = [rd EXCEPT ![r] = [flight EXCEPT !.st = "space"]] BY <1>4
  <2>3. rd' \in [Readers -> Flights] BY <1>1, <2>1, <2>2, ReadDone
  <2>4. UNCHANGED <<been, lost, afloat, place, bound>> BY <1>3 DEF gameVars
  <2>5. CommandsOK' BY <1>4, <2>4, CommandsStay
  <2>6. HeldOK' BY <1>2, <1>3, <1>4 DEF Typed, HeldOK
  <2> QED BY <1>3, <1>4, <2>3, <2>4, <2>5, <2>6 DEF Typed, RoutesOK, GameOK
<1>5. CASE Judge(r, shown, flight) BY <1>2, <1>3, <1>5, JudgeTyped
<1> QED BY <1>3, <1>4, <1>5

LEMMA SpaceReadTyped == ASSUME Typed, NEW r \in Routes, SpaceRead(r) PROVE Typed'
<1> DEFINE shown == [transition |-> transition, active |-> active]
<1>1. rd[r] \in Flights BY ReadersTyped, ShownTyped
<1>2. shown.transition \in Transitions /\ shown.active \in ShipNumbers BY DEF Typed, HeldOK
<1>3. UNCHANGED <<epoch, cooling, reserved, expected, mine, gameVars>> /\ Judge(r, shown, rd[r]) BY DEF SpaceRead
<1> HIDE DEF shown
<1> QED BY <1>1, <1>2, <1>3, JudgeTyped

LEMMA WaitReadFailsTyped == ASSUME Typed, NEW r \in Routes, WaitReadFails(r) PROVE Typed'
<1>1. /\ rd' = [rd EXCEPT ![r] = NoRead] /\ pc' = [pc EXCEPT ![r] = "poll"]
      /\ UNCHANGED <<transition, epoch, cooling, reserved, active, expected, mine, answer>>
      /\ UNCHANGED <<place, bound, been, afloat, lost>>
  BY DEF WaitReadFails, heldVars, gameVars
<1>2. "poll" \in Where /\ "poll" \notin Early BY DEF Where, Early
<1>3. CommandsOK' BY <1>1, <1>2, RouteMoves
<1>4. rd' \in [Readers -> Flights] BY <1>1, ReadDone, ReadersTyped
<1> QED BY <1>1, <1>3, <1>4 DEF Typed, HeldOK, RoutesOK, GameOK

LEMMA PollsTyped == ASSUME Typed, NEW r \in Routes, Polls(r) PROVE Typed'
<1>1. UNCHANGED <<epoch, reserved, active, expected, mine, place, bound, been, afloat, lost>>
      /\ UNCHANGED <<transition, cooling>>
  BY DEF Polls, gameVars
<1>2. HeldOK' /\ GameOK' BY <1>1 DEF Typed, HeldOK, GameOK
<1>3. CASE pc' = [pc EXCEPT ![r] = "waiting"] /\ rd' = [rd EXCEPT ![r] = Asked] /\ UNCHANGED answer
  <2>1. "waiting" \in Where /\ "waiting" \notin Early BY DEF Where, Early
  <2>2. CommandsOK' BY <1>1, <1>3, <2>1, RouteMoves
  <2>3. rd' \in [Readers -> Flights] BY <1>3, AskedTyped, ReadersTyped, ReadDone DEF Typed
  <2>4. RoutesOK' BY <1>1, <1>3 DEF Typed, RoutesOK
  <2> QED BY <1>2, <2>2, <2>3, <2>4 DEF Typed
<1>4. CASE Answers(r, "superseded") /\ UNCHANGED rd
  <2>1. CommandsOK' /\ answer' \in Outcomes
    BY <1>1, <1>4, AnswersTyped
  <2> QED BY <1>1, <1>2, <1>4, <2>1 DEF Typed, RoutesOK
<1> QED BY <1>3, <1>4 DEF Polls

LEMMA DeadlineTyped == ASSUME Typed, NEW r \in Routes, Deadline(r) PROVE Typed'
<1>1. UNCHANGED <<epoch, reserved, active, expected, mine, rd, place, bound, been, afloat, lost>>
      /\ Answers(r, "timeout")
  BY DEF Deadline, gameVars
<1>2. transition \in Transitions /\ NoTransition \in Transitions BY DEF Typed, HeldOK, Transitions
<1>3. HeldOK'
  <2>1. CASE Release(NoTransition) BY <1>1, <1>2, <2>1, ReleaseTyped
  <2>2. CASE transition # NoTransition /\ Release([transition EXCEPT !.phase = "failed"])
    <3>1. [transition EXCEPT !.phase = "failed"] \in Transitions BY <1>2, <2>2, RowTypes DEF PhasesHeld
    <3> QED BY <1>1, <2>2, <3>1, ReleaseTyped
  <2>3. CASE UNCHANGED <<transition, cooling>> BY <1>1, <2>3 DEF Typed, HeldOK
  <2> QED BY <2>1, <2>2, <2>3 DEF Deadline
<1>4. CommandsOK' /\ answer' \in Outcomes
  BY <1>1, AnswersTyped
<1> QED BY <1>1, <1>3, <1>4 DEF Typed, RoutesOK, GameOK

LEMMA PollAsksTyped == ASSUME Typed, NEW p \in Pollers, PollAsks(p) PROVE Typed'
<1>1. /\ UNCHANGED <<transition, epoch, cooling, reserved, active, pc, expected, mine, answer>>
      /\ UNCHANGED <<place, bound, been, afloat, lost>> /\ rd' = [rd EXCEPT ![p] = Asked]
  BY DEF PollAsks, heldVars, routeVars, gameVars
<1>2. rd' \in [Readers -> Flights] BY <1>1, AskedTyped, ReadersTyped, ReadDone DEF Typed
<1>3. CommandsOK' BY <1>1, CommandsStay
<1> QED BY <1>1, <1>2, <1>3 DEF Typed, HeldOK, RoutesOK, GameOK

LEMMA PollReadsTyped == ASSUME Typed, NEW p \in Pollers, PollReads(p) PROVE Typed'
<1> DEFINE flight == rd[p]
           shown  == Shown(flight)
           adopts == Adopts(flight, shown)
<1>1. p \in Readers BY ReadersTyped
<1>2. flight \in Flights /\ shown.transition \in Transitions /\ shown.active \in ShipNumbers BY <1>1, ShownTyped
<1>3. /\ rd' = [rd EXCEPT ![p] = NoRead] /\ transition' = shown.transition
      /\ active' = IF adopts THEN flight.ship ELSE shown.active
      /\ epoch' = IF adopts THEN epoch + 1 ELSE epoch
      /\ UNCHANGED <<cooling, reserved, pc, expected, mine, answer, place, bound, been, afloat, lost>>
  BY DEF PollReads, routeVars, gameVars
<1> HIDE DEF shown, adopts
<1>4. rd' \in [Readers -> Flights] BY <1>1, <1>3, ReadDone, ReadersTyped
<1>5. CommandsOK' BY <1>3, CommandsStay
<1>6. flight.ship \in ShipNumbers BY <1>2 DEF Flights
<1>7. HeldOK' BY <1>2, <1>3, <1>6 DEF Typed, HeldOK
<1> QED BY <1>3, <1>4, <1>5, <1>7 DEF Typed, RoutesOK, GameOK

\* The ship the pilot is in.
LEMMA ShipTyped ==
  ASSUME Typed
  PROVE  /\ been \in Seq(ShipNumbers) /\ Len(been) \in Nat \ {0} /\ ship = been[Len(been)]
         /\ ship \in ShipNumbers
<1>1. been \in Seq(ShipNumbers) /\ been # <<>> BY DEF Typed, GameOK, CommandsOK, Counted
<1>2. Len(been) \in Nat \ {0} BY <1>1
<1> QED BY <1>1, <1>2 DEF ship, Last

LEMMA SeesTyped == ASSUME Typed, NEW x \in Readers, Sees(x) PROVE Typed'
<1>1. /\ UNCHANGED <<transition, epoch, cooling, reserved, active, pc, expected, mine, answer>>
      /\ UNCHANGED <<place, bound, been, afloat, lost>>
  BY DEF Sees, heldVars, routeVars, gameVars
<1>2. rd[x] \in Flights /\ ship \in ShipNumbers /\ place \in Places \cup {"nowhere"}
  BY ShownTyped, ShipTyped DEF Typed, GameOK
<1>3. rd' \in [Readers -> Flights]
  <2>1. CASE rd' = [rd EXCEPT ![x].st = "seen", ![x].place = place, ![x].ship = ship]
    <3>1. [rd[x] EXCEPT !.st = "seen", !.place = place, !.ship = ship] \in Flights BY <1>2 DEF Flights
    <3>2. rd' = [rd EXCEPT ![x] = [rd[x] EXCEPT !.st = "seen", !.place = place, !.ship = ship]] BY <2>1 DEF Typed
    <3> QED BY <3>1, <3>2, ReadDone
  <2>2. CASE rd' = [rd EXCEPT ![x].st = "both", ![x].ego = IF place \in InSpace THEN ship ELSE -1]
    <3> DEFINE ego == IF place \in InSpace THEN ship ELSE -1
    <3>1. ego \in ShipNumbers \cup {-1} BY <1>2
    <3> HIDE DEF ego
    <3>2. [rd[x] EXCEPT !.st = "both", !.ego = ego] \in Flights BY <1>2, <3>1 DEF Flights
    <3>3. rd' = [rd EXCEPT ![x] = [rd[x] EXCEPT !.st = "both", !.ego = ego]] BY <2>2 DEF Typed, ego
    <3> QED BY <3>2, <3>3, ReadDone
  <2> QED BY <2>1, <2>2 DEF Sees
<1>4. CommandsOK' BY <1>1, CommandsStay
<1> QED BY <1>1, <1>3, <1>4 DEF Typed, HeldOK, RoutesOK, GameOK

\* Another ship after the others.
LEMMA BoardedTyped ==
  ASSUME Typed, NEW s \in ShipNumbers, been' = Append(been, s)
  PROVE  been' \in Seq(ShipNumbers) /\ Len(been') = Len(been) + 1 /\ been' # <<>> /\ Len(been) \in Nat
<1>1. been \in Seq(ShipNumbers) BY DEF Typed, GameOK
<1> QED BY <1>1

\* One command less to come.
LEMMA OneLessToCome ==
  ASSUME Typed, NEW r \in afloat, afloat' = afloat \ {r}, UNCHANGED pc
  PROVE  /\ r \in Routes /\ ToCome # {} /\ ToCome' = ToCome \ {r} /\ r \in ToCome
         /\ Cardinality(ToCome') = Cardinality(ToCome) - 1
<1>1. r \in Routes /\ pc[r] \notin Early BY DEF Typed, CommandsOK, Counted
<1>2. r \in ToCome /\ ToCome' = ToCome \ {r} BY <1>1 DEF ToCome
<1>3. Cardinality(ToCome') = Cardinality(ToCome) - 1 BY <1>2, ToComeFinite, FS_RemoveElement
<1> QED BY <1>1, <1>2, <1>3

LEMMA CarriesOutTyped == ASSUME Typed, NEW r \in Routes, CarriesOut(r) PROVE Typed'
<1>1. /\ UNCHANGED <<transition, epoch, cooling, reserved, active, pc, expected, mine, answer, rd, lost>>
      /\ r \in afloat /\ afloat' = afloat \ {r} /\ place # "nowhere"
  BY DEF CarriesOut, heldVars, routeVars
<1>2. HeldOK' /\ RoutesOK' /\ rd' \in [Readers -> Flights] BY <1>1 DEF Typed, HeldOK, RoutesOK
<1>3. CASE UNCHANGED been /\ place' = "nowhere" /\ bound' = To(r)
  <2>1. CommandsOK' BY <1>1, <1>3, CommandsStay
  <2>2. bound' \in Places
    <3>1. place \in Places BY <1>1 DEF Typed, GameOK
    <3> QED BY <1>3, <3>1 DEF To, Places, InSpace
  <2>3. GameOK' BY <1>1, <1>3, <2>2 DEF Typed, GameOK
  <2> QED BY <1>2, <2>1, <2>3 DEF Typed
<1>4. ASSUME NEW s \in ShipNumbers, been' = Append(been, s), UNCHANGED <<place, bound>> PROVE Typed'
  <2>1. been' \in Seq(ShipNumbers) /\ Len(been') = Len(been) + 1 /\ been' # <<>> /\ Len(been) \in Nat
    BY <1>4, BoardedTyped
  <2>2. Cardinality(ToCome') = Cardinality(ToCome) - 1 /\ Cardinality(ToCome) \in Nat
    BY <1>1, OneLessToCome, ToComeFinite
  <2>3. Len(been) + Cardinality(ToCome) <= 1 + lost + Cardinality(Routes)
        /\ lost \in Nat
        /\ pc \in [Routes -> Where] /\ afloat \subseteq Routes /\ \A q \in afloat : pc[q] \notin Early
    BY DEF Typed, CommandsOK, Counted, GameOK
  <2> DEFINE a == Cardinality(ToCome)
             b == Cardinality(ToCome')
             n == Len(been)
             m == Len(been')
             k == 1 + lost + Cardinality(Routes)
  <2>4. a \in Nat /\ b = a - 1 /\ n \in Nat /\ m = n + 1 /\ k \in Nat /\ n + a <= k
    <3>1. n \in Nat /\ m = n + 1 BY <2>1
    <3>2. a \in Nat /\ b = a - 1 BY <2>2
    <3>3. k \in Nat BY <2>3, Constants
    <3>4. n + a <= k BY <2>3
    <3> QED BY <3>1, <3>2, <3>3, <3>4
  <2>5. k = (1 + lost + Cardinality(Routes))' /\ b = Cardinality(ToCome)' BY <1>1
  <2> HIDE DEF a, b, n, m, k
  <2>6. m + b <= k BY <2>4
  <2>7. Counted' BY <1>1, <2>1, <2>3, <2>5, <2>6 DEF Counted, m
  <2>8. CommandsOK' BY <1>1, <2>3, <2>7 DEF CommandsOK
  <2>9. GameOK' BY <1>1, <1>4, <2>1 DEF Typed, GameOK
  <2> QED BY <1>2, <2>8, <2>9 DEF Typed
<1>5. r \in ShipNumbers /\ Capsule \in ShipNumbers BY <1>1, Constants, OneLessToCome, CapsuleNumbered
<1> QED BY <1>3, <1>4, <1>5 DEF CarriesOut

LEMMA ShipLostTyped == ASSUME Typed, ShipLost PROVE Typed'
<1>1. /\ UNCHANGED <<transition, epoch, cooling, reserved, active, pc, expected, mine, answer, rd, place, bound, afloat>>
      /\ lost < MaxLost /\ lost' = lost + 1 /\ been' = Append(been, Capsule)
  BY DEF ShipLost, heldVars, routeVars
<1>2. Capsule \in ShipNumbers BY <1>1, CapsuleNumbered
<1>3. been' \in Seq(ShipNumbers) /\ Len(been') = Len(been) + 1 /\ been' # <<>> /\ Len(been) \in Nat
  BY <1>1, <1>2, BoardedTyped
<1>4. /\ Len(been) + Cardinality(ToCome) <= 1 + lost + Cardinality(Routes) /\ lost \in Nat /\ MaxLost \in Nat
      /\ pc \in [Routes -> Where] /\ afloat \subseteq Routes /\ \A q \in afloat : pc[q] \notin Early
  BY Constants DEF Typed, CommandsOK, Counted, GameOK
<1>5. ToCome' = ToCome /\ Cardinality(ToCome) \in Nat BY <1>1, ToComeFinite DEF ToCome
<1> DEFINE a == Cardinality(ToCome)
           n == Len(been)
           c == Cardinality(Routes)
<1>6. a \in Nat /\ n \in Nat /\ c \in Nat /\ n + a <= 1 + lost + c BY <1>3, <1>4, <1>5, Constants
<1>7. Len(been') = n + 1 /\ Cardinality(ToCome)' = a /\ Cardinality(Routes)' = c BY <1>3, <1>5
<1> HIDE DEF a, n, c
<1>8. (n + 1) + a <= 1 + lost' + c BY <1>1, <1>4, <1>6
<1>9. Counted' BY <1>1, <1>3, <1>4, <1>7, <1>8 DEF Counted
<1>10. CommandsOK' BY <1>1, <1>4, <1>9 DEF CommandsOK
<1>11. GameOK' BY <1>1, <1>3, <1>4 DEF Typed, GameOK
<1> QED BY <1>1, <1>10, <1>11 DEF Typed, HeldOK, RoutesOK

LEMMA DeclinesTyped == ASSUME Typed, NEW r \in Routes, Declines(r) PROVE Typed'
<1>1. /\ UNCHANGED <<transition, epoch, cooling, reserved, active, pc, expected, mine, answer, rd>>
      /\ UNCHANGED <<place, bound, been, lost>> /\ afloat' = afloat \ {r}
  BY DEF Declines, heldVars, routeVars
<1>2. CommandsOK' BY <1>1, CommandsStay
<1> QED BY <1>1, <1>2 DEF Typed, HeldOK, RoutesOK, GameOK

LEMMA PilotArrivesTyped == ASSUME Typed, PilotArrives PROVE Typed'
<1>1. /\ UNCHANGED <<transition, epoch, cooling, reserved, active, pc, expected, mine, answer, rd>>
      /\ UNCHANGED <<bound, been, lost, afloat>> /\ place' = bound
  BY DEF PilotArrives, heldVars, routeVars
<1>2. CommandsOK' BY <1>1, CommandsStay
<1> QED BY <1>1, <1>2 DEF Typed, HeldOK, RoutesOK, GameOK

LEMMA CooldownEndsTyped == ASSUME Typed, CooldownEnds PROVE Typed'
<1>1. /\ UNCHANGED <<transition, epoch, reserved, active, pc, expected, mine, answer, rd>>
      /\ UNCHANGED <<place, bound, been, lost, afloat>> /\ cooling' = FALSE
  BY DEF CooldownEnds, routeVars, gameVars
<1>2. CommandsOK' BY <1>1, CommandsStay
<1> QED BY <1>1, <1>2 DEF Typed, HeldOK, RoutesOK, GameOK

LEMMA IdleTyped == ASSUME Typed, UNCHANGED vars PROVE Typed'
<1>1. /\ UNCHANGED <<transition, epoch, cooling, reserved, active, pc, expected, mine, answer, rd>>
      /\ UNCHANGED <<place, bound, been, lost, afloat>>
  BY DEF vars, heldVars, routeVars, gameVars
<1>2. CommandsOK' BY <1>1, CommandsStay
<1> QED BY <1>1, <1>2 DEF Typed, HeldOK, RoutesOK, GameOK

LEMMA InitTyped == Init => Typed
<1> SUFFICES ASSUME Init PROVE Typed OBVIOUS
<1>1. 0 \in ShipNumbers /\ Start \in Places /\ MaxLost \in Nat BY Constants
<1>2. HeldOK BY <1>1 DEF Init, HeldOK, Transitions
<1>3. RoutesOK BY ReadersTyped DEF Init, RoutesOK, Outcomes
<1>4. rd \in [Readers -> Flights] BY ReadersTyped DEF Init
<1>5. been \in Seq(ShipNumbers) /\ Len(been) = 1 /\ been # <<>> BY <1>1 DEF Init
<1>6. GameOK BY <1>1, <1>5 DEF Init, GameOK
<1>7. ToCome = Routes BY DEF Init, ToCome, Early
<1>8. Counted BY <1>5, <1>7, Constants DEF Init, Counted
<1>9. CommandsOK BY <1>8 DEF Init, CommandsOK, Where
<1> QED BY <1>2, <1>3, <1>4, <1>6, <1>9 DEF Typed

LEMMA NextTyped == Typed /\ [Next]_vars => Typed'
<1> SUFFICES ASSUME Typed, [Next]_vars PROVE Typed' OBVIOUS
<1>1. ASSUME NEW r \in Routes, RouteSteps(r) PROVE Typed'
  BY <1>1, BeforeReadTyped, BeforeFailsTyped, WakesTyped, AnsweredTyped, RefusedTyped, CallTimesOutTyped,
     FlightReadTyped, SpaceReadTyped, WaitReadFailsTyped, PollsTyped, DeadlineTyped
     DEF RouteSteps
<1>2. ASSUME NEW r \in Routes, Arrives(r) \/ RouteSteps(r) \/ CarriesOut(r) \/ Declines(r) PROVE Typed'
  BY <1>1, <1>2, ArrivesTyped, CarriesOutTyped, DeclinesTyped
<1>3. ASSUME NEW p \in Pollers, PollAsks(p) \/ PollReads(p) PROVE Typed'
  BY <1>3, PollAsksTyped, PollReadsTyped
<1>4. ASSUME NEW x \in Readers, Sees(x) PROVE Typed' BY <1>4, SeesTyped
<1>5. CASE CooldownEnds \/ PilotArrives \/ ShipLost
  BY <1>5, CooldownEndsTyped, PilotArrivesTyped, ShipLostTyped
<1>6. CASE UNCHANGED vars BY <1>6, IdleTyped
<1> QED BY <1>2, <1>3, <1>4, <1>5, <1>6 DEF Next

LEMMA AlwaysTyped == Spec => []Typed
<1> QED BY InitTyped, NextTyped, PTL DEF Spec

\* The commands stay what they are, and an error that has crossed stays so.
LEMMA PlanStep == ASSUME [Next]_vars PROVE kind' = kind /\ (crossed' # crossed => \E r \in Routes : Catch(r))
<1>1. ASSUME NEW r \in Routes, RouteSteps(r)
      PROVE  kind' = kind /\ (crossed' # crossed => Catch(r))
  BY <1>1 DEF RouteSteps, BeforeRead, BeforeFails, Wakes, Answered, Refused, CallTimesOut, FlightRead, SpaceRead,
     WaitReadFails, Polls, Deadline, heldVars, gameVars
<1>2. ASSUME NEW r \in Routes, Arrives(r) \/ CarriesOut(r) \/ Declines(r)
      PROVE  kind' = kind /\ crossed' = crossed
  BY <1>2 DEF Arrives, CarriesOut, Declines, heldVars, gameVars
<1>3. ASSUME NEW p \in Pollers, PollAsks(p) \/ PollReads(p) PROVE kind' = kind /\ crossed' = crossed
  BY <1>3 DEF PollAsks, PollReads, heldVars, gameVars
<1>4. ASSUME NEW x \in Readers, Sees(x) PROVE kind' = kind /\ crossed' = crossed
  BY <1>4 DEF Sees, heldVars, gameVars
<1>5. CASE CooldownEnds \/ PilotArrives \/ ShipLost \/ UNCHANGED vars
  BY <1>5 DEF CooldownEnds, PilotArrives, ShipLost, vars, heldVars, gameVars
<1> QED BY <1>1, <1>2, <1>3, <1>4, <1>5 DEF Next

LEMMA NextPlanned == Planned /\ [Next]_vars => Planned'
<1> SUFFICES ASSUME Planned, [Next]_vars PROVE Planned' OBVIOUS
<1>1. crossed' \in BOOLEAN
  <2>1. ASSUME NEW r \in Routes, Catch(r) PROVE crossed' \in BOOLEAN BY <2>1 DEF Catch
  <2> QED BY <2>1, PlanStep DEF Planned
<1> QED BY <1>1, PlanStep DEF Planned

LEMMA AlwaysPlanned == Spec => []Planned
<1>1. Init => Planned BY RoutesAssumption DEF Init, Planned
<1> QED BY <1>1, NextPlanned, PTL DEF Spec

\* Every variable of the barrier holds what its place in the code can hold, with any
\* commands, polls and ships lost; the ships are no more than were boarded or lost.
THEOREM BarrierTyped == Spec => []TypeOK
<1>1. Typed /\ Planned => TypeOK BY TypedParts
<1> QED BY <1>1, AlwaysTyped, AlwaysPlanned, PTL

-----------------------------------------------------------------------------
(* One change at a time, as long as no error has crossed.                  *)

\* What OneChangeAtATime says of the time before.
Alone ==
  \A r \in Routes : At(r, Changing) =>
    /\ transition.of = r /\ transition.phase \in {"requested", "accepted", "session-changing"}
    /\ \A q \in Routes \ {r} : ~At(q, Changing)

\* The record's change was begun by a route that waits for it or has answered.
BegunByItsRoute == transition # NoTransition => pc[transition.of] \in Changing \cup {"done"}

OneChange == Alone /\ BegunByItsRoute

LEMMA Placed ==
  ASSUME Typed
  PROVE  pc \in [Routes -> Where] /\ transition \in Transitions
BY DEF Typed, CommandsOK, HeldOK

\* A change that is asked for or waited for is neither free, failed nor none.
LEMMA ChangeUnderWay ==
  ASSUME Typed, OneChange, NEW r \in Routes, pc[r] \in Changing
  PROVE  /\ transition.of = r /\ transition.phase \in {"requested", "accepted", "session-changing"}
         /\ transition # NoTransition /\ transition.phase # "failed" /\ ~IsFree(transition)
         /\ \A q \in Routes : q # r => pc[q] \notin Changing
<1>1. /\ transition.of = r /\ transition.phase \in {"requested", "accepted", "session-changing"}
      /\ \A q \in Routes : q # r => pc[q] \notin Changing
  BY DEF OneChange, Alone, At
<1> QED BY <1>1 DEF IsFree, NoTransition

\* No read changes it but the one of its own wait.
LEMMA ShownUnderWay ==
  ASSUME Typed, OneChange, NEW r \in Routes, pc[r] \in Changing, NEW x \in Readers
  PROVE  Shown(rd[x]).transition = transition /\ Shown(rd[x]).active = active
<1>1. transition \in Transitions /\ active \in ShipNumbers /\ rd[x] \in Flights BY ShownTyped DEF Typed, HeldOK
<1>2. transition.phase # "failed" BY ChangeUnderWay
<1>3. Shown(rd[x]) = [transition |-> transition, active |-> active] BY <1>1, <1>2, ShownTypes
<1> QED BY <1>3

\* What a read makes of the change is that change, or none.
LEMMA ShownOf ==
  ASSUME Typed, NEW x \in Readers
  PROVE  \/ Shown(rd[x]).transition = NoTransition
         \/ transition # NoTransition /\ Shown(rd[x]).transition.of = transition.of
                                      /\ Shown(rd[x]).transition.epoch = transition.epoch
<1>1. transition \in Transitions /\ active \in ShipNumbers /\ rd[x] \in Flights BY ShownTyped DEF Typed, HeldOK
<1>2. \/ Shown(rd[x]).transition = transition
      \/ Shown(rd[x]).transition = NoTransition
      \/ Shown(rd[x]).transition = [transition EXCEPT !.phase = "ready"] /\ transition # NoTransition
  BY <1>1, ShownTypes
<1>3. transition # NoTransition => /\ [transition EXCEPT !.phase = "ready"].of = transition.of
                                   /\ [transition EXCEPT !.phase = "ready"].epoch = transition.epoch
  BY <1>1, RowTypes DEF PhasesHeld
<1> QED BY <1>2, <1>3

\* A route leaves a change, or was in none.
LEMMA QuietKeeps ==
  ASSUME Typed, OneChange, NEW r \in Routes, NEW w \in Where \ Changing, pc' = [pc EXCEPT ![r] = w],
         w = "done" \/ pc[r] \in Early,
         \A q \in Routes : q # r /\ pc[q] \in Changing => transition' = transition,
         transition' = NoTransition \/ (transition # NoTransition /\ transition'.of = transition.of)
  PROVE  OneChange'
<1>1. pc \in [Routes -> Where] /\ transition \in Transitions BY Placed
<1>2. pc'[r] = w /\ \A q \in Routes : q # r => pc'[q] = pc[q] BY <1>1
<1>3. Alone'
  <2> SUFFICES ASSUME NEW q \in Routes, pc'[q] \in Changing
               PROVE  /\ transition'.of = q /\ transition'.phase \in {"requested", "accepted", "session-changing"}
                      /\ \A s \in Routes \ {q} : pc'[s] \notin Changing
    BY DEF Alone, At, Changing
  <2>1. q # r /\ pc[q] \in Changing BY <1>2
  <2>2. transition' = transition BY <2>1
  <2>3. transition.of = q /\ transition.phase \in {"requested", "accepted", "session-changing"}
        /\ \A s \in Routes : s # q => pc[s] \notin Changing
    BY <2>1, ChangeUnderWay
  <2> QED BY <1>2, <2>2, <2>3
<1>4. BegunByItsRoute'
  <2> SUFFICES ASSUME transition' # NoTransition PROVE pc'[transition'.of] \in Changing \cup {"done"}
    BY DEF BegunByItsRoute, NoTransition, Changing
  <2>1. transition # NoTransition /\ transition'.of = transition.of OBVIOUS
  <2>2. pc[transition.of] \in Changing \cup {"done"} /\ transition.of \in Routes
    BY <1>1, <2>1, RowTypes DEF OneChange, BegunByItsRoute
  <2>3. CASE transition.of = r
    <3>1. pc[r] \notin Early BY <2>2, <2>3 DEF Changing, Early
    <3> QED BY <1>2, <2>1, <2>3, <3>1
  <2>4. CASE transition.of # r BY <1>2, <2>1, <2>2, <2>4
  <2> QED BY <2>3, <2>4
<1> QED BY <1>3, <1>4 DEF OneChange

\* A route begins a change, or goes on with its own.
LEMMA ChangingKeeps ==
  ASSUME Typed, OneChange, NEW r \in Routes, NEW w \in Changing, pc' = [pc EXCEPT ![r] = w],
         \A q \in Routes : q # r => pc[q] \notin Changing,
         transition'.of = r, transition'.phase \in {"requested", "accepted", "session-changing"}
  PROVE  OneChange'
<1>1. pc \in [Routes -> Where] BY Placed
<1>2. pc'[r] = w /\ \A q \in Routes : q # r => pc'[q] = pc[q] BY <1>1
<1>3. Alone' BY <1>2 DEF Alone, At, Changing
<1>4. BegunByItsRoute' BY <1>2 DEF BegunByItsRoute, Changing
<1> QED BY <1>3, <1>4 DEF OneChange

LEMMA NobodyMoves ==
  ASSUME Typed, OneChange, UNCHANGED pc,
         \A q \in Routes : pc[q] \in Changing => transition' = transition,
         transition' = NoTransition \/ (transition # NoTransition /\ transition'.of = transition.of)
  PROVE  OneChange'
<1>1. transition \in Transitions BY Placed
<1>2. Alone'
  <2> SUFFICES ASSUME NEW q \in Routes, pc[q] \in Changing
               PROVE  /\ transition'.of = q /\ transition'.phase \in {"requested", "accepted", "session-changing"}
                      /\ \A s \in Routes \ {q} : pc[s] \notin Changing
    BY DEF Alone, At, Changing
  <2> QED BY ChangeUnderWay
<1>3. BegunByItsRoute' BY DEF OneChange, BegunByItsRoute, NoTransition, Changing
<1> QED BY <1>2, <1>3 DEF OneChange

\* A change is begun only where none is under way.
LEMMA NoneUnderWay ==
  ASSUME Typed, OneChange, NEW x \in Readers, IsFree(transition) \/ IsFree(Shown(rd[x]).transition)
  PROVE  \A q \in Routes : pc[q] \notin Changing
<1> SUFFICES ASSUME NEW q \in Routes, pc[q] \in Changing PROVE FALSE OBVIOUS
<1>1. ~IsFree(transition) /\ Shown(rd[x]).transition = transition BY ChangeUnderWay, ShownUnderWay
<1> QED BY <1>1

-----------------------------------------------------------------------------
(* The steps of a route, one by one.                                       *)

LEMMA ArrivesAlone == ASSUME Typed, OneChange, NEW r \in Routes, Arrives(r) PROVE OneChange'
<1>1. transition' = transition /\ pc[r] = "idle" BY DEF Arrives, heldVars
<1>2. transition' = NoTransition \/ (transition # NoTransition /\ transition'.of = transition.of) BY <1>1
<1>3. pc' = [pc EXCEPT ![r] = "before"] \/ pc' = [pc EXCEPT ![r] = "done"] BY DEF Arrives, Answers
<1>4. "before" \in Where \ Changing /\ "done" \in Where \ Changing /\ pc[r] \in Early
  BY <1>1 DEF Where, Changing, Early
<1> QED BY <1>1, <1>2, <1>3, <1>4, QuietKeeps

LEMMA BeforeReadAlone == ASSUME Typed, OneChange, NEW r \in Routes, BeforeRead(r) PROVE OneChange'
<1> DEFINE row == Shown(rd[r]).transition
<1>1. /\ pc[r] = "before"
      /\ \/ Acquire(r, row)
         \/ Answers(r, "refused") /\ transition' = row
  BY DEF BeforeRead
<1>2. r \in Readers BY ReadersTyped
<1>3. row = NoTransition \/ (transition # NoTransition /\ row.of = transition.of) BY <1>2, ShownOf
<1>4. \A q \in Routes : pc[q] \in Changing => row = transition BY <1>2, ShownUnderWay
<1>5. pc[r] \in Early BY <1>1 DEF Early
<1>6. "done" \in Where \ Changing /\ "sleeping" \in Where \ Changing /\ "writing" \in Changing
  BY DEF Where, Changing
<1>7. IsFree(row) => \A q \in Routes : pc[q] \notin Changing BY <1>2, NoneUnderWay
<1> HIDE DEF row
<1>8. CASE Answers(r, "refused") /\ transition' = row
  <2>1. pc' = [pc EXCEPT ![r] = "done"] BY <1>8 DEF Answers
  <2> QED BY <1>3, <1>4, <1>5, <1>6, <1>8, <2>1, QuietKeeps
<1>9. CASE pc' = [pc EXCEPT ![r] = "sleeping"] /\ transition' = row
  BY <1>3, <1>4, <1>5, <1>6, <1>9, QuietKeeps
<1>10. CASE IsFree(row) /\ Begin(r)
  <2>1. /\ pc' = [pc EXCEPT ![r] = "writing"] /\ transition'.of = r /\ transition'.phase = "requested"
    BY <1>10 DEF Begin
  <2> QED BY <1>6, <1>7, <1>10, <2>1, ChangingKeeps
<1> QED BY <1>1, <1>8, <1>9, <1>10 DEF Acquire

\* An error settles no change that another command waits for, unless it crosses.
LEMMA BeforeFailsAlone ==
  ASSUME Typed, OneChange, NEW r \in Routes, BeforeFails(r), ~crossed' PROVE OneChange'
<1>1. /\ pc[r] = "before" /\ pc' = [pc EXCEPT ![r] = "done"] /\ transition' = Caught(r)
      /\ \A q \in Routes \ {r} : transition.of = q /\ pc[q] \in Changing => Caught(r) = transition
  BY DEF BeforeFails, Catch, Release, Answers
<1>2. ASSUME NEW q \in Routes, q # r, pc[q] \in Changing PROVE transition' = transition
  <2>1. transition.of = q BY <1>2, ChangeUnderWay
  <2> QED BY <1>1, <1>2, <2>1
<1>3. transition' = NoTransition \/ (transition # NoTransition /\ transition'.of = transition.of)
  BY <1>1, CaughtTyped
<1>4. "done" \in Where \ Changing BY DEF Where, Changing
<1> QED BY <1>1, <1>2, <1>3, <1>4, QuietKeeps

LEMMA WakesAlone == ASSUME Typed, OneChange, NEW r \in Routes, Wakes(r) PROVE OneChange'
<1>1. /\ pc[r] = "sleeping"
      /\ \/ IsFree(transition) /\ Begin(r)
         \/ Answers(r, "refused") /\ transition' = transition
  BY DEF Wakes
<1>2. "done" \in Where \ Changing /\ "writing" \in Changing /\ r \in Readers
  BY ReadersTyped DEF Where, Changing
<1>3. CASE IsFree(transition) /\ Begin(r)
  <2>1. /\ pc' = [pc EXCEPT ![r] = "writing"] /\ transition'.of = r /\ transition'.phase = "requested"
    BY <1>3 DEF Begin
  <2>2. \A q \in Routes : pc[q] \notin Changing BY <1>2, <1>3, NoneUnderWay
  <2> QED BY <1>2, <2>1, <2>2, ChangingKeeps
<1>4. CASE Answers(r, "refused") /\ transition' = transition
  <2>1. pc' = [pc EXCEPT ![r] = "done"] BY <1>4 DEF Answers
  <2>2. transition' = NoTransition \/ (transition # NoTransition /\ transition'.of = transition.of) BY <1>4
  <2> QED BY <1>2, <1>4, <2>1, <2>2, QuietKeeps
<1> QED BY <1>1, <1>3, <1>4

LEMMA AnsweredAlone == ASSUME Typed, OneChange, NEW r \in Routes, Answered(r) PROVE OneChange'
<1>1. pc[r] = "writing" /\ pc[r] \in Changing BY DEF Answered, Changing
<1>2. /\ transition.of = r /\ transition # NoTransition /\ ~IsFree(transition)
      /\ \A q \in Routes : q # r => pc[q] \notin Changing
  BY <1>1, ChangeUnderWay
<1>3. transition' = [transition EXCEPT !.phase = "accepted"] /\ pc' = [pc EXCEPT ![r] = "waiting"]
  BY <1>2 DEF Answered
<1>4. transition'.of = r /\ transition'.phase = "accepted" BY <1>2, <1>3, Placed, RowTypes DEF PhasesHeld
<1>5. "waiting" \in Changing BY DEF Changing
<1> QED BY <1>2, <1>3, <1>4, <1>5, ChangingKeeps

\* A route that leaves its own change leaves nobody's.
LEMMA LeavesOwn ==
  ASSUME Typed, OneChange, NEW r \in Routes, pc[r] \in Changing, pc' = [pc EXCEPT ![r] = "done"],
         transition' = NoTransition \/ (transition # NoTransition /\ transition'.of = transition.of)
  PROVE  OneChange'
<1>1. "done" \in Where \ Changing BY DEF Where, Changing
<1>2. \A q \in Routes : q # r => pc[q] \notin Changing BY ChangeUnderWay
<1> QED BY <1>1, <1>2, QuietKeeps

LEMMA CatchAlone ==
  ASSUME Typed, OneChange, NEW r \in Routes, pc[r] \in Changing, Catch(r) PROVE OneChange'
<1>1. pc' = [pc EXCEPT ![r] = "done"] /\ transition' = Caught(r) BY DEF Catch, Release, Answers
<1> QED BY <1>1, CaughtTyped, LeavesOwn

LEMMA JudgeAlone ==
  ASSUME Typed, OneChange, NEW r \in Routes, pc[r] = "waiting", NEW shown, NEW flight,
         shown.transition = transition, Judge(r, shown, flight)
  PROVE  OneChange'
<1>1. pc[r] \in Changing /\ "poll" \in Changing BY DEF Changing
<1>2. transition.of = r /\ transition # NoTransition /\ \A q \in Routes : q # r => pc[q] \notin Changing
  BY <1>1, ChangeUnderWay
<1>3. /\ [transition EXCEPT !.phase = "ready"].of = r /\ [transition EXCEPT !.phase = "session-changing"].of = r
      /\ [transition EXCEPT !.phase = "session-changing"].phase = "session-changing"
  BY <1>2, Placed, RowTypes DEF PhasesHeld
<1>4. \/ transition' = [transition EXCEPT !.phase = "ready"] /\ pc' = [pc EXCEPT ![r] = "done"]
      \/ transition' = [transition EXCEPT !.phase = "session-changing"] /\ pc' = [pc EXCEPT ![r] = "poll"]
  BY <1>2 DEF Judge, Answers
<1>5. CASE transition' = [transition EXCEPT !.phase = "ready"] /\ pc' = [pc EXCEPT ![r] = "done"]
  BY <1>1, <1>2, <1>3, <1>5, LeavesOwn
<1>6. CASE transition' = [transition EXCEPT !.phase = "session-changing"] /\ pc' = [pc EXCEPT ![r] = "poll"]
  BY <1>1, <1>2, <1>3, <1>6, ChangingKeeps
<1> QED BY <1>4, <1>5, <1>6

LEMMA FlightReadAlone == ASSUME Typed, OneChange, NEW r \in Routes, FlightRead(r) PROVE OneChange'
<1>1. pc[r] = "waiting" /\ pc[r] \in Changing /\ r \in Readers BY ReadersTyped DEF FlightRead, Changing
<1>2. Shown(rd[r]).transition = transition BY <1>1, ShownUnderWay
<1>3. (transition' = transition /\ pc' = pc) \/ Judge(r, Shown(rd[r]), rd[r]) BY <1>2 DEF FlightRead
<1>4. CASE transition' = transition /\ pc' = pc BY <1>4, NobodyMoves
<1>5. CASE Judge(r, Shown(rd[r]), rd[r]) BY <1>1, <1>2, <1>5, JudgeAlone
<1> QED BY <1>3, <1>4, <1>5

LEMMA WaitAlone ==
  ASSUME Typed, OneChange, NEW r \in Routes, SpaceRead(r) \/ WaitReadFails(r) \/ Polls(r) PROVE OneChange'
<1>1. pc[r] \in {"waiting", "poll"} /\ pc[r] \in Changing BY DEF SpaceRead, WaitReadFails, Polls, Changing
<1>2. /\ transition.of = r /\ transition.phase \in {"requested", "accepted", "session-changing"}
      /\ transition # NoTransition /\ \A q \in Routes : q # r => pc[q] \notin Changing
  BY <1>1, ChangeUnderWay
<1>3. CASE SpaceRead(r)
  <2> DEFINE shown == [transition |-> transition, active |-> active]
  <2>1. shown.transition = transition /\ pc[r] = "waiting" /\ Judge(r, shown, rd[r]) BY <1>3 DEF SpaceRead
  <2> HIDE DEF shown
  <2> QED BY <2>1, JudgeAlone
<1>4. CASE WaitReadFails(r) \/ Polls(r)
  <2>1. transition' = transition BY <1>4 DEF WaitReadFails, Polls, heldVars
  <2>2. \E w \in {"waiting", "poll", "done"} : pc' = [pc EXCEPT ![r] = w]
    BY <1>4 DEF WaitReadFails, Polls, Answers
  <2>3. "waiting" \in Changing /\ "poll" \in Changing BY DEF Changing
  <2>4. CASE pc' = [pc EXCEPT ![r] = "done"] BY <1>1, <1>2, <2>1, <2>4, LeavesOwn
  <2>5. CASE pc' = [pc EXCEPT ![r] = "waiting"] \/ pc' = [pc EXCEPT ![r] = "poll"]
    BY <1>2, <2>1, <2>3, <2>5, ChangingKeeps
  <2> QED BY <2>2, <2>4, <2>5
<1> QED BY <1>3, <1>4

LEMMA DeadlineAlone == ASSUME Typed, OneChange, NEW r \in Routes, Deadline(r) PROVE OneChange'
<1>1. pc[r] \in Changing /\ pc' = [pc EXCEPT ![r] = "done"] BY DEF Deadline, Changing, Answers
<1>2. transition.of = r /\ transition # NoTransition BY <1>1, ChangeUnderWay
<1>3. transition' = NoTransition \/ transition' = [transition EXCEPT !.phase = "failed"]
  BY <1>2 DEF Deadline, Release
<1>4. [transition EXCEPT !.phase = "failed"].of = transition.of BY <1>2, Placed, RowTypes DEF PhasesHeld
<1> QED BY <1>1, <1>2, <1>3, <1>4, LeavesOwn

LEMMA PollReadsAlone == ASSUME Typed, OneChange, NEW p \in Pollers, PollReads(p) PROVE OneChange'
<1>1. p \in Readers /\ transition' = Shown(rd[p]).transition /\ pc' = pc
  BY ReadersTyped DEF PollReads, routeVars
<1>2. \A q \in Routes : pc[q] \in Changing => transition' = transition BY <1>1, ShownUnderWay
<1>3. transition' = NoTransition \/ (transition # NoTransition /\ transition'.of = transition.of)
  BY <1>1, ShownOf
<1> QED BY <1>1, <1>2, <1>3, NobodyMoves

LEMMA InitAlone == Init => OneChange
BY DEF Init, OneChange, Alone, BegunByItsRoute, At, Changing

\* No step undoes a crossing.
LEMMA CrossedStays == [Next]_vars /\ crossed => crossed'
<1>1. ASSUME crossed, NEW r \in Routes, Catch(r) PROVE crossed' BY <1>1 DEF Catch
<1> QED BY <1>1, PlanStep

LEMMA NextAlone == Typed /\ (~crossed => OneChange) /\ [Next]_vars => (~crossed => OneChange)'
<1> SUFFICES ASSUME Typed, OneChange, [Next]_vars, ~crossed' PROVE OneChange' BY CrossedStays
<1>1. ASSUME NEW r \in Routes, RouteSteps(r) PROVE OneChange'
  <2>1. CASE Refused(r) \/ CallTimesOut(r)
    <3>1. pc[r] \in Changing /\ Catch(r) BY <2>1 DEF Refused, CallTimesOut, Changing
    <3> QED BY <3>1, CatchAlone
  <2> QED BY <1>1, <2>1, BeforeReadAlone, BeforeFailsAlone, WakesAlone, AnsweredAlone, FlightReadAlone,
             WaitAlone, DeadlineAlone
          DEF RouteSteps
<1>2. ASSUME NEW r \in Routes, CarriesOut(r) \/ Declines(r) PROVE OneChange'
  <2>1. transition' = transition /\ pc' = pc BY <1>2 DEF CarriesOut, Declines, heldVars, routeVars
  <2> QED BY <2>1, NobodyMoves
<1>3. ASSUME NEW p \in Pollers, PollAsks(p) PROVE OneChange'
  <2>1. transition' = transition /\ pc' = pc BY <1>3 DEF PollAsks, heldVars, routeVars
  <2> QED BY <2>1, NobodyMoves
<1>4. ASSUME NEW x \in Readers, Sees(x) PROVE OneChange'
  <2>1. transition' = transition /\ pc' = pc BY <1>4 DEF Sees, heldVars, routeVars
  <2> QED BY <2>1, NobodyMoves
<1>5. CASE CooldownEnds \/ PilotArrives \/ ShipLost \/ UNCHANGED vars
  <2>1. transition' = transition /\ pc' = pc
    BY <1>5 DEF CooldownEnds, PilotArrives, ShipLost, vars, heldVars, routeVars
  <2> QED BY <2>1, NobodyMoves
<1> QED BY <1>1, <1>2, <1>3, <1>4, <1>5, ArrivesAlone, PollReadsAlone DEF Next

LEMMA AlwaysAlone == Spec => [](Typed /\ (~crossed => OneChange))
<1>1. Init => Typed /\ (~crossed => OneChange) BY InitTyped, InitAlone
<1>2. Typed /\ (~crossed => OneChange) /\ [Next]_vars => (Typed /\ (~crossed => OneChange))'
  BY NextTyped, NextAlone
<1> QED BY <1>1, <1>2, PTL DEF Spec

\* The change that is asked for or waited for is the record's, from the claim to the
\* verdict, for any commands, of one kind or of several, and reads that fail or not, up to
\* the first error that settles a change another command waits for.
THEOREM OneChangeHeld == Spec => []OneChangeAtATime
<1>1. (~crossed => OneChange) => OneChangeAtATime BY DEF OneChange, Alone, OneChangeAtATime
<1> QED BY <1>1, AlwaysAlone, PTL

-----------------------------------------------------------------------------
(* What any step does to the change, the reads and the ships.              *)

\* A read that has seen the pilot.
Saw == {"seen", "space", "both"}

\* The change stays, is let go, or is begun anew.
ChangeStep ==
  \/ /\ transition' = NoTransition \/ (transition # NoTransition /\ transition'.of = transition.of
                                                                 /\ transition'.epoch = transition.epoch)
     /\ epoch' \in {epoch, epoch + 1}
  \/ /\ transition'.epoch = epoch + 1 /\ epoch' = epoch + 1
     /\ pc'[transition'.of] = "writing"

\* A read is asked, seen, or done with.
ReadStep(x) ==
  \/ rd'[x].st = "none" /\ rd'[x].ship = 0 /\ rd'[x].epoch = 0
  \/ rd'[x].st = "asked" /\ rd'[x].ship = 0 /\ rd'[x].epoch = epoch
  \/ rd'[x].ship = rd[x].ship /\ rd'[x].epoch = rd[x].epoch /\ (rd'[x].st \in Saw => rd[x].st \in Saw)
  \/ rd'[x].ship = ship /\ rd'[x].epoch = rd[x].epoch

LEMMA Kept ==
  ASSUME transition' = transition, epoch' = epoch PROVE ChangeStep
BY DEF ChangeStep

LEMMA PhaseStep ==
  ASSUME Typed, transition # NoTransition, NEW p \in PhasesHeld, transition' = [transition EXCEPT !.phase = p],
         epoch' = epoch
  PROVE  ChangeStep
BY Placed, RowTypes DEF ChangeStep

LEMMA BeginsAnew == ASSUME Typed, NEW r \in Routes, Begin(r) PROVE ChangeStep
<1>1. transition'.epoch = epoch + 1 /\ transition'.of = r /\ epoch' = epoch + 1 BY DEF Begin
<1>2. pc'[r] = "writing" BY Placed DEF Begin
<1> QED BY <1>1, <1>2 DEF ChangeStep

LEMMA CatchStep == ASSUME Typed, NEW r \in Routes, Catch(r), epoch' = epoch PROVE ChangeStep
<1>1. transition' = Caught(r) BY DEF Catch, Release
<1>2. transition' = NoTransition
      \/ (transition # NoTransition /\ transition'.of = transition.of /\ transition'.epoch = transition.epoch)
  BY <1>1, CaughtTyped
<1> QED BY <1>2 DEF ChangeStep

LEMMA JudgeStep ==
  ASSUME Typed, NEW r \in Routes, NEW row \in Transitions, NEW flight, NEW shown, shown.transition = row,
         Judge(r, shown, flight), epoch' = epoch,
         row = NoTransition \/ (transition # NoTransition /\ row.of = transition.of /\ row.epoch = transition.epoch)
  PROVE  ChangeStep
<1>1. row # NoTransition => /\ [row EXCEPT !.phase = "ready"].of = row.of
                            /\ [row EXCEPT !.phase = "ready"].epoch = row.epoch
                            /\ [row EXCEPT !.phase = "session-changing"].of = row.of
                            /\ [row EXCEPT !.phase = "session-changing"].epoch = row.epoch
  BY RowTypes DEF PhasesHeld
<1>2. \/ row = NoTransition /\ transition' = row
      \/ row # NoTransition /\ (\/ transition' = [row EXCEPT !.phase = "ready"]
                                \/ transition' = [row EXCEPT !.phase = "session-changing"])
  BY DEF Judge
<1> QED BY <1>1, <1>2 DEF ChangeStep

LEMMA RouteChangeStep == ASSUME Typed, NEW r \in Routes, RouteSteps(r) PROVE ChangeStep
<1>1. r \in Readers BY ReadersTyped
<1> DEFINE row == Shown(rd[r]).transition
<1>2. row \in Transitions
      /\ (row = NoTransition
          \/ (transition # NoTransition /\ row.of = transition.of /\ row.epoch = transition.epoch))
  BY <1>1, ShownOf, ShownTyped
<1>3. CASE BeforeRead(r)
  <2>1. (transition' = row /\ epoch' = epoch) \/ Begin(r) BY <1>3 DEF BeforeRead, Acquire
  <2> HIDE DEF row
  <2>2. CASE transition' = row /\ epoch' = epoch BY <1>2, <2>2 DEF ChangeStep
  <2> QED BY <2>1, <2>2, BeginsAnew
<1>4. CASE BeforeFails(r) \/ Refused(r) \/ CallTimesOut(r)
  <2>1. Catch(r) /\ epoch' = epoch BY <1>4 DEF BeforeFails, Refused, CallTimesOut
  <2> QED BY <2>1, CatchStep
<1>5. CASE Wakes(r)
  <2>1. Begin(r) \/ (transition' = transition /\ epoch' = epoch) BY <1>5 DEF Wakes
  <2> QED BY <2>1, BeginsAnew, Kept
<1>6. CASE Answered(r)
  <2>1. epoch' = epoch
        /\ transition' = IF IsFree(transition) THEN transition ELSE [transition EXCEPT !.phase = "accepted"]
    BY <1>6 DEF Answered
  <2>2. ~IsFree(transition) => transition # NoTransition BY DEF IsFree, NoTransition
  <2> QED BY <2>1, <2>2, Kept, PhaseStep DEF PhasesHeld
<1>7. CASE FlightRead(r)
  <2> DEFINE shown == Shown(rd[r])
  <2>1. epoch' = epoch /\ (transition' = row \/ Judge(r, shown, rd[r])) BY <1>7 DEF FlightRead
  <2>2. shown.transition = row OBVIOUS
  <2> HIDE DEF row, shown
  <2>3. CASE transition' = row BY <1>2, <2>1, <2>3 DEF ChangeStep
  <2>4. CASE Judge(r, shown, rd[r]) BY <1>2, <2>1, <2>2, <2>4, JudgeStep
  <2> QED BY <2>1, <2>3, <2>4
<1>8. CASE SpaceRead(r)
  <2> DEFINE shown == [transition |-> transition, active |-> active]
  <2>1. epoch' = epoch /\ Judge(r, shown, rd[r]) /\ shown.transition = transition BY <1>8 DEF SpaceRead
  <2>2. transition \in Transitions BY Placed
  <2> HIDE DEF shown
  <2> QED BY <2>1, <2>2, JudgeStep
<1>9. CASE WaitReadFails(r) \/ Polls(r)
  <2>1. transition' = transition /\ epoch' = epoch BY <1>9 DEF WaitReadFails, Polls, heldVars
  <2> QED BY <2>1, Kept
<1>10. CASE Deadline(r)
  <2>1. epoch' = epoch
        /\ (\/ transition' = NoTransition
            \/ transition # NoTransition /\ transition' = [transition EXCEPT !.phase = "failed"]
            \/ transition' = transition)
    BY <1>10 DEF Deadline, Release
  <2>2. transition' = NoTransition => ChangeStep BY <2>1 DEF ChangeStep
  <2> QED BY <2>1, <2>2, Kept, PhaseStep DEF PhasesHeld
<1> QED BY <1>3, <1>4, <1>5, <1>6, <1>7, <1>8, <1>9, <1>10 DEF RouteSteps

LEMMA ChangeSteps == ASSUME Typed, [Next]_vars PROVE ChangeStep
<1>1. ASSUME NEW r \in Routes, Arrives(r) \/ CarriesOut(r) \/ Declines(r) PROVE ChangeStep
  <2>1. transition' = transition /\ epoch' = epoch BY <1>1 DEF Arrives, CarriesOut, Declines, heldVars
  <2> QED BY <2>1, Kept
<1>2. ASSUME NEW p \in Pollers, PollAsks(p) PROVE ChangeStep
  <2>1. transition' = transition /\ epoch' = epoch BY <1>2 DEF PollAsks, heldVars
  <2> QED BY <2>1, Kept
<1>3. ASSUME NEW p \in Pollers, PollReads(p) PROVE ChangeStep
  <2>1. p \in Readers BY ReadersTyped
  <2>2. transition' = Shown(rd[p]).transition /\ epoch' \in {epoch, epoch + 1} BY <1>3 DEF PollReads
  <2> QED BY <2>1, <2>2, ShownOf DEF ChangeStep
<1>4. ASSUME NEW x \in Readers, Sees(x) PROVE ChangeStep
  <2>1. transition' = transition /\ epoch' = epoch BY <1>4 DEF Sees, heldVars
  <2> QED BY <2>1, Kept
<1>5. CASE CooldownEnds \/ PilotArrives \/ ShipLost \/ UNCHANGED vars
  <2>1. transition' = transition /\ epoch' = epoch
    BY <1>5 DEF CooldownEnds, PilotArrives, ShipLost, vars, heldVars
  <2> QED BY <2>1, Kept
<1> QED BY <1>1, <1>2, <1>3, <1>4, <1>5, RouteChangeStep DEF Next

\* One read goes on, or none does.
LEMMA ReadsKept == ASSUME rd' = rd PROVE \A x \in Readers : ReadStep(x)
BY DEF ReadStep

LEMMA ReadsDone ==
  ASSUME Typed, NEW y \in Readers, rd' = [rd EXCEPT ![y] = NoRead] \/ rd' = [rd EXCEPT ![y] = Asked]
  PROVE  \A x \in Readers : ReadStep(x)
<1> TAKE x \in Readers
<1>1. rd \in [Readers -> Flights] BY DEF Typed
<1>2. NoRead.st = "none" /\ NoRead.ship = 0 /\ NoRead.epoch = 0 BY DEF NoRead
<1>3. Asked.st = "asked" /\ Asked.ship = 0 /\ Asked.epoch = epoch BY ReadersTyped
<1>4. rd'[x] = rd[x] \/ rd'[x] = NoRead \/ rd'[x] = Asked BY <1>1
<1> QED BY <1>2, <1>3, <1>4 DEF ReadStep

LEMMA ReadSteps == ASSUME Typed, [Next]_vars PROVE \A x \in Readers : ReadStep(x)
<1>1. ASSUME NEW r \in Routes, Arrives(r) \/ RouteSteps(r) PROVE \A x \in Readers : ReadStep(x)
  <2>1. r \in Readers BY ReadersTyped
  <2>2. \/ rd' = rd \/ rd' = [rd EXCEPT ![r] = NoRead] \/ rd' = [rd EXCEPT ![r] = Asked]
        \/ rd[r].st = "seen" /\ rd' = [rd EXCEPT ![r].st = "space"]
    <3>1. CASE Arrives(r) BY <3>1 DEF Arrives
    <3>2. CASE BeforeRead(r) BY <3>2 DEF BeforeRead
    <3>3. CASE BeforeFails(r) BY <3>3 DEF BeforeFails
    <3>4. CASE Wakes(r) BY <3>4 DEF Wakes
    <3>5. CASE Answered(r) BY <3>5 DEF Answered
    <3>6. CASE Refused(r) BY <3>6 DEF Refused
    <3>7. CASE CallTimesOut(r) BY <3>7 DEF CallTimesOut
    <3>8. CASE FlightRead(r) BY <3>8 DEF FlightRead, Judge
    <3>9. CASE SpaceRead(r) BY <3>9 DEF SpaceRead, Judge
    <3>10. CASE WaitReadFails(r) BY <3>10 DEF WaitReadFails
    <3>11. CASE Polls(r) BY <3>11 DEF Polls
    <3>12. CASE Deadline(r) BY <3>12 DEF Deadline
    <3> QED BY <1>1, <3>1, <3>2, <3>3, <3>4, <3>5, <3>6, <3>7, <3>8, <3>9, <3>10, <3>11, <3>12 DEF RouteSteps
  <2>3. CASE rd[r].st = "seen" /\ rd' = [rd EXCEPT ![r].st = "space"]
    <3> TAKE x \in Readers
    <3>1. rd \in [Readers -> Flights] BY DEF Typed
    <3>2. rd'[x].ship = rd[x].ship /\ rd'[x].epoch = rd[x].epoch BY <2>1, <2>3, <3>1 DEF Flights
    <3>3. rd'[x].st = rd[x].st \/ rd[x].st = "seen" BY <2>1, <2>3, <3>1
    <3> QED BY <3>2, <3>3 DEF ReadStep, Saw
  <2> QED BY <2>1, <2>2, <2>3, ReadsKept, ReadsDone
<1>2. ASSUME NEW p \in Pollers, PollAsks(p) \/ PollReads(p) PROVE \A x \in Readers : ReadStep(x)
  <2>1. p \in Readers BY ReadersTyped
  <2>2. rd' = [rd EXCEPT ![p] = NoRead] \/ rd' = [rd EXCEPT ![p] = Asked] BY <1>2 DEF PollAsks, PollReads
  <2> QED BY <2>1, <2>2, ReadsDone
<1>3. ASSUME NEW y \in Readers, Sees(y) PROVE \A x \in Readers : ReadStep(x)
  <2> TAKE x \in Readers
  <2>1. rd \in [Readers -> Flights] BY DEF Typed
  <2>2. CASE rd' = [rd EXCEPT ![y].st = "seen", ![y].place = place, ![y].ship = ship]
    <3>1. CASE x = y
      <4>1. rd'[x].ship = ship /\ rd'[x].epoch = rd[x].epoch BY <2>1, <2>2, <3>1 DEF Flights
      <4> QED BY <4>1 DEF ReadStep
    <3>2. CASE x # y
      <4>1. rd'[x] = rd[x] BY <2>1, <2>2, <3>2
      <4> QED BY <4>1 DEF ReadStep
    <3> QED BY <3>1, <3>2
  <2>3. CASE /\ rd[y].st = "space"
             /\ rd' = [rd EXCEPT ![y].st = "both", ![y].ego = IF place \in InSpace THEN ship ELSE -1]
    <3>1. CASE x = y
      <4>1. rd'[x].ship = rd[x].ship /\ rd'[x].epoch = rd[x].epoch BY <2>1, <2>3, <3>1 DEF Flights
      <4> QED BY <2>3, <3>1, <4>1 DEF ReadStep, Saw
    <3>2. CASE x # y
      <4>1. rd'[x] = rd[x] BY <2>1, <2>3, <3>2
      <4> QED BY <4>1 DEF ReadStep
    <3> QED BY <3>1, <3>2
  <2> QED BY <1>3, <2>2, <2>3 DEF Sees
<1>4. CASE \/ \E r \in Routes : CarriesOut(r) \/ Declines(r)
           \/ CooldownEnds \/ PilotArrives \/ ShipLost \/ UNCHANGED vars
  <2>1. rd' = rd BY <1>4 DEF CarriesOut, Declines, CooldownEnds, PilotArrives, ShipLost, vars
  <2> QED BY <2>1, ReadsKept
<1> QED BY <1>1, <1>2, <1>3, <1>4 DEF Next

\* What a route expects is what its first read saw.
ExpectedStep(r) == expected'[r] = expected[r] \/ (pc[r] = "before" /\ expected'[r].ship = rd[r].ship)

LEMMA ExpectedSteps == ASSUME Typed, [Next]_vars PROVE \A r \in Routes : ExpectedStep(r)
<1>1. ASSUME expected' = expected PROVE \A r \in Routes : ExpectedStep(r) BY <1>1 DEF ExpectedStep
<1>2. ASSUME NEW q \in Routes, BeforeRead(q) PROVE \A r \in Routes : ExpectedStep(r)
  <2> TAKE r \in Routes
  <2>1. pc[q] = "before"
        /\ (expected' = expected
            \/ expected' = [expected EXCEPT ![q] = [from |-> rd[q].place, ship |-> rd[q].ship]])
    BY <1>2 DEF BeforeRead
  <2>2. expected \in [Routes -> [from : Places \cup {"nowhere"}, ship : ShipNumbers]] BY DEF Typed, RoutesOK
  <2>3. CASE expected' = [expected EXCEPT ![q] = [from |-> rd[q].place, ship |-> rd[q].ship]]
    <3>1. CASE r = q BY <2>1, <2>2, <2>3, <3>1 DEF ExpectedStep
    <3>2. CASE r # q BY <2>2, <2>3, <3>2 DEF ExpectedStep
    <3> QED BY <3>1, <3>2
  <2> QED BY <2>1, <2>3, <1>1
<1>3. ASSUME NEW r \in Routes, Arrives(r) \/ RouteSteps(r) \/ CarriesOut(r) \/ Declines(r)
      PROVE  expected' = expected \/ BeforeRead(r)
  <2>1. CASE Arrives(r) \/ CarriesOut(r) \/ Declines(r) BY <2>1 DEF Arrives, CarriesOut, Declines, routeVars
  <2>2. CASE BeforeFails(r) \/ Wakes(r) \/ Answered(r) \/ Refused(r) \/ CallTimesOut(r)
    BY <2>2 DEF BeforeFails, Wakes, Answered, Refused, CallTimesOut
  <2>3. CASE FlightRead(r) \/ SpaceRead(r) \/ WaitReadFails(r) \/ Polls(r) \/ Deadline(r)
    BY <2>3 DEF FlightRead, SpaceRead, WaitReadFails, Polls, Deadline
  <2> QED BY <1>3, <2>1, <2>2, <2>3 DEF RouteSteps
<1>4. ASSUME NEW p \in Pollers, PollAsks(p) \/ PollReads(p) PROVE expected' = expected
  BY <1>4 DEF PollAsks, PollReads, routeVars
<1>5. ASSUME NEW x \in Readers, Sees(x) PROVE expected' = expected BY <1>5 DEF Sees, routeVars
<1>6. CASE CooldownEnds \/ PilotArrives \/ ShipLost \/ UNCHANGED vars
  <2>1. expected' = expected BY <1>6 DEF CooldownEnds, PilotArrives, ShipLost, vars, routeVars
  <2> QED BY <1>1, <2>1
<1> QED BY <1>1, <1>2, <1>3, <1>4, <1>5, <1>6 DEF Next

\* No command comes up again.
LEMMA ToComeStays ==
  ASSUME \A q \in Routes : (pc'[q] \in Early => pc[q] \in Early) /\ (q \in afloat' => q \in afloat \/ pc[q] \in Early)
  PROVE  ToCome' \subseteq ToCome
BY DEF ToCome, Early

LEMMA ToComeMoves ==
  ASSUME Typed, NEW r \in Routes, NEW w, pc' = [pc EXCEPT ![r] = w], w \notin Early \/ pc[r] \in Early,
         afloat' \subseteq afloat \/ (pc[r] \in Early /\ afloat' = afloat \cup {r})
  PROVE  ToCome' \subseteq ToCome
<1>1. pc \in [Routes -> Where] BY Placed
<1>2. \A q \in Routes : pc'[q] = IF q = r THEN w ELSE pc[q] BY <1>1
<1>3. \A q \in Routes : (pc'[q] \in Early => pc[q] \in Early) /\ (q \in afloat' => q \in afloat \/ pc[q] \in Early)
  BY <1>2
<1> QED BY <1>3, ToComeStays

LEMMA ToComeSteps == ASSUME Typed, [Next]_vars PROVE ToCome' \subseteq ToCome
<1>1. ASSUME UNCHANGED pc, afloat' \subseteq afloat PROVE ToCome' \subseteq ToCome BY <1>1, ToComeStays
<1>2. ASSUME NEW r \in Routes, RouteSteps(r) \/ Arrives(r) PROVE ToCome' \subseteq ToCome
  <2>1. "done" \notin Early /\ "writing" \notin Early /\ "waiting" \notin Early /\ "poll" \notin Early
        /\ "idle" \in Early /\ "before" \in Early /\ "sleeping" \in Early
    BY DEF Early
  <2>2. CASE Arrives(r)
    <3>1. /\ pc[r] \in Early /\ afloat' = afloat /\ \E w : pc' = [pc EXCEPT ![r] = w]
      BY <2>1, <2>2 DEF Arrives, Answers, gameVars
    <3> QED BY <3>1, ToComeMoves
  <2>3. CASE BeforeRead(r)
    <3>1. /\ pc[r] \in Early /\ (afloat' = afloat \/ afloat' = afloat \cup {r}) /\ \E w : pc' = [pc EXCEPT ![r] = w]
      BY <2>1, <2>3 DEF BeforeRead, Acquire, Begin, Answers
    <3> QED BY <3>1, ToComeMoves
  <2>4. CASE Wakes(r)
    <3>1. /\ pc[r] \in Early /\ (afloat' = afloat \/ afloat' = afloat \cup {r}) /\ \E w : pc' = [pc EXCEPT ![r] = w]
      BY <2>1, <2>4 DEF Wakes, Begin, Answers
    <3> QED BY <3>1, ToComeMoves
  <2>5. CASE BeforeFails(r) \/ Refused(r) \/ CallTimesOut(r)
    <3>1. afloat' \subseteq afloat /\ pc' = [pc EXCEPT ![r] = "done"]
      BY <2>5 DEF BeforeFails, Refused, CallTimesOut, Catch, Answers, gameVars
    <3> QED BY <2>1, <3>1, ToComeMoves
  <2>6. CASE Answered(r)
    <3>1. afloat' = afloat /\ (pc' = [pc EXCEPT ![r] = "done"] \/ pc' = [pc EXCEPT ![r] = "waiting"])
      BY <2>6 DEF Answered, Answers, gameVars
    <3> QED BY <2>1, <3>1, ToComeMoves
  <2>7. CASE FlightRead(r)
    <3>1. afloat' = afloat /\ (pc' = pc \/ pc' = [pc EXCEPT ![r] = "done"] \/ pc' = [pc EXCEPT ![r] = "poll"])
      BY <2>7 DEF FlightRead, Judge, Answers, gameVars
    <3> QED BY <1>1, <2>1, <3>1, ToComeMoves
  <2>8. CASE SpaceRead(r)
    <3>1. afloat' = afloat /\ (pc' = [pc EXCEPT ![r] = "done"] \/ pc' = [pc EXCEPT ![r] = "poll"])
      BY <2>8 DEF SpaceRead, Judge, Answers, gameVars
    <3> QED BY <2>1, <3>1, ToComeMoves
  <2>9. CASE WaitReadFails(r) \/ Polls(r) \/ Deadline(r)
    <3>1. afloat' = afloat /\ \E w \in {"poll", "waiting", "done"} : pc' = [pc EXCEPT ![r] = w]
      BY <2>9 DEF WaitReadFails, Polls, Deadline, Answers, gameVars
    <3> QED BY <2>1, <3>1, ToComeMoves
  <2> QED BY <1>2, <2>2, <2>3, <2>4, <2>5, <2>6, <2>7, <2>8, <2>9 DEF RouteSteps
<1>3. ASSUME NEW r \in Routes, CarriesOut(r) \/ Declines(r) PROVE UNCHANGED pc /\ afloat' \subseteq afloat
  BY <1>3 DEF CarriesOut, Declines, routeVars
<1>4. ASSUME NEW p \in Pollers, PollAsks(p) \/ PollReads(p) PROVE UNCHANGED pc /\ afloat' \subseteq afloat
  BY <1>4 DEF PollAsks, PollReads, routeVars, gameVars
<1>5. ASSUME NEW x \in Readers, Sees(x) PROVE UNCHANGED pc /\ afloat' \subseteq afloat
  BY <1>5 DEF Sees, routeVars, gameVars
<1>6. CASE CooldownEnds \/ PilotArrives \/ ShipLost \/ UNCHANGED vars
  <2>1. UNCHANGED pc /\ afloat' \subseteq afloat
    BY <1>6 DEF CooldownEnds, PilotArrives, ShipLost, vars, routeVars, gameVars
  <2> QED BY <1>1, <2>1
<1> QED BY <1>1, <1>2, <1>3, <1>4, <1>5, <1>6 DEF Next

\* The pilot stays in its ship, or is in one it has not been in.
BeenStep ==
  \/ been' = been
  \/ \E s \in ShipNumbers :
       /\ been' = Append(been, s) /\ UNCHANGED <<rd, expected, transition>>
       /\ s = Capsule \/ (s \in ToCome /\ s \notin ToCome')

LEMMA BeenSteps == ASSUME Typed, [Next]_vars PROVE BeenStep
<1>1. ASSUME NEW r \in Routes, RouteSteps(r) \/ Arrives(r) \/ Declines(r) PROVE been' = been
  <2>1. CASE Arrives(r) \/ Declines(r) \/ BeforeRead(r) \/ BeforeFails(r) \/ Wakes(r) \/ Answered(r)
    BY <2>1 DEF Arrives, Declines, BeforeRead, BeforeFails, Wakes, Answered, gameVars
  <2>2. CASE Refused(r) \/ CallTimesOut(r) \/ FlightRead(r) \/ SpaceRead(r) \/ WaitReadFails(r) \/ Polls(r) \/ Deadline(r)
    BY <2>2 DEF Refused, CallTimesOut, FlightRead, SpaceRead, WaitReadFails, Polls, Deadline, gameVars
  <2> QED BY <1>1, <2>1, <2>2 DEF RouteSteps
<1>2. ASSUME NEW r \in Routes, CarriesOut(r) PROVE BeenStep
  <2>1. r \in afloat /\ afloat' = afloat \ {r} /\ UNCHANGED pc /\ UNCHANGED <<rd, expected, transition>>
    BY <1>2 DEF CarriesOut, heldVars, routeVars
  <2>2. r \in ToCome /\ r \notin ToCome' /\ ToCome # {} BY <2>1, OneLessToCome
  <2>3. r \in ShipNumbers /\ Capsule \in ShipNumbers BY <2>2, Constants, CapsuleNumbered
  <2>4. been' = been \/ been' = Append(been, r) \/ been' = Append(been, Capsule) BY <1>2 DEF CarriesOut
  <2>5. CASE been' = Append(been, r) BY <2>1, <2>2, <2>3, <2>5 DEF BeenStep
  <2>6. CASE been' = Append(been, Capsule) BY <2>1, <2>3, <2>6 DEF BeenStep
  <2> QED BY <2>4, <2>5, <2>6 DEF BeenStep
<1>3. CASE ShipLost
  <2>1. been' = Append(been, Capsule) /\ UNCHANGED <<rd, expected, transition>> /\ lost < MaxLost
    BY <1>3 DEF ShipLost, heldVars, routeVars
  <2>2. Capsule \in ShipNumbers BY <2>1, CapsuleNumbered
  <2> QED BY <2>1, <2>2 DEF BeenStep
<1>4. ASSUME NEW p \in Pollers, PollAsks(p) \/ PollReads(p) PROVE been' = been
  BY <1>4 DEF PollAsks, PollReads, gameVars
<1>5. ASSUME NEW x \in Readers, Sees(x) PROVE been' = been BY <1>5 DEF Sees, gameVars
<1>6. CASE CooldownEnds \/ PilotArrives \/ UNCHANGED vars
  <2>1. been' = been BY <1>6 DEF CooldownEnds, PilotArrives, vars, gameVars
  <2> QED BY <2>1 DEF BeenStep
<1>7. been' = been => BeenStep BY DEF BeenStep
<1> QED BY <1>1, <1>2, <1>3, <1>4, <1>5, <1>6, <1>7 DEF Next

\* A wait reads under the record's epoch.
WaitStep(r) ==
  pc'[r] = "waiting" => (pc[r] = "waiting" /\ rd'[r].epoch = rd[r].epoch) \/ rd'[r].epoch = epoch

LEMMA WaitSteps == ASSUME Typed, [Next]_vars PROVE \A r \in Routes : WaitStep(r)
<1>1. pc \in [Routes -> Where] /\ rd \in [Readers -> Flights] /\ Asked.epoch = epoch BY Placed, ReadersTyped DEF Typed
<1>2. ASSUME UNCHANGED <<pc, rd>> PROVE \A r \in Routes : WaitStep(r) BY <1>2 DEF WaitStep
<1>3. ASSUME NEW q \in Routes, RouteSteps(q) \/ Arrives(q) PROVE \A r \in Routes : WaitStep(r)
  <2> TAKE r \in Routes
  <2>1. q \in Readers /\ r \in Readers BY ReadersTyped
  <2>2. \/ /\ rd' = [rd EXCEPT ![q] = Asked] /\ \E w : pc' = [pc EXCEPT ![q] = w]
        \/ /\ rd' = rd \/ rd' = [rd EXCEPT ![q] = NoRead]
           /\ \E w \in Where \ {"waiting"} : pc' = [pc EXCEPT ![q] = w]
        \/ /\ rd' = [rd EXCEPT ![q].st = "space"] /\ pc' = pc
    <3>1. CASE Arrives(q) BY <3>1 DEF Arrives, Answers, Where
    <3>2. CASE BeforeRead(q) BY <3>2 DEF BeforeRead, Acquire, Begin, Answers, Where
    <3>3. CASE BeforeFails(q) BY <3>3 DEF BeforeFails, Catch, Answers, Where
    <3>4. CASE Wakes(q) BY <3>4 DEF Wakes, Begin, Answers, Where
    <3>5. CASE Answered(q) BY <3>5 DEF Answered, Answers, Where
    <3>6. CASE Refused(q) \/ CallTimesOut(q) BY <3>6 DEF Refused, CallTimesOut, Catch, Answers, Where
    <3>7. CASE FlightRead(q) BY <3>7 DEF FlightRead, Judge, Answers, Where
    <3>8. CASE SpaceRead(q) BY <3>8 DEF SpaceRead, Judge, Answers, Where
    <3>9. CASE WaitReadFails(q) BY <3>9 DEF WaitReadFails, Where
    <3>10. CASE Polls(q) BY <3>10 DEF Polls, Answers, Where
    <3>11. CASE Deadline(q) BY <3>11 DEF Deadline, Answers, Where
    <3> QED BY <1>3, <3>1, <3>2, <3>3, <3>4, <3>5, <3>6, <3>7, <3>8, <3>9, <3>10, <3>11 DEF RouteSteps
  <2>3. CASE r # q
    <3>1. rd'[r] = rd[r] /\ pc'[r] = pc[r] BY <1>1, <2>1, <2>2, <2>3
    <3> QED BY <3>1 DEF WaitStep
  <2>4. CASE r = q
    <3>1. CASE rd' = [rd EXCEPT ![q] = Asked]
      <4>1. rd'[r].epoch = epoch BY <1>1, <2>1, <2>4, <3>1
      <4> QED BY <4>1 DEF WaitStep
    <3>2. CASE \E w \in Where \ {"waiting"} : pc' = [pc EXCEPT ![q] = w]
      <4>1. pc'[r] # "waiting" BY <1>1, <2>4, <3>2
      <4> QED BY <4>1 DEF WaitStep
    <3>3. CASE rd' = [rd EXCEPT ![q].st = "space"] /\ pc' = pc
      <4>1. rd'[r].epoch = rd[r].epoch BY <1>1, <2>1, <2>4, <3>3 DEF Flights
      <4> QED BY <3>3, <4>1 DEF WaitStep
    <3> QED BY <2>2, <3>1, <3>2, <3>3
  <2> QED BY <2>3, <2>4
<1>4. ASSUME NEW r \in Routes, CarriesOut(r) \/ Declines(r) PROVE UNCHANGED <<pc, rd>>
  BY <1>4 DEF CarriesOut, Declines, routeVars
<1>5. ASSUME NEW p \in Pollers, PollAsks(p) \/ PollReads(p) PROVE \A r \in Routes : WaitStep(r)
  <2> TAKE r \in Routes
  <2>1. p # r /\ r \in Readers BY Constants, ReadersTyped
  <2>2. pc' = pc /\ (rd' = [rd EXCEPT ![p] = Asked] \/ rd' = [rd EXCEPT ![p] = NoRead])
    BY <1>5 DEF PollAsks, PollReads, routeVars
  <2>3. rd'[r] = rd[r] BY <1>1, <2>1, <2>2
  <2> QED BY <2>2, <2>3 DEF WaitStep
<1>6. ASSUME NEW x \in Readers, Sees(x) PROVE \A r \in Routes : WaitStep(r)
  <2> TAKE r \in Routes
  <2>1. pc' = pc /\ r \in Readers BY <1>6, ReadersTyped DEF Sees, routeVars
  <2>2. rd'[r].epoch = rd[r].epoch BY <1>1, <1>6, <2>1 DEF Sees, Flights
  <2> QED BY <2>1, <2>2 DEF WaitStep
<1>7. CASE CooldownEnds \/ PilotArrives \/ ShipLost \/ UNCHANGED vars
  <2>1. UNCHANGED <<pc, rd>> BY <1>7 DEF CooldownEnds, PilotArrives, ShipLost, vars, routeVars
  <2> QED BY <1>2, <2>1
<1> QED BY <1>2, <1>3, <1>4, <1>5, <1>6, <1>7 DEF Next

-----------------------------------------------------------------------------
(* The ships in the order the pilot was in them.                           *)

InBeen(s) == \E i \in DOMAIN been : been[i] = s

\* The pilot was in t no later than in s.
NoLater(t, s) == \A i, j \in DOMAIN been : been[i] = s /\ been[j] = t => j <= i

\* No ship comes twice, and none that may still be boarded has been there.
ShipsApart ==
  /\ been[1] = 0
  /\ \A i, j \in DOMAIN been : been[i] = been[j] => i = j
  /\ \A i \in DOMAIN been : been[i] <= Len(been) + Max(Routes) /\ been[i] \notin ToCome

\* Reads and routes know ships the pilot has been in.
ShipsKnown ==
  /\ \A r \in Routes : InBeen(expected[r].ship)
  /\ \A x \in Readers : InBeen(rd[x].ship)

\* No read is of an epoch to come, and a wait reads its change.
EpochsKept ==
  /\ transition.epoch <= epoch
  /\ \A x \in Readers : rd[x].epoch <= epoch
  /\ \A r \in Routes : pc[r] = "waiting" => transition.epoch <= rd[r].epoch

\* A read that was asked since the change was begun saw the ship it began in, or a
\* later one.
ReadsLater ==
  \A x \in Readers : rd[x].st \in Saw /\ transition # NoTransition /\ transition.epoch <= rd[x].epoch
    => NoLater(expected[transition.of].ship, rd[x].ship)

Followed == ShipsApart /\ ShipsKnown /\ EpochsKept /\ ReadsLater

LEMMA Ships ==
  ASSUME Typed
  PROVE  /\ been \in Seq(ShipNumbers) /\ Len(been) \in Nat \ {0} /\ DOMAIN been = 1..Len(been)
         /\ ship = been[Len(been)] /\ \A i \in DOMAIN been : been[i] \in Nat
<1>1. been \in Seq(ShipNumbers) /\ Len(been) \in Nat \ {0} /\ ship = been[Len(been)] BY ShipTyped
<1>2. DOMAIN been = 1..Len(been) BY <1>1
<1>3. \A i \in DOMAIN been : been[i] \in ShipNumbers BY <1>1
<1>4. ShipNumbers \subseteq Nat BY Constants
<1> QED BY <1>1, <1>2, <1>3, <1>4

\* What a ship more does to the others.
LEMMA OneMore ==
  ASSUME Typed, NEW s \in ShipNumbers, been' = Append(been, s)
  PROVE  /\ Len(been') = Len(been) + 1 /\ DOMAIN been' = 1..(Len(been) + 1)
         /\ been'[Len(been) + 1] = s /\ \A i \in DOMAIN been : i \in DOMAIN been' /\ been'[i] = been[i]
         /\ \A i \in DOMAIN been' : i \in DOMAIN been \/ i = Len(been) + 1
<1>1. been \in Seq(ShipNumbers) /\ Len(been) \in Nat /\ DOMAIN been = 1..Len(been) BY Ships
<1>2. Len(been') = Len(been) + 1 /\ been' \in Seq(ShipNumbers) BY <1>1
<1>3. DOMAIN been' = 1..(Len(been) + 1) BY <1>2
<1>4. been'[Len(been) + 1] = s BY <1>1
<1>5. ASSUME NEW i \in DOMAIN been PROVE i \in DOMAIN been' /\ been'[i] = been[i]
  BY <1>1, <1>3
<1>6. ASSUME NEW i \in DOMAIN been' PROVE i \in DOMAIN been \/ i = Len(been) + 1 BY <1>1, <1>3
<1> QED BY <1>2, <1>3, <1>4, <1>5, <1>6

\* The new ship is none of the others.
LEMMA NewShip ==
  ASSUME Typed, Followed, NEW s \in ShipNumbers, s = Capsule \/ s \in ToCome
  PROVE  ~InBeen(s) /\ s <= (Len(been) + 1) + Max(Routes) /\ (s = Capsule => s \notin ToCome)
<1>1. Len(been) \in Nat /\ Max(Routes) \in Nat /\ \A i \in DOMAIN been : been[i] \in Nat BY Ships, Constants
<1>2. \A i \in DOMAIN been : been[i] <= Len(been) + Max(Routes) /\ been[i] \notin ToCome
  BY DEF Followed, ShipsApart
<1>3. ToCome \subseteq Routes /\ \A r \in Routes : r \in Nat /\ r <= Max(Routes) BY ToComeFinite, LastRoute, Constants
<1>4. CASE s = Capsule
  <2> DEFINE n == Len(been)
             m == Max(Routes)
  <2>1. s = 1 + n + m BY <1>4 DEF Capsule
  <2>2. n \in Nat /\ m \in Nat /\ (\A i \in DOMAIN been : been[i] \in Nat /\ been[i] <= n + m)
        /\ \A r \in Routes : r \in Nat /\ r <= m
    BY <1>1, <1>2, <1>3
  <2>3. s <= (n + 1) + m BY <1>1, <2>1
  <2> HIDE DEF n, m
  <2>4. \A i \in DOMAIN been : been[i] # s BY <2>1, <2>2
  <2>5. s \notin Routes BY <2>1, <2>2
  <2> QED BY <1>3, <2>3, <2>4, <2>5 DEF InBeen, n, m
<1>5. CASE s \in ToCome
  <2>1. s \in Nat /\ s <= Max(Routes) BY <1>3, <1>5
  <2>2. s <= (Len(been) + 1) + Max(Routes) BY <1>1, <2>1
  <2>3. s # Capsule BY <1>1, <2>1 DEF Capsule
  <2> QED BY <1>2, <1>5, <2>2, <2>3 DEF InBeen
<1> QED BY <1>4, <1>5

LEMMA KnownStays ==
  ASSUME Typed, BeenStep, NEW s, InBeen(s) PROVE InBeen(s)'
<1>1. CASE been' = been BY <1>1 DEF InBeen
<1>2. ASSUME NEW n \in ShipNumbers, been' = Append(been, n) PROVE InBeen(s)'
  <2>1. PICK i \in DOMAIN been : been[i] = s BY DEF InBeen
  <2>2. i \in DOMAIN been' /\ been'[i] = s BY <1>2, <2>1, OneMore
  <2> QED BY <2>2 DEF InBeen
<1> QED BY <1>1, <1>2 DEF BeenStep

LEMMA OrderStays ==
  ASSUME Typed, Followed, BeenStep, NEW s, NEW t, InBeen(s), InBeen(t), NoLater(t, s) PROVE NoLater(t, s)'
<1>1. CASE been' = been BY <1>1 DEF NoLater
<1>2. ASSUME NEW n \in ShipNumbers, been' = Append(been, n), n = Capsule \/ n \in ToCome PROVE NoLater(t, s)'
  <2>1. n # s /\ n # t BY <1>2, NewShip
  <2> SUFFICES ASSUME NEW i \in DOMAIN been', NEW j \in DOMAIN been', been'[i] = s, been'[j] = t PROVE j <= i
    BY DEF NoLater
  <2>2. i \in DOMAIN been /\ j \in DOMAIN been BY <1>2, <2>1, OneMore
  <2>3. been[i] = s /\ been[j] = t BY <1>2, <2>2, OneMore
  <2> QED BY <2>2, <2>3 DEF NoLater
<1> QED BY <1>1, <1>2 DEF BeenStep

\* The ship of now is the last.
LEMMA NowIsLast == ASSUME Typed, Followed, NEW t PROVE InBeen(ship) /\ NoLater(t, ship)
<1>1. Len(been) \in Nat \ {0} /\ DOMAIN been = 1..Len(been) /\ ship = been[Len(been)] BY Ships
<1>2. Len(been) \in DOMAIN been BY <1>1
<1>3. ASSUME NEW i \in DOMAIN been, NEW j \in DOMAIN been, been[i] = ship PROVE j <= i
  <2>1. i = Len(been) BY <1>1, <1>2, <1>3 DEF Followed, ShipsApart
  <2> QED BY <1>1, <2>1
<1> QED BY <1>1, <1>2, <1>3 DEF InBeen, NoLater

LEMMA ShipsApartStep ==
  ASSUME Typed, Followed, BeenStep, ToCome' \subseteq ToCome PROVE ShipsApart'
<1>1. /\ been[1] = 0
      /\ \A i, j \in DOMAIN been : been[i] = been[j] => i = j
      /\ \A i \in DOMAIN been : been[i] <= Len(been) + Max(Routes) /\ been[i] \notin ToCome
  BY DEF Followed, ShipsApart
<1>2. CASE been' = been
  <2>1. \A i \in DOMAIN been : been[i] \notin ToCome' BY <1>1
  <2> QED BY <1>1, <1>2, <2>1 DEF ShipsApart
<1>3. ASSUME NEW s \in ShipNumbers, been' = Append(been, s), s = Capsule \/ (s \in ToCome /\ s \notin ToCome')
      PROVE  ShipsApart'
  <2>1. ~InBeen(s) /\ s <= (Len(been) + 1) + Max(Routes) /\ s \notin ToCome' BY <1>3, NewShip
  <2>2. /\ Len(been') = Len(been) + 1 /\ DOMAIN been' = 1..(Len(been) + 1)
        /\ been'[Len(been) + 1] = s /\ \A i \in DOMAIN been : i \in DOMAIN been' /\ been'[i] = been[i]
    BY <1>3, OneMore
  <2>3. \A i \in DOMAIN been' : i \in DOMAIN been \/ i = Len(been) + 1 BY <1>3, OneMore
  <2>4. Len(been) \in Nat \ {0} /\ DOMAIN been = 1..Len(been) /\ Max(Routes) \in Nat
        /\ \A i \in DOMAIN been : been[i] \in Nat
    BY Ships, Constants
  <2>5. been'[1] = 0 BY <1>1, <2>2, <2>4
  <2>6. \A i \in DOMAIN been : been[i] # s BY <2>1 DEF InBeen
  <2>7. ASSUME NEW i \in DOMAIN been', NEW j \in DOMAIN been', been'[i] = been'[j] PROVE i = j
    <3>1. CASE i \in DOMAIN been /\ j \in DOMAIN been BY <1>1, <2>2, <2>7, <3>1
    <3>2. CASE i \notin DOMAIN been /\ j \in DOMAIN been BY <2>2, <2>3, <2>6, <2>7, <3>2
    <3>3. CASE i \in DOMAIN been /\ j \notin DOMAIN been BY <2>2, <2>3, <2>6, <2>7, <3>3
    <3>4. CASE i \notin DOMAIN been /\ j \notin DOMAIN been BY <2>3, <3>4
    <3> QED BY <3>1, <3>2, <3>3, <3>4
  <2>8. ASSUME NEW i \in DOMAIN been' PROVE been'[i] <= Len(been') + Max(Routes) /\ been'[i] \notin ToCome'
    <3>1. CASE i \in DOMAIN been
      <4>1. been'[i] = been[i] /\ been[i] \notin ToCome' BY <1>1, <2>2, <3>1
      <4>2. been[i] <= Len(been) + Max(Routes) /\ been[i] \in Nat BY <1>1, <2>4, <3>1
      <4>3. been[i] <= (Len(been) + 1) + Max(Routes) BY <2>4, <4>2
      <4> QED BY <2>2, <4>1, <4>3
    <3>2. CASE i = Len(been) + 1 BY <2>1, <2>2, <3>2
    <3> QED BY <2>3, <3>1, <3>2
  <2> QED BY <2>5, <2>7, <2>8 DEF ShipsApart
<1> QED BY <1>2, <1>3 DEF BeenStep

\* What a read saw it saw before, or sees now.
LEMMA ReadShips ==
  ASSUME Typed, Followed, NEW x \in Readers, ReadStep(x)
  PROVE  InBeen(rd'[x].ship)
<1>1. InBeen(0)
  <2>1. 1 \in DOMAIN been BY Ships
  <2> QED BY <2>1 DEF InBeen, Followed, ShipsApart
<1>2. InBeen(ship) BY NowIsLast
<1>3. InBeen(rd[x].ship) BY DEF Followed, ShipsKnown
<1> QED BY <1>1, <1>2, <1>3 DEF ReadStep

LEMMA ShipsKnownStep ==
  ASSUME Typed, Followed, BeenStep, \A x \in Readers : ReadStep(x), \A r \in Routes : ExpectedStep(r)
  PROVE  ShipsKnown'
<1>1. ASSUME NEW r \in Routes PROVE InBeen(expected'[r].ship)
  <2>1. r \in Readers /\ InBeen(expected[r].ship) /\ InBeen(rd[r].ship)
    BY ReadersTyped DEF Followed, ShipsKnown
  <2> QED BY <2>1 DEF ExpectedStep
<1>2. ASSUME NEW x \in Readers PROVE InBeen(rd'[x].ship) BY ReadShips
<1>3. ASSUME NEW s, InBeen(s) PROVE \E i \in DOMAIN been' : been'[i] = s
  <2>1. InBeen(s)' BY <1>3, KnownStays
  <2> QED BY <2>1 DEF InBeen
<1>4. \A r \in Routes : \E i \in DOMAIN been' : been'[i] = expected'[r].ship BY <1>1, <1>3
<1>5. \A x \in Readers : \E i \in DOMAIN been' : been'[i] = rd'[x].ship BY <1>2, <1>3
<1>6. Readers' = Readers BY DEF Readers
<1> QED BY <1>4, <1>5, <1>6 DEF ShipsKnown, InBeen

LEMMA EpochsTyped ==
  ASSUME Typed
  PROVE  epoch \in Nat /\ transition.epoch \in Nat /\ NoTransition.epoch = 0 /\ NoTransition.of = 0
         /\ \A x \in Readers : rd[x].epoch \in Nat
<1>1. transition.epoch \in Nat BY Placed, RowTypes
<1>2. \A x \in Readers : rd[x].epoch \in Nat BY ShownTyped DEF Flights
<1> QED BY <1>1, <1>2 DEF Typed, HeldOK, NoTransition

\* While route r waits the change is its own, and was when r began to wait.
LEMMA WaitsForOwn ==
  ASSUME Typed, Typed', OneChange', ChangeStep, NEW r \in Routes, pc'[r] = "waiting"
  PROVE  transition # NoTransition /\ transition'.epoch = transition.epoch
<1>1. transition'.of = r /\ transition' # NoTransition
  <2>1. pc'[r] \in Changing BY DEF Changing
  <2>2. transition'.of = r BY <2>1 DEF OneChange, Alone, At, Changing
  <2>3. r # 0 BY Constants
  <2> QED BY <2>2, <2>3, EpochsTyped
<1> QED BY <1>1 DEF ChangeStep

LEMMA EpochsKeptStep ==
  ASSUME Typed, Typed', OneChange', Followed, ChangeStep, \A x \in Readers : ReadStep(x),
         \A r \in Routes : WaitStep(r)
  PROVE  EpochsKept'
<1>1. /\ epoch \in Nat /\ transition.epoch \in Nat /\ NoTransition.epoch = 0
      /\ \A x \in Readers : rd[x].epoch \in Nat
  BY EpochsTyped
<1>2. /\ transition.epoch <= epoch /\ (\A x \in Readers : rd[x].epoch <= epoch)
      /\ \A r \in Routes : pc[r] = "waiting" => transition.epoch <= rd[r].epoch
  BY DEF Followed, EpochsKept
<1>3. transition'.epoch <= epoch' /\ epoch <= epoch' /\ epoch' \in Nat BY <1>1, <1>2 DEF ChangeStep
<1>4. ASSUME NEW x \in Readers PROVE rd'[x].epoch <= epoch'
  <2>1. ReadStep(x) /\ rd[x].epoch \in Nat /\ rd[x].epoch <= epoch BY <1>1, <1>2
  <2>2. rd'[x].epoch \in {0, epoch, rd[x].epoch} BY <2>1 DEF ReadStep
  <2> QED BY <1>1, <1>3, <2>1, <2>2
<1>5. ASSUME NEW r \in Routes, pc'[r] = "waiting" PROVE transition'.epoch <= rd'[r].epoch
  <2>1. transition'.epoch = transition.epoch BY <1>5, WaitsForOwn
  <2>2. WaitStep(r) OBVIOUS
  <2>3. (pc[r] = "waiting" /\ rd'[r].epoch = rd[r].epoch) \/ rd'[r].epoch = epoch BY <1>5, <2>2 DEF WaitStep
  <2> QED BY <1>2, <2>1, <2>3
<1>6. Readers' = Readers BY DEF Readers
<1> QED BY <1>3, <1>4, <1>5, <1>6 DEF EpochsKept

LEMMA ReadsLaterStep ==
  ASSUME Typed, OneChange, Followed, ChangeStep, BeenStep, \A x \in Readers : ReadStep(x),
         \A r \in Routes : ExpectedStep(r)
  PROVE  ReadsLater'
<1>1. /\ epoch \in Nat /\ transition.epoch \in Nat /\ \A x \in Readers : rd[x].epoch \in Nat
  BY EpochsTyped
<1>2. \A x \in Readers : rd[x].epoch <= epoch BY DEF Followed, EpochsKept
<1>3. ASSUME NEW x \in Readers, rd'[x].st \in Saw, transition' # NoTransition, transition'.epoch <= rd'[x].epoch
      PROVE  NoLater(expected[transition.of].ship, rd[x].ship)'
  <2>1. ReadStep(x) /\ rd[x].epoch \in Nat /\ rd[x].epoch <= epoch BY <1>1, <1>2
  <2>2. rd'[x].epoch = rd[x].epoch BY <1>3, <2>1 DEF ReadStep, Saw
  <2>3. transition'.epoch # epoch + 1 BY <1>1, <1>3, <2>1, <2>2
  <2>4. transition # NoTransition /\ transition'.of = transition.of /\ transition'.epoch = transition.epoch
    BY <1>3, <2>3 DEF ChangeStep
  <2> DEFINE r == transition.of
             t == expected[r].ship
  <2>5. r \in Routes /\ pc[r] # "before"
    <3>1. r \in Routes BY <2>4, Placed, RowTypes
    <3>2. pc[r] \in Changing \cup {"done"} BY <2>4 DEF OneChange, BegunByItsRoute
    <3> QED BY <3>1, <3>2 DEF Changing
  <2>6. expected'[r] = expected[r] BY <2>5 DEF ExpectedStep
  <2>7. InBeen(t) /\ InBeen(rd[x].ship) BY <2>5 DEF Followed, ShipsKnown
  <2>8. CASE rd'[x].ship = rd[x].ship /\ rd[x].st \in Saw
    <3>1. NoLater(t, rd[x].ship) BY <1>3, <2>2, <2>4, <2>8 DEF Followed, ReadsLater
    <3> DEFINE s == rd[x].ship
    <3>2. InBeen(s) /\ InBeen(t) /\ NoLater(t, s) BY <2>7, <3>1
    <3>3. expected'[transition'.of].ship = t /\ rd'[x].ship = s BY <2>4, <2>6, <2>8
    <3> HIDE DEF s, t, r
    <3>4. \A i, j \in DOMAIN been' : been'[i] = s /\ been'[j] = t => j <= i
      <4>1. PICK u, v : u = s /\ v = t OBVIOUS
      <4>2. NoLater(v, u)' BY <3>2, <4>1, OrderStays
      <4> QED BY <4>1, <4>2 DEF NoLater
    <3> QED BY <3>3, <3>4 DEF NoLater
  <2>9. CASE rd'[x].ship = ship /\ ~(rd'[x].ship = rd[x].ship /\ rd[x].st \in Saw)
    <3> DEFINE s == ship
    <3>1. InBeen(s) /\ InBeen(t) /\ NoLater(t, s) BY <2>7, NowIsLast
    <3>2. expected'[transition'.of].ship = t /\ rd'[x].ship = s BY <2>4, <2>6, <2>9
    <3> HIDE DEF s, t, r
    <3>3. \A i, j \in DOMAIN been' : been'[i] = s /\ been'[j] = t => j <= i
      <4>1. PICK u, v : u = s /\ v = t OBVIOUS
      <4>2. NoLater(v, u)' BY <3>1, <4>1, OrderStays
      <4> QED BY <4>1, <4>2 DEF NoLater
    <3> QED BY <3>2, <3>3 DEF NoLater
  <2> QED BY <1>3, <2>1, <2>8, <2>9 DEF ReadStep, Saw
<1>4. Readers' = Readers /\ Saw' = Saw /\ NoTransition' = NoTransition BY DEF Readers, Saw, NoTransition
<1> QED BY <1>3, <1>4 DEF ReadsLater

LEMMA InitFollowed == Init => Followed
<1> SUFFICES ASSUME Init PROVE Followed OBVIOUS
<1>1. been = <<0>> /\ DOMAIN been = {1} /\ been[1] = 0 /\ Len(been) = 1 BY DEF Init
<1>2. 0 \notin ToCome /\ Max(Routes) \in Nat BY Constants, ToComeFinite
<1>3. ShipsApart BY <1>1, <1>2 DEF ShipsApart
<1>4. InBeen(0) BY <1>1 DEF InBeen
<1>5. \A x \in Readers : rd[x] = NoRead BY DEF Init
<1>6. \A r \in Routes : expected[r] = NotExpected BY DEF Init
<1>7. ShipsKnown BY <1>4, <1>5, <1>6, ReadersTyped DEF ShipsKnown, NoRead
<1>8. EpochsKept BY <1>5 DEF Init, EpochsKept, NoTransition, NoRead
<1>9. ReadsLater BY <1>5 DEF ReadsLater, NoRead, Saw
<1> QED BY <1>3, <1>7, <1>8, <1>9 DEF Followed

LEMMA NextFollowed ==
  ASSUME Typed, Typed', OneChange, OneChange', Followed, [Next]_vars PROVE Followed'
<1>1. ChangeStep /\ BeenStep /\ (\A x \in Readers : ReadStep(x)) /\ (\A r \in Routes : ExpectedStep(r))
      /\ (\A r \in Routes : WaitStep(r)) /\ ToCome' \subseteq ToCome
  BY ChangeSteps, BeenSteps, ReadSteps, ExpectedSteps, WaitSteps, ToComeSteps
<1>2. ShipsApart' BY <1>1, ShipsApartStep
<1>3. ShipsKnown' BY <1>1, ShipsKnownStep
<1>4. EpochsKept' BY <1>1, EpochsKeptStep
<1>5. ReadsLater' BY <1>1, ReadsLaterStep
<1> QED BY <1>2, <1>3, <1>4, <1>5 DEF Followed

\* The record is given the ship of a read asked since its change was begun, and no other
\* read is taken.
Gives(x) ==
  /\ active' = rd[x].ship /\ rd[x].st \in Saw /\ transition.epoch <= rd[x].epoch
  /\ \A y \in Readers : y # x => rd'[y] = rd[y]

\* A read that gives the record its ship was asked since the change was begun.
LEMMA GivenByALaterRead ==
  ASSUME Typed, OneChange, Followed, [Next]_vars, active' # active, transition.of # 0, transition.phase # "failed"
  PROVE  /\ been' = been
         /\ \E x \in Readers : Gives(x)
<1> DEFINE Given == been' = been /\ \E x \in Readers : Gives(x)
<1>1. ASSUME NEW x \in Readers PROVE Shown(rd[x]).active = active
  <2>1. transition \in Transitions /\ active \in ShipNumbers /\ rd[x] \in Flights
    BY ShownTyped DEF Typed, HeldOK
  <2>2. Shown(rd[x]) = [transition |-> transition, active |-> active] BY <2>1, ShownTypes
  <2> QED BY <2>2
<1>2a. rd \in [Readers -> Flights] BY DEF Typed
<1>2. ASSUME NEW r \in Routes, RouteSteps(r) PROVE Given
  <2>1. r \in Readers BY ReadersTyped
  <2>2. CASE BeforeRead(r)
    <3>1. active' = Shown(rd[r]).active BY <2>2 DEF BeforeRead
    <3> QED BY <1>1, <2>1, <3>1
  <2>3. CASE FlightRead(r)
    <3>1. pc[r] = "waiting" /\ rd[r].st = "seen" /\ been' = been BY <2>3 DEF FlightRead, gameVars
    <3>2. transition.epoch <= rd[r].epoch BY <3>1 DEF Followed, EpochsKept
    <3> DEFINE shown == Shown(rd[r])
    <3>3. active' = shown.active \/ Judge(r, shown, rd[r]) BY <2>3 DEF FlightRead
    <3>4. shown.active = active BY <1>1, <2>1
    <3> HIDE DEF shown
    <3>5. active' = rd[r].ship /\ rd' = [rd EXCEPT ![r] = NoRead] BY <3>3, <3>4 DEF Judge
    <3> QED BY <1>2a, <2>1, <3>1, <3>2, <3>5 DEF Saw, Gives
  <2>4. CASE SpaceRead(r)
    <3>1. pc[r] = "waiting" /\ rd[r].st = "both" /\ been' = been BY <2>4 DEF SpaceRead, gameVars
    <3>2. transition.epoch <= rd[r].epoch BY <3>1 DEF Followed, EpochsKept
    <3>3. active' = rd[r].ship /\ rd' = [rd EXCEPT ![r] = NoRead] BY <2>4 DEF SpaceRead, Judge
    <3> QED BY <1>2a, <2>1, <3>1, <3>2, <3>3 DEF Saw, Gives
  <2>5. CASE BeforeFails(r) \/ Wakes(r) \/ Answered(r) \/ Refused(r) \/ CallTimesOut(r)
    BY <2>5 DEF BeforeFails, Wakes, Answered, Refused, CallTimesOut
  <2>6. CASE WaitReadFails(r) \/ Polls(r) \/ Deadline(r) BY <2>6 DEF WaitReadFails, Polls, Deadline, heldVars
  <2> QED BY <1>2, <2>2, <2>3, <2>4, <2>5, <2>6 DEF RouteSteps
<1>3. ASSUME NEW r \in Routes, Arrives(r) \/ CarriesOut(r) \/ Declines(r) PROVE Given
  BY <1>3 DEF Arrives, CarriesOut, Declines, heldVars
<1>4. ASSUME NEW p \in Pollers, PollAsks(p) PROVE Given BY <1>4 DEF PollAsks, heldVars
<1>5. ASSUME NEW p \in Pollers, PollReads(p) PROVE Given
  <2> DEFINE shown == Shown(rd[p])
  <2>1. /\ p \in Readers /\ been' = been /\ rd[p].st = "seen" /\ rd' = [rd EXCEPT ![p] = NoRead]
    BY <1>5, ReadersTyped DEF PollReads, gameVars
  <2>2. active' = (IF Adopts(rd[p], shown) THEN rd[p].ship ELSE shown.active) BY <1>5 DEF PollReads
  <2>3. shown.active = active BY <1>1, <2>1
  <2> HIDE DEF shown
  <2>4. active' = rd[p].ship /\ epoch = rd[p].epoch BY <2>2, <2>3 DEF Adopts
  <2>5. transition.epoch <= rd[p].epoch BY <2>4 DEF Followed, EpochsKept
  <2> QED BY <1>2a, <2>1, <2>4, <2>5 DEF Saw, Gives
<1>6. ASSUME NEW x \in Readers, Sees(x) PROVE Given BY <1>6 DEF Sees, heldVars
<1>7. CASE CooldownEnds \/ PilotArrives \/ ShipLost \/ UNCHANGED vars
  BY <1>7 DEF CooldownEnds, PilotArrives, ShipLost, vars, heldVars
<1> QED BY <1>2, <1>3, <1>4, <1>5, <1>6, <1>7 DEF Next

LEMMA NotFromBefore ==
  ASSUME Typed, OneChange, Followed, [Next]_vars, active' # active, transition.of # 0, transition.phase # "failed"
  PROVE  /\ \A y \in Readers : Taken(y) => rd[y].epoch >= transition.epoch
         /\ Since(active', been') >= Since(expected[transition.of].ship, been')
<1>1. been' = been BY GivenByALaterRead
<1>2. PICK x \in Readers : Gives(x) BY GivenByALaterRead
<1> DEFINE s == rd[x].ship
           t == expected[transition.of].ship
<1>3. transition # NoTransition /\ transition.of \in Routes BY Placed, RowTypes
<1>4. NoLater(t, s) BY <1>2, <1>3 DEF Gives, Followed, ReadsLater
<1>5. InBeen(s) /\ InBeen(t) BY <1>3 DEF Followed, ShipsKnown
<1> HIDE DEF s, t
<1>6. Since(s, been) \in DOMAIN been /\ been[Since(s, been)] = s BY <1>5 DEF InBeen, Since
<1>7. Since(t, been) \in DOMAIN been /\ been[Since(t, been)] = t BY <1>5 DEF InBeen, Since
<1>2a. Since(t, been) <= Since(s, been) BY <1>4, <1>6, <1>7 DEF NoLater
<1>9. Since(s, been) \in Nat /\ Since(t, been) \in Nat BY <1>6, <1>7, Ships
<1>10. Since(s, been) >= Since(t, been) BY <1>2a, <1>9
<1>11. active' = s BY <1>2 DEF Gives, s
<1>12. Since(active', been') = Since(s, been) /\ Since(t, been') = Since(t, been) BY <1>1, <1>11
<1>13. ASSUME NEW y \in Readers, Taken(y) PROVE rd[y].epoch >= transition.epoch
  <2>1. y = x BY <1>2, <1>13 DEF Gives, Taken
  <2> QED BY <1>2, <2>1, EpochsTyped DEF Gives
<1> QED BY <1>10, <1>12, <1>13 DEF t

LEMMA NextNotFromBefore ==
  Typed /\ (~crossed => OneChange /\ Followed) /\ [Next]_vars
    => [~crossed /\ active' # active /\ transition.of # 0 /\ transition.phase # "failed"
          => /\ \A x \in Readers : Taken(x) => rd[x].epoch >= transition.epoch
             /\ Since(active', been') >= Since(expected[transition.of].ship, been')]_vars
BY NotFromBefore

LEMMA AlwaysFollowed == Spec => [](Typed /\ (~crossed => OneChange /\ Followed))
<1>1. Init => Typed /\ (~crossed => OneChange /\ Followed) BY InitTyped, InitAlone, InitFollowed
<1>2. Typed /\ (~crossed => OneChange /\ Followed) /\ [Next]_vars
        => (Typed /\ (~crossed => OneChange /\ Followed))'
  <2> SUFFICES ASSUME Typed, OneChange, Followed, [Next]_vars, ~crossed' PROVE OneChange' /\ Followed'
    BY NextTyped, CrossedStays
  <2>1. Typed' /\ OneChange' BY NextTyped, NextAlone
  <2> QED BY <2>1, NextFollowed
<1> QED BY <1>1, <1>2, PTL DEF Spec

\* For any commands, polls and ships lost, and up to the first error that settles a change
\* another command waits for: a read asked before the change was begun gives the record no
\* ship, however late it is taken, and a later one none from before the ship the change
\* began in.
THEOREM ShipFollowsTheChange == Spec => ShipNotFromBefore
<1> QED BY AlwaysFollowed, NextNotFromBefore, PTL DEF Spec, ShipNotFromBefore
=============================================================================
