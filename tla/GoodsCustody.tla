---------------------------- MODULE GoodsCustody ----------------------------
(***************************************************************************)
(* The custody of one pilot's goods: what is moved to fill his ship        *)
(* (createReplenishment) or to build him a new one (createShipOperations)  *)
(* is written to a journal on disk before it is asked of the game server,  *)
(* and whatever is not proved by what can be read afterwards is kept from  *)
(* being followed by anything else, over crashes too.                      *)
(*                                                                         *)
(* A move brings one thing from the stock aboard; the steps a new ship     *)
(* takes (withdraw, assemble, board, fit, load) count as such moves.  A    *)
(* read sees the stock, what is aboard and the generation of the session.  *)
(* What the operation was reviewed for is not modelled beyond that: the    *)
(* contract, the source and the account do not change.                     *)
(***************************************************************************)
EXTENDS Naturals, FiniteSets

CONSTANTS Goods, Ships,   \* operations: replenishments, and provisionings of a ship
          Handlers,       \* requests at work on them, one each at a time
          Want,           \* how much is to be aboard
          MaxStock,       \* what is in stock at first
          MaxReviews,     \* bound: reviews that may be applied at once
          MaxMishaps,     \* bound: crashes, calls given up on, saves that fail, writes,
                          \* changes and takings of others, in all
          None

Ops == Goods \cup Ships

ASSUME CustodyAssumption ==
  /\ Want \in Nat /\ MaxStock \in Nat /\ MaxReviews \in Nat /\ MaxMishaps \in Nat
  /\ Goods \cap Ships = {}
  /\ None \notin Handlers \cup Ops \cup {"write", "change"}
  /\ "write" \notin Handlers /\ "change" \notin Handlers

VARIABLES
  \* The game server
  stock, aboard, gen,
  late,      \* moves of each operation sent, given up on and not carried out yet
  stray,     \* writes of the page that outlived their reservation
  strayed,   \* one of them was carried out while a move was not accounted for
  \* On disk
  journal,
  \* In memory
  reviews,   \* what was shown to the player and may be applied
  lease,     \* the pilot's reservation: of a handler, of writes, of another change
  writes,    \* the writes that share it
  job,       \* where each handler stands
  spent      \* the mishaps so far

gameVars == <<stock, aboard, gen, late, stray, strayed>>
memVars  == <<reviews, lease, writes, job>>
vars == <<gameVars, journal, memVars, spent>>

World == [stock |-> stock, aboard |-> aboard, gen |-> gen]
Unseen == [stock |-> 0, aboard |-> 0, gen |-> 0]

NoMove == [st |-> "none", stock |-> 0, aboard |-> 0]
NoRow  == [st |-> "none", move |-> NoMove, acted |-> FALSE,
           expected |-> Unseen]
\* A replenishment keeps no snapshot of its own.
Expected(o) == IF o \in Ships THEN World ELSE Unseen
Idle   == [pc |-> "idle", op |-> None, row |-> NoRow, seen |-> Unseen, continues |-> FALSE]

Init ==
  /\ stock = MaxStock /\ aboard = 0 /\ gen = 0
  /\ late = [o \in Ops |-> 0] /\ stray = 0 /\ strayed = FALSE
  /\ journal = [o \in Ops |-> NoRow]
  /\ reviews = {} /\ lease = None /\ writes = 0
  /\ job = [h \in Handlers |-> Idle]
  /\ spent = 0

Mishap == spent < MaxMishaps /\ spent' = spent + 1

(***************************************************************************)
(* What is unresolved, and who may reserve the pilot                       *)
(***************************************************************************)

\* unresolved(): a replenishment between moves is not, a provisioning is till its end.
Open(o) == IF o \in Ships THEN journal[o].st \notin {"none", "COMPLETE", "REFUSED"}
                          ELSE journal[o].st \in {"PENDING", "BLOCKED"}
Unresolved == {o \in Ops : Open(o)}

\* reserve()
MayReserve(reconciling) == lease = None /\ (reconciling \/ Unresolved = {})

\* assertWritable() without a lease
Writable == lease \notin Handlers /\ Unresolved = {}

(***************************************************************************)
(* The journal: a write that fails throws and changes nothing              *)
(***************************************************************************)

Put(o, row) == journal' = [journal EXCEPT ![o] = row]

PutFails == Mishap /\ UNCHANGED journal

Goes(h, j) == job' = [job EXCEPT ![h] = j]
Keeps == UNCHANGED <<lease, writes, reviews>>

\* The finally of apply and reconcile.
Ends(h) == /\ Goes(h, Idle)
           /\ lease' = IF lease = h THEN None ELSE lease
           /\ UNCHANGED <<writes, reviews>>

CaughtRefused(o, row) == [row EXCEPT !.st = "REFUSED"]

\* The catch of apply: what was sent and not proved blocks, as any action of a ship does.
Caught(o, row) ==
  [row EXCEPT !.st = IF (IF o \in Ships THEN row.acted ELSE row.move.st # "none")
                     THEN "BLOCKED" ELSE "REFUSED"]

ThrowsHolding(h, row) ==
  /\ Goes(h, Idle) /\ Keeps
  /\ \/ Put(job[h].op, Caught(job[h].op, row)) /\ UNCHANGED spent
     \/ PutFails

Throws(h, row) ==
  /\ Ends(h)
  /\ \/ Put(job[h].op, Caught(job[h].op, row)) /\ UNCHANGED spent
     \/ PutFails

\* A step's own save, after which it goes on, or whose failure is caught.
Saves(h, row, next) ==
  \/ /\ Put(job[h].op, row) /\ UNCHANGED spent
     /\ IF next = "end" THEN Ends(h) ELSE Goes(h, [job[h] EXCEPT !.pc = next, !.row = row]) /\ Keeps
  \/ /\ Mishap /\ Ends(h)
     /\ \/ UNCHANGED journal
        \/ Put(job[h].op, Caught(job[h].op, row))

(***************************************************************************)
(* Reviews                                                                 *)
(***************************************************************************)

ReviewOf(o, continues) == [op |-> o, continues |-> continues, seen |-> World]

\* Another review drops those that have expired.
Shows(r) ==
  /\ \E kept \in SUBSET reviews : reviews' = kept \cup {r}
  /\ Cardinality(reviews') <= MaxReviews
  /\ UNCHANGED <<gameVars, journal, lease, writes, job, spent>>

\* review()
Review(o) == o \in Goods /\ journal[o].st = "none" /\ Shows(ReviewOf(o, FALSE))

\* reviewShip() of a new hull: one that cannot be applied is no use.
ReviewShip(o) ==
  /\ o \in Ships /\ journal[o].st = "none" /\ Unresolved = {}
  /\ stock + aboard >= Want
  /\ Shows(ReviewOf(o, FALSE))

\* reviewShip() of a provisioning to go on with.
ReviewContinued(o) ==
  /\ o \in Ships /\ journal[o].st = "READY" /\ Unresolved \ {o} = {}
  /\ journal[o].expected = World
  /\ Shows(ReviewOf(o, TRUE))

(***************************************************************************)
(* apply() and applyShip(): an operation already in the journal is only    *)
(* told, which changes nothing                                             *)
(***************************************************************************)

Apply(h, r) ==
  /\ job[h] = Idle
  /\ r.continues \/ journal[r.op].st = "none"
  /\ MayReserve(r.continues)
  /\ lease' = h
  /\ Goes(h, [Idle EXCEPT !.pc = "fresh", !.op = r.op, !.seen = r.seen, !.continues = r.continues])
  /\ UNCHANGED <<gameVars, journal, reviews, writes, spent>>

\* The read that must see what was reviewed; before it there is no row to save.
Fresh(h) ==
  LET o == job[h].op
      row == [NoRow EXCEPT !.st = "PREPARED", !.expected = Expected(o)]
  IN
  /\ job[h].pc = "fresh"
  /\ UNCHANGED gameVars
  /\ \/ Ends(h) /\ UNCHANGED <<journal, spent>>
     \/ /\ World = job[h].seen /\ Unresolved \subseteq {o}
        /\ \/ o \in Goods /\ (Saves(h, row, "loop") \/ Throws(h, row))
           \/ /\ o \in Ships /\ ~job[h].continues
              /\ IF aboard >= Want THEN Saves(h, [row EXCEPT !.st = "COMPLETE"], "end")
                                   ELSE Saves(h, row, "loop")
           \/ /\ job[h].continues
              /\ IF journal[o].st = "READY" /\ journal[o].expected = World
                   THEN /\ Goes(h, [job[h] EXCEPT !.pc = "loop", !.row = journal[o]])
                        /\ Keeps /\ UNCHANGED <<journal, spent>>
                   ELSE Throws(h, journal[o])

\* The plan of the next move, or the end.
Plan(h) ==
  LET o == job[h].op
      row == job[h].row
  IN
  /\ job[h].pc = "loop"
  /\ UNCHANGED gameVars
  /\ \/ Throws(h, row)
     \/ /\ IF o \in Ships THEN World = row.expected ELSE gen = job[h].seen.gen
        /\ \/ /\ aboard >= Want \/ (o \in Goods /\ stock = 0)
              /\ Saves(h, [row EXCEPT !.st = "COMPLETE"], "end")
           \/ /\ aboard < Want /\ stock > 0
              /\ Goes(h, [job[h] EXCEPT !.pc = "before", !.seen = World])
              /\ Keeps /\ UNCHANGED <<journal, spent>>

\* The durable fence, once a second read sees what the plan saw.
Fenced(row) == [row EXCEPT !.st = "PENDING", !.acted = TRUE,
                           !.move = [st |-> "PENDING", stock |-> stock, aboard |-> aboard]]
Fence(h) ==
  /\ job[h].pc = "before"
  /\ UNCHANGED gameVars
  /\ \/ Throws(h, job[h].row)
     \/ World = job[h].seen /\ Saves(h, Fenced(job[h].row), "fenced")

\* dispatch() reads again and may then not send.
Send(h) ==
  /\ job[h].pc = "fenced"
  /\ \/ /\ lease = h /\ Unresolved \subseteq {job[h].op}
        /\ stock > 0 /\ (job[h].op \in Ships => World = job[h].seen)
        /\ Goes(h, [job[h] EXCEPT !.pc = "sent"])
     \/ Goes(h, [job[h] EXCEPT !.pc = "after"])
  /\ Keeps /\ UNCHANGED <<gameVars, journal, spent>>

Moves == stock > 0 /\ stock' = stock - 1 /\ aboard' = aboard + 1

\* The move is carried out or declined, or not answered in time.
Answered(h) ==
  /\ job[h].pc = "sent"
  /\ Goes(h, [job[h] EXCEPT !.pc = "after"])
  /\ \/ Moves /\ UNCHANGED <<late, spent>>
     \/ UNCHANGED <<stock, aboard, late, spent>>
     \/ /\ Mishap
        /\ late' = [late EXCEPT ![job[h].op] = @ + 1]
        /\ UNCHANGED <<stock, aboard>>
  /\ Keeps /\ UNCHANGED <<gen, stray, strayed, journal>>

ProvedBySource(move) == stock = move.stock - 1

\* verifyMovement() and proveShipAction(): one less in stock and one more aboard.
Proved(move) == stock = move.stock - 1 /\ aboard = move.aboard + 1

Advanced(o, row) == [row EXCEPT !.st = "PREPARED", !.move = NoMove, !.expected = Expected(o)]
Ambiguous(row)   == [row EXCEPT !.st = "BLOCKED", !.move.st = "AMBIGUOUS"]

\* The read after the move, whatever its answer was.
After(h) ==
  LET row == job[h].row IN
  /\ job[h].pc = "after"
  /\ UNCHANGED gameVars
  /\ \/ Throws(h, row)
     \/ Proved(row.move) /\ Saves(h, Advanced(job[h].op, row), "loop")
     \/ ~Proved(row.move) /\ Saves(h, Ambiguous(row), "end")

(***************************************************************************)
(* reconcile() and reconcileShip(): what is there is read, nothing is sent *)
(***************************************************************************)

Reconcile(h, o) ==
  /\ job[h] = Idle
  /\ journal[o].st # "none"
  /\ MayReserve(TRUE)
  /\ lease' = h
  /\ Goes(h, [Idle EXCEPT !.pc = "evidence", !.op = o, !.row = journal[o]])
  /\ UNCHANGED <<gameVars, journal, reviews, writes, spent>>

\* Of a replenishment, also of one that is over.
Evidence(h) ==
  LET o == job[h].op
      row == job[h].row
  IN
  /\ job[h].pc = "evidence" /\ o \in Goods
  /\ Ends(h)
  /\ \/ UNCHANGED <<journal, spent>>
     \/ /\ Put(o, IF row.move.st = "none" \/ Proved(row.move)
                     THEN [row EXCEPT !.st = "RECONCILED", !.move = NoMove] ELSE Ambiguous(row))
        /\ UNCHANGED spent
  /\ UNCHANGED gameVars

Over(row) == row.st \in {"COMPLETE", "REFUSED"}

\* The catch of reconcileShip().
ThrowsOpen(h, row) ==
  /\ Ends(h) /\ UNCHANGED spent
  /\ IF Over(row) THEN UNCHANGED journal
                  ELSE UNCHANGED journal \/ Put(job[h].op, [row EXCEPT !.st = "BLOCKED"])

EvidenceOfShip(h) ==
  LET o == job[h].op
      row == job[h].row
  IN
  /\ job[h].pc = "evidence" /\ o \in Ships
  /\ UNCHANGED <<gameVars, spent>>
  /\ \/ ThrowsOpen(h, row)
     \/ /\ row.move.st = "none"
        /\ [World EXCEPT !.gen = 0] = [row.expected EXCEPT !.gen = 0]
        /\ Goes(h, [job[h] EXCEPT !.pc = "proven"]) /\ Keeps /\ UNCHANGED journal
     \/ /\ row.move.st # "none" /\ Proved(row.move)
        /\ Put(o, Advanced(o, row))
        /\ Goes(h, [job[h] EXCEPT !.pc = "proven", !.row = Advanced(o, row)]) /\ Keeps
     \/ /\ row.move.st # "none" /\ ~Proved(row.move)
        /\ Put(o, Ambiguous(row)) /\ Ends(h)

\* The hull is read once more; what is seen is what the next review must see.
Proven(h) ==
  LET row == job[h].row IN
  /\ job[h].pc = "proven"
  /\ UNCHANGED <<gameVars, spent>>
  /\ \/ ThrowsOpen(h, row)
     \/ /\ Put(job[h].op, [row EXCEPT !.expected = World,
                                      !.st = IF Over(row) THEN @ ELSE "READY"])
        /\ Ends(h)

(***************************************************************************)
(* The page's own writes, other changes, other players, the process        *)
(***************************************************************************)

\* enterWrite(): a write joins those under way.
WriteBegins ==
  /\ Writable /\ lease \in {None, "write"} /\ Mishap
  /\ lease' = "write" /\ writes' = writes + 1
  /\ UNCHANGED <<gameVars, journal, reviews, job>>

MayShift == \/ Moves
            \/ aboard > 0 /\ aboard' = aboard - 1 /\ stock' = stock + 1

\* A write is carried out, refused or given up on; the last lets the pilot go.
WriteEnds ==
  /\ writes > 0
  /\ writes' = writes - 1
  /\ lease' = IF writes = 1 /\ lease = "write" THEN None ELSE lease
  /\ \/ MayShift /\ UNCHANGED <<stray, spent>>
     \/ UNCHANGED <<stock, aboard, stray, spent>>
     \/ Mishap /\ stray' = stray + 1 /\ UNCHANGED <<stock, aboard>>
  /\ UNCHANGED <<gen, late, strayed, journal, reviews, job>>

\* A write under another reservation has none of its own and may outlive it.
WriteUncovered ==
  /\ Writable /\ lease = "change"
  /\ Mishap /\ stray' = stray + 1
  /\ UNCHANGED <<stock, aboard, gen, late, strayed, journal, memVars>>

StrayCarried ==
  /\ stray > 0 /\ stray' = stray - 1
  /\ MayShift
  /\ strayed' = (strayed \/ \E o \in Ops : journal[o].move.st # "none")
  /\ UNCHANGED <<gen, late, journal, memVars, spent>>

LateCarried(o) ==
  /\ late[o] > 0 /\ late' = [late EXCEPT ![o] = @ - 1]
  /\ Moves
  /\ UNCHANGED <<gen, stray, strayed, journal, memVars, spent>>

\* The stock may be a corporation's, which others take from.
OthersTake ==
  /\ stock > 0 /\ stock' = stock - 1 /\ Mishap
  /\ UNCHANGED <<aboard, gen, late, stray, strayed, journal, memVars>>

\* A selection, an export, a hosted start: a reservation of another kind.
ChangeBegins ==
  /\ lease = None /\ Mishap
  /\ lease' = "change"
  /\ UNCHANGED <<gameVars, journal, reviews, writes, job>>

ChangeEnds ==
  /\ lease = "change" /\ lease' = None
  /\ gen' \in {gen, gen + 1}
  /\ UNCHANGED <<stock, aboard, late, stray, strayed, journal, reviews, writes, job, spent>>

\* The process ends: what was sent may be carried out yet, the journal is read
\* again and the pilot selected anew.
Crash ==
  /\ Mishap
  /\ late' = [o \in Ops |-> late[o] + Cardinality({h \in Handlers : job[h].pc = "sent" /\ job[h].op = o})]
  /\ stray' \in stray..(stray + writes)
  /\ gen' = gen + 1
  /\ reviews' = {} /\ lease' = None /\ writes' = 0
  /\ job' = [h \in Handlers |-> Idle]
  /\ UNCHANGED <<stock, aboard, strayed, journal>>

Works(h) == \/ Fresh(h) \/ Plan(h) \/ Fence(h) \/ Send(h) \/ Answered(h) \/ After(h)
            \/ Evidence(h) \/ EvidenceOfShip(h) \/ Proven(h)

Next ==
  \/ \E o \in Ops : Review(o) \/ ReviewShip(o) \/ ReviewContinued(o) \/ LateCarried(o)
  \/ \E h \in Handlers : \/ \E r \in reviews : Apply(h, r)
                          \/ \E o \in Ops : Reconcile(h, o)
                          \/ Works(h)
  \/ WriteBegins \/ WriteEnds \/ WriteUncovered \/ StrayCarried
  \/ OthersTake \/ ChangeBegins \/ ChangeEnds \/ Crash

Spec == Init /\ [][Next]_vars

\* Calls of the game server are answered or given up on, and what waits for one goes on.
FairSpec == Spec /\ WF_vars(WriteEnds) /\ WF_vars(ChangeEnds)
                 /\ \A h \in Handlers : WF_vars(Works(h))

(***************************************************************************)
(* Properties                                                              *)
(***************************************************************************)

Rows == [st : {"none", "PREPARED", "PENDING", "BLOCKED", "READY", "COMPLETE", "REFUSED", "RECONCILED"},
         move : [st : {"none", "PENDING", "AMBIGUOUS"}, stock : Nat, aboard : Nat],
         acted : BOOLEAN, expected : [stock : Nat, aboard : Nat, gen : Nat]]

\* Every variable holds what its place in the code can hold.
TypeOK ==
  /\ stock \in Nat /\ aboard \in Nat /\ gen \in Nat
  /\ late \in [Ops -> Nat] /\ stray \in Nat /\ strayed \in BOOLEAN
  /\ journal \in [Ops -> Rows]
  /\ reviews \subseteq [op : Ops, continues : BOOLEAN, seen : [stock : Nat, aboard : Nat, gen : Nat]]
  /\ lease \in Handlers \cup {None, "write", "change"} /\ writes \in Nat
  /\ job \in [Handlers -> [pc : {"idle", "fresh", "loop", "before", "fenced", "sent", "after", "evidence", "proven"},
                           op : Ops \cup {None}, row : Rows, continues : BOOLEAN,
                           seen : [stock : Nat, aboard : Nat, gen : Nat]]]
  /\ spent \in Nat

\* A move of the operation may still be carried out.
SentBy(h, o) == job[h].pc = "sent" /\ job[h].op = o
Out(o) == late[o] > 0 \/ \E h \in Handlers : SentBy(h, o)

\* A move that may still be carried out has its operation unresolved on disk, with that
\* move not proved, and there is no other such move of the pilot: none is sent twice, or
\* after another one whose outcome is not known, over crashes, journals that cannot be
\* written and moves given up on (replenishment.js, "Durable fence BEFORE gateway
\* dispatch"; "may read evidence, but never automatically resend").  Only a write of the
\* page that outlived its reservation can pass for the move's own effect.
CustodyKept ==
  ~strayed =>
    \A o \in Ops :
      /\ Out(o) => Open(o) /\ journal[o].move.st # "none"
      /\ Out(o) => \A p \in Ops \ {o} : ~Out(p)
      /\ late[o] <= 1 /\ (late[o] = 1 => \A h \in Handlers : ~SentBy(h, o))

\* No move brings more aboard than was wanted, however late it is carried out (apply and
\* reconcile, which plan from what they read).  Only as long as no write of the page was
\* carried out beside a move not accounted for (strayed): after one, what is read can pass
\* for the move's own effect.
NeverTooMuch ==
  [][~strayed /\ aboard' > aboard /\ <<late, job>>' # <<late, job>> => aboard' <= Want]_vars

\* A handler's reservation is let go, also when a read, a save or the move itself fails.
CustodyLetGo == \A h \in Handlers : lease = h ~> lease # h
=============================================================================
