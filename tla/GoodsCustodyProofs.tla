------------------------- MODULE GoodsCustodyProofs -------------------------
(***************************************************************************)
(* Proofs about GoodsCustody, for any operations, handlers, wants and      *)
(* mishaps: the types, that a move which may still be carried out is the   *)
(* only one and fenced on disk, and that no move brings too much aboard.   *)
(***************************************************************************)
EXTENDS GoodsCustody, FiniteSetTheorems, TLAPS

\* Who works has the reservation, writes share another, and what is open leaves no
\* room for writes; a review of a replenishment is never of one to go on with.
Reserved ==
  /\ \A h \in Handlers : IF lease = h THEN job[h].pc # "idle" /\ job[h].op \in Ops ELSE job[h] = Idle
  /\ writes > 0 => lease = "write"
  /\ lease = "write" => Unresolved = {}
  /\ \A r \in reviews : r.continues => r.op \in Ships

\* A move on disk keeps its operation open, was made of what was not yet enough, and is
\* never taken for a refusal.
RowFences(row) ==
  row.move.st # "none" => row.st \in {"PENDING", "BLOCKED"} /\ row.acted /\ row.move.aboard < Want
Fences == \A o \in Ops : RowFences(journal[o])

\* What a handler has in hand at each of its places.
InHandOf(j) ==
  /\ j.pc = "fresh" => IF j.continues THEN j.op \in Ships ELSE journal[j.op].st = "none"
  /\ j.pc \notin {"idle", "fresh"} => j.row = journal[j.op]
  /\ j.pc \in {"loop", "before", "proven"} => j.row.move.st = "none"
  /\ j.pc \in {"fenced", "sent", "after"} => j.row.move.st # "none"
  /\ j.pc \in {"loop", "before", "fenced", "sent", "after"} => Unresolved \subseteq {j.op}
  /\ j.pc = "before" => j.seen.aboard < Want
InHand == \A h \in Handlers : InHandOf(job[h])

\* A move that may be sent or carried out yet: of one operation, once, the move on disk,
\* and with nothing come aboard since it was written there.
FencedBy(h, o) == job[h].pc \in {"fenced", "sent"} /\ job[h].op = o
AtStake(o) == late[o] > 0 \/ \E h \in Handlers : FencedBy(h, o)
Alone == ~strayed =>
  /\ \A o \in Ops : AtStake(o) => journal[o].move.st # "none" /\ aboard = journal[o].move.aboard
  /\ \A o, p \in Ops : AtStake(o) /\ AtStake(p) => o = p
  /\ \A o \in Ops : late[o] <= 1 /\ (late[o] = 1 => \A h \in Handlers : ~FencedBy(h, o))

Kept == TypeOK /\ Reserved /\ Fences /\ InHand /\ Alone

Sights == [stock : Nat, aboard : Nat, gen : Nat]
MoveSet == [st : {"none", "PENDING", "AMBIGUOUS"}, stock : Nat, aboard : Nat]
Jobs == [pc : {"idle", "fresh", "loop", "before", "fenced", "sent", "after", "evidence", "proven"},
         op : Ops \cup {None}, row : Rows, continues : BOOLEAN, seen : Sights]

\* Where the records of the state are, field by field.
LEMMA RowFields ==
  ASSUME NEW row \in Rows
  PROVE  /\ row.st \in {"none", "PREPARED", "PENDING", "BLOCKED", "READY", "COMPLETE", "REFUSED", "RECONCILED"}
         /\ row.move \in MoveSet /\ row.move.aboard \in Nat /\ row.move.stock \in Nat
         /\ row.move.st \in {"none", "PENDING", "AMBIGUOUS"}
         /\ row.acted \in BOOLEAN /\ row.expected \in Sights
BY DEF Rows, MoveSet, Sights

LEMMA JobFields ==
  ASSUME NEW j \in Jobs
  PROVE  /\ j.pc \in {"idle", "fresh", "loop", "before", "fenced", "sent", "after", "evidence", "proven"}
         /\ j.op \in Ops \cup {None} /\ j.row \in Rows /\ j.continues \in BOOLEAN /\ j.seen \in Sights
         /\ j.seen.aboard \in Nat
BY DEF Jobs, Sights

LEMMA Blank ==
  /\ NoRow \in Rows /\ NoRow.st = "none" /\ NoRow.move.st = "none" /\ NoMove \in MoveSet
  /\ Unseen \in Sights
  /\ Idle \in Jobs /\ Idle.pc = "idle" /\ Idle.op = None /\ Idle.continues = FALSE
<1>1. NoMove \in MoveSet /\ NoMove.st = "none" BY DEF NoMove, MoveSet
<1>2. Unseen \in Sights BY DEF Unseen, Sights
<1>3. NoRow \in Rows /\ NoRow.st = "none" /\ NoRow.move.st = "none"
  BY <1>1, <1>2 DEF NoRow, Rows, MoveSet, Sights
<1>4. Idle \in Jobs /\ Idle.pc = "idle" /\ Idle.op = None /\ Idle.continues = FALSE
  BY <1>2, <1>3 DEF Idle, Jobs
<1> QED BY <1>1, <1>2, <1>3, <1>4

\* A job at another place, with another row.
LEMMA JobWritten ==
  ASSUME NEW j \in Jobs,
         NEW pc \in {"fresh", "loop", "before", "fenced", "sent", "after", "evidence", "proven"},
         NEW row \in Rows, NEW sight \in Sights
  PROVE  /\ [j EXCEPT !.pc = pc] \in Jobs /\ [j EXCEPT !.pc = pc].pc = pc
         /\ [j EXCEPT !.pc = pc].op = j.op /\ [j EXCEPT !.pc = pc].row = j.row
         /\ [j EXCEPT !.pc = pc, !.row = row] \in Jobs /\ [j EXCEPT !.pc = pc, !.row = row].pc = pc
         /\ [j EXCEPT !.pc = pc, !.row = row].op = j.op /\ [j EXCEPT !.pc = pc, !.row = row].row = row
         /\ [j EXCEPT !.pc = pc, !.seen = sight] \in Jobs /\ [j EXCEPT !.pc = pc, !.seen = sight].pc = pc
         /\ [j EXCEPT !.pc = pc, !.seen = sight].op = j.op
         /\ [j EXCEPT !.pc = pc, !.seen = sight].row = j.row
         /\ [j EXCEPT !.pc = pc, !.seen = sight].seen = sight
BY DEF Jobs

LEMMA Types ==
  ASSUME TypeOK
  PROVE  /\ World \in Sights /\ World.aboard = aboard
         /\ \A o \in Ops : Expected(o) \in Sights /\ journal[o] \in Rows /\ late[o] \in Nat
         /\ \A h \in Handlers : job[h] \in Jobs
         /\ job \in [Handlers -> Jobs]
BY Blank DEF TypeOK, World, Expected, Sights, Jobs

\* What each rewriting of a row makes of it.
LEMMA CaughtIs ==
  ASSUME NEW row \in Rows, NEW o \in Ops
  PROVE  /\ Caught(o, row) \in Rows /\ Caught(o, row).move = row.move
         /\ RowFences(row) => RowFences(Caught(o, row))
<1>1. Caught(o, row) \in Rows /\ Caught(o, row).move = row.move /\ Caught(o, row).acted = row.acted
      /\ Caught(o, row).st = IF (IF o \in Ships THEN row.acted ELSE row.move.st # "none")
                             THEN "BLOCKED" ELSE "REFUSED"
  BY DEF Caught, Rows
<1> QED BY <1>1, RowFields DEF RowFences

LEMMA FencedIs ==
  ASSUME TypeOK, NEW row \in Rows
  PROVE  /\ Fenced(row) \in Rows /\ Fenced(row).st = "PENDING" /\ Fenced(row).acted
         /\ Fenced(row).move.st = "PENDING" /\ Fenced(row).move.aboard = aboard
<1>1. stock \in Nat /\ aboard \in Nat BY DEF TypeOK
<1>2. [st |-> "PENDING", stock |-> stock, aboard |-> aboard] \in MoveSet BY <1>1 DEF MoveSet
<1> QED BY <1>1, <1>2 DEF Fenced, Rows, MoveSet

LEMMA AdvancedIs ==
  ASSUME TypeOK, NEW row \in Rows, NEW o \in Ops
  PROVE  Advanced(o, row) \in Rows /\ Advanced(o, row).move.st = "none"
<1>1. Expected(o) \in Sights BY Types
<1> QED BY <1>1, Blank DEF Advanced, Rows, MoveSet, Sights, NoMove

LEMMA AmbiguousIs ==
  ASSUME NEW row \in Rows
  PROVE  /\ Ambiguous(row) \in Rows /\ Ambiguous(row).st = "BLOCKED"
         /\ Ambiguous(row).move.st = "AMBIGUOUS" /\ Ambiguous(row).move.aboard = row.move.aboard
         /\ Ambiguous(row).acted = row.acted
BY DEF Ambiguous, Rows

LEMMA RewrittenIs ==
  ASSUME TypeOK, NEW row \in Rows,
         NEW st \in {"PREPARED", "BLOCKED", "READY", "COMPLETE", "REFUSED"}
  PROVE  /\ [row EXCEPT !.st = st] \in Rows /\ [row EXCEPT !.st = st].move = row.move
         /\ [row EXCEPT !.st = st].st = st /\ [row EXCEPT !.st = st].acted = row.acted
         /\ [row EXCEPT !.expected = World, !.st = st] \in Rows
         /\ [row EXCEPT !.expected = World, !.st = st].move = row.move
         /\ [row EXCEPT !.st = "RECONCILED", !.move = NoMove] \in Rows
         /\ [row EXCEPT !.st = "RECONCILED", !.move = NoMove].move.st = "none"
<1>1. World \in Sights BY Types
<1> QED BY <1>1, Blank DEF Rows, Sights, MoveSet, NoMove

\* What a handler's step does to the disk, its own place and the reservation: a row it
\* writes still has the move that is at stake, and where it goes it has in hand what it
\* should.
Accounted(o, row) == \/ row.move.st # "none" /\ row.move.aboard = journal[o].move.aboard
                     \/ ~strayed => ~AtStake(o)
Fresher(o) == /\ journal'[o].move.st # "none" /\ journal'[o].move.aboard = aboard
              /\ ~strayed => \A p \in Ops : late[p] = 0
Records(o) == \/ journal' = journal
              \/ \E x \in Rows : /\ RowFences(x) /\ Accounted(o, x)
                                 /\ journal' = [journal EXCEPT ![o] = x]
Leaves(h) == job' = [job EXCEPT ![h] = Idle] /\ lease' = None
GoesOn(h) == \E j \in Jobs : /\ job' = [job EXCEPT ![h] = j] /\ lease' = lease
                             /\ j.pc # "idle" /\ j.op = job[h].op /\ InHandOf(j)'
                             /\ j.pc \in {"fenced", "sent"} =>
                                  (job[h].pc = "fenced" /\ journal' = journal) \/ Fresher(j.op)
Handles(h) == Records(job[h].op) /\ (Leaves(h) \/ GoesOn(h)) /\ UNCHANGED <<writes, reviews>>

\* Who is at work.
LEMMA AtWork ==
  ASSUME Kept, NEW h \in Handlers, job[h].pc # "idle"
  PROVE  /\ lease = h /\ job[h].op \in Ops /\ job[h] \in Jobs
         /\ job[h].row \in Rows /\ job[h].seen \in Sights
         /\ journal[job[h].op] \in Rows /\ RowFences(journal[job[h].op])
         /\ InHandOf(job[h])
         /\ \A k \in Handlers \ {h} : job[k] = Idle
<1>1. lease = h /\ job[h].op \in Ops BY Blank DEF Kept, Reserved
<1>2. job[h] \in Jobs /\ journal[job[h].op] \in Rows BY <1>1, Types DEF Kept
<1>3. \A k \in Handlers \ {h} : job[k] = Idle BY <1>1 DEF Kept, Reserved
<1> QED BY <1>1, <1>2, <1>3, JobFields DEF Kept, Fences, InHand

LEMMA Elsewhere ==
  ASSUME TypeOK, NEW o \in Ops, Unresolved \subseteq {o},
         journal' = journal \/ \E x \in Rows : journal' = [journal EXCEPT ![o] = x]
  PROVE  Unresolved' \subseteq {o}
<1>1. \A p \in Ops \ {o} : journal'[p] = journal[p] BY DEF TypeOK
<1> QED BY <1>1 DEF Unresolved, Open

LEMMA PutIs ==
  ASSUME TypeOK, NEW o \in Ops, NEW x \in Rows, Put(o, x)
  PROVE  journal' = [journal EXCEPT ![o] = x] /\ journal'[o] = x
BY DEF Put, TypeOK

\* A row to be kept: in hand, or written where no move is at stake.
Keepable(o, row) == row \in Rows /\ RowFences(row) /\ Accounted(o, row)

LEMMA CaughtKeepable ==
  ASSUME NEW o \in Ops, NEW row, Keepable(o, row)
  PROVE  Keepable(o, Caught(o, row))
BY CaughtIs DEF Keepable, Accounted

LEMMA OwnKeepable ==
  ASSUME Kept, NEW o \in Ops
  PROVE  Keepable(o, journal[o])
<1>1. journal[o] \in Rows /\ RowFences(journal[o]) BY Types DEF Kept, Fences
<1>2. ~strayed /\ AtStake(o) => journal[o].move.st # "none" BY DEF Kept, Alone
<1> QED BY <1>1, <1>2 DEF Keepable, Accounted

LEMMA PutRecords ==
  ASSUME TypeOK, NEW o \in Ops, NEW row, Keepable(o, row), Put(o, row)
  PROVE  Records(o)
BY DEF Put, Keepable, Records

LEMMA EndsDoes ==
  ASSUME NEW h \in Handlers, lease = h, Ends(h)
  PROVE  Leaves(h) /\ UNCHANGED <<writes, reviews>>
BY DEF Ends, Goes, Leaves

LEMMA ThrowsDoes ==
  ASSUME Kept, NEW h \in Handlers, job[h].pc # "idle", NEW row, Keepable(job[h].op, row),
         Throws(h, row)
  PROVE  Handles(h)
<1>1. lease = h /\ job[h].op \in Ops BY AtWork
<1>2. Ends(h) BY DEF Throws
<1>3. Records(job[h].op) BY <1>1, CaughtKeepable, PutRecords DEF Throws, PutFails, Records, Kept
<1> QED BY <1>1, <1>2, <1>3, EndsDoes DEF Handles

LEMMA SavesDoes ==
  ASSUME Kept, NEW h \in Handlers, job[h].pc # "idle", NEW row, Keepable(job[h].op, row),
         NEW next \in {"loop", "fenced", "end"}, Saves(h, row, next),
         next # "end" => Unresolved \subseteq {job[h].op},
         next = "loop" => row.move.st = "none",
         next = "fenced" => /\ row.move.st # "none" /\ row.move.aboard = aboard
                            /\ ~strayed => \A p \in Ops : late[p] = 0
  PROVE  Handles(h)
<1> DEFINE o == job[h].op
           j == [job[h] EXCEPT !.pc = next, !.row = row]
<1>1. lease = h /\ o \in Ops /\ job[h] \in Jobs /\ job[h].seen \in Sights BY AtWork
<1>2. CASE Put(o, row) /\ next = "end" /\ Ends(h)
  BY <1>1, <1>2, EndsDoes, PutRecords DEF Handles, Kept
<1>3. CASE Put(o, row) /\ next # "end" /\ Goes(h, j) /\ Keeps
  <2>1. journal' = [journal EXCEPT ![o] = row] /\ journal'[o] = row /\ row \in Rows
    BY <1>1, <1>3, PutIs DEF Kept, Keepable
  <2>2. Records(o) BY <1>1, <1>3, PutRecords DEF Kept
  <2>3. PICK k \in Jobs : job' = [job EXCEPT ![h] = k] /\ k.pc = next /\ k.op = o /\ k.row = row
    <3>1. j \in Jobs /\ j.pc = next /\ j.op = o /\ j.row = row BY <1>1, <1>3, <2>1 DEF Jobs
    <3> QED BY <1>3, <3>1 DEF Goes
  <2>4. Unresolved' \subseteq {o} BY <1>1, <1>3, <2>1, Elsewhere DEF Kept
  <2>5. InHandOf(k)' BY <1>3, <2>1, <2>3, <2>4 DEF InHandOf
  <2>6. next = "fenced" => Fresher(o) BY <2>1 DEF Fresher
  <2>7. GoesOn(h) BY <1>3, <2>3, <2>5, <2>6 DEF GoesOn, Keeps
  <2> QED BY <1>3, <2>2, <2>7 DEF Handles, Keeps
<1>4. CASE Ends(h) /\ (journal' = journal \/ Put(o, Caught(o, row)))
  BY <1>1, <1>4, EndsDoes, CaughtKeepable, PutRecords DEF Handles, Records, Kept
<1> QED BY <1>2, <1>3, <1>4 DEF Saves

\* A step that writes nothing and goes on with the row it has.
LEMMA GoesDoes ==
  ASSUME Kept, NEW h \in Handlers, job[h].pc # "idle",
         NEW j \in Jobs, Goes(h, j), Keeps, UNCHANGED journal,
         j.op = job[h].op, j.pc # "idle", InHandOf(j),
         j.pc \in {"fenced", "sent"} => job[h].pc = "fenced"
  PROVE  Handles(h)
<1>1. InHandOf(j)' BY DEF InHandOf, Unresolved, Open
<1> QED BY <1>1 DEF Handles, Records, GoesOn, Goes, Keeps

\* Where nothing is at stake: no move on disk, or one that is seen to have been made.
LEMMA NotAtStake ==
  ASSUME Kept, NEW o \in Ops, journal[o].move.st = "none" \/ Proved(journal[o].move)
  PROVE  ~strayed => ~AtStake(o)
<1>1. SUFFICES ASSUME ~strayed, AtStake(o) PROVE FALSE OBVIOUS
<1>2. journal[o].move.st # "none" /\ aboard = journal[o].move.aboard
  BY <1>1 DEF Kept, Alone
<1>3. aboard \in Nat BY DEF Kept, TypeOK
<1> QED BY <1>2, <1>3 DEF Proved

\* A row with no move may be written where nothing is at stake.
LEMMA ClearKeepable ==
  ASSUME Kept, NEW o \in Ops, NEW row \in Rows, row.move.st = "none",
         journal[o].move.st = "none" \/ Proved(journal[o].move)
  PROVE  Keepable(o, row)
BY NotAtStake DEF Keepable, RowFences, Accounted

LEMMA OpenAtStake ==
  ASSUME Kept, NEW o \in Ops, ~strayed, AtStake(o)
  PROVE  o \in Unresolved
<1>1. journal[o].move.st # "none" BY DEF Kept, Alone
<1>2. journal[o].st \in {"PENDING", "BLOCKED"} BY <1>1 DEF Kept, Fences, RowFences
<1> QED BY <1>2 DEF Unresolved, Open

LEMMA FreshDoes ==
  ASSUME Kept, NEW h \in Handlers, Fresh(h)
  PROVE  Handles(h) /\ UNCHANGED gameVars
<1> DEFINE o == job[h].op
           row == [NoRow EXCEPT !.st = "PREPARED", !.expected = Expected(o)]
           done == [row EXCEPT !.st = "COMPLETE"]
<1>0. job[h].pc = "fresh" /\ UNCHANGED gameVars /\ job[h].pc # "idle" BY DEF Fresh
<1>1. lease = h /\ o \in Ops /\ job[h] \in Jobs /\ InHandOf(job[h]) /\ journal[o] \in Rows
  BY <1>0, AtWork
<1>2. row \in Rows /\ row.move.st = "none" /\ done \in Rows /\ done.move.st = "none"
  <2>1. Expected(o) \in Sights BY <1>1, Types DEF Kept
  <2> QED BY <2>1, Blank DEF Rows, Sights
<1>3. ~job[h].continues => Keepable(o, row) /\ Keepable(o, done)
  <2>1. SUFFICES ASSUME ~job[h].continues PROVE Keepable(o, row) /\ Keepable(o, done) OBVIOUS
  <2>2. journal[o].st = "none" BY <1>0, <1>1, <2>1 DEF InHandOf
  <2>3. journal[o].move.st = "none" BY <1>1, <2>2 DEF Kept, Fences, RowFences
  <2> QED BY <1>1, <1>2, <2>3, ClearKeepable
<1>4. o \in Goods => ~job[h].continues BY <1>0, <1>1, CustodyAssumption DEF InHandOf
<1> HIDE DEF row, done
<1>5. CASE Ends(h) /\ UNCHANGED <<journal, spent>>
  BY <1>0, <1>1, <1>5, EndsDoes DEF Handles, Records
<1>6. CASE Unresolved \subseteq {o} /\ ~job[h].continues /\ Saves(h, row, "loop")
  BY <1>0, <1>2, <1>3, <1>6, SavesDoes
<1>7. CASE ~job[h].continues /\ Throws(h, row)
  BY <1>0, <1>3, <1>7, ThrowsDoes
<1>8. CASE ~job[h].continues /\ Saves(h, done, "end")
  BY <1>0, <1>3, <1>8, SavesDoes
<1>9. CASE Throws(h, journal[o])
  BY <1>0, <1>1, <1>9, OwnKeepable, ThrowsDoes
<1>10. CASE /\ journal[o].st = "READY" /\ Unresolved \subseteq {o}
            /\ Goes(h, [job[h] EXCEPT !.pc = "loop", !.row = journal[o]])
            /\ Keeps /\ UNCHANGED <<journal, spent>>
  <2> DEFINE j == [job[h] EXCEPT !.pc = "loop", !.row = journal[o]]
  <2>1. j \in Jobs /\ j.pc = "loop" /\ j.op = o /\ j.row = journal[o] BY <1>1 DEF Jobs
  <2>2. journal[o].move.st = "none" BY <1>1, <1>10 DEF Kept, Fences, RowFences
  <2>3. InHandOf(j) BY <1>10, <2>1, <2>2 DEF InHandOf
  <2> HIDE DEF j
  <2> QED BY <1>0, <1>10, <2>1, <2>3, GoesDoes DEF j
<1>11. Handles(h)
  BY <1>3, <1>4, <1>5, <1>6, <1>7, <1>8, <1>9, <1>10 DEF Fresh, row, done
<1> QED BY <1>0, <1>11

LEMMA PlanDoes ==
  ASSUME Kept, NEW h \in Handlers, Plan(h)
  PROVE  Handles(h) /\ UNCHANGED gameVars
<1> DEFINE o == job[h].op
           row == job[h].row
           done == [row EXCEPT !.st = "COMPLETE"]
           j == [job[h] EXCEPT !.pc = "before", !.seen = World]
<1>0. job[h].pc = "loop" /\ UNCHANGED gameVars /\ job[h].pc # "idle" BY DEF Plan
<1>1. /\ o \in Ops /\ job[h] \in Jobs /\ row = journal[o] /\ row \in Rows /\ row.move.st = "none"
      /\ Unresolved \subseteq {o}
  BY <1>0, AtWork DEF InHandOf
<1>2. done \in Rows /\ done.move.st = "none" BY <1>1 DEF Rows
<1>3. Keepable(o, done) BY <1>1, <1>2, ClearKeepable
<1>4. aboard < Want => j \in Jobs /\ j.pc = "before" /\ j.op = o /\ InHandOf(j)
  <2>1. World \in Sights /\ World.aboard = aboard BY Types DEF Kept
  <2>2. j \in Jobs /\ j.pc = "before" /\ j.op = o /\ j.row = row /\ j.seen = World
    BY <1>1, <2>1 DEF Jobs
  <2> QED BY <1>1, <2>1, <2>2 DEF InHandOf
<1> HIDE DEF done, j
<1>5. CASE Throws(h, row) BY <1>0, <1>1, <1>5, OwnKeepable, ThrowsDoes
<1>6. CASE Saves(h, done, "end") BY <1>0, <1>3, <1>6, SavesDoes
<1>7. CASE aboard < Want /\ Goes(h, j) /\ Keeps /\ UNCHANGED <<journal, spent>>
  BY <1>0, <1>4, <1>7, GoesDoes
<1>8. Handles(h) BY <1>5, <1>6, <1>7 DEF Plan, done, j
<1> QED BY <1>0, <1>8

LEMMA FenceDoes ==
  ASSUME Kept, NEW h \in Handlers, Fence(h)
  PROVE  Handles(h) /\ UNCHANGED gameVars
<1> DEFINE o == job[h].op
           row == job[h].row
<1>0. job[h].pc = "before" /\ UNCHANGED gameVars /\ job[h].pc # "idle" BY DEF Fence
<1>1. /\ o \in Ops /\ row = journal[o] /\ row \in Rows /\ row.move.st = "none"
      /\ Unresolved \subseteq {o} /\ job[h].seen.aboard < Want
  BY <1>0, AtWork DEF InHandOf
<1>2. CASE Throws(h, row) BY <1>0, <1>1, <1>2, OwnKeepable, ThrowsDoes
<1>3. CASE World = job[h].seen /\ Saves(h, Fenced(row), "fenced")
  <2>1. aboard < Want BY <1>1, <1>3 DEF World
  <2>2. ~strayed => ~AtStake(o) BY <1>1, NotAtStake
  <2>3. /\ Fenced(row) \in Rows /\ Fenced(row).st = "PENDING" /\ Fenced(row).acted
        /\ Fenced(row).move.st = "PENDING" /\ Fenced(row).move.aboard = aboard
    BY <1>1, FencedIs DEF Kept
  <2>4. Keepable(o, Fenced(row)) BY <2>1, <2>2, <2>3 DEF Keepable, RowFences, Accounted
  <2>5. ASSUME ~strayed, NEW p \in Ops PROVE late[p] = 0
    <3>1. ~AtStake(p) BY <1>1, <2>2, <2>5, OpenAtStake
    <3> QED BY <3>1, Types DEF AtStake, Kept
  <2> QED BY <1>0, <1>1, <1>3, <2>3, <2>4, <2>5, SavesDoes
<1>4. Handles(h) BY <1>2, <1>3 DEF Fence
<1> QED BY <1>0, <1>4

LEMMA SendDoes ==
  ASSUME Kept, NEW h \in Handlers, Send(h)
  PROVE  Handles(h) /\ UNCHANGED gameVars
<1>0. /\ job[h].pc = "fenced" /\ UNCHANGED gameVars /\ job[h].pc # "idle"
      /\ Keeps /\ UNCHANGED journal
  BY DEF Send
<1>1. job[h] \in Jobs /\ InHandOf(job[h]) BY <1>0, AtWork
<1>2. PICK pc \in {"sent", "after"} : Goes(h, [job[h] EXCEPT !.pc = pc]) BY DEF Send
<1> DEFINE j == [job[h] EXCEPT !.pc = pc]
<1>3. j \in Jobs /\ j.pc = pc /\ j.op = job[h].op /\ j.row = job[h].row BY <1>1 DEF Jobs
<1>4. InHandOf(j) BY <1>0, <1>1, <1>3 DEF InHandOf
<1> HIDE DEF j
<1>5. Goes(h, j) BY <1>2 DEF j
<1> QED BY <1>0, <1>3, <1>4, <1>5, GoesDoes

LEMMA AfterDoes ==
  ASSUME Kept, NEW h \in Handlers, After(h)
  PROVE  Handles(h) /\ UNCHANGED gameVars
<1> DEFINE o == job[h].op
           row == job[h].row
<1>0. job[h].pc = "after" /\ UNCHANGED gameVars /\ job[h].pc # "idle" BY DEF After
<1>1. /\ o \in Ops /\ row = journal[o] /\ row \in Rows /\ row.move.st # "none"
      /\ Unresolved \subseteq {o} /\ RowFences(row)
  BY <1>0, AtWork DEF InHandOf
<1>2. CASE Throws(h, row) BY <1>0, <1>1, <1>2, OwnKeepable, ThrowsDoes
<1>3. CASE Proved(row.move) /\ Saves(h, Advanced(o, row), "loop")
  <2>1. Advanced(o, row) \in Rows /\ Advanced(o, row).move.st = "none"
    BY <1>1, AdvancedIs DEF Kept
  <2>2. Keepable(o, Advanced(o, row)) BY <1>1, <1>3, <2>1, ClearKeepable
  <2> QED BY <1>0, <1>1, <1>3, <2>1, <2>2, SavesDoes
<1>4. CASE Saves(h, Ambiguous(row), "end")
  <2>1. Keepable(o, Ambiguous(row)) BY <1>1, AmbiguousIs DEF Keepable, RowFences, Accounted
  <2> QED BY <1>0, <1>4, <2>1, SavesDoes
<1>5. Handles(h) BY <1>2, <1>3, <1>4 DEF After
<1> QED BY <1>0, <1>5

LEMMA EvidenceDoes ==
  ASSUME Kept, NEW h \in Handlers, Evidence(h)
  PROVE  Handles(h) /\ UNCHANGED gameVars
<1> DEFINE o == job[h].op
           row == job[h].row
           cleared == [row EXCEPT !.st = "RECONCILED", !.move = NoMove]
<1>0. job[h].pc = "evidence" /\ UNCHANGED gameVars /\ job[h].pc # "idle" /\ Ends(h) BY DEF Evidence
<1>1. lease = h /\ o \in Ops /\ row = journal[o] /\ row \in Rows /\ RowFences(row)
  BY <1>0, AtWork DEF InHandOf
<1>2. Leaves(h) /\ UNCHANGED <<writes, reviews>> BY <1>0, <1>1, EndsDoes
<1>3. CASE (row.move.st = "none" \/ Proved(row.move)) /\ Put(o, cleared)
  <2>1. cleared \in Rows /\ cleared.move.st = "none" BY <1>1, RewrittenIs DEF Kept
  <2>2. Keepable(o, cleared) BY <1>1, <1>3, <2>1, ClearKeepable
  <2> QED BY <1>0, <1>1, <1>2, <1>3, <2>2, PutRecords DEF Handles, Kept
<1>4. CASE row.move.st # "none" /\ Put(o, Ambiguous(row))
  <2>1. Keepable(o, Ambiguous(row)) BY <1>1, <1>4, AmbiguousIs DEF Keepable, RowFences, Accounted
  <2> QED BY <1>0, <1>1, <1>2, <1>4, <2>1, PutRecords DEF Handles, Kept
<1>5. CASE UNCHANGED journal BY <1>0, <1>2, <1>5 DEF Handles, Records
<1>6. Handles(h) BY <1>3, <1>4, <1>5 DEF Evidence
<1> QED BY <1>0, <1>6

LEMMA ThrowsOpenDoes ==
  ASSUME Kept, NEW h \in Handlers, job[h].pc # "idle", job[h].row = journal[job[h].op],
         ThrowsOpen(h, job[h].row)
  PROVE  Handles(h)
<1> DEFINE o == job[h].op
           row == job[h].row
<1>1. lease = h /\ o \in Ops /\ row \in Rows /\ RowFences(row) BY AtWork
<1>2. Leaves(h) /\ UNCHANGED <<writes, reviews>> BY <1>1, EndsDoes DEF ThrowsOpen
<1>3. CASE Put(o, [row EXCEPT !.st = "BLOCKED"])
  <2> DEFINE blocked == [row EXCEPT !.st = "BLOCKED"]
  <2>1. /\ blocked \in Rows /\ blocked.move = row.move /\ blocked.st = "BLOCKED"
        /\ blocked.acted = row.acted
    BY <1>1, RewrittenIs DEF Kept
  <2>2. Keepable(o, row) BY <1>1, OwnKeepable
  <2> HIDE DEF blocked
  <2>3. Keepable(o, blocked) BY <2>1, <2>2 DEF Keepable, RowFences, Accounted
  <2>4. Put(o, blocked) BY <1>3 DEF blocked
  <2> QED BY <1>1, <1>2, <2>3, <2>4, PutRecords DEF Handles, Kept
<1>4. CASE UNCHANGED journal BY <1>2, <1>4 DEF Handles, Records
<1> QED BY <1>3, <1>4 DEF ThrowsOpen

LEMMA EvidenceOfShipDoes ==
  ASSUME Kept, NEW h \in Handlers, EvidenceOfShip(h)
  PROVE  Handles(h) /\ UNCHANGED gameVars
<1> DEFINE o == job[h].op
           row == job[h].row
           ahead == Advanced(o, row)
<1>0. job[h].pc = "evidence" /\ UNCHANGED gameVars /\ job[h].pc # "idle" BY DEF EvidenceOfShip
<1>1. lease = h /\ o \in Ops /\ job[h] \in Jobs /\ row = journal[o] /\ row \in Rows /\ RowFences(row)
  BY <1>0, AtWork DEF InHandOf
<1>2. CASE ThrowsOpen(h, row) BY <1>0, <1>1, <1>2, ThrowsOpenDoes
<1>3. CASE /\ row.move.st = "none" /\ Goes(h, [job[h] EXCEPT !.pc = "proven"])
           /\ Keeps /\ UNCHANGED journal
  <2> DEFINE j == [job[h] EXCEPT !.pc = "proven"]
  <2>1. j \in Jobs /\ j.pc = "proven" /\ j.op = o /\ j.row = row BY <1>1 DEF Jobs
  <2>2. InHandOf(j) BY <1>1, <1>3, <2>1 DEF InHandOf
  <2> HIDE DEF j
  <2>3. Goes(h, j) BY <1>3 DEF j
  <2> QED BY <1>0, <1>3, <2>1, <2>2, <2>3, GoesDoes
<1>4. CASE /\ Proved(row.move) /\ Put(o, ahead)
           /\ Goes(h, [job[h] EXCEPT !.pc = "proven", !.row = ahead]) /\ Keeps
  <2>1. ahead \in Rows /\ ahead.move.st = "none" BY <1>1, AdvancedIs DEF Kept
  <2>2. Records(o) BY <1>1, <1>4, <2>1, ClearKeepable, PutRecords DEF Kept
  <2>3. journal'[o] = ahead BY <1>1, <1>4, <2>1, PutIs DEF Kept
  <2>4. PICK k \in Jobs : job' = [job EXCEPT ![h] = k] /\ k.pc = "proven" /\ k.op = o /\ k.row = ahead
    <3> DEFINE j == [job[h] EXCEPT !.pc = "proven", !.row = ahead]
    <3>1. j \in Jobs /\ j.pc = "proven" /\ j.op = o /\ j.row = ahead BY <1>1, <2>1 DEF Jobs
    <3> QED BY <1>4, <3>1 DEF Goes
  <2>5. InHandOf(k)' BY <2>1, <2>3, <2>4 DEF InHandOf
  <2>6. GoesOn(h) BY <1>4, <2>4, <2>5 DEF GoesOn, Keeps
  <2> QED BY <1>0, <1>4, <2>2, <2>6 DEF Handles, Keeps
<1>5. CASE row.move.st # "none" /\ Put(o, Ambiguous(row)) /\ Ends(h)
  <2>1. Keepable(o, Ambiguous(row)) BY <1>1, <1>5, AmbiguousIs DEF Keepable, RowFences, Accounted
  <2> QED BY <1>0, <1>1, <1>5, <2>1, PutRecords, EndsDoes DEF Handles, Kept
<1>6. Handles(h) BY <1>2, <1>3, <1>4, <1>5 DEF EvidenceOfShip
<1> QED BY <1>0, <1>6

LEMMA ProvenDoes ==
  ASSUME Kept, NEW h \in Handlers, Proven(h)
  PROVE  Handles(h) /\ UNCHANGED gameVars
<1> DEFINE o == job[h].op
           row == job[h].row
           told == [row EXCEPT !.expected = World, !.st = IF Over(row) THEN @ ELSE "READY"]
<1>0. job[h].pc = "proven" /\ UNCHANGED gameVars /\ job[h].pc # "idle" BY DEF Proven
<1>1. lease = h /\ o \in Ops /\ row = journal[o] /\ row \in Rows /\ row.move.st = "none"
  BY <1>0, AtWork DEF InHandOf
<1>2. CASE ThrowsOpen(h, row) BY <1>0, <1>1, <1>2, ThrowsOpenDoes
<1>3. CASE Put(o, told) /\ Ends(h)
  <2>1. told \in Rows /\ told.move.st = "none"
    <3>1. World \in Sights BY Types DEF Kept
    <3> QED BY <1>1, <3>1 DEF Rows, Sights
  <2>2. Keepable(o, told) BY <1>1, <2>1, ClearKeepable
  <2> HIDE DEF told
  <2> QED BY <1>0, <1>1, <1>3, <2>2, PutRecords, EndsDoes DEF Handles, Kept
<1>4. Handles(h) BY <1>2, <1>3 DEF Proven
<1> QED BY <1>0, <1>4

\* A move is answered: made, declined, or given up on with its outcome not known.
LEMMA AnsweredDoes ==
  ASSUME Kept, NEW h \in Handlers, Answered(h)
  PROVE  /\ Handles(h) /\ UNCHANGED <<gen, stray, strayed, journal>>
         /\ job[h].pc = "sent" /\ \E j \in Jobs : job' = [job EXCEPT ![h] = j] /\ j.pc = "after"
         /\ \/ Moves /\ UNCHANGED late
            \/ UNCHANGED <<stock, aboard, late>>
            \/ late' = [late EXCEPT ![job[h].op] = @ + 1] /\ UNCHANGED <<stock, aboard>>
<1>0. job[h].pc = "sent" /\ job[h].pc # "idle" /\ Keeps /\ UNCHANGED journal BY DEF Answered
<1>1. job[h] \in Jobs /\ InHandOf(job[h]) BY <1>0, AtWork
<1> DEFINE j == [job[h] EXCEPT !.pc = "after"]
<1>2. j \in Jobs /\ j.pc = "after" /\ j.op = job[h].op /\ j.row = job[h].row BY <1>1 DEF Jobs
<1>3. InHandOf(j) BY <1>0, <1>1, <1>2 DEF InHandOf
<1>4. Goes(h, j) BY DEF Answered
<1> HIDE DEF j
<1>5. Handles(h) BY <1>0, <1>2, <1>3, <1>4, GoesDoes
<1> QED BY <1>0, <1>2, <1>4, <1>5 DEF Answered, Goes

\* A handler at a place of its own, and everyone else at none.
LEMMA GoesOnIs ==
  ASSUME Kept, NEW h \in Handlers, job[h].pc # "idle", Leaves(h) \/ GoesOn(h)
  PROVE  /\ job' \in [Handlers -> Jobs] /\ \A k \in Handlers \ {h} : job'[k] = Idle
         /\ \/ job'[h] = Idle /\ lease' = None
            \/ /\ lease' = h /\ job'[h].pc # "idle" /\ job'[h].op = job[h].op /\ InHandOf(job[h])'
               /\ job'[h].pc \in {"fenced", "sent"} =>
                    (job[h].pc = "fenced" /\ journal' = journal) \/ Fresher(job[h].op)
<1>1. lease = h /\ (\A k \in Handlers \ {h} : job[k] = Idle) BY AtWork
<1>2. job \in [Handlers -> Jobs] BY Types DEF Kept
<1>3. CASE Leaves(h) BY <1>1, <1>2, <1>3, Blank DEF Leaves
<1>4. CASE GoesOn(h)
  <2>1. PICK j \in Jobs : /\ job' = [job EXCEPT ![h] = j] /\ lease' = lease
                          /\ j.pc # "idle" /\ j.op = job[h].op /\ InHandOf(j)'
                          /\ j.pc \in {"fenced", "sent"} =>
                               (job[h].pc = "fenced" /\ journal' = journal) \/ Fresher(j.op)
    BY <1>4 DEF GoesOn
  <2>2. job'[h] = j BY <1>2, <2>1
  <2>3. InHandOf(job[h])' BY <2>1, <2>2 DEF InHandOf
  <2> QED BY <1>1, <1>2, <2>1, <2>2, <2>3
<1> QED BY <1>3, <1>4

LEMMA RecordsIs ==
  ASSUME Kept, NEW o \in Ops, Records(o)
  PROVE  /\ journal' \in [Ops -> Rows] /\ \A p \in Ops \ {o} : journal'[p] = journal[p]
         /\ RowFences(journal'[o])
         /\ journal'[o] = journal[o] \/ Accounted(o, journal'[o])
<1>1. journal \in [Ops -> Rows] /\ RowFences(journal[o]) BY DEF Kept, TypeOK, Fences
<1> QED BY <1>1 DEF Records

LEMMA HandlesTyped ==
  ASSUME Kept, NEW h \in Handlers, job[h].pc # "idle", Handles(h), UNCHANGED gameVars, spent' \in Nat
  PROVE  TypeOK'
<1>1. lease = h /\ job[h].op \in Ops BY AtWork
<1>2. job' \in [Handlers -> Jobs] /\ (lease' = h \/ lease' = None) BY GoesOnIs DEF Handles
<1>3. journal' \in [Ops -> Rows] BY <1>1, RecordsIs DEF Handles
<1> QED BY <1>2, <1>3 DEF Kept, TypeOK, Jobs, Sights, Handles, gameVars

LEMMA HandlesReserved ==
  ASSUME Kept, NEW h \in Handlers, job[h].pc # "idle", Handles(h)
  PROVE  Reserved'
<1>1. lease = h /\ job[h].op \in Ops BY AtWork
<1>2. /\ \A k \in Handlers \ {h} : job'[k] = Idle
      /\ (job'[h] = Idle /\ lease' = None) \/ (lease' = h /\ job'[h].pc # "idle" /\ job'[h].op \in Ops)
  BY <1>1, GoesOnIs DEF Handles
<1>3. lease' # "write" BY <1>2, CustodyAssumption
<1>4. ~(writes > 0) BY <1>1, CustodyAssumption DEF Kept, Reserved
<1>5. UNCHANGED <<writes, reviews>> BY DEF Handles
<1>6. \A k \in Handlers : IF lease' = k THEN job'[k].pc # "idle" /\ job'[k].op \in Ops ELSE job'[k] = Idle
  BY <1>2, CustodyAssumption
<1>7. \A r \in reviews : r.continues => r.op \in Ships BY DEF Kept, Reserved
<1> QED BY <1>3, <1>4, <1>5, <1>6, <1>7 DEF Reserved

LEMMA HandlesFences ==
  ASSUME Kept, NEW h \in Handlers, job[h].pc # "idle", Handles(h)
  PROVE  Fences'
<1>1. job[h].op \in Ops BY AtWork
<1>2. \A p \in Ops : RowFences(journal'[p]) BY <1>1, RecordsIs DEF Handles, Kept, Fences
<1> QED BY <1>2 DEF Fences, RowFences

LEMMA HandlesInHand ==
  ASSUME Kept, NEW h \in Handlers, job[h].pc # "idle", Handles(h)
  PROVE  InHand'
<1>1. (\A k \in Handlers \ {h} : job'[k] = Idle) /\ (job'[h] = Idle \/ InHandOf(job[h])')
  BY GoesOnIs DEF Handles
<1>2. ASSUME NEW k \in Handlers, job'[k] = Idle PROVE InHandOf(job[k])'
  BY <1>2, Blank DEF InHandOf
<1> QED BY <1>1, <1>2 DEF InHand

LEMMA HandlesAlone ==
  ASSUME Kept, NEW h \in Handlers, job[h].pc # "idle", Handles(h), UNCHANGED gameVars
  PROVE  Alone'
<1> DEFINE o == job[h].op
<1>1. SUFFICES ASSUME ~strayed
               PROVE  /\ \A p \in Ops : AtStake(p)' => journal'[p].move.st # "none" /\ aboard' = journal'[p].move.aboard
                      /\ \A p, q \in Ops : AtStake(p)' /\ AtStake(q)' => p = q
                      /\ \A p \in Ops : late'[p] <= 1 /\ (late'[p] = 1 => \A k \in Handlers : ~FencedBy(k, p)')
  BY DEF Alone, gameVars
<1>2. o \in Ops /\ \A k \in Handlers \ {h} : job[k] = Idle BY AtWork
<1>3. /\ \A k \in Handlers \ {h} : job'[k] = Idle
      /\ job'[h] = Idle \/ (job'[h].op = o /\ (job'[h].pc \in {"fenced", "sent"} =>
           (job[h].pc = "fenced" /\ journal' = journal) \/ Fresher(o)))
  BY GoesOnIs DEF Handles
<1>4. late' = late /\ aboard' = aboard /\ \A p \in Ops : late[p] \in Nat BY Types DEF gameVars, Kept
<1>5. \A p \in Ops, k \in Handlers : FencedBy(k, p)' => k = h /\ p = o /\ job'[h].pc \in {"fenced", "sent"}
  BY <1>3, Blank DEF FencedBy
<1>6. /\ \A p \in Ops : AtStake(p) => journal[p].move.st # "none" /\ aboard = journal[p].move.aboard
      /\ \A p, q \in Ops : AtStake(p) /\ AtStake(q) => p = q
      /\ \A p \in Ops : late[p] <= 1 /\ (late[p] = 1 => \A k \in Handlers : ~FencedBy(k, p))
  BY <1>1 DEF Kept, Alone
<1>7. \A p \in Ops : AtStake(p) => journal'[p].move.st # "none" /\ aboard = journal'[p].move.aboard
  <2>1. /\ \A p \in Ops \ {o} : journal'[p] = journal[p]
        /\ journal'[o] = journal[o] \/ Accounted(o, journal'[o])
    BY <1>2, RecordsIs DEF Handles
  <2> QED BY <1>1, <1>2, <1>6, <2>1 DEF Accounted
<1>8. CASE job'[h].pc \in {"fenced", "sent"} /\ Fresher(o)
  <2>1. /\ journal'[o].move.st # "none" /\ journal'[o].move.aboard = aboard
        /\ \A p \in Ops : late[p] = 0
    BY <1>1, <1>8 DEF Fresher
  <2>2. \A p \in Ops : AtStake(p)' => p = o BY <1>4, <1>5, <2>1 DEF AtStake
  <2> QED BY <1>4, <2>1, <2>2
<1>9. CASE job'[h].pc \in {"fenced", "sent"} => job[h].pc = "fenced"
  <2>1. \A p \in Ops, k \in Handlers : FencedBy(k, p)' => FencedBy(k, p) BY <1>5, <1>9 DEF FencedBy
  <2>2. \A p \in Ops : AtStake(p)' => AtStake(p) BY <1>4, <2>1 DEF AtStake
  <2> QED BY <1>4, <1>6, <1>7, <2>1, <2>2
<1> QED BY <1>3, <1>8, <1>9, Blank

\* What a handler does with the game server's state as it was keeps the invariant.
LEMMA HandlesKept ==
  ASSUME Kept, NEW h \in Handlers, job[h].pc # "idle", Handles(h), UNCHANGED gameVars, spent' \in Nat
  PROVE  Kept'
BY HandlesTyped, HandlesReserved, HandlesFences, HandlesInHand, HandlesAlone DEF Kept

LEMMA AnsweredKept ==
  ASSUME Kept, NEW h \in Handlers, Answered(h)
  PROVE  Kept'
<1> DEFINE o == job[h].op
<1>1. /\ Handles(h) /\ UNCHANGED <<gen, stray, strayed, journal>>
      /\ job[h].pc = "sent" /\ \E j \in Jobs : job' = [job EXCEPT ![h] = j] /\ j.pc = "after"
      /\ \/ Moves /\ UNCHANGED late
         \/ UNCHANGED <<stock, aboard, late>>
         \/ late' = [late EXCEPT ![o] = @ + 1] /\ UNCHANGED <<stock, aboard>>
  BY AnsweredDoes
<1>2. Reserved' /\ Fences' /\ InHand' BY <1>1, HandlesReserved, HandlesFences, HandlesInHand
<1>3. lease = h /\ o \in Ops /\ \A k \in Handlers \ {h} : job[k] = Idle BY <1>1, AtWork
<1>4. TypeOK'
  <2>1. spent' \in Nat BY DEF Answered, Mishap, Kept, TypeOK
  <2>2. job' \in [Handlers -> Jobs] /\ (lease' = h \/ lease' = None)
    BY <1>1, GoesOnIs DEF Handles
  <2>3. stock' \in Nat /\ aboard' \in Nat BY <1>1 DEF Moves, Kept, TypeOK
  <2>4. late' \in [Ops -> Nat] BY <1>1, <1>3 DEF Kept, TypeOK
  <2> QED BY <1>1, <2>1, <2>2, <2>3, <2>4 DEF Kept, TypeOK, Jobs, Sights, Handles
<1>5. Alone'
  <2>1. SUFFICES ASSUME ~strayed
                 PROVE  /\ \A p \in Ops : AtStake(p)' => journal'[p].move.st # "none" /\ aboard' = journal'[p].move.aboard
                        /\ \A p, q \in Ops : AtStake(p)' /\ AtStake(q)' => p = q
                        /\ \A p \in Ops : late'[p] <= 1 /\ (late'[p] = 1 => \A k \in Handlers : ~FencedBy(k, p)')
    BY <1>1 DEF Alone
  <2>2. \A k \in Handlers, p \in Ops : ~FencedBy(k, p)'
    <3>1. \A k \in Handlers : job'[k] = Idle \/ job'[k].pc = "after"
      BY <1>1, <1>3, Types DEF Kept
    <3> QED BY <3>1, Blank DEF FencedBy
  <2>3. AtStake(o) BY <1>1, <1>3 DEF AtStake, FencedBy
  <2>4. /\ \A p \in Ops : late[p] = 0
        /\ journal[o].move.st # "none" /\ aboard = journal[o].move.aboard
    <3>1. \A p \in Ops : late[p] \in Nat BY Types DEF Kept
    <3>2. late[o] = 0 BY <1>1, <1>3, <2>1, <3>1 DEF Kept, Alone, FencedBy
    <3>3. \A p \in Ops : AtStake(p) => p = o BY <1>3, <2>1, <2>3 DEF Kept, Alone
    <3> QED BY <1>3, <2>1, <2>3, <3>1, <3>2, <3>3 DEF Kept, Alone, AtStake
  <2>5. CASE late' = late BY <2>2, <2>4, <2>5 DEF AtStake
  <2>6. CASE late' = [late EXCEPT ![o] = @ + 1] /\ UNCHANGED <<stock, aboard>>
    <3>1. late'[o] = 1 /\ \A p \in Ops \ {o} : late'[p] = 0
      BY <1>3, <2>4, <2>6 DEF Kept, TypeOK
    <3>2. \A p \in Ops : AtStake(p)' => p = o BY <2>2, <3>1 DEF AtStake
    <3>3. \A p \in Ops : late'[p] <= 1 BY <3>1
    <3> QED BY <1>1, <2>2, <2>4, <2>6, <3>2, <3>3
  <2> QED BY <1>1, <2>5, <2>6
<1> QED BY <1>2, <1>4, <1>5 DEF Kept

\* What leaves the moves, their rows and the handlers as they were.
LEMMA SameCustody ==
  ASSUME Kept, UNCHANGED <<late, strayed, aboard, journal, job>>
  PROVE  Fences' /\ InHand' /\ Alone' /\ (Unresolved' = Unresolved)
<1>1. Unresolved' = Unresolved BY DEF Unresolved, Open
<1>2. Fences' BY DEF Kept, Fences, RowFences
<1>3. InHand' BY <1>1 DEF Kept, InHand, InHandOf
<1>4. Alone' BY DEF Kept, Alone, AtStake, FencedBy
<1> QED BY <1>1, <1>2, <1>3, <1>4

LEMMA ReviewKept ==
  ASSUME Kept, NEW o \in Ops, Review(o) \/ ReviewShip(o) \/ ReviewContinued(o)
  PROVE  Kept'
<1>1. PICK c \in BOOLEAN : Shows(ReviewOf(o, c)) /\ (c => o \in Ships)
  BY DEF Review, ReviewShip, ReviewContinued
<1> DEFINE r == ReviewOf(o, c)
<1>2. r.op = o /\ r.continues = c /\ r \in [op : Ops, continues : BOOLEAN, seen : Sights]
  BY Types DEF ReviewOf, Kept
<1> HIDE DEF r
<1>3. UNCHANGED <<gameVars, journal, lease, writes, job, spent>> /\ reviews' \subseteq reviews \cup {r}
  BY <1>1 DEF Shows, r
<1>4. Fences' /\ InHand' /\ Alone' /\ Unresolved' = Unresolved BY <1>3, SameCustody DEF gameVars
<1>5. Reserved' BY <1>1, <1>2, <1>3, <1>4 DEF Kept, Reserved
<1>6. TypeOK' BY <1>2, <1>3 DEF Kept, TypeOK, gameVars, Sights
<1> QED BY <1>4, <1>5, <1>6 DEF Kept

LEMMA WritesBegin ==
  ASSUME Kept, WriteBegins \/ WriteUncovered \/ OthersTake \/ ChangeBegins \/ ChangeEnds
  PROVE  Kept'
<1>1. UNCHANGED <<late, strayed, aboard, journal, job, reviews>>
  BY DEF WriteBegins, WriteUncovered, OthersTake, ChangeBegins, ChangeEnds, gameVars, memVars
<1>2. Fences' /\ InHand' /\ Alone' /\ Unresolved' = Unresolved BY <1>1, SameCustody
<1>3. TypeOK'
  <2>1. spent' \in Nat /\ stock' \in Nat /\ gen' \in Nat /\ stray' \in Nat /\ writes' \in Nat
    BY DEF WriteBegins, WriteUncovered, OthersTake, ChangeBegins, ChangeEnds, gameVars, memVars,
       Mishap, Kept, TypeOK
  <2>2. lease' \in Handlers \cup {None, "write", "change"}
    BY DEF WriteBegins, WriteUncovered, OthersTake, ChangeBegins, ChangeEnds, gameVars, memVars,
       Kept, TypeOK
  <2> QED BY <1>1, <2>1, <2>2 DEF Kept, TypeOK
<1>4. \A h \in Handlers : h # "write" /\ h # "change" /\ h # None BY CustodyAssumption
<1>5. Reserved'
  <2>1. CASE WriteBegins
    BY <1>1, <1>2, <1>4, <2>1, CustodyAssumption DEF WriteBegins, Writable, Kept, Reserved
  <2>2. CASE UNCHANGED <<lease, writes>>
    BY <1>1, <1>2, <2>2 DEF Kept, Reserved
  <2>3. CASE (ChangeBegins \/ ChangeEnds)
    <3>1. lease # "write" /\ lease' # "write" /\ writes' = writes
          /\ (\A h \in Handlers : lease # h /\ lease' # h)
      BY <1>4, <2>3, CustodyAssumption DEF ChangeBegins, ChangeEnds
    <3> QED BY <1>1, <3>1 DEF Kept, Reserved
  <2> QED BY <2>1, <2>2, <2>3 DEF WriteUncovered, OthersTake, memVars
<1> QED BY <1>2, <1>3, <1>5 DEF Kept

\* A request begins: the reservation is its own.
LEMMA BeginsKept ==
  ASSUME Kept, NEW h \in Handlers, NEW j \in Jobs, j.pc # "idle", j.op \in Ops, InHandOf(j),
         j.pc \notin {"fenced", "sent"}, lease = None, lease' = h, Goes(h, j),
         UNCHANGED <<gameVars, journal, reviews, writes, spent>>
  PROVE  Kept'
<1>1. \A k \in Handlers : job[k] = Idle BY CustodyAssumption DEF Kept, Reserved
<1>2. job' \in [Handlers -> Jobs] /\ job'[h] = j /\ \A k \in Handlers \ {h} : job'[k] = Idle
  BY <1>1, Types DEF Goes, Kept
<1>3. Unresolved' = Unresolved BY DEF Unresolved, Open
<1>4. ~(writes > 0) BY CustodyAssumption DEF Kept, Reserved
<1>5. Reserved' BY <1>2, <1>4, CustodyAssumption DEF Kept, Reserved
<1>6. Fences' BY DEF Kept, Fences, RowFences
<1>7. InHand'
  <2>1. InHandOf(job[h])' BY <1>2, <1>3 DEF InHandOf
  <2>2. ASSUME NEW k \in Handlers \ {h} PROVE InHandOf(job[k])' BY <1>2, Blank DEF InHandOf
  <2> QED BY <2>1, <2>2 DEF InHand
<1>8. Alone'
  <2>1. \A k \in Handlers, o \in Ops : ~FencedBy(k, o) /\ ~FencedBy(k, o)'
    BY <1>1, <1>2, Blank DEF FencedBy
  <2>2. \A o \in Ops : AtStake(o)' <=> AtStake(o) BY <2>1 DEF AtStake, gameVars
  <2> QED BY <2>1, <2>2 DEF Kept, Alone, gameVars
<1>9. TypeOK' BY <1>2 DEF Kept, TypeOK, Jobs, Sights, gameVars
<1> QED BY <1>5, <1>6, <1>7, <1>8, <1>9 DEF Kept

LEMMA ApplyKept ==
  ASSUME Kept, NEW h \in Handlers, NEW r \in reviews, Apply(h, r)
  PROVE  Kept'
<1> DEFINE j == [Idle EXCEPT !.pc = "fresh", !.op = r.op, !.seen = r.seen, !.continues = r.continues]
<1>1. r \in [op : Ops, continues : BOOLEAN, seen : Sights] /\ (r.continues => r.op \in Ships)
  BY DEF Kept, TypeOK, Sights, Reserved
<1>2. j \in Jobs /\ j.pc = "fresh" /\ j.op = r.op /\ j.continues = r.continues
  BY <1>1, Blank DEF Jobs
<1>3. InHandOf(j) BY <1>1, <1>2 DEF InHandOf, Apply
<1>4. lease = None /\ lease' = h /\ Goes(h, j) BY DEF Apply, MayReserve
<1> HIDE DEF j
<1> QED BY <1>1, <1>2, <1>3, <1>4, BeginsKept DEF Apply

LEMMA ReconcileKept ==
  ASSUME Kept, NEW h \in Handlers, NEW o \in Ops, Reconcile(h, o)
  PROVE  Kept'
<1> DEFINE j == [Idle EXCEPT !.pc = "evidence", !.op = o, !.row = journal[o]]
<1>1. j \in Jobs /\ j.pc = "evidence" /\ j.op = o /\ j.row = journal[o]
  BY Blank, Types DEF Jobs, Kept
<1>2. InHandOf(j) BY <1>1 DEF InHandOf
<1>3. lease = None /\ lease' = h /\ Goes(h, j) BY DEF Reconcile, MayReserve
<1> HIDE DEF j
<1> QED BY <1>1, <1>2, <1>3, BeginsKept DEF Reconcile

\* A write that ends: nothing was open when it began, so nothing is at stake.
LEMMA WriteEndsKept ==
  ASSUME Kept, WriteEnds
  PROVE  Kept'
<1>1. writes > 0 /\ writes' = writes - 1 /\ UNCHANGED <<gen, late, strayed, journal, reviews, job>>
  BY DEF WriteEnds
<1>2. lease = "write" /\ Unresolved = {} BY <1>1 DEF Kept, Reserved
<1>3. lease' = (IF writes = 1 THEN None ELSE "write") BY <1>2 DEF WriteEnds
<1>4. TypeOK'
  <2>1. stock' \in Nat /\ aboard' \in Nat /\ stray' \in Nat /\ spent' \in Nat
    BY DEF WriteEnds, MayShift, Moves, Mishap, Kept, TypeOK
  <2>2. writes' \in Nat BY <1>1 DEF Kept, TypeOK
  <2> QED BY <1>1, <1>3, <2>1, <2>2 DEF Kept, TypeOK
<1>5. Unresolved' = {} BY <1>1, <1>2 DEF Unresolved, Open
<1>6. Reserved'
  <2>1. \A h \in Handlers : lease' # h /\ lease # h BY <1>2, <1>3, CustodyAssumption
  <2>2. writes' > 0 => lease' = "write" BY <1>1, <1>3 DEF Kept, TypeOK
  <2> QED BY <1>1, <1>5, <2>1, <2>2 DEF Kept, Reserved
<1>7. Fences' BY <1>1 DEF Kept, Fences, RowFences
<1>8. InHand' BY <1>1, <1>2, <1>5 DEF Kept, InHand, InHandOf
<1>9. Alone'
  <2>1. SUFFICES ASSUME ~strayed PROVE Alone' BY <1>1 DEF Alone
  <2>2. \A o \in Ops : ~AtStake(o) BY <1>2, <2>1, OpenAtStake
  <2>3. \A o \in Ops : ~AtStake(o)' BY <1>1, <2>2 DEF AtStake, FencedBy
  <2> QED BY <1>1, <2>1, <2>3 DEF Alone, Kept, AtStake, FencedBy
<1> QED BY <1>4, <1>6, <1>7, <1>8, <1>9 DEF Kept

\* A write that outlived its reservation, or a move that comes late.
LEMMA CarriedKept ==
  ASSUME Kept, StrayCarried \/ \E o \in Ops : LateCarried(o)
  PROVE  Kept'
<1>1. UNCHANGED <<gen, journal, memVars, spent>> BY DEF StrayCarried, LateCarried
<1>2. TypeOK'
  <2>1. stock' \in Nat /\ aboard' \in Nat
    BY DEF StrayCarried, LateCarried, MayShift, Moves, Kept, TypeOK
  <2>2. late' \in [Ops -> Nat] BY DEF StrayCarried, LateCarried, Kept, TypeOK
  <2>3. stray' \in Nat BY DEF StrayCarried, LateCarried, Kept, TypeOK
  <2>4. strayed' \in BOOLEAN BY DEF StrayCarried, LateCarried, Kept, TypeOK
  <2> QED BY <1>1, <2>1, <2>2, <2>3, <2>4 DEF memVars, Kept, TypeOK
<1>3. Unresolved' = Unresolved BY <1>1 DEF Unresolved, Open
<1>4. Reserved' BY <1>1, <1>3 DEF Kept, Reserved, memVars
<1>5. Fences' BY <1>1 DEF Kept, Fences, RowFences
<1>6. InHand' BY <1>1, <1>3 DEF Kept, InHand, InHandOf, memVars
<1>7. Alone'
  <2>1. SUFFICES ASSUME ~strayed' PROVE Alone' BY DEF Alone
  <2>2. ~strayed BY <2>1 DEF StrayCarried, LateCarried
  <2>3. \A h \in Handlers, o \in Ops : FencedBy(h, o)' <=> FencedBy(h, o)
    BY <1>1 DEF FencedBy, memVars
  <2>4. \A o \in Ops : late[o] \in Nat BY Types DEF Kept
  <2>5. CASE StrayCarried
    <3>1. \A o \in Ops : journal[o].move.st = "none" BY <2>1, <2>5 DEF StrayCarried
    <3>2. \A o \in Ops : ~AtStake(o) BY <2>2, <3>1 DEF Kept, Alone
    <3>3. late' = late BY <2>5 DEF StrayCarried
    <3>4. \A o \in Ops : ~AtStake(o)' BY <2>3, <3>2, <3>3 DEF AtStake
    <3> QED BY <2>2, <2>3, <3>3, <3>4 DEF Alone, Kept
  <2>6. ASSUME NEW o \in Ops, LateCarried(o) PROVE Alone'
    <3>1. late[o] > 0 /\ AtStake(o) BY <2>6 DEF LateCarried, AtStake
    <3>2. late[o] = 1 /\ \A h \in Handlers : ~FencedBy(h, o)
      BY <2>2, <2>4, <3>1 DEF Kept, Alone
    <3>3. \A p \in Ops \ {o} : ~AtStake(p) BY <2>2, <3>1 DEF Kept, Alone
    <3>4. late'[o] = 0 /\ \A p \in Ops \ {o} : late'[p] = late[p]
      BY <2>6, <3>2 DEF LateCarried, Kept, TypeOK
    <3>5. \A p \in Ops : ~AtStake(p)' BY <2>3, <3>2, <3>3, <3>4 DEF AtStake
    <3>6. \A p \in Ops : late'[p] <= 1 /\ late'[p] # 1
      BY <2>4, <3>3, <3>4 DEF AtStake
    <3> QED BY <3>5, <3>6 DEF Alone
  <2> QED BY <2>5, <2>6
<1> QED BY <1>2, <1>4, <1>5, <1>6, <1>7 DEF Kept

\* One handler at most has a move sent that a crash leaves to be carried out.
LEMMA OneSent ==
  ASSUME Kept, NEW o \in Ops
  PROVE  LET S == {h \in Handlers : job[h].pc = "sent" /\ job[h].op = o}
         IN  \/ S = {} /\ Cardinality(S) = 0
             \/ /\ Cardinality(S) = 1 /\ \E h \in Handlers : FencedBy(h, o)
<1> DEFINE S == {h \in Handlers : job[h].pc = "sent" /\ job[h].op = o}
<1>1. CASE S = {} BY <1>1, FS_EmptySet
<1>2. CASE S # {}
  <2>1. PICK h \in S : TRUE BY <1>2
  <2>2. \A k \in Handlers \ {h} : job[k] = Idle BY <2>1, AtWork
  <2>3. S = {h} BY <2>1, <2>2, Blank
  <2>4. Cardinality({h}) = 1 BY FS_Singleton
  <2> QED BY <2>1, <2>3, <2>4 DEF FencedBy
<1> QED BY <1>1, <1>2

LEMMA CrashKept ==
  ASSUME Kept, Crash
  PROVE  Kept'
<1> DEFINE sent(o) == Cardinality({h \in Handlers : job[h].pc = "sent" /\ job[h].op = o})
<1>1. \A o \in Ops : sent(o) = 0 \/ (sent(o) = 1 /\ \E h \in Handlers : FencedBy(h, o))
  BY OneSent
<1>2. late' = [o \in Ops |-> late[o] + sent(o)] BY DEF Crash
<1> HIDE DEF sent
<1>3. /\ gen' = gen + 1 /\ reviews' = {} /\ lease' = None /\ writes' = 0
      /\ job' = [h \in Handlers |-> Idle] /\ UNCHANGED <<stock, aboard, strayed, journal>>
      /\ stray' \in stray..(stray + writes) /\ spent' = spent + 1
  BY DEF Crash, Mishap
<1>4. \A o \in Ops : late[o] \in Nat /\ late'[o] = late[o] + sent(o) /\ late'[o] \in Nat
  BY <1>1, <1>2, Types DEF Kept
<1>5. TypeOK'
  <2>1. late' \in [Ops -> Nat] BY <1>2, <1>4
  <2>2. job' \in [Handlers -> Jobs] BY <1>3, Blank
  <2>3. stray' \in Nat /\ gen' \in Nat /\ spent' \in Nat BY <1>3 DEF Kept, TypeOK
  <2> QED BY <1>3, <2>1, <2>2, <2>3 DEF Kept, TypeOK, Jobs, Sights
<1>6. Reserved' BY <1>3, CustodyAssumption DEF Reserved
<1>7. Fences' BY <1>3 DEF Kept, Fences, RowFences
<1>8. InHand' BY <1>3, Blank DEF InHand, InHandOf
<1>9. Alone'
  <2>1. SUFFICES ASSUME ~strayed PROVE Alone' BY <1>3 DEF Alone
  <2>2. \A h \in Handlers, o \in Ops : ~FencedBy(h, o)' BY <1>3, Blank DEF FencedBy
  <2>3. ASSUME NEW o \in Ops, AtStake(o)' PROVE AtStake(o)
    <3>1. late'[o] > 0 BY <2>2, <2>3 DEF AtStake
    <3> QED BY <1>1, <1>4, <3>1 DEF AtStake
  <2>4. \A o \in Ops : late'[o] <= 1
    <3>1. \A o \in Ops : late[o] <= 1 /\ (late[o] = 1 => \A h \in Handlers : ~FencedBy(h, o))
      BY <2>1 DEF Kept, Alone
    <3> QED BY <1>1, <1>4, <3>1
  <2> QED BY <1>3, <2>1, <2>2, <2>3, <2>4 DEF Kept, Alone
<1> QED BY <1>5, <1>6, <1>7, <1>8, <1>9 DEF Kept

LEMMA KeptInit == Init => Kept
<1> SUFFICES ASSUME Init PROVE Kept OBVIOUS
<1>1. TypeOK BY Blank, CustodyAssumption DEF Init, TypeOK, Jobs, Sights
<1>2. Reserved /\ Fences /\ InHand BY Blank, CustodyAssumption
  DEF Init, Reserved, Unresolved, Open, Fences, RowFences, InHand, InHandOf
<1>3. Alone BY Blank DEF Init, Alone, AtStake, FencedBy
<1> QED BY <1>1, <1>2, <1>3 DEF Kept

\* Every handler's step keeps the invariant.
LEMMA WorksKept ==
  ASSUME Kept, NEW h \in Handlers, Works(h)
  PROVE  Kept'
<1>1. CASE Answered(h) BY <1>1, AnsweredKept
<1>2. CASE \/ Fresh(h) \/ Plan(h) \/ Fence(h) \/ Send(h) \/ After(h)
           \/ Evidence(h) \/ EvidenceOfShip(h) \/ Proven(h)
  <2>1. Handles(h) /\ UNCHANGED gameVars
    BY <1>2, FreshDoes, PlanDoes, FenceDoes, SendDoes, AfterDoes, EvidenceDoes, EvidenceOfShipDoes,
       ProvenDoes
  <2>2. job[h].pc # "idle"
    BY <1>2 DEF Fresh, Plan, Fence, Send, After, Evidence, EvidenceOfShip, Proven
  <2>3. spent' \in Nat
    BY <1>2 DEF Fresh, Plan, Fence, Send, After, Evidence, EvidenceOfShip, Proven, Saves, Throws,
       ThrowsOpen, PutFails, Mishap, Kept, TypeOK
  <2> QED BY <2>1, <2>2, <2>3, HandlesKept
<1> QED BY <1>1, <1>2 DEF Works

LEMMA KeptStep == Kept /\ [Next]_vars => Kept'
<1> SUFFICES ASSUME Kept, [Next]_vars PROVE Kept' OBVIOUS
<1>1. CASE Next
  BY <1>1, ReviewKept, CarriedKept, ApplyKept, ReconcileKept, WorksKept, WritesBegin, WriteEndsKept,
     CrashKept DEF Next
<1>2. CASE UNCHANGED vars
  <2>1. Fences' /\ InHand' /\ Alone' /\ Unresolved' = Unresolved
    BY <1>2, SameCustody DEF vars, gameVars, memVars
  <2> QED BY <1>2, <2>1 DEF Kept, TypeOK, Reserved, vars, gameVars, memVars
<1> QED BY <1>1, <1>2

\* It holds in every state.
LEMMA KeptAlways == Spec => []Kept
BY KeptInit, KeptStep, PTL DEF Spec

\* Every variable keeps its type.
THEOREM CustodyTyped == Spec => []TypeOK
<1>1. Kept => TypeOK BY DEF Kept
<1> QED BY <1>1, KeptAlways, PTL

\* A move that may still be carried out has its operation unresolved on disk, is the only
\* one of the pilot, and is not sent again, for any operations, handlers and mishaps
\* (replenishment.js: the durable fence, the reads after a move, reconcile), unless a
\* write of the page was carried out while a move was not accounted for.
THEOREM CustodyAlwaysKept == Spec => []CustodyKept
<1>1. ASSUME Kept PROVE CustodyKept
  <2>1. SUFFICES ASSUME ~strayed, NEW o \in Ops
                 PROVE  /\ Out(o) => Open(o) /\ journal[o].move.st # "none"
                        /\ Out(o) => \A p \in Ops \ {o} : ~Out(p)
                        /\ late[o] <= 1 /\ (late[o] = 1 => \A h \in Handlers : ~SentBy(h, o))
    BY DEF CustodyKept
  <2>2. \A p \in Ops : Out(p) => AtStake(p) BY DEF Out, AtStake, SentBy, FencedBy
  <2>3. \A h \in Handlers : SentBy(h, o) => FencedBy(h, o) BY DEF SentBy, FencedBy
  <2>4. Out(o) => Open(o) BY <1>1, <2>1, <2>2, OpenAtStake DEF Unresolved
  <2> QED BY <1>1, <2>1, <2>2, <2>3, <2>4 DEF Kept, Alone
<1> QED BY <1>1, KeptAlways, PTL

\* No move brings more aboard than was wanted, however late it is carried out: what is
\* aboard when it is written to the journal is not enough yet, and nothing comes aboard
\* before it does (replenishment.js, the plan and the read before dispatch).
THEOREM NeverTooMuchMoved == Spec => NeverTooMuch
<1> DEFINE Right == ~strayed /\ aboard' > aboard /\ <<late, job>>' # <<late, job>> => aboard' <= Want
<1>1. ASSUME Kept, Next, ~strayed, aboard' > aboard, <<late, job>>' # <<late, job>>
      PROVE  aboard' <= Want
  <2>1. aboard \in Nat /\ Want \in Nat BY <1>1, CustodyAssumption DEF Kept, TypeOK
  <2>2. ASSUME NEW o \in Ops, AtStake(o), Moves PROVE aboard' <= Want
    <3>1. journal[o].move.st # "none" /\ aboard = journal[o].move.aboard
      BY <1>1, <2>2 DEF Kept, Alone
    <3>2. aboard < Want BY <1>1, <3>1 DEF Kept, Fences, RowFences
    <3> QED BY <2>1, <2>2, <3>2 DEF Moves
  <2>3. ASSUME NEW o \in Ops, LateCarried(o) PROVE aboard' <= Want
    BY <2>2, <2>3 DEF LateCarried, AtStake
  <2>4. ASSUME NEW h \in Handlers, Answered(h) PROVE aboard' <= Want
    <3>1. job[h].pc = "sent" /\ job[h].op \in Ops BY <1>1, <2>4, AtWork DEF Answered
    <3>2. AtStake(job[h].op) BY <3>1 DEF AtStake, FencedBy
    <3>3. Moves BY <1>1, <2>1, <2>4 DEF Answered
    <3> QED BY <2>2, <3>1, <3>2, <3>3
  <2>5. ASSUME NEW h \in Handlers, Works(h) PROVE aboard' <= Want
    <3>1. Answered(h) \/ UNCHANGED gameVars
      BY <1>1, <2>5, FreshDoes, PlanDoes, FenceDoes, SendDoes, AfterDoes, EvidenceDoes,
         EvidenceOfShipDoes, ProvenDoes DEF Works
    <3> QED BY <1>1, <2>1, <2>4, <3>1 DEF gameVars
  <2>6. ASSUME NEW o \in Ops, Review(o) \/ ReviewShip(o) \/ ReviewContinued(o) PROVE aboard' = aboard
    BY <2>6 DEF Review, ReviewShip, ReviewContinued, Shows, gameVars
  <2>7. ASSUME NEW h \in Handlers,
               (\E r \in reviews : Apply(h, r)) \/ \E o \in Ops : Reconcile(h, o)
        PROVE  aboard' = aboard
    BY <2>7 DEF Apply, Reconcile, gameVars
  <2>8. ASSUME WriteEnds \/ StrayCarried PROVE FALSE
    BY <1>1, <2>8 DEF WriteEnds, StrayCarried, memVars
  <2>9. ASSUME WriteBegins \/ WriteUncovered \/ OthersTake \/ ChangeBegins \/ ChangeEnds \/ Crash
        PROVE  aboard' = aboard
    BY <2>9 DEF WriteBegins, WriteUncovered, OthersTake, ChangeBegins, ChangeEnds, Crash, gameVars
  <2> QED BY <1>1, <2>1, <2>3, <2>5, <2>6, <2>7, <2>8, <2>9 DEF Next
<1>2. Kept /\ [Next]_vars => [Right]_vars BY <1>1
<1> QED BY <1>2, KeptAlways, PTL DEF Spec, NeverTooMuch
=============================================================================
