----------------------------- MODULE StartupRuns -----------------------------
(***************************************************************************)
(* The steps a hosted bot takes once before its endless loop (MAIN), with  *)
(* what each was seen to do kept on disk (createStartupRuns): an order is  *)
(* written down before it is given, its answer is not believed, and only   *)
(* what is read of the ship afterwards completes a step.                   *)
(*                                                                         *)
(* One pilot, one logical run at a time, and a prefix of steps in a row.   *)
(* A step has one goal; a refit also boards a hull on the way to it, which *)
(* is seen by itself.  The world's answers are the game server's.          *)
(***************************************************************************)
EXTENDS Naturals, FiniteSets

CONSTANTS Runs, Prepared,  \* logical runs, and those of a mining operation among them
          Steps,           \* how many steps the prefix has
          Refits,          \* those of them that take more than one order
          MaxReads,        \* looks at an order that is pending
          MaxLanded,       \* orders a step may take (MAX_LANDED_ACTIONS)
          MaxMishaps,      \* bound: crashes, orders given up on, saves that fail, and
                           \* what is brought about without an order
          None

ASSUME StartupAssumption ==
  /\ Steps \in Nat \ {0} /\ Refits \subseteq 1..Steps /\ Prepared \subseteq Runs
  /\ MaxReads \in Nat \ {0} /\ MaxLanded \in Nat \ {0} /\ MaxMishaps \in Nat
  /\ None \notin Runs

VARIABLES
  \* The world
  goal,      \* whether what a step is for is so
  boarded,   \* whether a refit's hull is boarded
  out,       \* orders of each run's steps given and not carried out or refused yet
  \* On disk
  journal, roster,  \* the rows, and the run the hosts' roster lists
  \* The run in memory
  cur, row,  \* the run flown, and the row it keeps
  restored,  \* steps whose order was pending when the run was opened
  reads,
  at,        \* the runner's own position: Steps + 1 is MAIN
  pc,        \* where its tick stands
  seen,      \* what the tick read: the goals, the hulls boarded
  \* For the properties and the bounds
  proved,    \* goals of a run's steps seen
  given,     \* orders given of a run's steps
  mishaps

world == <<goal, boarded, out>>
memory == <<cur, row, restored, reads, at, pc, seen>>
told == <<proved, given>>
disk == <<journal, roster>>
vars == <<world, disk, memory, told, mishaps>>

Prefix == 1..Steps
Main == Steps + 1
Orders == {"goal", "board"}

Fresh  == [st |-> "fresh", order |-> "none", landed |-> 0]
NoRow  == [st |-> "none", blocks |-> [s \in Prefix |-> Fresh], at |-> 1]
Nothing == [goal |-> {}, boarded |-> {}]
Unproven(r) == {s \in Prefix : r.blocks[s].st \in {"PENDING", "BLOCKED"}}

Init ==
  /\ goal \in SUBSET Prefix /\ boarded = {} /\ out = [r \in Runs |-> [s \in Prefix |-> 0]]
  /\ journal = [r \in Runs |-> NoRow] /\ roster = None
  /\ cur = None /\ row = NoRow /\ restored = {} /\ reads = [s \in Prefix |-> 0]
  /\ at = 1 /\ pc = "off" /\ seen = Nothing
  /\ proved = [r \in Runs |-> {}] /\ given = [r \in Runs |-> [s \in Prefix |-> 0]]
  /\ mishaps = 0

Mishap == mishaps < MaxMishaps /\ mishaps' = mishaps + 1

(***************************************************************************)
(* A run is opened, goes on, and ends                                      *)
(***************************************************************************)

Flies(r, kept) ==
  /\ cur' = r /\ row' = kept
  /\ restored' = Unproven(kept) /\ reads' = [s \in Prefix |-> 0]
  /\ at' = kept.at /\ pc' = "idle" /\ seen' = Nothing

\* Only the run the roster lists is looked at.
ListedUnproven == roster # None /\ Unproven(journal[roster]) # {}
EarlierUnproven == \E r \in Runs : Unproven(journal[r]) # {}

\* open() of a new run: refused while an earlier one is unresolved.  A mining
\* operation's has a row by then, of openPreparation(), and is not (see the README).
Opens(r) ==
  /\ cur = None /\ journal[r].st = "none"
  /\ EarlierUnproven => r \in Prepared
  /\ journal' = [journal EXCEPT ![r].st = "open"] /\ roster' = r
  /\ Flies(r, [NoRow EXCEPT !.st = "open"])
  /\ UNCHANGED <<world, told, mishaps>>

\* resume() of the run the last process left: its orders must be proved by what is seen.
Reopens ==
  /\ cur = None /\ roster # None
  /\ Flies(roster, journal[roster])
  /\ UNCHANGED <<world, disk, told, mishaps>>

\* resume() refuses it (its time is over, its Stop was blocked) and lists it no more.
Drops ==
  /\ cur = None /\ roster # None
  /\ roster' = None
  /\ UNCHANGED <<world, journal, memory, told, mishaps>>

\* finalizeBody(): refused while what is on disk is unresolved.
Stops ==
  /\ cur # None /\ pc # "ending"
  /\ Unproven(journal[cur]) = {}
  /\ pc' = "ending"
  /\ UNCHANGED <<world, disk, cur, row, restored, reads, at, seen, told, mishaps>>

\* Logged out: end().
Ended ==
  /\ pc = "ending"
  /\ \/ /\ journal' = [journal EXCEPT ![cur] = [row EXCEPT !.st = "ended"]] /\ roster' = None
        /\ cur' = None /\ row' = NoRow /\ restored' = {} /\ at' = 1 /\ pc' = "off" /\ seen' = Nothing
        /\ reads' = [s \in Prefix |-> 0] /\ UNCHANGED mishaps
     \/ Mishap /\ UNCHANGED <<disk, memory>>
  /\ UNCHANGED <<world, told>>

\* A run whose Stop was under way is not resumed.
Crash ==
  /\ cur # None /\ Mishap
  /\ cur' = None /\ row' = NoRow /\ restored' = {} /\ at' = 1 /\ pc' = "off" /\ seen' = Nothing
  /\ reads' = [s \in Prefix |-> 0]
  /\ roster' = IF pc = "ending" THEN None ELSE roster
  /\ UNCHANGED <<world, journal, told>>

\* A paused run goes on when the session of an operation's pilot is recovered.
Resumes ==
  /\ cur \in Prepared /\ pc = "paused"
  /\ pc' = "idle"
  /\ UNCHANGED <<world, disk, cur, row, restored, reads, at, seen, told, mishaps>>

(***************************************************************************)
(* One tick of the runner                                                  *)
(***************************************************************************)

\* The row in memory is changed first: a save that fails leaves it changed, and pauses.
Saves(new, next) ==
  /\ row' = new
  /\ \/ journal' = [journal EXCEPT ![cur] = new] /\ pc' = next /\ UNCHANGED mishaps
     \/ pc' = "paused" /\ Mishap /\ UNCHANGED journal

Reads ==
  /\ pc = "idle"
  /\ pc' = "read" /\ seen' = [goal |-> goal, boarded |-> boarded]
  /\ proved' = [proved EXCEPT ![cur] = @ \cup goal]
  /\ UNCHANGED <<world, disk, cur, row, restored, reads, at, given, mishaps>>

\* What is read may also be of another ship, or tell nothing: the step blocks for now.
Unreadable ==
  /\ pc = "read" /\ at \in Prefix /\ row.blocks[at].st # "COMPLETE"
  /\ pc' = "paused"
  /\ UNCHANGED <<world, disk, cur, row, restored, reads, at, seen, told, mishaps>>

\* An answer is not completion.
ProvenByAnswer(s) == s \in seen.goal \/ row.blocks[s].st = "PENDING"
Proven(s) == s \in seen.goal

\* An order of a refit is seen to have landed: only in the process that gave it.
LandedOf(s) == /\ row.blocks[s].st = "PENDING" /\ row.blocks[s].order = "board"
               /\ s \in seen.boarded /\ s \notin restored

Landed(b) == IF b.landed + 1 >= MaxLanded THEN [b EXCEPT !.st = "BLOCKED"]
                                          ELSE [Fresh EXCEPT !.st = "NEEDED", !.landed = b.landed + 1]

\* Without a bound on the looks at a pending order.
OnlyRestored(s) == s \in restored
TooManyReads(s) == s \in restored \/ reads[s] + 1 >= MaxReads

\* observe(): what becomes of the step that is at work.
Observed(s) == LET b == row.blocks[s] IN
  CASE b.st = "COMPLETE" -> b
    [] b.st # "COMPLETE" /\ Proven(s) -> [b EXCEPT !.st = "COMPLETE"]
    [] ~Proven(s) /\ LandedOf(s) -> Landed(b)
    [] ~Proven(s) /\ b.st \in {"PENDING", "BLOCKED"} /\ ~LandedOf(s)
         -> IF TooManyReads(s) THEN [b EXCEPT !.st = "BLOCKED"] ELSE b
    [] OTHER -> b

\* The runner acts on what became of it.
After(b) == CASE b.st = "COMPLETE"          -> "check"
              [] b.st = "BLOCKED"           -> "paused"
              [] b.st = "PENDING"           -> "idle"
              [] b.st \in {"fresh", "NEEDED"} -> "choose"

Observe ==
  /\ pc = "read" /\ at \in Prefix
  /\ LET b == Observed(at) IN
       /\ IF b = row.blocks[at] /\ b.st # "BLOCKED"
            THEN pc' = After(b) /\ UNCHANGED <<row, journal, mishaps>>
            ELSE Saves([row EXCEPT !.blocks[at] = b], After(b))
       /\ reads' = [reads EXCEPT ![at] = IF b.st = "NEEDED" THEN 0
                                         ELSE IF b.st \in {"PENDING", "BLOCKED"} /\ @ < MaxReads THEN @ + 1 ELSE @]
  /\ UNCHANGED <<world, roster, cur, restored, at, seen, told>>

\* checkpoint() of a step that is complete: the next is at work, or MAIN.
Checkpoint ==
  /\ pc = "check"
  /\ IF row.at = Main
       THEN at' = at + 1 /\ pc' = "idle" /\ UNCHANGED <<row, journal, mishaps>>
       ELSE /\ Saves([row EXCEPT !.at = at + 1], "idle")
            /\ at' = IF pc' = "idle" THEN at + 1 ELSE at
  /\ UNCHANGED <<world, roster, cur, restored, reads, seen, told>>

\* MAIN goes on for good: its orders are not this module's.
MainTick ==
  /\ pc = "read" /\ at = Main
  /\ pc' = "idle"
  /\ UNCHANGED <<world, disk, cur, row, restored, reads, at, seen, told, mishaps>>

\* The step waits, or repeats travel that takes no fence.
Waits ==
  /\ pc = "choose"
  /\ pc' = "idle"
  /\ UNCHANGED <<world, disk, cur, row, restored, reads, at, seen, told, mishaps>>

Fenced(b) == b.st \in {"PENDING", "BLOCKED", "COMPLETE"}

\* beforeIssue(): the order is on disk before it is given.
BeforeIssue(k) ==
  /\ pc = "choose"
  /\ k = "board" => at \in Refits \ seen.boarded
  /\ IF Fenced(row.blocks[at]) THEN pc' = "paused" /\ UNCHANGED <<row, journal, mishaps>>
       ELSE Saves([row EXCEPT !.blocks[at] = [@ EXCEPT !.st = "PENDING", !.order = k]], "issue")
  /\ UNCHANGED <<world, roster, cur, restored, reads, at, seen, told>>

Issue ==
  /\ pc = "issue"
  /\ pc' = "issued"
  /\ out' = [out EXCEPT ![cur][at] = @ + 1]
  /\ given' = [given EXCEPT ![cur][at] = @ + 1]
  /\ UNCHANGED <<goal, boarded, disk, cur, row, restored, reads, at, seen, proved, mishaps>>

\* One step's goal may undo the others', as undocking undoes docking.
Effect(s, k) ==
  \/ UNCHANGED <<goal, boarded>>
  \/ IF k = "board" THEN boarded' = boarded \cup {s} /\ UNCHANGED goal
                    ELSE goal' \in {goal \cup {s}, {s}} /\ UNCHANGED boarded

\* The order is carried out or refused, or given up on: then it may be
\* carried out later, and the runner stops for good (uncertainAction).
Answer ==
  /\ pc = "issued"
  /\ \/ /\ out' = [out EXCEPT ![cur][at] = @ - 1]
        /\ Effect(at, row.blocks[at].order) /\ pc' = "idle" /\ UNCHANGED mishaps
     \/ Mishap /\ pc' = "uncertain" /\ UNCHANGED world
  /\ UNCHANGED <<disk, cur, row, restored, reads, at, seen, told>>

(***************************************************************************)
(* What happens without the runner                                         *)
(***************************************************************************)

AwaitedBy(r, s) == pc = "issued" /\ cur = r /\ at = s

LateCarried(r, s) ==
  /\ out[r][s] > IF AwaitedBy(r, s) THEN 1 ELSE 0
  /\ out' = [out EXCEPT ![r][s] = @ - 1]
  /\ Effect(s, journal[r].blocks[s].order)
  /\ UNCHANGED <<disk, memory, told, mishaps>>

\* The trip home of a run that is blocked, another controller's flight: its effect alone.
\* The runner goes on ticking on a trip home, and orders no startup step there.
Otherwise(s) ==
  /\ Mishap
  /\ \/ goal' = (IF s \in goal THEN goal \ {s} ELSE goal \cup {s}) /\ UNCHANGED boarded
     \/ s \in boarded /\ boarded' = boarded \ {s} /\ goal' = goal \ {s}
  /\ UNCHANGED <<out, disk, memory, told>>

Tick == \/ Reads \/ Observe \/ Unreadable \/ Checkpoint \/ MainTick \/ Waits
        \/ \E k \in Orders : BeforeIssue(k)
        \/ Issue \/ Answer

Next == \/ \E r \in Runs : Opens(r)
        \/ Reopens \/ Drops
        \/ Stops \/ Ended \/ Resumes \/ Crash
        \/ Tick
        \/ \E s \in Prefix : Otherwise(s) \/ \E r \in Runs : LateCarried(r, s)

Spec == Init /\ [][Next]_vars

\* A run ticks as long as its process lives: every read and order has a time limit.
FairSpec == Spec /\ WF_vars(Tick)

(***************************************************************************)
(* Properties                                                              *)
(***************************************************************************)

Blocks == [Prefix -> [st : {"fresh", "NEEDED", "PENDING", "COMPLETE", "BLOCKED"},
                      order : Orders \cup {"none"}, landed : 0..MaxLanded]]
RowSet == [st : {"none", "open", "ended"}, blocks : Blocks, at : 1..Main]

\* Every variable holds what its place in the code can hold.
TypeOK ==
  /\ goal \subseteq Prefix /\ boarded \subseteq Prefix /\ out \in [Runs -> [Prefix -> Nat]]
  /\ journal \in [Runs -> RowSet] /\ row \in RowSet
  /\ roster \in Runs \cup {None} /\ cur \in Runs \cup {None}
  /\ restored \subseteq Prefix /\ reads \in [Prefix -> 0..MaxReads] /\ at \in 1..Main
  /\ pc \in {"off", "idle", "read", "check", "choose", "issue", "issued", "paused", "uncertain", "ending"}
  /\ seen \in [goal : SUBSET Prefix, boarded : SUBSET Prefix]
  /\ proved \in [Runs -> SUBSET Prefix] /\ given \in [Runs -> [Prefix -> Nat]]
  /\ mishaps \in Nat

Gives(r, s) == given'[r][s] > given[r][s]

\* No order is given while another one of the pilot may still be carried out, of whatever
\* step and run, over crashes, saves that fail and runs stopped and begun anew, unless
\* what that one was for has been seen meanwhile (docs/startup-main.md, "A fence is
\* persisted before dispatch; acknowledgement is not completion").  A run of a mining
\* operation does not look at the runs before it.
NeverOnUnknown ==
  [][\A r, q \in Runs : \A s, t \in Prefix :
       Gives(r, s) /\ out[q][t] > 0 /\ journal[q].blocks[t].st # "COMPLETE" => q # r /\ r \in Prepared]_vars

\* No step is ordered, and MAIN not entered, before every step before it was seen to be
\* so, in whichever process, and no step is ordered more often than it may be (docs/
\* startup-main.md, "Main waits for independently verified postconditions").
StepsInOrder ==
  \A r \in Runs :
    /\ \A s \in Prefix : /\ given[r][s] > 0 => 1..(s - 1) \subseteq proved[r]
                         /\ given[r][s] <= IF s \in Refits THEN MaxLanded ELSE 1
    /\ journal[r].at = Main \/ (cur = r /\ at = Main) => Prefix \subseteq proved[r]

Flying == pc \notin {"off", "paused", "uncertain", "ending"}

\* A step whose order is pending is settled, or stops its run: a run is not left looking
\* at it for ever.
PendingEnds ==
  \A s \in Prefix : Flying /\ at = s /\ row.blocks[s].st = "PENDING"
                    ~> ~(Flying /\ at = s /\ row.blocks[s].st = "PENDING")
=============================================================================
