-------------------------- MODULE GamePortSession --------------------------
(***************************************************************************)
(* The calls of a game-port session (src/gamePort/session.js): one and the *)
(* same call, made by several callers while the answer at the server       *)
(* changes.  A call that is out is shared; an answer is kept in the object *)
(* cache as the server says of the method, and is checked with the server  *)
(* each time, or never and forgotten when the server says so.              *)
(*                                                                         *)
(* A frame is taken in one step.  The promise it settles is carried on in  *)
(* a step of its own, since frames that came in one chunk are all taken    *)
(* before any promise is (src/gamePort/tcp.js).                            *)
(***************************************************************************)
EXTENDS Naturals, Sequences, FiniteSets

CONSTANTS
  Callers,        \* those who make the call, each once
  MaxVersion,     \* answers the server has in turn
  MaxProvisional  \* times it says that its answer will be late

ASSUME SessionAssumption == IsFiniteSet(Callers) /\ MaxVersion \in Nat \ {0} /\ MaxProvisional \in Nat

VARIABLES
  check,    \* methodCallDetails: when a kept answer is checked, "always" or "never"
  version,  \* the server's answer now
  up,       \* calls on their way to the server, and at it
  down,     \* frames on their way here
  said,     \* provisional answers sent
  closed,
  nextID,   \* nextCallID
  pending,  \* the calls whose waiter has not been settled
  settled,  \* what waiters were settled with, in turn, not yet carried on
  out,      \* callsOut: the caller whose call is out, as a set of at most one
  waiting,  \* callers waiting for it, in turn
  kept,     \* cachedMethodCalls: the answer kept, or 0
  caller    \* what each caller has come to

server == <<version, up, said>>
vars   == <<check, version, up, down, said, closed, nextID, pending, settled, out, waiting, kept, caller>>

Idle   == [st |-> "idle", held |-> 0, asked |-> 0, got |-> 0]
IDs    == 1..Cardinality(Callers)
Values == 0..MaxVersion

Init ==
  /\ check \in {"always", "never"}
  /\ version = 1 /\ up = {} /\ down = <<>> /\ said = 0
  /\ closed = FALSE /\ nextID = 1 /\ pending = {} /\ settled = <<>>
  /\ out = {} /\ waiting = <<>> /\ kept = 0
  /\ caller = [c \in Callers |-> Idle]

-----------------------------------------------------------------------------
(* A call.                                                                 *)

\* _makeCall() of the caller c, who carries the version it holds.
Send(c, held) ==
  /\ up' = up \cup {[id |-> nextID, held |-> held]}
  /\ pending' = pending \cup {nextID}
  /\ nextID' = nextID + 1
  /\ out' = {c}

Ends(c, st, got) == [caller EXCEPT ![c].st = st, ![c].got = got]

MayUseKept == kept # 0 /\ check = "never"

\* _cachedCall(): the answer kept is the answer where it needs no check.
FromCache(c) ==
  /\ caller[c].st = "idle" /\ MayUseKept
  /\ caller' = [caller EXCEPT ![c] = [st |-> "kept", held |-> kept, asked |-> version, got |-> kept]]
  /\ UNCHANGED <<check, server, down, closed, nextID, pending, settled, out, waiting, kept>>

\* A call made whether or not the same one is out.
CallUnshared(c) ==
  /\ caller[c].st = "idle" /\ ~MayUseKept /\ ~closed
  /\ Send(c, kept)
  /\ caller' = [caller EXCEPT ![c] = [st |-> "asking", held |-> kept, asked |-> version, got |-> 0]]
  /\ UNCHANGED <<check, version, said, down, closed, settled, waiting, kept>>

\* _call(): the same call that is out is waited for, and else made.
Call(c) ==
  /\ caller[c].st = "idle" /\ ~MayUseKept
  /\ \/ /\ out # {}
        /\ waiting' = Append(waiting, c)
        /\ caller' = [caller EXCEPT ![c] = [st |-> "waiting", held |-> kept, asked |-> version, got |-> 0]]
        /\ UNCHANGED <<up, nextID, pending, out>>
     \/ /\ out = {} /\ ~closed
        /\ Send(c, kept)
        /\ caller' = [caller EXCEPT ![c] = [st |-> "asking", held |-> kept, asked |-> version, got |-> 0]]
        /\ UNCHANGED waiting
     \/ /\ out = {} /\ closed
        /\ caller' = Ends(c, "failed", 0)
        /\ UNCHANGED <<up, nextID, pending, out, waiting>>
  /\ UNCHANGED <<check, version, said, down, closed, settled, kept>>

-----------------------------------------------------------------------------
(* The game server.                                                        *)

Sends(frame) == down' = Append(down, frame)

\* What the call answers changes; kept answers that are not checked are named.
Changes ==
  /\ version < MaxVersion
  /\ version' = version + 1
  /\ IF check = "never" THEN Sends([is |-> "invalidate", id |-> 0, value |-> version]) ELSE UNCHANGED down
  /\ UNCHANGED <<check, up, said, closed, nextID, pending, settled, out, waiting, kept, caller>>

\* A call is answered: with the answer, with CacheOK where the caller's is the
\* server's own, or with an error.
Serves(q) ==
  /\ up' = up \ {q}
  /\ \/ Sends([is |-> IF q.held = version THEN "cacheOK" ELSE "answer", id |-> q.id, value |-> version])
     \/ Sends([is |-> "refused", id |-> q.id, value |-> 0])
  /\ UNCHANGED <<check, version, said, closed, nextID, pending, settled, out, waiting, kept, caller>>

\* SendProvisionalResponse: the answer will be late.
SaysLate(q) ==
  /\ said < MaxProvisional
  /\ said' = said + 1
  /\ Sends([is |-> "provisional", id |-> q.id, value |-> 0])
  /\ UNCHANGED <<check, version, up, closed, nextID, pending, settled, out, waiting, kept, caller>>

-----------------------------------------------------------------------------
(* Frames, time limits and the end of the connection.                      *)

Settled(id, is, value) == Append(settled, [id |-> id, is |-> is, value |-> value])

\* An answer taken for the call that is out, whichever it is to.
SettlesOut(frame) ==
  IF pending # {} /\ frame.is \notin {"provisional", "invalidate"}
  THEN \E id \in pending : pending' = pending \ {id} /\ settled' = Settled(id, frame.is, frame.value)
  ELSE UNCHANGED <<pending, settled>>

\* _settleCall(), by the call's own number; a waiter already gone hears nothing.
Settles(frame) ==
  IF frame.id \in pending /\ frame.is # "provisional"
  THEN pending' = pending \ {frame.id} /\ settled' = Settled(frame.id, frame.is, frame.value)
  ELSE UNCHANGED <<pending, settled>>

\* invalidateCachedMethodCalls().
Forgets(frame) ==
  IF frame.is = "invalidate" THEN kept' = 0 ELSE UNCHANGED kept

Frame ==
  /\ down # <<>> /\ ~closed
  /\ down' = Tail(down)
  /\ Settles(Head(down)) /\ Forgets(Head(down))
  /\ UNCHANGED <<check, server, closed, nextID, out, waiting, caller>>

\* _waitFor(): the call's time is over.  A timer runs after the promises.
TimesOut ==
  /\ settled = <<>>
  /\ \E id \in pending : pending' = pending \ {id} /\ settled' = Settled(id, "timeout", 0)
  /\ UNCHANGED <<check, server, down, closed, nextID, out, waiting, kept, caller>>

\* _onClosed(): every waiter is rejected, and frames are heard no more.
Closes ==
  /\ ~closed
  /\ closed' = TRUE
  /\ pending' = {}
  /\ \/ pending = {} /\ UNCHANGED settled
     \/ \E id \in pending : settled' = Settled(id, "closed", 0)
  /\ UNCHANGED <<check, server, down, nextID, out, waiting, kept, caller>>

-----------------------------------------------------------------------------
(* The promises.                                                           *)

AllTake(c, value) ==
  [d \in Callers |-> IF d = c THEN [caller[d] EXCEPT !.st = "answered", !.got = value]
                     ELSE IF caller[d].st = "waiting" THEN [caller[d] EXCEPT !.st = "shared", !.got = value]
                     ELSE caller[d]]

\* _answered(), and then the callers: the answer is kept, and shared.
Answered(c, value) ==
  /\ kept' = value
  /\ out' = {} /\ waiting' = <<>>
  /\ caller' = AllTake(c, value)
  /\ UNCHANGED <<up, nextID, pending>>

\* A call that failed, after which nobody asks.
NobodyAsks(left) == out' = {} /\ caller' = left /\ UNCHANGED <<up, nextID, pending, waiting>>

\* A call that failed is no answer: the first of those waiting asks for itself, and the
\* rest wait for that.  With the connection gone each of them fails at once.
NextAsks(left) ==
  IF waiting = <<>> \/ closed
  THEN /\ out' = {} /\ waiting' = <<>>
       /\ caller' = [d \in Callers |-> IF left[d].st = "waiting" THEN [left[d] EXCEPT !.st = "failed"] ELSE left[d]]
       /\ UNCHANGED <<up, nextID, pending>>
  ELSE /\ Send(Head(waiting), left[Head(waiting)].held)
       /\ waiting' = Tail(waiting)
       /\ caller' = [left EXCEPT ![Head(waiting)].st = "asking"]

\* CacheOK is the answer the caller held, and to those waiting a failure like another.
Failed(c, is) ==
  /\ NextAsks(IF is = "cacheOK" /\ caller[c].held # 0
              THEN Ends(c, "answered", caller[c].held) ELSE Ends(c, "failed", 0))
  /\ UNCHANGED kept

Promise ==
  /\ settled # <<>>
  /\ settled' = Tail(settled)
  /\ \E c \in out :
       IF Head(settled).is = "answer" THEN Answered(c, Head(settled).value) ELSE Failed(c, Head(settled).is)
  /\ UNCHANGED <<check, version, said, down, closed>>

Client == Frame \/ Promise
Next ==
  \/ \E c \in Callers : FromCache(c) \/ Call(c)
  \/ Changes \/ \E q \in up : Serves(q) \/ SaysLate(q)
  \/ Client \/ TimesOut \/ Closes

Spec == Init /\ [][Next]_vars

\* Frames that came are taken, promises carried on, and timers run.
FairSpec == Spec /\ WF_vars(Client) /\ WF_vars(TimesOut)

-----------------------------------------------------------------------------
(* What must hold.                                                         *)

\* The variables have their types, and who is in the queue waits.
TypeOK ==
  /\ check \in {"always", "never"} /\ version \in 1..MaxVersion
  /\ up \subseteq [id : IDs, held : Values]
  /\ down \in Seq([is : {"answer", "cacheOK", "refused", "provisional", "invalidate"},
                   id : IDs \cup {0}, value : Values])
  /\ said \in 0..MaxProvisional /\ closed \in BOOLEAN
  /\ nextID \in 1..(Cardinality(Callers) + 1) /\ pending \subseteq IDs
  /\ settled \in Seq([is : {"answer", "cacheOK", "refused", "timeout", "closed"}, id : IDs, value : Values])
  /\ out \subseteq Callers /\ waiting \in Seq(Callers) /\ kept \in Values
  /\ caller \in [Callers -> [st : {"idle", "waiting", "asking", "answered", "shared", "kept", "failed"},
                             held : Values, asked : Values, got : Values]]
  /\ \A i \in DOMAIN waiting : caller[waiting[i]].st = "waiting"

\* However many want the same call, and however it fails, it is asked by one at a time
\* (_call: "the first of those waiting asks for itself, and the rest wait for that").
OneOut ==
  /\ Cardinality(pending) + Len(settled) = Cardinality(out)
  /\ \A c \in Callers : caller[c].st = "asking" <=> c \in out

\* Who asked for itself is not told what was no longer so when it asked, though an
\* answer to a call given up comes late, and though a copy is held (_settleCall,
\* _cachedCall).
NotFromBefore ==
  \A c \in Callers : caller[c].st = "answered" => caller[c].got >= caller[c].asked

\* Every call ends: answered, shared or failed.
EveryCallEnds == \A c \in Callers : caller[c].st \in {"waiting", "asking"} ~> caller[c].st \in {"answered", "shared", "failed"}

=============================================================================
