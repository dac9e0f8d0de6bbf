---------------------------- MODULE AccountCache ----------------------------
(***************************************************************************)
(* The accounts the BFF keeps for a few seconds, so that a request is      *)
(* authenticated without asking the game server (src/accountCache.js), and *)
(* the requests that go by it (makeRequireAuth in src/server.js).          *)
(*                                                                         *)
(* Time passes in ticks; an age that no longer tells anything is capped.   *)
(***************************************************************************)
EXTENDS Integers, Sequences, FiniteSets

CONSTANTS Users, Requests,
          MaxEntries, \* accounts kept at most
          TTL,        \* ticks an account is kept
          LoadTime    \* ticks a lookup may take before it fails

ASSUME CacheAssumption ==
  MaxEntries \in Nat \ {0} /\ TTL \in Nat \ {0} /\ LoadTime \in Nat

Nobody == "nobody"

ASSUME NobodyAssumption == Nobody \notin Users \cup Requests

VARIABLES
  entries,  \* the accounts kept, in the order they were put there
  inFlight, \* the request whose lookup of a user is shared, if any
  lookup,   \* each request's own lookup
  req,      \* what each request waits for, and what it was told
  account,  \* the game server's accounts
  banned    \* ticks since an account was banned

cacheVars == <<entries, inFlight, lookup, req, account, banned>>

NoLookup == [st |-> "none", user |-> Nobody, found |-> "missing", age |-> 0]
Asked(u) == [st |-> "asked", user |-> u, found |-> "missing", age |-> 0]
NoRequest == [st |-> "idle", user |-> Nobody, on |-> Nobody, told |-> "none"]

CacheInit ==
  /\ entries = <<>>
  /\ inFlight = [u \in Users |-> Nobody]
  /\ lookup = [r \in Requests |-> NoLookup]
  /\ req = [r \in Requests |-> NoRequest]
  /\ account \in [Users -> {"missing", "good"}]
  /\ banned = [u \in Users |-> 0]

Kept(u)    == {i \in DOMAIN entries : entries[i].user = u}
Fresh(u)   == {i \in Kept(u) : entries[i].left > 0}

\* entries.delete(): the account kept of u, if any.
Deleted(i) == SubSeq(entries, 1, i - 1) \o SubSeq(entries, i + 1, Len(entries))
Deletes(u) == IF Kept(u) = {} THEN UNCHANGED entries ELSE \E i \in Kept(u) : entries' = Deleted(i)

\* makeRequireAuth(): what the account found means for the request.
Verdict(found) == CASE found = "missing" -> "unknown"
                    [] found = "banned"  -> "refused"
                    [] found = "good"    -> "let in"

Told(r, u, found) == [req EXCEPT ![r] = [st |-> "idle", user |-> u, on |-> Nobody, told |-> Verdict(found)]]

HitKeepingAlive(r, u) ==
  \E i \in Fresh(u) : /\ req' = Told(r, u, entries[i].found)
                      /\ entries' = [entries EXCEPT ![i].left = TTL]
                      /\ UNCHANGED <<inFlight, lookup>>

\* resolve(): the account kept is given, while it is fresh.
Hit(r, u) ==
  \E i \in Fresh(u) : /\ req' = Told(r, u, entries[i].found)
                      /\ UNCHANGED <<entries, inFlight, lookup>>

\* A miss shares the lookup that is under way.
Joins(r, u) ==
  /\ Fresh(u) = {} /\ inFlight[u] # Nobody
  /\ req' = [req EXCEPT ![r] = [st |-> "waiting", user |-> u, on |-> inFlight[u], told |-> "none"]]
  /\ Deletes(u)
  /\ UNCHANGED <<inFlight, lookup>>

LooksUpAlways(r, u) ==
  /\ Fresh(u) = {}
  /\ req' = [req EXCEPT ![r] = [st |-> "waiting", user |-> u, on |-> r, told |-> "none"]]
  /\ lookup' = [lookup EXCEPT ![r] = Asked(u)]
  /\ inFlight' = [inFlight EXCEPT ![u] = r]
  /\ Deletes(u)

LooksUp(r, u) ==
  /\ Fresh(u) = {} /\ inFlight[u] = Nobody
  /\ req' = [req EXCEPT ![r] = [st |-> "waiting", user |-> u, on |-> r, told |-> "none"]]
  /\ lookup' = [lookup EXCEPT ![r] = Asked(u)]
  /\ inFlight' = [inFlight EXCEPT ![u] = r]
  /\ Deletes(u)

Request(r, u) ==
  /\ req[r].st = "idle" /\ lookup[r].st = "none"
  /\ Hit(r, u) \/ Joins(r, u) \/ LooksUp(r, u)
  /\ UNCHANGED <<account, banned>>

\* evictIfFull(): the oldest goes.
Evicted(kept) == IF Len(kept) < MaxEntries THEN kept ELSE Tail(kept)

\* Successful lookups only.
Keeps(found) == found # "missing"

\* Whoever shares the lookup is told what it found, and an account that was found
\* is kept from then on.
Loaded(r) ==
  LET l == lookup[r] IN
  /\ l.st = "read"
  /\ entries' = IF ~Keeps(l.found) THEN entries
                ELSE Append(Evicted(entries), [user |-> l.user, found |-> l.found, left |-> TTL])
  /\ req' = [q \in Requests |-> IF req[q].on = r THEN Told(q, l.user, l.found)[q] ELSE req[q]]
  /\ inFlight' = [inFlight EXCEPT ![l.user] = Nobody]
  /\ lookup' = [lookup EXCEPT ![r] = NoLookup]
  /\ UNCHANGED <<account, banned>>

\* The lookup fails, and every request that shares it with it.
LoadFails(r) ==
  LET l == lookup[r] IN
  /\ l.st # "none"
  /\ req' = [q \in Requests |-> IF req[q].on = r THEN [NoRequest EXCEPT !.user = l.user, !.told = "error"] ELSE req[q]]
  /\ inFlight' = [inFlight EXCEPT ![l.user] = Nobody]
  /\ lookup' = [lookup EXCEPT ![r] = NoLookup]
  /\ UNCHANGED <<entries, account, banned>>

\* invalidate(), by a logout, which leaves a lookup under way alone.
Invalidate(u) ==
  /\ Deletes(u)
  /\ UNCHANGED <<inFlight, lookup, req, account, banned>>

(***************************************************************************)
(* The game server and time                                                *)
(***************************************************************************)

Reads(r) ==
  /\ lookup[r].st = "asked"
  /\ lookup' = [lookup EXCEPT ![r].st = "read", ![r].found = account[lookup[r].user]]
  /\ UNCHANGED <<entries, inFlight, req, account, banned>>

Created(u) == /\ account[u] = "missing"
              /\ account' = [account EXCEPT ![u] = "good"]
              /\ UNCHANGED <<entries, inFlight, lookup, req, banned>>

Banned(u) == /\ account[u] = "good"
             /\ account' = [account EXCEPT ![u] = "banned"]
             /\ UNCHANGED <<entries, inFlight, lookup, req, banned>>

Longest == TTL + LoadTime + 1

Tick ==
  /\ \A r \in Requests : lookup[r].st # "none" => lookup[r].age < LoadTime
  /\ entries' = [i \in DOMAIN entries |-> [entries[i] EXCEPT !.left = IF @ = 0 THEN 0 ELSE @ - 1]]
  /\ lookup' = [r \in Requests |-> IF lookup[r].st = "none" THEN NoLookup ELSE [lookup[r] EXCEPT !.age = @ + 1]]
  /\ banned' = [u \in Users |-> IF account[u] = "banned" /\ banned[u] < Longest THEN banned[u] + 1 ELSE banned[u]]
  /\ req' = [r \in Requests |-> IF req[r].st = "idle" THEN NoRequest ELSE req[r]]
  /\ UNCHANGED <<inFlight, account>>

CacheNext ==
  \/ \E r \in Requests, u \in Users : Request(r, u)
  \/ \E r \in Requests : Loaded(r) \/ LoadFails(r) \/ Reads(r)
  \/ \E u \in Users : Invalidate(u) \/ Created(u) \/ Banned(u)
  \/ Tick

CacheSpec == CacheInit /\ [][CacheNext]_cacheVars

(***************************************************************************)
(* Properties                                                              *)
(***************************************************************************)

Statuses == {"missing", "good", "banned"}

\* Every variable holds what its place in the code can hold.
CacheTypeOK ==
  /\ entries \in Seq([user : Users, found : Statuses \ {"missing"}, left : 0..TTL])
  /\ inFlight \in [Users -> Requests \cup {Nobody}]
  /\ lookup \in [Requests -> [st : {"none", "asked", "read"}, user : Users \cup {Nobody},
                              found : Statuses, age : 0..LoadTime]]
  /\ req \in [Requests -> [st : {"idle", "waiting"}, user : Users \cup {Nobody}, on : Requests \cup {Nobody},
                           told : {"none", "unknown", "refused", "let in", "error"}]]
  /\ account \in [Users -> Statuses] /\ banned \in [Users -> 0..Longest]

\* However requests for one user come together, the game server is asked once at a
\* time, and what the others wait for is a lookup that is under way
\* (accountCache.js:35, "SINGLE-FLIGHT").
OneLookupPerUser ==
  /\ \A r, q \in Requests : lookup[r].st # "none" /\ lookup[q].st # "none" /\ lookup[r].user = lookup[q].user => r = q
  /\ \A r \in Requests : req[r].st = "waiting" => lookup[req[r].on].st # "none" /\ lookup[req[r].on].user = req[r].user

\* A banned account is refused once the time to live and the longest lookup have
\* passed since the ban, whatever the requests in between.  The bound is longer than the
\* ttlMs of the comment (accountCache.js:24-26): the time to live of an answer begins
\* when the answer has come, and the ban may be as old as its lookup by then.
BanTakesHold == \A r \in Requests : req[r].told = "let in" => banned[req[r].user] < TTL + LoadTime
=============================================================================
