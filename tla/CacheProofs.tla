---------------------------- MODULE CacheProofs ----------------------------
(***************************************************************************)
(* Proofs about the two caches whose callers share what is under way, for  *)
(* any users, requests, callers, answers, cap and times.                   *)
(*                                                                         *)
(* About AccountCache: that the lookups of one user are shared (resolve in *)
(* src/accountCache.js), and that a ban takes hold.                        *)
(*                                                                         *)
(* About GamePortSession: that one and the same call is out once, and that *)
(* an answer to it is not from before it was asked                         *)
(* (src/gamePort/session.js).                                              *)
(***************************************************************************)
EXTENDS AccountCache, GamePortSession, FiniteSetTheorems, SequenceTheorems, TLAPS

-----------------------------------------------------------------------------
(* The account cache.                                                      *)

Lookups == [st : {"none", "asked", "read"}, user : Users \cup {Nobody},
            found : {"missing", "good", "banned"}, age : Int]

\* As much of the types as the sharing rests on: nothing of what is kept.
LookupTypes ==
  /\ inFlight \in [Users -> Requests \cup {Nobody}]
  /\ lookup \in [Requests -> Lookups]
  /\ req = [r \in Requests |-> req[r]]
  /\ \A r \in Requests : req[r].st \in {"idle", "waiting"} /\ req[r].on \in Requests \cup {Nobody}
  /\ account \in [Users -> {"missing", "good", "banned"}]

\* What is noted as the lookup of a user is one of his that is under way, and
\* every lookup that is under way is noted.
Noted ==
  /\ \A u \in Users : inFlight[u] # Nobody => lookup[inFlight[u]].st # "none" /\ lookup[inFlight[u]].user = u
  /\ \A r \in Requests : lookup[r].st # "none" => lookup[r].user \in Users /\ inFlight[lookup[r].user] = r

\* A request waits for a lookup of its user that is under way, and for nothing
\* when it does not wait.
WaitsForItsUser ==
  \A r \in Requests : /\ req[r].st = "waiting" <=> req[r].on # Nobody
                      /\ req[r].st = "waiting" => /\ lookup[req[r].on].st # "none"
                                                  /\ lookup[req[r].on].user = req[r].user

Shared == LookupTypes /\ Noted /\ WaitsForItsUser

LEMMA SharedInit == CacheInit => Shared
BY NobodyAssumption DEF CacheInit, Shared, LookupTypes, Noted, WaitsForItsUser, NoLookup, NoRequest, Lookups, Nobody

\* A hit, or joining the lookup under way, leaves the lookups as they are.
LEMMA SharedHit ==
  ASSUME Shared, NEW r \in Requests, NEW u \in Users, req[r].st = "idle",
         Hit(r, u) \/ Joins(r, u), UNCHANGED account
  PROVE  Shared'
<1>1. inFlight' = inFlight /\ lookup' = lookup BY DEF Hit, Joins
<1>2. \/ req' = [req EXCEPT ![r] = [st |-> "idle", user |-> u, on |-> Nobody, told |-> req'[r].told]]
      \/ /\ inFlight[u] # Nobody
         /\ req' = [req EXCEPT ![r] = [st |-> "waiting", user |-> u, on |-> inFlight[u], told |-> "none"]]
  <2>1. CASE Joins(r, u) BY <2>1 DEF Joins
  <2>2. CASE Hit(r, u)
    <3>1. PICK i \in Fresh(u) : req' = Told(r, u, entries[i].found) BY <2>2 DEF Hit
    <3>2. req' = [req EXCEPT ![r] = [st |-> "idle", user |-> u, on |-> Nobody,
                                     told |-> Verdict(entries[i].found)]]
      BY <3>1 DEF Told
    <3>3. req'[r].told = Verdict(entries[i].found) BY <3>2 DEF Shared, LookupTypes
    <3> QED BY <3>2, <3>3
  <2> QED BY <2>1, <2>2
<1>3. inFlight[u] \in Requests \cup {Nobody} BY DEF Shared, LookupTypes
<1>4. LookupTypes' BY <1>1, <1>2, <1>3 DEF Shared, LookupTypes
<1>5. Noted' BY <1>1 DEF Shared, Noted
<1>6. ASSUME NEW q \in Requests
      PROVE  /\ req'[q].st = "waiting" <=> req'[q].on # Nobody
             /\ req'[q].st = "waiting" => /\ lookup'[req'[q].on].st # "none"
                                          /\ lookup'[req'[q].on].user = req'[q].user
  <2>1. CASE q = r
    <3>1. CASE req'[r].st = "idle" BY <1>2, <2>1, <3>1 DEF Shared, LookupTypes
    <3>2. CASE req'[r].st # "idle"
      <4>1. inFlight[u] # Nobody /\ req'[r] = [st |-> "waiting", user |-> u, on |-> inFlight[u], told |-> "none"]
        BY <1>2, <3>2 DEF Shared, LookupTypes
      <4> QED BY <1>1, <2>1, <4>1 DEF Shared, Noted
    <3> QED BY <3>1, <3>2
  <2>2. CASE q # r
    <3>1. req'[q] = req[q] BY <1>2, <2>2 DEF Shared, LookupTypes
    <3> QED BY <1>1, <3>1 DEF Shared, WaitsForItsUser
  <2> QED BY <2>1, <2>2
<1>7. WaitsForItsUser' BY <1>6 DEF WaitsForItsUser
<1> QED BY <1>4, <1>5, <1>7 DEF Shared

\* A lookup is begun where its user has none.
LEMMA SharedLooksUp ==
  ASSUME Shared, NEW r \in Requests, NEW u \in Users, req[r].st = "idle", lookup[r].st = "none",
         LooksUp(r, u), UNCHANGED account
  PROVE  Shared'
<1>1. /\ inFlight[u] = Nobody /\ r # Nobody
      /\ lookup' = [lookup EXCEPT ![r] = Asked(u)]
      /\ inFlight' = [inFlight EXCEPT ![u] = r]
      /\ req' = [req EXCEPT ![r] = [st |-> "waiting", user |-> u, on |-> r, told |-> "none"]]
  BY NobodyAssumption DEF LooksUp
<1>2. Asked(u) \in Lookups /\ Asked(u).st = "asked" /\ Asked(u).user = u BY DEF Asked, Lookups
<1>3. LookupTypes' BY <1>1, <1>2 DEF Shared, LookupTypes
<1>4. Noted'
  <2>1. ASSUME NEW v \in Users, inFlight'[v] # Nobody
        PROVE  lookup'[inFlight'[v]].st # "none" /\ lookup'[inFlight'[v]].user = v
    <3>1. CASE v = u BY <1>1, <1>2, <3>1 DEF Shared, LookupTypes
    <3>2. CASE v # u
      <4>1. inFlight'[v] = inFlight[v] /\ inFlight[v] \in Requests /\ inFlight[v] # r
        BY <1>1, <2>1, <3>2 DEF Shared, LookupTypes, Noted
      <4>2. lookup'[inFlight[v]] = lookup[inFlight[v]] BY <1>1, <4>1 DEF Shared, LookupTypes
      <4> QED BY <2>1, <4>1, <4>2 DEF Shared, Noted
    <3> QED BY <3>1, <3>2
  <2>2. ASSUME NEW q \in Requests, lookup'[q].st # "none"
        PROVE  lookup'[q].user \in Users /\ inFlight'[lookup'[q].user] = q
    <3>1. CASE q = r BY <1>1, <1>2, <3>1 DEF Shared, LookupTypes
    <3>2. CASE q # r
      <4>1. lookup'[q] = lookup[q] BY <1>1, <3>2 DEF Shared, LookupTypes
      <4>2. lookup[q].user \in Users /\ inFlight[lookup[q].user] = q /\ q # Nobody
        BY <2>2, <4>1, NobodyAssumption DEF Shared, Noted
      <4> QED BY <1>1, <4>1, <4>2 DEF Shared, LookupTypes
    <3> QED BY <3>1, <3>2
  <2> QED BY <2>1, <2>2 DEF Noted
<1>5. WaitsForItsUser'
  <2>1. \A q \in Requests : req[q].st = "waiting" => req[q].on # r
    BY DEF Shared, WaitsForItsUser
  <2> QED BY <1>1, <1>2, <2>1 DEF Shared, LookupTypes, WaitsForItsUser
<1> QED BY <1>3, <1>4, <1>5 DEF Shared

\* A lookup ends: nobody waits for it any more, and no other is its user's.
LEMMA SharedEnds ==
  ASSUME Shared, NEW r \in Requests, lookup[r].st # "none", UNCHANGED account,
         inFlight' = [inFlight EXCEPT ![lookup[r].user] = Nobody],
         lookup' = [lookup EXCEPT ![r] = NoLookup],
         req' = [q \in Requests |-> req'[q]],
         \A q \in Requests : IF req[q].on = r THEN req'[q].st = "idle" /\ req'[q].on = Nobody
                                              ELSE req'[q] = req[q]
  PROVE  Shared'
<1>1. NoLookup \in Lookups /\ NoLookup.st = "none" BY DEF NoLookup, Lookups
<1>2. LookupTypes' BY <1>1 DEF Shared, LookupTypes
<1>3. Noted' BY <1>1 DEF Shared, LookupTypes, Noted
<1>4. WaitsForItsUser' BY <1>1 DEF Shared, LookupTypes, WaitsForItsUser
<1> QED BY <1>2, <1>3, <1>4 DEF Shared

LEMMA SharedLoaded ==
  ASSUME Shared, NEW r \in Requests, Loaded(r)
  PROVE  Shared'
<1> DEFINE told == [st |-> "idle", user |-> lookup[r].user, on |-> Nobody, told |-> Verdict(lookup[r].found)]
<1>1. \A q \in Requests : Told(q, lookup[r].user, lookup[r].found)[q] = told
  BY DEF Told, Shared, LookupTypes
<1>2. req' = [q \in Requests |-> IF req[q].on = r THEN Told(q, lookup[r].user, lookup[r].found)[q] ELSE req[q]]
  BY DEF Loaded
<1>3. told.st = "idle" /\ told.on = Nobody OBVIOUS
<1> HIDE DEF told
<1>4. \A q \in Requests : IF req[q].on = r THEN req'[q].st = "idle" /\ req'[q].on = Nobody
                                           ELSE req'[q] = req[q]
  BY <1>1, <1>2, <1>3
<1>5. req' = [q \in Requests |-> req'[q]] BY <1>2
<1> QED BY <1>4, <1>5, SharedEnds DEF Loaded

LEMMA SharedLoadFails ==
  ASSUME Shared, NEW r \in Requests, LoadFails(r)
  PROVE  Shared'
<1>1. req' = [q \in Requests |-> IF req[q].on = r THEN [NoRequest EXCEPT !.user = lookup[r].user, !.told = "error"]
                                                   ELSE req[q]]
  BY DEF LoadFails
<1>2. \A q \in Requests : IF req[q].on = r THEN req'[q].st = "idle" /\ req'[q].on = Nobody
                                           ELSE req'[q] = req[q]
  BY <1>1 DEF NoRequest
<1>3. req' = [q \in Requests |-> req'[q]] BY <1>1
<1> QED BY <1>2, <1>3, SharedEnds DEF LoadFails

\* The game server, time and a logout change neither who looks up nor who waits.
LEMMA SharedOutside ==
  ASSUME Shared, \/ \E r \in Requests : Reads(r)
                 \/ \E u \in Users : Invalidate(u) \/ Created(u) \/ Banned(u)
                 \/ Tick
                 \/ UNCHANGED cacheVars
  PROVE  Shared'
<1>1. ASSUME NEW r \in Requests, Reads(r) PROVE Shared'
  <2>1. lookup[r] \in Lookups /\ lookup[r].user \in Users /\ account[lookup[r].user] \in {"missing", "good", "banned"}
    BY <1>1 DEF Reads, Shared, LookupTypes, Noted
  <2>2. /\ lookup' \in [Requests -> Lookups]
        /\ \A q \in Requests : lookup'[q].user = lookup[q].user /\ (lookup'[q].st = "none" <=> lookup[q].st = "none")
    BY <1>1, <2>1 DEF Reads, Lookups, Shared, LookupTypes
  <2>3. UNCHANGED <<inFlight, req, account>> BY <1>1 DEF Reads
  <2> QED BY <2>2, <2>3 DEF Shared, LookupTypes, Noted, WaitsForItsUser
<1>2. CASE Tick
  <2>1. /\ lookup' \in [Requests -> Lookups]
        /\ \A q \in Requests : /\ lookup'[q].st = lookup[q].st
                               /\ lookup[q].st # "none" => lookup'[q].user = lookup[q].user
    <3> SUFFICES ASSUME NEW q \in Requests
                 PROVE  /\ lookup'[q] \in Lookups /\ lookup'[q].st = lookup[q].st
                        /\ lookup[q].st # "none" => lookup'[q].user = lookup[q].user
      BY <1>2 DEF Tick
    <3>1. lookup[q] \in Lookups BY DEF Shared, LookupTypes
    <3>2. CASE lookup[q].st = "none" BY <1>2, <3>2 DEF Tick, NoLookup, Lookups
    <3>3. CASE lookup[q].st # "none" BY <1>2, <3>1, <3>3 DEF Tick, Lookups
    <3> QED BY <3>2, <3>3
  <2>2. /\ req' = [q \in Requests |-> req'[q]]
        /\ \A q \in Requests : req'[q].st = req[q].st /\ req'[q].on = req[q].on
                               /\ (req[q].st = "waiting" => req'[q] = req[q])
    BY <1>2 DEF Tick, NoRequest, Shared, LookupTypes, WaitsForItsUser
  <2>3. UNCHANGED <<inFlight, account>> BY <1>2 DEF Tick
  <2>4. LookupTypes' BY <2>1, <2>2, <2>3 DEF Shared, LookupTypes
  <2>5. Noted'
    <3>1. \A u \in Users : inFlight[u] \in Requests \cup {Nobody} BY DEF Shared, LookupTypes
    <3> QED BY <2>1, <2>3, <3>1 DEF Shared, Noted
  <2>6. WaitsForItsUser'
    <3>1. \A q \in Requests : req[q].st = "waiting" => req[q].on \in Requests
      BY DEF Shared, LookupTypes, WaitsForItsUser
    <3> QED BY <2>1, <2>2, <3>1 DEF Shared, WaitsForItsUser
  <2> QED BY <2>4, <2>5, <2>6 DEF Shared
<1>3. ASSUME NEW u \in Users, Invalidate(u) \/ Created(u) \/ Banned(u) PROVE Shared'
  BY <1>3 DEF Invalidate, Created, Banned, Shared, LookupTypes, Noted, WaitsForItsUser
<1>4. CASE UNCHANGED cacheVars BY <1>4 DEF cacheVars, Shared, LookupTypes, Noted, WaitsForItsUser
<1> QED BY <1>1, <1>2, <1>3, <1>4

LEMMA SharedNext ==
  ASSUME Shared, [CacheNext]_cacheVars
  PROVE  Shared'
<1>1. ASSUME NEW r \in Requests, NEW u \in Users, Request(r, u) PROVE Shared'
  BY <1>1, SharedHit, SharedLooksUp DEF Request
<1> QED BY <1>1, SharedLoaded, SharedLoadFails, SharedOutside DEF CacheNext

\* However requests for one user come together, the game server is asked once at
\* a time, and what the others wait for is a lookup that is under way.
THEOREM OneLookup == CacheSpec => []OneLookupPerUser
<1>1. Shared /\ [CacheNext]_cacheVars => Shared' BY SharedNext
<1>2. Shared => OneLookupPerUser
  BY DEF Shared, Noted, WaitsForItsUser, OneLookupPerUser
<1> QED BY SharedInit, <1>1, <1>2, PTL DEF CacheSpec

-----------------------------------------------------------------------------
(* How long an account found good is believed.                             *)

Entry == [user : Users, found : Statuses \ {"missing"}, left : 0..TTL]

\* An account kept as good has been banned for no longer than its time to live
\* has run, and the lookup that found it could take.
EntriesFresh ==
  \A i \in DOMAIN entries : entries[i].found = "good" /\ entries[i].left > 0
                           => banned[entries[i].user] + entries[i].left <= TTL + LoadTime

\* An account read as good was banned, if at all, after its lookup had begun.
LookupsFresh ==
  \A r \in Requests : lookup[r].st = "read" /\ lookup[r].found = "good" => banned[lookup[r].user] <= lookup[r].age

\* The time since a ban runs for accounts that are banned.
BansCounted == \A u \in Users : account[u] # "banned" => banned[u] = 0

\* Only who waits for nothing was told anything, and of a user.
ToldOnce == \A r \in Requests : req[r].told = "let in" => req[r].st = "idle" /\ req[r].user \in Users

Timely == CacheTypeOK /\ Shared /\ EntriesFresh /\ LookupsFresh /\ BansCounted /\ ToldOnce /\ BanTakesHold

LEMMA Bounds == TTL \in Nat /\ TTL > 0 /\ LoadTime \in Nat /\ MaxEntries \in Nat /\ MaxEntries > 0
BY CacheAssumption

LEMMA TypesOf ==
  ASSUME CacheTypeOK
  PROVE  /\ entries \in Seq(Entry) /\ Len(entries) \in Nat /\ DOMAIN entries = 1..Len(entries)
         /\ \A i \in DOMAIN entries : /\ entries[i] \in Entry /\ entries[i].user \in Users
                                      /\ entries[i].left \in Nat /\ entries[i].left <= TTL
         /\ \A u \in Users : banned[u] \in Nat
         /\ \A r \in Requests : lookup[r].age \in Nat /\ lookup[r].age <= LoadTime
<1>1. entries \in Seq(Entry) BY DEF CacheTypeOK, Entry
<1>2. /\ Len(entries) \in Nat /\ DOMAIN entries = 1..Len(entries)
      /\ \A i \in DOMAIN entries : entries[i] \in Entry
  BY <1>1
<1>3. \A i \in DOMAIN entries : entries[i].user \in Users /\ entries[i].left \in Nat /\ entries[i].left <= TTL
  BY <1>2, Bounds DEF Entry
<1>4. \A u \in Users : banned[u] \in Nat
  <2>1. \A u \in Users : banned[u] \in 0..Longest BY DEF CacheTypeOK
  <2> QED BY <2>1, Bounds DEF Longest
<1>5. \A r \in Requests : lookup[r].age \in Nat /\ lookup[r].age <= LoadTime
  <2>1. \A r \in Requests : lookup[r].age \in 0..LoadTime BY DEF CacheTypeOK
  <2> QED BY <2>1, Bounds
<1> QED BY <1>1, <1>2, <1>3, <1>4, <1>5

\* What is left when an account is deleted was there before.
LEMMA DeletesKeeps ==
  ASSUME entries \in Seq(Entry), NEW u \in Users, Deletes(u)
  PROVE  /\ entries' \in Seq(Entry)
         /\ \A j \in DOMAIN entries' : \E i \in DOMAIN entries : entries'[j] = entries[i]
<1>1. CASE Kept(u) = {} BY <1>1 DEF Deletes
<1>2. ASSUME NEW i \in Kept(u), entries' = Deleted(i)
      PROVE  /\ entries' \in Seq(Entry)
             /\ \A j \in DOMAIN entries' : \E k \in DOMAIN entries : entries'[j] = entries[k]
  <2> DEFINE n == Len(entries)
  <2>1. i \in 1..n /\ n \in Nat BY <1>2 DEF Kept
  <2>2. entries' = SubSeq(entries, 1, i - 1) \o SubSeq(entries, i + 1, n) BY <1>2 DEF Deleted
  <2> DEFINE before == SubSeq(entries, 1, i - 1)
             after  == SubSeq(entries, i + 1, n)
  <2>3. before \in Seq(Entry) /\ after \in Seq(Entry) /\ entries' = before \o after
    BY <2>1, <2>2
  <2>4. /\ Len(before) = i - 1 /\ Len(after) = n - i
        /\ \A j \in 1..(i - 1) : before[j] = entries[j]
        /\ \A j \in 1..(n - i) : after[j] = entries[i + j]
    BY <2>1
  <2> HIDE DEF before, after, n
  <2>5. /\ entries' \in Seq(Entry) /\ DOMAIN entries' = 1..(Len(before) + Len(after))
        /\ \A j \in 1..(Len(before) + Len(after)) :
              entries'[j] = IF j <= Len(before) THEN before[j] ELSE after[j - Len(before)]
    BY <2>3, ConcatProperties
  <2>6. ASSUME NEW j \in 1..(n - 1) PROVE \E k \in 1..n : entries'[j] = entries[k]
    <3>1. CASE j <= i - 1 BY <2>1, <2>4, <2>5, <3>1
    <3>2. CASE j > i - 1
      <4>1. j - (i - 1) \in 1..(n - i) /\ i + (j - (i - 1)) \in 1..n BY <2>1, <3>2
      <4>4. j \in 1..(Len(before) + Len(after)) /\ ~(j <= Len(before)) BY <2>1, <2>4, <3>2
      <4>2. entries'[j] = after[j - (i - 1)] BY <2>4, <2>5, <4>4
      <4>3. after[j - (i - 1)] = entries[i + (j - (i - 1))] BY <2>4, <4>1
      <4> QED BY <4>1, <4>2, <4>3
    <3> QED BY <2>1, <3>1, <3>2
  <2>7. DOMAIN entries' = 1..(n - 1) BY <2>1, <2>4, <2>5
  <2>8. DOMAIN entries = 1..n BY DEF n
  <2> QED BY <2>5, <2>6, <2>7, <2>8
<1> QED BY <1>1, <1>2 DEF Deletes

\* A step that lets nobody in anew and keeps nothing anew, at the same time.
LEMMA TimelyStands ==
  ASSUME Timely, Shared', entries' \in Seq(Entry), UNCHANGED banned,
         \A j \in DOMAIN entries' : \E i \in DOMAIN entries : entries'[j] = entries[i],
         inFlight' \in [Users -> Requests \cup {Nobody}],
         lookup' \in [Requests -> [st : {"none", "asked", "read"}, user : Users \cup {Nobody},
                                   found : Statuses, age : 0..LoadTime]],
         req' \in [Requests -> [st : {"idle", "waiting"}, user : Users \cup {Nobody}, on : Requests \cup {Nobody},
                                told : {"none", "unknown", "refused", "let in", "error"}]],
         account' \in [Users -> Statuses], BansCounted', LookupsFresh',
         \A r \in Requests : req'[r] = req[r] \/ req'[r].told # "let in"
                              \/ (req'[r].st = "idle" /\ req'[r].user \in Users /\ banned[req'[r].user] < TTL + LoadTime)
  PROVE  Timely'
<1>1. CacheTypeOK' BY DEF Timely, CacheTypeOK, Entry
<1>2. EntriesFresh'
  <2> SUFFICES ASSUME NEW j \in DOMAIN entries', entries'[j].found = "good", entries'[j].left > 0
               PROVE  banned'[entries'[j].user] + entries'[j].left <= TTL + LoadTime
    BY DEF EntriesFresh
  <2>1. PICK i \in DOMAIN entries : entries'[j] = entries[i] OBVIOUS
  <2>2. banned[entries[i].user] + entries[i].left <= TTL + LoadTime BY <2>1 DEF Timely, EntriesFresh
  <2> QED BY <2>1, <2>2
<1>3. ToldOnce' BY DEF Timely, ToldOnce
<1>4. BanTakesHold' BY DEF Timely, BanTakesHold
<1> QED BY <1>1, <1>2, <1>3, <1>4 DEF Timely

LEMMA TimelyInit == CacheInit => Timely
<1> SUFFICES ASSUME CacheInit PROVE Timely OBVIOUS
<1>1. Shared BY SharedInit
<1>2. CacheTypeOK
  <2>1. entries = <<>> /\ banned = [u \in Users |-> 0] /\ 0 \in 0..Longest BY Bounds DEF CacheInit, Longest
  <2>2. NoLookup \in [st : {"none", "asked", "read"}, user : Users \cup {Nobody}, found : Statuses, age : 0..LoadTime]
    BY Bounds DEF NoLookup, Statuses
  <2>3. NoRequest \in [st : {"idle", "waiting"}, user : Users \cup {Nobody}, on : Requests \cup {Nobody},
                       told : {"none", "unknown", "refused", "let in", "error"}]
    BY DEF NoRequest
  <2>4. entries \in Seq([user : Users, found : Statuses \ {"missing"}, left : 0..TTL]) BY <2>1
  <2>5. account \in [Users -> Statuses] BY DEF CacheInit, Statuses
  <2>6. /\ inFlight = [u \in Users |-> Nobody] /\ lookup = [r \in Requests |-> NoLookup]
        /\ req = [r \in Requests |-> NoRequest]
    BY DEF CacheInit
  <2>7. inFlight \in [Users -> Requests \cup {Nobody}] BY <2>6
  <2>8. lookup \in [Requests -> [st : {"none", "asked", "read"}, user : Users \cup {Nobody},
                                 found : Statuses, age : 0..LoadTime]]
    BY <2>2, <2>6
  <2>9. req \in [Requests -> [st : {"idle", "waiting"}, user : Users \cup {Nobody}, on : Requests \cup {Nobody},
                              told : {"none", "unknown", "refused", "let in", "error"}]]
    BY <2>3, <2>6
  <2>10. banned \in [Users -> 0..Longest] BY <2>1
  <2> QED BY <2>4, <2>5, <2>7, <2>8, <2>9, <2>10 DEF CacheTypeOK
<1>3. EntriesFresh
  <2>1. DOMAIN entries = {} BY DEF CacheInit
  <2> QED BY <2>1 DEF EntriesFresh
<1>4. \A r \in Requests : lookup[r].st = "none" /\ req[r].told = "none" BY DEF CacheInit, NoLookup, NoRequest
<1>5. LookupsFresh /\ BansCounted /\ ToldOnce /\ BanTakesHold
  BY <1>4 DEF CacheInit, LookupsFresh, BansCounted, ToldOnce, BanTakesHold
<1> QED BY <1>1, <1>2, <1>3, <1>5 DEF Timely

\* Who is let in by what is kept is let in while its time runs.
LEMMA TimelyRequest ==
  ASSUME Timely, Shared', NEW r \in Requests, NEW u \in Users, Request(r, u)
  PROVE  Timely'
<1>1. CacheTypeOK /\ entries \in Seq(Entry) /\ UNCHANGED <<account, banned>> BY TypesOf DEF Timely, Request
<1>2. BansCounted' BY <1>1 DEF Timely, BansCounted
<1>3. CASE Hit(r, u)
  <2>1. PICK i \in Fresh(u) : req' = Told(r, u, entries[i].found) BY <1>3 DEF Hit
  <2>2. UNCHANGED <<entries, inFlight, lookup>> BY <1>3 DEF Hit
  <2>3. i \in DOMAIN entries /\ entries[i].user = u /\ entries[i].left > 0 /\ entries[i] \in Entry
    BY <1>1, <2>1, TypesOf DEF Fresh, Kept
  <2> DEFINE t == Verdict(entries[i].found)
  <2>4. /\ t \in {"refused", "let in"}
        /\ t = "let in" => banned[u] < TTL + LoadTime
    <3>1. entries[i].found \in {"good", "banned"} BY <2>3 DEF Entry, Statuses
    <3>2. CASE entries[i].found = "banned" BY <3>2 DEF Verdict
    <3>3. CASE entries[i].found = "good"
      <4>1. t = "let in" BY <3>3 DEF Verdict
      <4>2. banned[u] + entries[i].left <= TTL + LoadTime BY <2>3, <3>3 DEF Timely, EntriesFresh
      <4>3. banned[u] \in Nat /\ entries[i].left \in Nat BY <1>1, <2>3, TypesOf
      <4>4. entries[i].left > 0 BY <2>3
      <4>5. banned[u] < TTL + LoadTime BY ONLY <4>2, <4>3, <4>4, Bounds
      <4> HIDE DEF t
      <4> QED BY <4>1, <4>5
    <3> QED BY <3>1, <3>2, <3>3
  <2>5. req' = [req EXCEPT ![r] = [st |-> "idle", user |-> u, on |-> Nobody, told |-> t]] BY <2>1 DEF Told
  <2> HIDE DEF t
  <2>6. req' \in [Requests -> [st : {"idle", "waiting"}, user : Users \cup {Nobody}, on : Requests \cup {Nobody},
                               told : {"none", "unknown", "refused", "let in", "error"}]]
    BY <1>1, <2>4, <2>5 DEF CacheTypeOK
  <2>7. \A q \in Requests : req'[q] = req[q] \/ req'[q].told # "let in"
                           \/ (req'[q].st = "idle" /\ req'[q].user \in Users /\ banned[req'[q].user] < TTL + LoadTime)
    BY <1>1, <2>4, <2>5 DEF CacheTypeOK
  <2>8. LookupsFresh' BY <1>1, <2>2 DEF Timely, LookupsFresh
  <2> QED BY <1>1, <1>2, <2>2, <2>6, <2>7, <2>8, TimelyStands DEF CacheTypeOK
<1>4. CASE Joins(r, u) \/ LooksUp(r, u)
  <2>1. /\ entries' \in Seq(Entry)
        /\ \A j \in DOMAIN entries' : \E i \in DOMAIN entries : entries'[j] = entries[i]
    BY <1>1, <1>4, DeletesKeeps DEF Joins, LooksUp
  <2>2. PICK on \in Requests : req' = [req EXCEPT ![r] = [st |-> "waiting", user |-> u, on |-> on, told |-> "none"]]
    BY <1>1, <1>4 DEF Joins, LooksUp, CacheTypeOK
  <2>3. req' \in [Requests -> [st : {"idle", "waiting"}, user : Users \cup {Nobody}, on : Requests \cup {Nobody},
                               told : {"none", "unknown", "refused", "let in", "error"}]]
    BY <1>1, <2>2 DEF CacheTypeOK
  <2>4. \A q \in Requests : req'[q] = req[q] \/ req'[q].told # "let in"
    BY <1>1, <2>2 DEF CacheTypeOK
  <2>5. inFlight' \in [Users -> Requests \cup {Nobody}] BY <1>1, <1>4 DEF Joins, LooksUp, CacheTypeOK
  <2>6. lookup' = lookup \/ lookup' = [lookup EXCEPT ![r] = Asked(u)] BY <1>4 DEF Joins, LooksUp
  <2>7. /\ Asked(u) \in [st : {"none", "asked", "read"}, user : Users \cup {Nobody}, found : Statuses, age : 0..LoadTime]
        /\ Asked(u).st = "asked"
    BY Bounds DEF Asked, Statuses
  <2>8. lookup' \in [Requests -> [st : {"none", "asked", "read"}, user : Users \cup {Nobody},
                                  found : Statuses, age : 0..LoadTime]]
    BY <1>1, <2>6, <2>7 DEF CacheTypeOK
  <2>9. LookupsFresh' BY <1>1, <2>6, <2>7 DEF Timely, LookupsFresh, CacheTypeOK
  <2> QED BY <1>1, <1>2, <2>1, <2>3, <2>4, <2>5, <2>8, <2>9, TimelyStands DEF CacheTypeOK
<1> QED BY <1>3, <1>4 DEF Request

\* An account found good is kept, and its finders let in, no later than a lookup takes
\* after the ban.
LEMMA TimelyLoaded ==
  ASSUME Timely, Shared', NEW r \in Requests, Loaded(r)
  PROVE  Timely'
<1> DEFINE l == lookup[r]
           e == [user |-> l.user, found |-> l.found, left |-> TTL]
           t == [st |-> "idle", user |-> l.user, on |-> Nobody, told |-> Verdict(l.found)]
<1>1. CacheTypeOK /\ entries \in Seq(Entry) /\ UNCHANGED <<account, banned>> BY TypesOf DEF Timely, Loaded
<1>2. l.st = "read" /\ l.user \in Users /\ l.found \in Statuses /\ l.age \in Nat /\ l.age <= LoadTime
  BY <1>1, TypesOf DEF Loaded, Timely, Shared, Noted, CacheTypeOK
<1>3. banned[l.user] \in Nat /\ (l.found = "good" => banned[l.user] <= LoadTime)
  <2>1. l.found = "good" => banned[l.user] <= l.age BY <1>2 DEF Timely, LookupsFresh
  <2>2. banned[l.user] \in Nat BY <1>1, <1>2, TypesOf
  <2> QED BY <1>2, <2>1, <2>2, Bounds
<1>4. l.found \in Statuses \ {"missing"} => e \in Entry
  BY <1>2, Bounds DEF Entry
<1>5. /\ t \in [st : {"idle", "waiting"}, user : Users \cup {Nobody}, on : Requests \cup {Nobody},
                told : {"none", "unknown", "refused", "let in", "error"}]
      /\ t.told = "let in" => l.found = "good"
      /\ t.st = "idle" /\ t.user = l.user
  BY <1>2 DEF Verdict, Statuses
<1>6. req' = [q \in Requests |-> IF req[q].on = r THEN t ELSE req[q]]
  <2>1. \A q \in Requests : Told(q, l.user, l.found)[q] = t BY <1>1 DEF Told, CacheTypeOK
  <2>2. req' = [q \in Requests |-> IF req[q].on = r THEN Told(q, l.user, l.found)[q] ELSE req[q]] BY DEF Loaded
  <2> HIDE DEF t, l
  <2> QED BY <2>1, <2>2
<1>7. /\ entries' = IF ~Keeps(l.found) THEN entries ELSE Append(Evicted(entries), e)
      /\ inFlight' = [inFlight EXCEPT ![l.user] = Nobody] /\ lookup' = [lookup EXCEPT ![r] = NoLookup]
  BY DEF Loaded
<1> HIDE DEF l, e, t
<1>8. /\ Evicted(entries) \in Seq(Entry)
      /\ \A j \in DOMAIN Evicted(entries) : \E i \in DOMAIN entries : Evicted(entries)[j] = entries[i]
  <2>1. CASE Len(entries) < MaxEntries BY <1>1, <2>1 DEF Evicted
  <2>2. CASE ~(Len(entries) < MaxEntries)
    <3>1. Len(entries) \in Nat /\ Len(entries) > 0 /\ entries # <<>> BY <1>1, <2>2, Bounds, TypesOf
    <3>2. /\ Tail(entries) \in Seq(Entry) /\ Len(Tail(entries)) = Len(entries) - 1
          /\ \A j \in 1..(Len(entries) - 1) : Tail(entries)[j] = entries[j + 1]
      BY <1>1, <3>1
    <3> QED BY <2>2, <3>1, <3>2 DEF Evicted
  <2> QED BY <2>1, <2>2
<1>9. /\ entries' \in Seq(Entry)
      /\ \A j \in DOMAIN entries' : (\E i \in DOMAIN entries : entries'[j] = entries[i])
                                     \/ (l.found # "missing" /\ entries'[j] = e)
  <2>1. CASE ~Keeps(l.found) BY <1>1, <1>7, <2>1
  <2>2. CASE Keeps(l.found)
    <3> DEFINE rest == Evicted(entries)
    <3>1. l.found # "missing" /\ e \in Entry BY <1>2, <1>4, <2>2 DEF Keeps
    <3>2. entries' = Append(rest, e) /\ rest \in Seq(Entry) BY <1>7, <1>8, <2>2
    <3>3. \A j \in DOMAIN rest : \E i \in DOMAIN entries : rest[j] = entries[i] BY <1>8
    <3> HIDE DEF rest
    <3>4. /\ entries' \in Seq(Entry) /\ DOMAIN entries' = 1..(Len(rest) + 1) /\ DOMAIN rest = 1..Len(rest)
          /\ Len(rest) \in Nat
          /\ \A j \in 1..Len(rest) : entries'[j] = rest[j]
          /\ entries'[Len(rest) + 1] = e
      BY <3>1, <3>2
    <3>5. \A j \in DOMAIN entries' : j \in DOMAIN rest \/ j = Len(rest) + 1 BY ONLY <3>4
    <3> QED BY <3>1, <3>3, <3>4, <3>5
  <2> QED BY <2>1, <2>2
<1>10. CacheTypeOK'
  <2>1. NoLookup \in [st : {"none", "asked", "read"}, user : Users \cup {Nobody}, found : Statuses, age : 0..LoadTime]
    BY Bounds DEF NoLookup, Statuses
  <2>2. entries' \in Seq([user : Users, found : Statuses \ {"missing"}, left : 0..TTL]) BY <1>9 DEF Entry
  <2>3. req' \in [Requests -> [st : {"idle", "waiting"}, user : Users \cup {Nobody}, on : Requests \cup {Nobody},
                               told : {"none", "unknown", "refused", "let in", "error"}]]
    BY <1>1, <1>5, <1>6 DEF CacheTypeOK
  <2> QED BY <1>1, <1>7, <2>1, <2>2, <2>3 DEF CacheTypeOK
<1>11. EntriesFresh'
  <2>1. e.user = l.user /\ e.found = l.found /\ e.left = TTL BY DEF e
  <2>2. l.found = "good" => banned[l.user] + TTL <= TTL + LoadTime BY <1>3, Bounds
  <2> QED BY <1>1, <1>9, <2>1, <2>2 DEF Timely, EntriesFresh
<1>12. LookupsFresh' BY <1>1, <1>7 DEF Timely, LookupsFresh, CacheTypeOK, NoLookup
<1>13. BansCounted' BY <1>1 DEF Timely, BansCounted
<1>14. ToldOnce' BY <1>2, <1>5, <1>6 DEF Timely, ToldOnce
<1>15. BanTakesHold'
  <2>1. l.found = "good" => banned[l.user] < TTL + LoadTime BY <1>3, Bounds
  <2> QED BY <1>1, <1>5, <1>6, <2>1 DEF Timely, BanTakesHold
<1> QED BY <1>10, <1>11, <1>12, <1>13, <1>14, <1>15 DEF Timely

LEMMA TimelyLoadFails ==
  ASSUME Timely, Shared', NEW r \in Requests, LoadFails(r)
  PROVE  Timely'
<1> DEFINE t == [NoRequest EXCEPT !.user = lookup[r].user, !.told = "error"]
<1>1. CacheTypeOK /\ entries \in Seq(Entry) /\ UNCHANGED <<entries, account, banned>> BY TypesOf DEF Timely, LoadFails
<1>2. lookup[r].user \in Users BY DEF LoadFails, Timely, Shared, Noted
<1>3. /\ t \in [st : {"idle", "waiting"}, user : Users \cup {Nobody}, on : Requests \cup {Nobody},
                     told : {"none", "unknown", "refused", "let in", "error"}]
      /\ t.told = "error"
  BY <1>2 DEF NoRequest
<1>4. /\ req' = [q \in Requests |-> IF req[q].on = r THEN t ELSE req[q]]
      /\ inFlight' = [inFlight EXCEPT ![lookup[r].user] = Nobody] /\ lookup' = [lookup EXCEPT ![r] = NoLookup]
  BY DEF LoadFails
<1> HIDE DEF t
<1>5. NoLookup \in [st : {"none", "asked", "read"}, user : Users \cup {Nobody}, found : Statuses, age : 0..LoadTime]
  BY Bounds DEF NoLookup, Statuses
<1>6. /\ lookup' \in [Requests -> [st : {"none", "asked", "read"}, user : Users \cup {Nobody},
                                   found : Statuses, age : 0..LoadTime]]
      /\ inFlight' \in [Users -> Requests \cup {Nobody}]
      /\ req' \in [Requests -> [st : {"idle", "waiting"}, user : Users \cup {Nobody}, on : Requests \cup {Nobody},
                                told : {"none", "unknown", "refused", "let in", "error"}]]
  BY <1>1, <1>3, <1>4, <1>5 DEF CacheTypeOK
<1>7. \A q \in Requests : req'[q] = req[q] \/ req'[q].told # "let in" BY <1>3, <1>4
<1>8. LookupsFresh' BY <1>1, <1>4 DEF Timely, LookupsFresh, CacheTypeOK, NoLookup
<1>9. BansCounted' BY <1>1 DEF Timely, BansCounted
<1> QED BY <1>1, <1>6, <1>7, <1>8, <1>9, TimelyStands DEF CacheTypeOK

\* What the game server answers is what the account is then.
LEMMA TimelyReads ==
  ASSUME Timely, Shared', NEW r \in Requests, Reads(r)
  PROVE  Timely'
<1>1. CacheTypeOK /\ entries \in Seq(Entry) /\ UNCHANGED <<entries, inFlight, req, account, banned>>
  BY TypesOf DEF Timely, Reads
<1>2. lookup[r].user \in Users /\ lookup[r].st = "asked" BY DEF Reads, Timely, Shared, Noted
<1> DEFINE m == [lookup[r] EXCEPT !.st = "read", !.found = account[lookup[r].user]]
<1>3. lookup' = [lookup EXCEPT ![r] = m] BY <1>1 DEF Reads, CacheTypeOK
<1>4. /\ m \in [st : {"none", "asked", "read"}, user : Users \cup {Nobody}, found : Statuses, age : 0..LoadTime]
      /\ m.found = account[lookup[r].user] /\ m.user = lookup[r].user /\ m.age = lookup[r].age
  BY <1>1, <1>2 DEF CacheTypeOK
<1> HIDE DEF m
<1>5. lookup' \in [Requests -> [st : {"none", "asked", "read"}, user : Users \cup {Nobody},
                                found : Statuses, age : 0..LoadTime]]
  BY <1>1, <1>3, <1>4 DEF CacheTypeOK
<1>6. LookupsFresh'
  <2>1. account[lookup[r].user] = "good" => banned[lookup[r].user] = 0 BY <1>2 DEF Timely, BansCounted
  <2>2. lookup[r].age \in Nat BY <1>1, TypesOf
  <2>3. m.found = "good" => banned[m.user] <= m.age BY ONLY <1>4, <2>1, <2>2
  <2>4. \A q \in Requests : lookup'[q] = IF q = r THEN m ELSE lookup[q] BY <1>1, <1>3 DEF CacheTypeOK
  <2> QED BY <1>1, <2>3, <2>4 DEF Timely, LookupsFresh
<1>7. BansCounted' BY <1>1 DEF Timely, BansCounted
<1> QED BY <1>1, <1>5, <1>6, <1>7, TimelyStands DEF CacheTypeOK

LEMMA TimelyOutside ==
  ASSUME Timely, Shared', NEW u \in Users, Invalidate(u) \/ Created(u) \/ Banned(u)
  PROVE  Timely'
<1>1. CacheTypeOK /\ entries \in Seq(Entry) /\ UNCHANGED <<inFlight, lookup, req, banned>>
  BY TypesOf DEF Timely, Invalidate, Created, Banned
<1>2. /\ entries' \in Seq(Entry)
      /\ \A j \in DOMAIN entries' : \E i \in DOMAIN entries : entries'[j] = entries[i]
  BY <1>1, DeletesKeeps DEF Invalidate, Created, Banned
<1>3. account' \in [Users -> Statuses] BY <1>1 DEF Invalidate, Created, Banned, CacheTypeOK, Statuses
<1>4. BansCounted' BY <1>1 DEF Timely, BansCounted, Invalidate, Created, Banned, CacheTypeOK
<1>5. LookupsFresh' BY <1>1 DEF Timely, LookupsFresh
<1> QED BY <1>1, <1>2, <1>3, <1>4, <1>5, TimelyStands DEF CacheTypeOK

\* With every tick a ban is longer ago, and what is kept and looked up older by as much.
LEMMA TimelyTick ==
  ASSUME Timely, Shared', Tick
  PROVE  Timely'
<1> USE Bounds
<1>1. /\ CacheTypeOK /\ entries \in Seq(Entry) /\ UNCHANGED <<inFlight, account>>
      /\ banned' = [u \in Users |-> IF account[u] = "banned" /\ banned[u] < Longest THEN banned[u] + 1 ELSE banned[u]]
  BY TypesOf DEF Timely, Tick
<1>2. ASSUME NEW u \in Users
      PROVE  banned'[u] \in 0..Longest /\ banned'[u] <= banned[u] + 1 /\ (account[u] # "banned" => banned'[u] = banned[u])
  <2>1. banned[u] \in 0..Longest BY <1>1 DEF CacheTypeOK
  <2> QED BY <1>1, <2>1 DEF Longest
<1> DEFINE aged(i) == [entries[i] EXCEPT !.left = IF @ = 0 THEN 0 ELSE @ - 1]
<1>3. entries' = [i \in DOMAIN entries |-> aged(i)] BY DEF Tick
<1>4. ASSUME NEW i \in DOMAIN entries
      PROVE  /\ aged(i) \in Entry /\ aged(i).user = entries[i].user /\ aged(i).found = entries[i].found
             /\ aged(i).left = IF entries[i].left = 0 THEN 0 ELSE entries[i].left - 1
  <2>1. entries[i] \in Entry BY <1>1, TypesOf
  <2> QED BY <2>1 DEF Entry
<1> HIDE DEF aged
<1>5. entries' \in Seq(Entry) /\ DOMAIN entries' = DOMAIN entries
  <2>1. DOMAIN entries = 1..Len(entries) /\ Len(entries) \in Nat BY <1>1, TypesOf
  <2>2. entries' \in [1..Len(entries) -> Entry] BY <1>3, <1>4, <2>1
  <2> QED BY <2>1, <2>2, SeqDef
<1>6. EntriesFresh'
  <2> SUFFICES ASSUME NEW i \in DOMAIN entries, aged(i).found = "good", aged(i).left > 0
               PROVE  banned'[aged(i).user] + aged(i).left <= TTL + LoadTime
    BY <1>3, <1>5 DEF EntriesFresh
  <2>1. entries[i].left \in Nat /\ entries[i].user \in Users BY <1>1, TypesOf
  <2>2. entries[i].left > 0 /\ aged(i).left = entries[i].left - 1 BY <1>4, <2>1
  <2>3. banned[entries[i].user] + entries[i].left <= TTL + LoadTime BY <1>4, <2>2 DEF Timely, EntriesFresh
  <2>4. banned[entries[i].user] \in Nat /\ banned'[entries[i].user] \in Nat BY <1>1, <1>2, <2>1, TypesOf DEF Longest
  <2>5. banned'[entries[i].user] <= banned[entries[i].user] + 1 BY <1>2, <2>1
  <2>6. aged(i).user = entries[i].user BY <1>4
  <2> QED BY <2>1, <2>2, <2>3, <2>4, <2>5, <2>6
<1> DEFINE older(r) == IF lookup[r].st = "none" THEN NoLookup ELSE [lookup[r] EXCEPT !.age = @ + 1]
<1>7. lookup' = [r \in Requests |-> older(r)] BY DEF Tick
<1>8. ASSUME NEW r \in Requests
      PROVE  /\ older(r) \in [st : {"none", "asked", "read"}, user : Users \cup {Nobody}, found : Statuses, age : 0..LoadTime]
             /\ older(r).st = lookup[r].st
             /\ older(r).st # "none" => /\ older(r).user = lookup[r].user /\ older(r).found = lookup[r].found
                                        /\ older(r).age = lookup[r].age + 1
  <2>1. /\ lookup[r] \in [st : {"none", "asked", "read"}, user : Users \cup {Nobody}, found : Statuses, age : 0..LoadTime]
        /\ lookup[r].st # "none" => lookup[r].age < LoadTime
    BY <1>1 DEF CacheTypeOK, Tick
  <2>2. CASE lookup[r].st = "none" BY <2>2 DEF NoLookup, Statuses
  <2>3. CASE lookup[r].st # "none" BY <2>1, <2>3
  <2> QED BY <2>2, <2>3
<1> HIDE DEF older
<1>9. LookupsFresh'
  <2> SUFFICES ASSUME NEW r \in Requests, older(r).st = "read", older(r).found = "good"
               PROVE  banned'[older(r).user] <= older(r).age
    BY <1>7 DEF LookupsFresh
  <2>1. /\ older(r).user = lookup[r].user /\ older(r).age = lookup[r].age + 1
        /\ lookup[r].st = "read" /\ lookup[r].found = "good"
    BY <1>8
  <2>2. banned[lookup[r].user] <= lookup[r].age /\ lookup[r].user \in Users
    BY <2>1 DEF Timely, LookupsFresh, Shared, Noted
  <2>3. banned[lookup[r].user] \in Nat /\ banned'[lookup[r].user] \in Nat /\ lookup[r].age \in Nat
    BY <1>1, <1>2, <2>2, TypesOf DEF Longest
  <2> QED BY <1>2, <2>1, <2>2, <2>3
<1>10. req' = [r \in Requests |-> IF req[r].st = "idle" THEN NoRequest ELSE req[r]] BY DEF Tick
<1>11. \A r \in Requests : req'[r].told # "let in"
  BY <1>10 DEF Timely, ToldOnce, NoRequest
<1>12. CacheTypeOK'
  <2>1. NoRequest \in [st : {"idle", "waiting"}, user : Users \cup {Nobody}, on : Requests \cup {Nobody},
                       told : {"none", "unknown", "refused", "let in", "error"}]
    BY DEF NoRequest
  <2>2. req' \in [Requests -> [st : {"idle", "waiting"}, user : Users \cup {Nobody}, on : Requests \cup {Nobody},
                               told : {"none", "unknown", "refused", "let in", "error"}]]
    BY <1>1, <1>10, <2>1 DEF CacheTypeOK
  <2>3. banned' \in [Users -> 0..Longest] BY <1>1, <1>2
  <2>4. lookup' \in [Requests -> [st : {"none", "asked", "read"}, user : Users \cup {Nobody},
                                  found : Statuses, age : 0..LoadTime]]
    BY <1>7, <1>8
  <2>5. entries' \in Seq([user : Users, found : Statuses \ {"missing"}, left : 0..TTL]) BY <1>5 DEF Entry
  <2> QED BY <1>1, <2>2, <2>3, <2>4, <2>5 DEF CacheTypeOK
<1>13. BansCounted' BY <1>1, <1>2 DEF Timely, BansCounted
<1>14. ToldOnce' /\ BanTakesHold' BY <1>11 DEF ToldOnce, BanTakesHold
<1> QED BY <1>6, <1>9, <1>12, <1>13, <1>14 DEF Timely

LEMMA TimelyNext ==
  ASSUME Timely, [CacheNext]_cacheVars, Shared'
  PROVE  Timely'
<1>1. CASE UNCHANGED cacheVars
  <2>1. UNCHANGED <<entries, inFlight, lookup, req, account, banned>> BY <1>1 DEF cacheVars
  <2>2. CacheTypeOK' BY <2>1 DEF Timely, CacheTypeOK
  <2> QED BY <2>1, <2>2 DEF Timely, EntriesFresh, LookupsFresh, BansCounted, ToldOnce, BanTakesHold
<1>2. CASE CacheNext
  BY <1>2, TimelyRequest, TimelyLoaded, TimelyLoadFails, TimelyReads, TimelyOutside, TimelyTick DEF CacheNext
<1> QED BY <1>1, <1>2

LEMMA TimelyAlways == CacheSpec => []Timely
<1>1. Timely /\ [CacheNext]_cacheVars => Timely'
  <2> SUFFICES ASSUME Timely, [CacheNext]_cacheVars PROVE Timely' OBVIOUS
  <2>1. Shared' BY SharedNext DEF Timely
  <2> QED BY <2>1, TimelyNext
<1> QED BY TimelyInit, <1>1, PTL DEF CacheSpec

\* Every variable keeps its type: no account is kept, and no lookup lasts, longer than
\* it may.
THEOREM AccountsTyped == CacheSpec => []CacheTypeOK
<1>1. Timely => CacheTypeOK BY DEF Timely
<1> QED BY <1>1, TimelyAlways, PTL

\* A banned account is refused once the time to live and the longest lookup have
\* passed since the ban (accountCache.js, "how quickly a ban or a role change takes
\* effect"): no request, shared lookup, eviction or logout in between makes what was
\* found before the ban live longer.
THEOREM BanAlwaysTakesHold == CacheSpec => []BanTakesHold
<1>1. Timely => BanTakesHold BY DEF Timely
<1> QED BY <1>1, TimelyAlways, PTL

-----------------------------------------------------------------------------
(* The calls of a game-port session.                                       *)

Began == {c \in Callers : caller[c].st \notin {"idle", "waiting"}}

\* A call has a number of its own: one is used for each caller who has begun, at
\* most, and what is on the wire bears one that was used, or none when it is no answer.
Numbered ==
  /\ nextID <= Cardinality(Began) + 1
  /\ \A id \in pending : id < nextID
  /\ \A q \in up : q.id < nextID
  /\ \A i \in DOMAIN down : /\ down[i].id < nextID
                            /\ down[i].is = "invalidate" => down[i].id = 0

\* The call that is out has a waiter, or has been settled and not carried on.
OneAtATime ==
  /\ out = {} => pending = {} /\ settled = <<>> /\ waiting = <<>>
  /\ out # {} => \E c \in Callers : out = {c}
  /\ out # {} => \/ settled = <<>> /\ \E id \in IDs : pending = {id}
                 \/ pending = {} /\ Len(settled) = 1
  /\ \A c \in Callers : caller[c].st = "asking" <=> c \in out

\* A caller is in the queue once.
InTurn == \A i, j \in DOMAIN waiting : waiting[i] = waiting[j] => i = j

\* What the caller whose call is out holds went with the call.
CarriesOwn == \A q \in up : q.id \in pending => \A c \in out : q.held = caller[c].held

NotStale(is, value, c) ==
  /\ is = "answer" => value >= caller[c].asked
  /\ is = "cacheOK" => caller[c].held >= caller[c].asked

\* What comes for the call that is out, and what it was settled with, is no
\* older than the asking.
NothingStale ==
  /\ \A c \in Callers : caller[c].asked <= version
  /\ \A i \in DOMAIN down : down[i].id \in pending => \A c \in out : NotStale(down[i].is, down[i].value, c)
  /\ \A i \in DOMAIN settled : \A c \in out : NotStale(settled[i].is, settled[i].value, c)
  /\ NotFromBefore

Inv == TypeOK /\ Numbered /\ OneAtATime /\ InTurn /\ CarriesOwn /\ NothingStale

Replies == [is : {"answer", "cacheOK", "refused", "provisional", "invalidate"},
            id : IDs \cup {0}, value : Values]
Fates == [is : {"answer", "cacheOK", "refused", "timeout", "closed"}, id : IDs, value : Values]
States == [st : {"idle", "waiting", "asking", "answered", "shared", "kept", "failed"},
           held : Values, asked : Values, got : Values]

-----------------------------------------------------------------------------
(* Counting who has begun.                                                 *)

LEMMA BeganFinite ==
  /\ IsFiniteSet(Callers) /\ Cardinality(Callers) \in Nat
  /\ IsFiniteSet(Began) /\ Cardinality(Began) \in Nat
  /\ Cardinality(Began) <= Cardinality(Callers)
<1>1. IsFiniteSet(Callers) BY SessionAssumption
<1>2. Began \in SUBSET Callers BY DEF Began
<1> QED BY <1>1, <1>2, FS_Subset, FS_CardinalityType

LEMMA BeganFiniteAfter ==
  /\ IsFiniteSet(Began') /\ Cardinality(Began') \in Nat
  /\ Cardinality(Began') <= Cardinality(Callers)
<1>1. IsFiniteSet(Callers) BY SessionAssumption
<1>2. Began' \in SUBSET Callers BY DEF Began
<1> QED BY <1>1, <1>2, FS_Subset, FS_CardinalityType

\* Nobody who has begun is as he was before.
StaysBegun == \A c \in Callers : caller[c].st \notin {"idle", "waiting"} => caller'[c].st \notin {"idle", "waiting"}

LEMMA BeganGrows ==
  ASSUME StaysBegun
  PROVE  Cardinality(Began) <= Cardinality(Began')
<1>1. Began \in SUBSET Began' BY DEF Began, StaysBegun
<1> QED BY <1>1, BeganFiniteAfter, FS_Subset

LEMMA BeganGains ==
  ASSUME StaysBegun, NEW c \in Callers,
         caller[c].st \in {"idle", "waiting"}, caller'[c].st \notin {"idle", "waiting"}
  PROVE  Cardinality(Began) + 1 <= Cardinality(Began')
<1>1. c \notin Began BY DEF Began
<1>2. Began \cup {c} \in SUBSET Began' BY DEF Began, StaysBegun
<1>3. Cardinality(Began \cup {c}) <= Cardinality(Began') BY <1>2, BeganFiniteAfter, FS_Subset
<1>4. Cardinality(Began \cup {c}) = Cardinality(Began) + 1 BY <1>1, BeganFinite, FS_AddElement
<1> QED BY <1>3, <1>4

LEMMA InvInit == Init => Inv
<1> SUFFICES ASSUME Init PROVE Inv OBVIOUS
<1>1. 0 \in Values /\ 1 \in 1..MaxVersion BY SessionAssumption DEF Values
<1>2. Idle \in States /\ Idle.st = "idle" /\ Idle.asked = 0 /\ Idle.got = 0 BY <1>1 DEF Idle, States
<1>3. \A c \in Callers : caller[c] = Idle BY DEF Init
<1>4. Cardinality(Callers) \in Nat BY BeganFinite
<1>5. 1 \in 1..(Cardinality(Callers) + 1) /\ 0 \in 0..MaxProvisional BY <1>4, SessionAssumption
<1>6. TypeOK
  <2>1. caller \in [Callers -> States] BY <1>2 DEF Init
  <2>2. waiting \in Seq(Callers) /\ DOMAIN waiting = {} BY DEF Init
  <2>3. down \in Seq(Replies) /\ settled \in Seq(Fates) BY DEF Init
  <2>4. check \in {"always", "never"} /\ closed \in BOOLEAN /\ up = {} /\ pending = {} /\ out = {} BY DEF Init
  <2>5. version \in 1..MaxVersion /\ said \in 0..MaxProvisional /\ kept \in Values /\ nextID \in 1..(Cardinality(Callers) + 1)
    BY <1>1, <1>5 DEF Init
  <2> QED BY <2>1, <2>2, <2>3, <2>4, <2>5 DEF TypeOK, States, Replies, Fates
<1>7. Numbered BY BeganFinite DEF Init, Numbered
<1>8. OneAtATime BY <1>2, <1>3 DEF Init, OneAtATime
<1>9. InTurn /\ CarriesOwn BY DEF Init, InTurn, CarriesOwn
<1>10. NothingStale BY <1>2, <1>3 DEF Init, NothingStale, NotFromBefore
<1> QED BY <1>6, <1>7, <1>8, <1>9, <1>10 DEF Inv

-----------------------------------------------------------------------------
(* What the steps have in common.                                          *)

\* The game server's steps: the answer, and the frames and calls under way.
LEMMA WireKeeps ==
  ASSUME Inv, UNCHANGED <<check, closed, nextID, pending, settled, out, waiting, kept, caller>>,
         up' \subseteq up, version' \in 1..MaxVersion, version <= version', said' \in 0..MaxProvisional,
         \/ UNCHANGED down
         \/ \E f \in Replies : /\ down' = Append(down, f)
                               /\ f.id < nextID
                               /\ f.is = "invalidate" => f.id = 0
                               /\ f.id \in pending => \A c \in out : NotStale(f.is, f.value, c)
  PROVE  Inv'
<1>1. down \in Seq(Replies) BY DEF Inv, TypeOK, Replies
<1>2. down' \in Seq(Replies)
  <2>1. CASE UNCHANGED down BY <1>1, <2>1
  <2>2. ASSUME NEW f \in Replies, down' = Append(down, f) PROVE down' \in Seq(Replies)
    BY <1>1, <2>2, AppendProperties
  <2> QED BY <2>1, <2>2
<1>3. ASSUME NEW i \in DOMAIN down'
      PROVE  /\ down'[i].id < nextID
             /\ down'[i].is = "invalidate" => down'[i].id = 0
             /\ down'[i].id \in pending => \A c \in out : NotStale(down'[i].is, down'[i].value, c)
  <2>0. CASE i \in DOMAIN down /\ down'[i] = down[i] BY <2>0 DEF Inv, Numbered, NothingStale
  <2>1. CASE UNCHANGED down BY <2>0, <2>1
  <2>2. ASSUME NEW f \in Replies, down' = Append(down, f), f.id < nextID,
               f.is = "invalidate" => f.id = 0, f.id \in pending => \A c \in out : NotStale(f.is, f.value, c)
        PROVE  /\ down'[i].id < nextID
               /\ down'[i].is = "invalidate" => down'[i].id = 0
               /\ down'[i].id \in pending => \A c \in out : NotStale(down'[i].is, down'[i].value, c)
    <3>1. i \in 1..(Len(down) + 1) BY <1>1, <2>2, AppendProperties
    <3>2. CASE i = Len(down) + 1
      <4>1. down'[i] = f BY <1>1, <2>2, <3>2, AppendProperties
      <4> QED BY <2>2, <4>1
    <3>3. CASE i # Len(down) + 1
      <4>1. i \in 1..Len(down) BY <1>1, <3>1, <3>3, LenProperties
      <4>2. i \in DOMAIN down /\ down'[i] = down[i] BY <1>1, <2>2, <4>1, AppendProperties, LenProperties
      <4> QED BY <2>0, <4>2
    <3> QED BY <3>2, <3>3
  <2> QED BY <2>1, <2>2
<1>4. TypeOK' BY <1>2 DEF Inv, TypeOK, Replies
<1>5. Numbered' BY <1>3 DEF Inv, Numbered, Began
<1>6. OneAtATime' /\ InTurn' /\ CarriesOwn' BY DEF Inv, OneAtATime, InTurn, CarriesOwn
<1>7. NothingStale'
  <2>1. \A c \in Callers : caller[c].asked \in Int /\ version \in Int /\ version' \in Int
    BY SessionAssumption DEF Inv, TypeOK, Values
  <2>2. \A c \in Callers : caller'[c].asked <= version' BY <2>1 DEF Inv, NothingStale
  <2>3. \A i \in DOMAIN down' : down'[i].id \in pending => \A c \in out : NotStale(down'[i].is, down'[i].value, c)
    BY <1>3 DEF Inv, NothingStale
  <2> QED BY <2>2, <2>3 DEF Inv, NothingStale, NotStale, NotFromBefore
<1> QED BY <1>4, <1>5, <1>6, <1>7 DEF Inv

\* A waiter is settled or not, and a frame is taken or not.
LEMMA WaiterKeeps ==
  ASSUME Inv, UNCHANGED <<check, server, nextID, out, waiting, caller>>,
         down' = down \/ (down # <<>> /\ down' = Tail(down)), kept' \in Values, closed' \in BOOLEAN,
         \/ UNCHANGED <<pending, settled>>
         \/ \E id \in pending, f \in Fates :
               /\ pending' = pending \ {id} /\ settled' = Append(settled, f)
               /\ \A c \in out : NotStale(f.is, f.value, c)
  PROVE  Inv'
<1>1. down \in Seq(Replies) /\ settled \in Seq(Fates) BY DEF Inv, TypeOK, Replies, Fates
<1>2. down' \in Seq(Replies) BY <1>1, HeadTailProperties
<1>3. \A i \in DOMAIN down' : \E j \in DOMAIN down : down'[i] = down[j]
  <2>1. CASE down' = down BY <2>1
  <2>2. CASE down # <<>> /\ down' = Tail(down)
    <3>1. ASSUME NEW i \in DOMAIN down' PROVE i + 1 \in DOMAIN down /\ down'[i] = down[i + 1]
      <4>1. Len(down') = Len(down) - 1 /\ Len(down) \in Nat /\ DOMAIN down' = 1..Len(down') /\ DOMAIN down = 1..Len(down)
        BY <1>1, <1>2, <2>2, HeadTailProperties, LenProperties
      <4>2. i \in 1..Len(Tail(down)) BY <2>2, <4>1
      <4>3. down'[i] = down[i + 1] BY <1>1, <2>2, <4>2, HeadTailProperties
      <4>4. i + 1 \in 1..Len(down) BY <4>1
      <4> QED BY <4>1, <4>3, <4>4
    <3> QED BY <3>1
  <2> QED BY <2>1, <2>2
<1>4. /\ settled' \in Seq(Fates) /\ pending' \subseteq pending
      /\ \A i \in DOMAIN settled' : \A c \in out : NotStale(settled'[i].is, settled'[i].value, c)
      /\ \/ UNCHANGED <<pending, settled>>
         \/ out # {} /\ pending' = {} /\ Len(settled') = 1
  <2>1. CASE UNCHANGED <<pending, settled>> BY <1>1, <2>1 DEF Inv, NothingStale
  <2>2. ASSUME NEW id \in pending, NEW f \in Fates, pending' = pending \ {id}, settled' = Append(settled, f),
               \A c \in out : NotStale(f.is, f.value, c)
        PROVE  /\ settled' \in Seq(Fates) /\ pending' \subseteq pending
               /\ \A i \in DOMAIN settled' : \A c \in out : NotStale(settled'[i].is, settled'[i].value, c)
               /\ out # {} /\ pending' = {} /\ Len(settled') = 1
    <3>1. out # {} /\ settled = <<>> /\ pending = {id} BY <2>2 DEF Inv, OneAtATime
    <3>2. settled' = <<f>> BY <2>2, <3>1
    <3>3. DOMAIN settled' = {1} /\ settled'[1] = f /\ Len(settled') = 1 /\ settled' \in Seq(Fates) BY <3>2
    <3> QED BY <2>2, <3>1, <3>3
  <2> QED BY <2>1, <2>2
<1>5. TypeOK' BY <1>2, <1>4 DEF Inv, TypeOK, Replies, Fates, server
<1>6. Numbered' BY <1>3, <1>4 DEF Inv, Numbered, Began, server
<1>7. OneAtATime'
  <2>1. CASE UNCHANGED <<pending, settled>> BY <2>1 DEF Inv, OneAtATime
  <2>2. CASE out # {} /\ pending' = {} /\ Len(settled') = 1 BY <2>2 DEF Inv, OneAtATime
  <2> QED BY <1>4, <2>1, <2>2
<1>8. InTurn' /\ CarriesOwn' BY <1>4 DEF Inv, InTurn, CarriesOwn, server
<1>9. NothingStale' BY <1>3, <1>4 DEF Inv, NothingStale, NotStale, NotFromBefore, server
<1> QED BY <1>5, <1>6, <1>7, <1>8, <1>9 DEF Inv

\* What a step leaves of the callers: who has begun, and since when he asks.
LEMMA NobodyOut ==
  ASSUME Inv, UNCHANGED <<check, version, up, down, said, closed, nextID>>,
         pending' = {}, settled' = <<>>, out' = {}, waiting' = <<>>, kept' \in Values,
         caller' \in [Callers -> States], StaysBegun,
         \A c \in Callers : /\ caller'[c].st # "asking" /\ caller'[c].asked <= version
                            /\ caller'[c].st = "answered" => caller'[c].got >= caller'[c].asked
  PROVE  Inv'
<1>1. TypeOK' BY DEF Inv, TypeOK, States
<1>2. Numbered'
  <2>1. Cardinality(Began) <= Cardinality(Began') BY BeganGrows
  <2>2. nextID' <= Cardinality(Began') + 1 BY <2>1, BeganFinite, BeganFiniteAfter DEF Inv, TypeOK, Numbered
  <2> QED BY <2>2 DEF Inv, Numbered
<1>3. OneAtATime' /\ InTurn' /\ CarriesOwn' BY DEF OneAtATime, InTurn, CarriesOwn
<1>4. NothingStale' BY DEF NothingStale, NotFromBefore
<1> QED BY <1>1, <1>2, <1>3, <1>4 DEF Inv

\* A call goes out for the caller c, when none is.
LEMMA SendKeeps ==
  ASSUME Inv, NEW c \in Callers, NEW held \in Values, Send(c, held),
         UNCHANGED <<check, version, down, said, closed, kept>>,
         pending = {}, settled' = <<>>,
         waiting' \in Seq(Callers), InTurn', \A i \in DOMAIN waiting' : caller'[waiting'[i]].st = "waiting",
         caller' \in [Callers -> States], StaysBegun, caller[c].st \in {"idle", "waiting"},
         caller'[c].held = held,
         \A d \in Callers : /\ caller'[d].st = "asking" <=> d = c
                            /\ caller'[d].asked <= version
                            /\ caller'[d].st = "answered" => caller'[d].got >= caller'[d].asked
  PROVE  Inv'
<1>1. /\ up' = up \cup {[id |-> nextID, held |-> held]}
      /\ pending' = {nextID} /\ nextID' = nextID + 1 /\ out' = {c}
  BY DEF Send
<1>2. nextID \in Nat /\ nextID >= 1 BY DEF Inv, TypeOK
<1>3. nextID' <= Cardinality(Began') + 1
  <2>1. Cardinality(Began) + 1 <= Cardinality(Began') BY BeganGains
  <2> QED BY <1>1, <1>2, <2>1, BeganFinite, BeganFiniteAfter DEF Inv, Numbered
<1>4. nextID \in IDs /\ nextID' \in 1..(Cardinality(Callers) + 1)
  BY <1>1, <1>2, <1>3, BeganFinite, BeganFiniteAfter DEF IDs
<1>5. TypeOK'
  <2>1. up' \subseteq [id : IDs, held : Values] BY <1>1, <1>4 DEF Inv, TypeOK
  <2> QED BY <1>1, <1>4, <2>1 DEF Inv, TypeOK, States
<1>6. \A q \in up : q.id \in Nat /\ q.id < nextID BY BeganFinite DEF Inv, TypeOK, Numbered, IDs
<1>7. down \in Seq(Replies) BY DEF Inv, TypeOK, Replies
<1>8. \A i \in DOMAIN down : down[i].id \in Nat /\ down[i].id < nextID
  <2>1. \A f \in Replies : f.id \in Nat BY BeganFinite DEF Replies, IDs
  <2> QED BY <1>7, <2>1, ElementOfSeq, LenProperties DEF Inv, Numbered
<1>9. Numbered'
  <2>1. \A q \in up' : q.id < nextID' BY <1>1, <1>2, <1>6
  <2>2. \A i \in DOMAIN down' : down'[i].id < nextID' /\ (down'[i].is = "invalidate" => down'[i].id = 0)
    BY <1>1, <1>2, <1>8 DEF Inv, Numbered
  <2>3. \A id \in pending' : id < nextID' BY <1>1, <1>2
  <2> QED BY <1>3, <2>1, <2>2, <2>3 DEF Numbered
<1>10. OneAtATime' BY <1>1, <1>4 DEF OneAtATime, IDs
<1>11. CarriesOwn'
  <2>1. ASSUME NEW q \in up', q.id \in pending' PROVE q.held = held BY <1>1, <1>2, <1>6, <2>1
  <2> QED BY <1>1, <2>1 DEF CarriesOwn
<1>12. NothingStale'
  <2>1. \A i \in DOMAIN down' : down'[i].id \notin pending' BY <1>1, <1>2, <1>8
  <2> QED BY <2>1 DEF NothingStale, NotFromBefore
<1> QED BY <1>5, <1>9, <1>10, <1>11, <1>12 DEF Inv

-----------------------------------------------------------------------------
(* The calls.                                                              *)

\* A caller who neither asks nor has asked comes to something else than asking.
LEMMA BystanderKeeps ==
  ASSUME Inv, NEW c \in Callers, caller[c].st = "idle", NEW to \in States,
         UNCHANGED <<check, server, down, closed, nextID, pending, settled, out, kept>>,
         caller' = [caller EXCEPT ![c] = to], to.st \notin {"asking", "answered"}, to.asked <= version,
         \/ waiting' = waiting
         \/ to.st = "waiting" /\ out # {} /\ waiting' = Append(waiting, c)
  PROVE  Inv'
<1>1. /\ caller \in [Callers -> States] /\ caller' \in [Callers -> States] /\ caller'[c] = to
      /\ \A d \in Callers : d # c => caller'[d] = caller[d]
  BY DEF Inv, TypeOK, States
<1>2. waiting \in Seq(Callers) /\ \A i \in DOMAIN waiting : waiting[i] \in Callers /\ waiting[i] # c
  <2>1. waiting \in Seq(Callers) BY DEF Inv, TypeOK
  <2>2. \A i \in DOMAIN waiting : waiting[i] \in Callers BY <2>1, ElementOfSeq, LenProperties
  <2>3. \A i \in DOMAIN waiting : waiting[i] # c BY DEF Inv, TypeOK
  <2> QED BY <2>1, <2>2, <2>3
<1>3. /\ waiting' \in Seq(Callers) /\ InTurn'
      /\ \A i \in DOMAIN waiting' : caller'[waiting'[i]].st = "waiting"
  <2>1. CASE waiting' = waiting BY <1>1, <1>2, <2>1 DEF Inv, TypeOK, InTurn
  <2>2. CASE to.st = "waiting" /\ waiting' = Append(waiting, c)
    <3>1. /\ waiting' \in Seq(Callers) /\ DOMAIN waiting' = 1..(Len(waiting) + 1) /\ DOMAIN waiting = 1..Len(waiting)
          /\ Len(waiting) \in Nat /\ waiting'[Len(waiting) + 1] = c
          /\ \A i \in 1..Len(waiting) : waiting'[i] = waiting[i]
      BY <1>2, <2>2, AppendProperties, LenProperties
    <3>2. \A i \in DOMAIN waiting' : i \in DOMAIN waiting \/ i = Len(waiting) + 1 BY <3>1
    <3>3. InTurn'
      <4> SUFFICES ASSUME NEW i \in DOMAIN waiting', NEW j \in DOMAIN waiting', waiting'[i] = waiting'[j] PROVE i = j
        BY DEF InTurn
      <4>1. CASE i \in DOMAIN waiting /\ j \in DOMAIN waiting BY <3>1, <4>1 DEF Inv, InTurn
      <4>2. CASE i = Len(waiting) + 1 /\ j \in DOMAIN waiting BY <1>2, <3>1, <4>2
      <4>3. CASE j = Len(waiting) + 1 /\ i \in DOMAIN waiting BY <1>2, <3>1, <4>3
      <4> QED BY <3>2, <4>1, <4>2, <4>3
    <3>4. \A i \in DOMAIN waiting' : caller'[waiting'[i]].st = "waiting"
      <4>1. \A i \in DOMAIN waiting : caller[waiting[i]].st = "waiting" BY DEF Inv, TypeOK
      <4> QED BY <1>1, <1>2, <2>2, <3>1, <3>2, <4>1
    <3> QED BY <3>1, <3>3, <3>4
  <2> QED BY <2>1, <2>2
<1>4. TypeOK' BY <1>1, <1>3 DEF Inv, TypeOK, States, server
<1>5. Numbered'
  <2>1. Cardinality(Began) <= Cardinality(Began')
    <3>1. StaysBegun BY <1>1 DEF StaysBegun
    <3> QED BY <3>1, BeganGrows
  <2>2. nextID' <= Cardinality(Began') + 1 BY <2>1, BeganFinite, BeganFiniteAfter DEF Inv, TypeOK, Numbered
  <2> QED BY <2>2 DEF Inv, Numbered, server
<1>6. c \notin out BY DEF Inv, OneAtATime
<1>7. OneAtATime' BY <1>1, <1>6 DEF Inv, OneAtATime
<1>8. out \subseteq Callers /\ \A d \in out : caller'[d] = caller[d] BY <1>1, <1>6 DEF Inv, TypeOK
<1>9. CarriesOwn' BY <1>8 DEF Inv, CarriesOwn, server
<1>10. NothingStale'
  <2>1. \A d \in Callers : caller'[d].asked <= version BY <1>1 DEF Inv, NothingStale
  <2>2. \A i \in DOMAIN down : down[i].id \in pending => \A d \in out : NotStale(down[i].is, down[i].value, d)'
    BY <1>8 DEF Inv, NothingStale, NotStale
  <2>3. \A i \in DOMAIN settled : \A d \in out : NotStale(settled[i].is, settled[i].value, d)'
    BY <1>8 DEF Inv, NothingStale, NotStale
  <2>4. NotFromBefore' BY <1>1 DEF Inv, NothingStale, NotFromBefore
  <2> QED BY <2>1, <2>2, <2>3, <2>4 DEF NothingStale, NotStale, server
<1> QED BY <1>3, <1>4, <1>5, <1>7, <1>9, <1>10 DEF Inv

LEMMA FromCacheKeeps ==
  ASSUME Inv, NEW c \in Callers, FromCache(c)
  PROVE  Inv'
<1> DEFINE to == [st |-> "kept", held |-> kept, asked |-> version, got |-> kept]
<1>1. version \in Values /\ version <= version BY SessionAssumption DEF Inv, TypeOK, Values
<1>2. to \in States /\ to.st = "kept" /\ to.asked = version BY <1>1 DEF Inv, TypeOK, States
<1>3. caller' = [caller EXCEPT ![c] = to] BY DEF FromCache
<1> HIDE DEF to
<1> QED BY <1>1, <1>2, <1>3, BystanderKeeps DEF FromCache

LEMMA CallKeeps ==
  ASSUME Inv, NEW c \in Callers, Call(c)
  PROVE  Inv'
<1>1. version \in Values /\ version <= version /\ kept \in Values /\ 0 \in Values
  BY SessionAssumption DEF Inv, TypeOK, Values
<1>2. caller \in [Callers -> States] BY DEF Inv, TypeOK, States
<1>3. ASSUME out # {}, waiting' = Append(waiting, c), UNCHANGED <<up, nextID, pending, out>>,
             caller' = [caller EXCEPT ![c] = [st |-> "waiting", held |-> kept, asked |-> version, got |-> 0]]
      PROVE  Inv'
  <2> DEFINE to == [st |-> "waiting", held |-> kept, asked |-> version, got |-> 0]
  <2>1. to \in States /\ to.st = "waiting" /\ to.asked = version BY <1>1 DEF States
  <2>2. caller' = [caller EXCEPT ![c] = to] BY <1>3
  <2> HIDE DEF to
  <2> QED BY <1>1, <1>3, <2>1, <2>2, BystanderKeeps DEF Call, server
<1>4. ASSUME out = {}, Send(c, kept), UNCHANGED waiting,
             caller' = [caller EXCEPT ![c] = [st |-> "asking", held |-> kept, asked |-> version, got |-> 0]]
      PROVE  Inv'
  <2> DEFINE to == [st |-> "asking", held |-> kept, asked |-> version, got |-> 0]
  <2>1. /\ to \in States /\ to.st = "asking" /\ to.held = kept /\ to.asked = version
        /\ caller[c].st \in {"idle", "waiting"}
    BY <1>1 DEF States, Call
  <2>2. caller' = [caller EXCEPT ![c] = to] BY <1>4
  <2> HIDE DEF to
  <2>3. caller' \in [Callers -> States] /\ caller'[c] = to /\ \A d \in Callers : d # c => caller'[d] = caller[d]
    BY <1>2, <2>1, <2>2
  <2>4. pending = {} /\ settled' = <<>> /\ waiting' = <<>> BY <1>4 DEF Inv, OneAtATime, Call
  <2>5. waiting' \in Seq(Callers) /\ InTurn' /\ \A i \in DOMAIN waiting' : caller'[waiting'[i]].st = "waiting"
    BY <2>4 DEF InTurn
  <2>6. StaysBegun BY <2>1, <2>3 DEF StaysBegun
  <2>7. ASSUME NEW d \in Callers
        PROVE  /\ caller'[d].st = "asking" <=> d = c
               /\ caller'[d].asked <= version
               /\ caller'[d].st = "answered" => caller'[d].got >= caller'[d].asked
    <3>1. CASE d = c BY <1>1, <2>1, <2>3, <3>1
    <3>2. CASE d # c BY <1>4, <2>3, <3>2 DEF Inv, OneAtATime, NothingStale, NotFromBefore
    <3> QED BY <3>1, <3>2
  <2> QED BY <1>1, <1>4, <2>1, <2>3, <2>4, <2>5, <2>6, <2>7, SendKeeps DEF Call
<1>5. ASSUME caller' = Ends(c, "failed", 0), UNCHANGED <<up, nextID, pending, out, waiting>>
      PROVE  Inv'
  <2> DEFINE to == [caller[c] EXCEPT !.st = "failed", !.got = 0]
  <2>1. to \in States /\ to.st = "failed" /\ to.asked = caller[c].asked BY <1>1, <1>2 DEF States
  <2>2. caller' = [caller EXCEPT ![c] = to] BY <1>2, <1>5 DEF Ends, States
  <2>3. caller[c].asked <= version BY DEF Inv, NothingStale
  <2> HIDE DEF to
  <2> QED BY <1>5, <2>1, <2>2, <2>3, BystanderKeeps DEF Call, server
<1> QED BY <1>3, <1>4, <1>5 DEF Call

-----------------------------------------------------------------------------
(* The game server, the waiters and the promises.                          *)

LEMMA ServedIsFresh ==
  ASSUME Inv, NEW q \in up, Serves(q) \/ SaysLate(q)
  PROVE  Inv'
<1>1. /\ q.id \in IDs /\ q.held \in Values /\ q.id < nextID
      /\ version \in Values /\ version \in 1..MaxVersion /\ version <= version /\ 0 \in Values
  BY SessionAssumption DEF Inv, TypeOK, Values, Numbered
<1>2. q.id \in pending => \A c \in out : c \in Callers /\ q.held = caller[c].held
  BY DEF Inv, CarriesOwn, TypeOK
<1>3. ASSUME up' = up \ {q}, UNCHANGED said,
             Sends([is |-> IF q.held = version THEN "cacheOK" ELSE "answer", id |-> q.id, value |-> version]),
             UNCHANGED <<check, version, closed, nextID, pending, settled, out, waiting, kept, caller>>
      PROVE  Inv'
  <2> DEFINE f == [is |-> IF q.held = version THEN "cacheOK" ELSE "answer", id |-> q.id, value |-> version]
  <2>1. /\ f \in Replies /\ f.id = q.id /\ f.value = version
        /\ f.is = "cacheOK" => q.held = version
        /\ f.is \in {"cacheOK", "answer"}
    BY <1>1 DEF Replies
  <2>2. down' = Append(down, f) BY <1>3 DEF Sends
  <2> HIDE DEF f
  <2>3. ASSUME f.id \in pending, NEW c \in out PROVE NotStale(f.is, f.value, c)
    <3>1. c \in Callers /\ q.held = caller[c].held BY <1>2, <2>1, <2>3
    <3>2. caller[c].asked <= version BY <3>1 DEF Inv, NothingStale
    <3>3. caller[c].asked \in Nat BY <3>1, SessionAssumption DEF Inv, TypeOK, Values
    <3> QED BY <1>1, <2>1, <3>1, <3>2, <3>3 DEF NotStale
  <2>4. \E g \in Replies : /\ down' = Append(down, g)
                           /\ g.id < nextID
                           /\ g.is = "invalidate" => g.id = 0
                           /\ g.id \in pending => \A c \in out : NotStale(g.is, g.value, c)
    BY <1>1, <2>1, <2>2, <2>3
  <2>5. said \in 0..MaxProvisional BY DEF Inv, TypeOK
  <2> QED BY <1>1, <1>3, <2>4, <2>5, WireKeeps
<1>4. ASSUME NEW is \in {"refused", "provisional"}, up' \subseteq up, said' \in 0..MaxProvisional,
             Sends([is |-> is, id |-> q.id, value |-> 0]),
             UNCHANGED <<check, version, closed, nextID, pending, settled, out, waiting, kept, caller>>
      PROVE  Inv'
  <2> DEFINE f == [is |-> is, id |-> q.id, value |-> 0]
  <2>1. f \in Replies /\ f.id = q.id /\ f.is = is BY <1>1, <1>4 DEF Replies
  <2>2. down' = Append(down, f) BY <1>4 DEF Sends
  <2> HIDE DEF f
  <2>3. \A c \in out : NotStale(f.is, f.value, c) BY <1>4, <2>1 DEF NotStale
  <2>4. \E g \in Replies : /\ down' = Append(down, g)
                           /\ g.id < nextID
                           /\ g.is = "invalidate" => g.id = 0
                           /\ g.id \in pending => \A c \in out : NotStale(g.is, g.value, c)
    BY <1>1, <2>1, <2>2, <2>3
  <2> QED BY <1>1, <1>4, <2>4, WireKeeps
<1>5. said \in 0..MaxProvisional BY DEF Inv, TypeOK
<1>6. CASE Serves(q) BY <1>3, <1>4, <1>5, <1>6 DEF Serves
<1>7. CASE SaysLate(q)
  <2>1. said' \in 0..MaxProvisional BY <1>5, <1>7, SessionAssumption DEF SaysLate
  <2> QED BY <1>4, <1>7, <2>1 DEF SaysLate
<1> QED BY <1>6, <1>7

LEMMA ChangesKeeps ==
  ASSUME Inv, Changes
  PROVE  Inv'
<1>1. /\ version \in Values /\ version \in 1..MaxVersion /\ version < MaxVersion /\ version' = version + 1
      /\ said \in 0..MaxProvisional
  BY SessionAssumption DEF Inv, TypeOK, Values, Changes
<1>2. version' \in 1..MaxVersion /\ version <= version' BY <1>1, SessionAssumption
<1>3. nextID > 0 BY DEF Inv, TypeOK
<1> DEFINE f == [is |-> "invalidate", id |-> 0, value |-> version]
<1>4. f \in Replies /\ f.id = 0 /\ f.is = "invalidate" BY <1>1 DEF Replies
<1>5. down' = down \/ down' = Append(down, f) BY DEF Changes, Sends
<1> HIDE DEF f
<1>6. \A c \in out : NotStale(f.is, f.value, c) BY <1>4 DEF NotStale
<1> QED BY <1>1, <1>2, <1>3, <1>4, <1>5, <1>6, WireKeeps DEF Changes

LEMMA WaitersKeep ==
  ASSUME Inv, Frame \/ TimesOut \/ Closes
  PROVE  Inv'
<1>1. /\ kept \in Values /\ closed \in BOOLEAN /\ pending \subseteq IDs /\ 0 \in Values
      /\ settled \in Seq(Fates)
  BY SessionAssumption DEF Inv, TypeOK, Values, Fates
<1>2. CASE Frame
  <2>1. down # <<>> /\ down' = Tail(down) BY <1>2 DEF Frame
  <2>2. down \in Seq(Replies) BY DEF Inv, TypeOK, Replies
  <2>3. Head(down) \in Replies /\ 1 \in DOMAIN down /\ Head(down) = down[1]
    BY <2>1, <2>2, HeadTailProperties, LenProperties, EmptySeq
  <2>4. kept' \in Values BY <1>1, <1>2 DEF Frame, Forgets
  <2>5. CASE UNCHANGED <<pending, settled>>
    BY <1>1, <1>2, <2>1, <2>4, <2>5, WaiterKeeps DEF Frame
  <2>6. CASE /\ Head(down).id \in pending /\ Head(down).is # "provisional"
             /\ pending' = pending \ {Head(down).id}
             /\ settled' = Settled(Head(down).id, Head(down).is, Head(down).value)
    <3> DEFINE f == [id |-> Head(down).id, is |-> Head(down).is, value |-> Head(down).value]
    <3>1. Head(down).is # "invalidate" BY <1>1, <2>3, <2>6 DEF Inv, Numbered, IDs
    <3>2. f \in Fates /\ f.is = Head(down).is /\ f.value = Head(down).value BY <1>1, <2>3, <2>6, <3>1 DEF Replies, Fates
    <3>3. settled' = Append(settled, f) BY <2>6 DEF Settled
    <3> HIDE DEF f
    <3>4. \A c \in out : NotStale(f.is, f.value, c) BY <2>3, <2>6, <3>2 DEF Inv, NothingStale
    <3> QED BY <1>1, <1>2, <2>1, <2>4, <2>6, <3>2, <3>3, <3>4, WaiterKeeps DEF Frame
  <2> QED BY <1>2, <2>5, <2>6 DEF Frame, Settles
<1>3. ASSUME NEW is \in {"timeout", "closed"}, NEW id \in pending,
             pending' = pending \ {id}, settled' = Settled(id, is, 0),
             UNCHANGED <<check, server, nextID, out, waiting, kept, caller, down>>, closed' \in BOOLEAN
      PROVE  Inv'
  <2> DEFINE f == [id |-> id, is |-> is, value |-> 0]
  <2>1. f \in Fates /\ f.is = is BY <1>1, <1>3 DEF Fates
  <2>2. settled' = Append(settled, f) BY <1>3 DEF Settled
  <2> HIDE DEF f
  <2>3. \A c \in out : NotStale(f.is, f.value, c) BY <1>3, <2>1 DEF NotStale
  <2> QED BY <1>1, <1>3, <2>1, <2>2, <2>3, WaiterKeeps
<1>4. CASE TimesOut BY <1>1, <1>3, <1>4 DEF TimesOut
<1>5. CASE Closes
  <2>1. CASE pending = {} /\ UNCHANGED settled BY <1>1, <1>5, <2>1, WaiterKeeps DEF Closes
  <2>2. ASSUME NEW id \in pending, settled' = Settled(id, "closed", 0) PROVE Inv'
    <3>1. pending' = pending \ {id} BY <1>5, <2>2 DEF Closes, Inv, OneAtATime
    <3> QED BY <1>3, <1>5, <2>2, <3>1 DEF Closes
  <2> QED BY <1>5, <2>1, <2>2 DEF Closes
<1> QED BY <1>2, <1>4, <1>5

\* The promise of the call that is out: nobody's is out, or the next one's.
LEMMA AnsweredKeeps ==
  ASSUME Inv, NEW c \in Callers, NEW value \in Values, out = {c}, pending = {}, settled' = <<>>,
         value >= caller[c].asked, Answered(c, value), UNCHANGED <<check, version, said, down, closed>>
  PROVE  Inv'
<1>1. caller \in [Callers -> States] BY DEF Inv, TypeOK, States
<1>2. ASSUME NEW d \in Callers
      PROVE  /\ caller'[d] \in States
             /\ caller[d].st \notin {"idle", "waiting"} => caller'[d].st \notin {"idle", "waiting"}
             /\ caller'[d].st # "asking" /\ caller'[d].asked = caller[d].asked
             /\ caller'[d].st = "answered" => caller'[d].got >= caller'[d].asked
  <2>1. caller[d] \in States BY <1>1
  <2>2. CASE d = c
    <3>1. caller'[d] = [caller[d] EXCEPT !.st = "answered", !.got = value] BY <2>2 DEF Answered, AllTake
    <3>2. caller'[d].asked = caller[d].asked /\ caller'[d].got = value /\ caller'[d].st = "answered" /\ caller'[d] \in States
      BY <2>1, <3>1 DEF States
    <3> QED BY <2>2, <3>2
  <2>3. CASE d # c /\ caller[d].st = "waiting"
    <3>1. caller'[d] = [caller[d] EXCEPT !.st = "shared", !.got = value] BY <2>3 DEF Answered, AllTake
    <3>2. caller'[d].asked = caller[d].asked /\ caller'[d].st = "shared" /\ caller'[d] \in States
      BY <2>1, <3>1 DEF States
    <3> QED BY <3>2
  <2>4. CASE d # c /\ caller[d].st # "waiting"
    <3>1. caller'[d] = caller[d] BY <2>4 DEF Answered, AllTake
    <3>2. caller[d].st # "asking" BY <2>4 DEF Inv, OneAtATime
    <3> QED BY <2>1, <3>1, <3>2 DEF Inv, NothingStale, NotFromBefore
  <2> QED BY <2>2, <2>3, <2>4
<1>3. caller' \in [Callers -> States] BY <1>2 DEF Answered, AllTake
<1>4. StaysBegun BY <1>2 DEF StaysBegun
<1>5. \A d \in Callers : caller'[d].asked <= version BY <1>2 DEF Inv, NothingStale
<1> QED BY <1>2, <1>3, <1>4, <1>5, NobodyOut DEF Answered

LEMMA NextAsksKeeps ==
  ASSUME Inv, NEW c \in Callers, NEW left, out = {c}, pending = {}, settled' = <<>>,
         left \in [Callers -> States], left[c].st \in {"answered", "failed"}, left[c].asked = caller[c].asked,
         left[c].st = "answered" => left[c].got >= left[c].asked,
         \A d \in Callers : d # c => left[d] = caller[d],
         NextAsks(left), UNCHANGED <<check, version, said, down, closed, kept>>
  PROVE  Inv'
<1>1. kept \in Values /\ caller[c].st = "asking" BY DEF Inv, TypeOK, OneAtATime
<1>2. ASSUME NEW d \in Callers
      PROVE  /\ left[d] \in States
             /\ caller[d].st \notin {"idle", "waiting"} => left[d].st \notin {"idle", "waiting"}
             /\ left[d].st # "asking" /\ left[d].asked <= version
             /\ left[d].st = "answered" => left[d].got >= left[d].asked
  <2>1. CASE d = c BY <2>1 DEF Inv, NothingStale
  <2>2. CASE d # c BY <2>2 DEF Inv, OneAtATime, NothingStale, NotFromBefore
  <2> QED BY <2>1, <2>2
<1>3. CASE waiting = <<>> \/ closed
  <2>1. ASSUME NEW d \in Callers
        PROVE  /\ caller'[d] \in States
               /\ caller[d].st \notin {"idle", "waiting"} => caller'[d].st \notin {"idle", "waiting"}
               /\ caller'[d].st # "asking" /\ caller'[d].asked <= version
               /\ caller'[d].st = "answered" => caller'[d].got >= caller'[d].asked
    <3>1. CASE left[d].st = "waiting"
      <4>1. caller'[d] = [left[d] EXCEPT !.st = "failed"] BY <1>3, <3>1 DEF NextAsks
      <4>2. caller'[d].st = "failed" /\ caller'[d].asked = left[d].asked /\ caller'[d] \in States
        BY <1>2, <4>1 DEF States
      <4> QED BY <1>2, <4>2
    <3>2. CASE left[d].st # "waiting"
      <4>1. caller'[d] = left[d] BY <1>3, <3>2 DEF NextAsks
      <4> QED BY <1>2, <4>1
    <3> QED BY <3>1, <3>2
  <2>2. caller' \in [Callers -> States] BY <1>3, <2>1 DEF NextAsks
  <2>3. StaysBegun BY <2>1 DEF StaysBegun
  <2> QED BY <1>1, <1>3, <2>1, <2>2, <2>3, NobodyOut DEF NextAsks
<1>4. CASE waiting # <<>> /\ ~closed
  <2> DEFINE n == Head(waiting)
  <2>1. waiting \in Seq(Callers) BY DEF Inv, TypeOK
  <2>2. /\ Len(waiting) \in Nat /\ DOMAIN waiting = 1..Len(waiting) /\ 1 \in DOMAIN waiting /\ n = waiting[1]
        /\ n \in Callers
    BY <1>4, <2>1, HeadTailProperties, LenProperties, EmptySeq
  <2>3. caller[n].st = "waiting" /\ n # c BY <1>1, <2>2 DEF Inv, TypeOK
  <2>4. Send(n, left[n].held) /\ waiting' = Tail(waiting) /\ caller' = [left EXCEPT ![n].st = "asking"]
    BY <1>4 DEF NextAsks
  <2> HIDE DEF n
  <2>5. left[n] = caller[n] /\ left[n] \in States /\ left[n].held \in Values BY <2>2, <2>3 DEF States
  <2>6. /\ caller' \in [Callers -> States] /\ caller'[n].st = "asking" /\ caller'[n].held = left[n].held
        /\ caller'[n].asked = left[n].asked
        /\ \A d \in Callers : d # n => caller'[d] = left[d]
    BY <2>2, <2>4, <2>5 DEF States
  <2>7. /\ Tail(waiting) \in Seq(Callers) /\ DOMAIN Tail(waiting) = 1..(Len(waiting) - 1)
        /\ \A i \in DOMAIN Tail(waiting) : Tail(waiting)[i] = waiting[i + 1]
    BY <1>4, <2>1, HeadTailProperties, LenProperties
  <2>8. \A i \in DOMAIN Tail(waiting) : i \in Nat /\ i + 1 \in DOMAIN waiting /\ i + 1 # 1 BY <2>2, <2>7
  <2>9. InTurn'
    <3> SUFFICES ASSUME NEW i \in DOMAIN waiting', NEW j \in DOMAIN waiting', waiting'[i] = waiting'[j] PROVE i = j
      BY DEF InTurn
    <3>1. waiting[i + 1] = waiting[j + 1] BY <2>4, <2>7
    <3>2. i + 1 = j + 1 BY <2>4, <2>8, <3>1 DEF Inv, InTurn
    <3> QED BY <2>4, <2>8, <3>2
  <2>10. ASSUME NEW i \in DOMAIN waiting' PROVE caller'[waiting'[i]].st = "waiting"
    <3>1. waiting'[i] = waiting[i + 1] /\ i + 1 \in DOMAIN waiting /\ i + 1 # 1 BY <2>4, <2>7, <2>8
    <3>2. waiting[i + 1] \in Callers /\ caller[waiting[i + 1]].st = "waiting"
      BY <2>1, <2>2, <3>1, ElementOfSeq DEF Inv, TypeOK
    <3>3. waiting[i + 1] # n BY <2>2, <3>1 DEF Inv, InTurn
    <3>4. waiting[i + 1] # c BY <1>1, <3>2
    <3> QED BY <2>6, <3>1, <3>2, <3>3, <3>4
  <2>11. StaysBegun BY <1>2, <2>6 DEF StaysBegun
  <2>12. ASSUME NEW d \in Callers
         PROVE  /\ caller'[d].st = "asking" <=> d = n
                /\ caller'[d].asked <= version
                /\ caller'[d].st = "answered" => caller'[d].got >= caller'[d].asked
    <3>1. CASE d = n BY <1>2, <2>2, <2>6, <3>1
    <3>2. CASE d # n BY <1>2, <2>6, <3>2
    <3> QED BY <3>1, <3>2
  <2>13. waiting' \in Seq(Callers) BY <2>4, <2>7
  <2> QED BY <2>2, <2>3, <2>4, <2>5, <2>6, <2>9, <2>10, <2>11, <2>12, <2>13, SendKeeps
<1> QED BY <1>3, <1>4

LEMMA PromiseKeeps ==
  ASSUME Inv, Promise
  PROVE  Inv'
<1>1. PICK c \in out : IF Head(settled).is = "answer" THEN Answered(c, Head(settled).value) ELSE Failed(c, Head(settled).is)
  BY DEF Promise
<1>2. out = {c} /\ c \in Callers BY DEF Inv, OneAtATime
<1>3. settled \in Seq(Fates) BY DEF Inv, TypeOK, Fates
<1>4. settled # <<>> /\ settled' = Tail(settled) BY DEF Promise
<1>5. pending = {} /\ Len(settled) = 1 BY <1>2, <1>4 DEF Inv, OneAtATime
<1>6. /\ Head(settled) \in Fates /\ 1 \in DOMAIN settled /\ Head(settled) = settled[1]
      /\ settled' \in Seq(Fates) /\ Len(settled') = 0
  BY <1>3, <1>4, <1>5, HeadTailProperties, LenProperties
<1>7. settled' = <<>> BY <1>6, EmptySeq
<1>8. NotStale(Head(settled).is, Head(settled).value, c) BY <1>2, <1>6 DEF Inv, NothingStale
<1>9. UNCHANGED <<check, version, said, down, closed>> BY DEF Promise
<1>10. caller \in [Callers -> States] /\ caller[c] \in States /\ 0 \in Values
  BY <1>2, SessionAssumption DEF Inv, TypeOK, States, Values
<1>11. CASE Head(settled).is = "answer"
  <2>1. Head(settled).value \in Values /\ Head(settled).value >= caller[c].asked BY <1>6, <1>8, <1>11 DEF Fates, NotStale
  <2> QED BY <1>1, <1>2, <1>5, <1>7, <1>9, <1>11, <2>1, AnsweredKeeps
<1>12. CASE Head(settled).is # "answer"
  <2>1. Failed(c, Head(settled).is) BY <1>1, <1>12
  <2>2. CASE Head(settled).is = "cacheOK" /\ caller[c].held # 0
    <3> DEFINE left == Ends(c, "answered", caller[c].held)
    <3>1. NextAsks(left) /\ kept' = kept BY <2>1, <2>2 DEF Failed
    <3> DEFINE to == [caller[c] EXCEPT !.st = "answered", !.got = caller[c].held]
    <3>2. /\ to \in States /\ to.st = "answered" /\ to.asked = caller[c].asked /\ to.got = caller[c].held
          /\ left = [caller EXCEPT ![c] = to]
      BY <1>10 DEF Ends, States
    <3> HIDE DEF to
    <3>3. /\ left \in [Callers -> States] /\ left[c].st = "answered" /\ left[c].asked = caller[c].asked
          /\ left[c].got = caller[c].held /\ \A d \in Callers : d # c => left[d] = caller[d]
      BY <1>2, <1>10, <3>2
    <3>4. left[c].got >= left[c].asked BY <1>8, <2>2, <3>3 DEF NotStale
    <3> HIDE DEF left
    <3> QED BY <1>2, <1>5, <1>7, <1>9, <3>1, <3>3, <3>4, NextAsksKeeps
  <2>3. CASE ~(Head(settled).is = "cacheOK" /\ caller[c].held # 0)
    <3> DEFINE left == Ends(c, "failed", 0)
    <3>1. NextAsks(left) /\ kept' = kept BY <2>1, <2>3 DEF Failed
    <3> DEFINE to == [caller[c] EXCEPT !.st = "failed", !.got = 0]
    <3>2. /\ to \in States /\ to.st = "failed" /\ to.asked = caller[c].asked
          /\ left = [caller EXCEPT ![c] = to]
      BY <1>10 DEF Ends, States
    <3> HIDE DEF to
    <3>3. /\ left \in [Callers -> States] /\ left[c].st = "failed" /\ left[c].asked = caller[c].asked
          /\ \A d \in Callers : d # c => left[d] = caller[d]
      BY <1>2, <1>10, <3>2
    <3> HIDE DEF left
    <3> QED BY <1>2, <1>5, <1>7, <1>9, <3>1, <3>3, NextAsksKeeps
  <2> QED BY <2>2, <2>3
<1> QED BY <1>11, <1>12

LEMMA StepKeeps ==
  ASSUME Inv, [Next]_vars
  PROVE  Inv'
<1>1. ASSUME NEW c \in Callers, FromCache(c) \/ Call(c) PROVE Inv' BY <1>1, FromCacheKeeps, CallKeeps
<1>2. ASSUME NEW q \in up, Serves(q) \/ SaysLate(q) PROVE Inv' BY <1>2, ServedIsFresh
<1>3. CASE Changes BY <1>3, ChangesKeeps
<1>4. CASE Frame \/ TimesOut \/ Closes BY <1>4, WaitersKeep
<1>5. CASE Promise BY <1>5, PromiseKeeps
<1>6. CASE UNCHANGED vars
  <2>1. version \in 1..MaxVersion /\ said \in 0..MaxProvisional /\ version <= version
    BY SessionAssumption DEF Inv, TypeOK
  <2> QED BY <1>6, <2>1, WireKeeps DEF vars, server
<1> QED BY <1>1, <1>2, <1>3, <1>4, <1>5, <1>6 DEF Next, Client

-----------------------------------------------------------------------------
(* The theorems.                                                           *)

\* The two properties rest on this: one call out, borne by whoever holds it, and
\* nothing on its way to it older than its question.
THEOREM InvAlways == Spec => []Inv
<1>1. Init => Inv BY InvInit
<1>2. Inv /\ [Next]_vars => Inv' BY StepKeeps
<1> QED BY <1>1, <1>2, PTL DEF Spec

\* The variables have their types: no call gets a number beyond the callers'.
THEOREM CallsTyped == Spec => []TypeOK
<1>1. Inv => TypeOK BY DEF Inv
<1> QED BY <1>1, InvAlways, PTL

\* However many want the same call, it is asked by one at a time (_call).
THEOREM OneOutAlways == Spec => []OneOut
<1>1. Inv => OneOut
  <2> SUFFICES ASSUME Inv PROVE OneOut OBVIOUS
  <2>1. Len(<<>>) = 0 OBVIOUS
  <2>2. Cardinality(pending) + Len(settled) = Cardinality(out)
    <3>1. CASE out = {} BY <2>1, <3>1, FS_EmptySet DEF Inv, OneAtATime
    <3>2. CASE out # {}
      <4>1. Cardinality(out) = 1 BY <3>2, FS_Singleton DEF Inv, OneAtATime
      <4>2. \/ settled = <<>> /\ Cardinality(pending) = 1
            \/ pending = {} /\ Len(settled) = 1
        BY <3>2, FS_Singleton DEF Inv, OneAtATime
      <4> QED BY <2>1, <4>1, <4>2, FS_EmptySet
    <3> QED BY <3>1, <3>2
  <2> QED BY <2>2 DEF Inv, OneAtATime, OneOut
<1> QED BY <1>1, InvAlways, PTL

\* Who asked for itself is not told what was no longer so when it asked
\* (_settleCall, _cachedCall).
THEOREM NeverFromBefore == Spec => []NotFromBefore
<1>1. Inv => NotFromBefore BY DEF Inv, NothingStale
<1> QED BY <1>1, InvAlways, PTL
=============================================================================
