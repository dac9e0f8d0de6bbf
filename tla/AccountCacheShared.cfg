\* Two users, three requests and room for one account.
SPECIFICATION CacheSpec
CONSTANTS
  Users = {u1, u2}
  Requests = {r1, r2, r3}
  MaxEntries = 1
  TTL = 2
  LoadTime = 1
SYMMETRY Perms
INVARIANTS OneLookupPerUser BanTakesHold
