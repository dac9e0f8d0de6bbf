\* A replenishment and a provisioning of one pilot by two requests at a time, a crash, a
\* move lost and a write of the page that strays, with fairness.
SPECIFICATION FairSpec
CONSTANTS
  Goods = {g1}
  Ships = {s1}
  Handlers = {h1, h2}
  Want = 2
  MaxStock = 3
  MaxReviews = 1
  MaxMishaps = 3
  None = None
INVARIANTS CustodyKept
PROPERTIES NeverTooMuch CustodyLetGo
CHECK_DEADLOCK FALSE
