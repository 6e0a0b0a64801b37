CONSTANTS
  b1 = b1
  b2 = b2
  r1 = r1
  r2 = r2
  r3 = r3
  Nobody = Nobody
  Requests = {r1, r2, r3}
  Buyers = {b1, b2}
  Listings = {1, 2}
  Codes = {1, 2, 3}
  OrderIds = {1, 2, 3}
  Keys = {k1}
  ListingOf <- MCListingOf
  Active = {1, 2}
  Price <- MCPrice
  MaxFen = 9
  InitialBalance <- MCBalance
  Submissions <- SameKey
  Partitions = {p1}
  Workers = {w1}
  Unstorable = {}
  MaxPublishes = 2
  MaxFaults = 0
  Sweepers = {}
  BatchSize = 1
  Payers = {}
SPECIFICATION Spec
CHECK_DEADLOCK FALSE
INVARIANTS AckedIsDecidedForItsBuyer
