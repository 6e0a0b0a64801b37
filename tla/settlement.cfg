CONSTANTS
  b1 = b1
  b2 = b2
  r1 = r1
  r2 = r2
  r3 = r3
  Nobody = Nobody
  Requests = {r1, r2, r3}
  Buyers = {b1, b2}
  Listings = {1, 2}
  Codes = {1, 2, 3}
  OrderIds = {1, 2, 3}
  Keys = {k1, k2}
  ListingOf <- MCListingOf
  Active = {1, 2}
  Price <- MCPrice
  MaxFen = 9
  InitialBalance <- MCBalance
  Submissions <- Rich
  Partitions = {p1}
  Workers = {w1}
  Unstorable = {}
  MaxPublishes = 3
  MaxFaults = 0
  Sweepers = {s1, s2}
  BatchSize = 1
  Payers = {a1, a2}
SPECIFICATION Spec
CHECK_DEADLOCK FALSE
INVARIANTS ReservationsMatchOrders SoldCodesArePaidFor MoneyIsConserved
PROPERTIES KeepsThePromise
