---------------------------- MODULE OrderTables ----------------------------
(***************************************************************************)
(* The MySQL tables shared by order creation, order expiration and balance *)
(* payment (internal/store/models.go), and the row lock on an order that   *)
(* payment and expiration compete for.                                     *)
(*                                                                         *)
(* A transaction's reads of rows it locked, its writes and its commit are  *)
(* one step; a step of its own is every point at which it waits for a lock *)
(* or acts on something read before.  Order items carry no state that      *)
(* their order does not: every transaction writes both to the same status, *)
(* so an order's items are a field of it, [Listings -> Nat], 0 for a       *)
(* listing that was not bought.                                            *)
(***************************************************************************)
EXTENDS Naturals, FiniteSets, FiniteSetsExt, Functions

CONSTANTS
  Requests,        \* values of the Idempotency-Key header of an order request
  Buyers, Listings, Codes, OrderIds,   \* primary keys; all but Buyers numbers
  Keys,            \* values of the Idempotency-Key header of a payment
  ListingOf,       \* activation_codes.listing_id
  Active,          \* listings whose status is "active"
  Price,           \* license_listings.unit_price_fen
  MaxFen,          \* the largest amount: math.MaxUint64
  InitialBalance,  \* user_balances.available_fen before the first payment
  Submissions,     \* the events POST /order-requests may publish
  Nobody           \* NULL, and the owner of a lock nobody holds

Carts == [Listings -> Nat]

ASSUME TableAssumption ==
  /\ Listings \subseteq Nat /\ Codes \subseteq Nat /\ OrderIds \subseteq Nat
  /\ IsFiniteSet(Listings) /\ IsFiniteSet(Codes)
  /\ ListingOf \in [Codes -> Listings]
  /\ Active \subseteq Listings
  /\ Price \in [Listings -> Nat]
  /\ MaxFen \in Nat
  /\ InitialBalance \in [Buyers -> Nat]
  /\ Submissions \subseteq [request : Requests, buyer : Buyers, items : Carts]
  /\ Nobody \notin Requests \union Buyers \union OrderIds

VARIABLES
  requests,   \* order_creation_requests, by primary key
  orders,     \* orders with their order_items, by primary key
  codes,      \* activation_codes
  bindings,   \* order_item_activation_codes, as <<order, code>>
  attempts,   \* payment_attempts, all "succeeded"
  balance,    \* user_balances.available_fen
  ledger,     \* balance_transactions of type "order_payment"
  orderLock   \* who holds the row lock of an order (SELECT ... FOR UPDATE)

tables == <<requests, orders, codes, bindings, attempts, balance, ledger>>

(* What the positions of a cart cost, the amount of those whose listings   *)
(* are at most l, of the whole cart, and the number of codes it asks for.  *)
Amounts(items) == [k \in Listings |-> Price[k] * items[k]]

SubTotal(items, l) ==
  SumFunctionOnSet(Amounts(items), {k \in Listings : k <= l})

Total(items) == SumFunctionOnSet(Amounts(items), Listings)

Quantity(items) == SumFunctionOnSet(items, Listings)

NoRequest == [status |-> "none", buyer |-> Nobody, order |-> Nobody]

NoOrder == [status |-> "none", buyer |-> Nobody,
            items |-> [l \in Listings |-> 0], overdue |-> FALSE]

RequestRows ==
  {NoRequest}
    \union [status : {"created"}, buyer : Buyers, order : OrderIds]
    \union [status : {"rejected"}, buyer : Buyers, order : {Nobody}]

OrderRows ==
  {NoOrder}
    \union [status : {"pending_payment", "paid", "expired"}, buyer : Buyers,
            items : Carts, overdue : BOOLEAN]

CodeRows == [status : {"available", "reserved", "sold"},
             order : OrderIds \union {Nobody}]

TablesTypeOK ==
  /\ requests \in [Requests -> RequestRows]
  /\ orders \in [OrderIds -> OrderRows]
  /\ codes \in [Codes -> CodeRows]
  /\ bindings \subseteq OrderIds \X Codes
  /\ attempts \subseteq [buyer : Buyers, key : Keys, order : OrderIds]
  /\ ledger \subseteq [user : Buyers, order : OrderIds]

TablesInit ==
  /\ requests = [r \in Requests |-> NoRequest]
  /\ orders = [o \in OrderIds |-> NoOrder]
  /\ codes = [c \in Codes |-> [status |-> "available", order |-> Nobody]]
  /\ bindings = {}
  /\ attempts = {}
  /\ balance = InitialBalance
  /\ ledger = {}
  /\ orderLock = [o \in OrderIds |-> Nobody]

Pending(o) == orders[o].status = "pending_payment"

ReservedFor(o) ==
  {c \in Codes : codes[c].status = "reserved" /\ codes[c].order = o}

BoundTo(o) == {c \in Codes : <<o, c>> \in bindings}

(* S holds, of every listing, exactly the number of codes the cart asks    *)
(* for.                                                                    *)
Fills(S, items) ==
  \A l \in Listings : Cardinality({c \in S : ListingOf[c] = l}) = items[l]

(* The clock passing an order's expires_at (10 minutes after creation).    *)
BecomeOverdue(o) ==
  /\ Pending(o)
  /\ ~orders[o].overdue
  /\ orders' = [orders EXCEPT ![o].overdue = TRUE]
  /\ UNCHANGED <<requests, codes, bindings, attempts, balance, ledger, orderLock>>
=============================================================================
