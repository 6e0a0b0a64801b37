-------------------------- MODULE ComponentProofs ---------------------------
(***************************************************************************)
(* Proofs about the limiter, the order page, the processes that start, the *)
(* sampling of the order queue and the data and the report of a load test  *)
(* in MCComponents, for every value of their constants; and about the      *)
(* types of all its variables.                                             *)
(***************************************************************************)
EXTENDS MCComponents, AccountProofs, SessionProofs, SumProofs

-----------------------------------------------------------------------------
(* The limiter of a client's requests.                                     *)

LEMMA LimitSteps ==
  ASSUME [ComponentsNext]_componentVars PROVE [Limits!Next]_limitVars
  BY DEF ComponentsNext, componentVars, limitVars

(* Products.                                                               *)

LEMMA Monotone ==
  ASSUME NEW a \in Nat, NEW b \in Nat, NEW n \in Nat, a <= b
  PROVE  a * n <= b * n /\ a * n \in Nat
<1>1. PICK k \in Nat : b = a + k
  <2>1. b - a \in Nat /\ b = a + (b - a)
    OBVIOUS
  <2> QED
    BY <2>1
<1>2. b * n = a * n + k * n
  BY <1>1
<1>3. k * n \in Nat /\ a * n \in Nat
  OBVIOUS
<1> QED
  BY <1>2, <1>3

(* A window more takes its length more.                                    *)
LEMMA OneMore ==
  ASSUME NEW w \in Nat \ {0}, NEW n \in Nat
  PROVE  w * n = (w - 1) * n + n /\ (w - 1) * n \in Nat
<1>1. PICK k \in Nat : w = k + 1
  <2>1. w - 1 \in Nat /\ w = (w - 1) + 1
    OBVIOUS
  <2> QED
    BY <2>1
<1>2. (k + 1) * n = k * n + n /\ k * n \in Nat
  OBVIOUS
<1>3. w - 1 = k
  BY <1>1
<1> QED
  BY <1>1, <1>2, <1>3

(* As many windows fit in a time as the quotient says.                     *)
LEMMA Quotient ==
  ASSUME NEW t \in Nat, NEW n \in Nat \ {0}, NEW k \in Nat, k * n <= t
  PROVE  t \div n \in Nat /\ k <= t \div n
<1> DEFINE q == t \div n
<1>1. q \in Nat /\ t < (q + 1) * n
  OBVIOUS
<1> HIDE DEF q
<1>2. ~(q + 1 <= k)
  <2>1. ASSUME q + 1 <= k PROVE FALSE
    <3>1. (q + 1) * n <= k * n /\ (q + 1) * n \in Nat
      BY <1>1, <2>1, Monotone
    <3>2. k * n \in Nat
      OBVIOUS
    <3> QED
      BY <1>1, <3>1, <3>2
  <2> QED
    BY <2>1
<1>3. k <= q
  BY <1>1, <1>2
<1> QED
  BY <1>1, <1>3 DEF q

LEMMA LimitSettings ==
  Limits!limit \in Nat \ {0} /\ Limits!window \in Nat \ {0} /\ None \notin Nat
BY LimiterAssumption DEF Limits!LimiterAssumption, Limits!limit, Limits!window

-----------------------------------------------------------------------------
(* What a client was let in is what the windows it began allowed, and they *)
(* began in the past and one after another, however late its requests.     *)
LimitSound(c) ==
  /\ \A r \in Calls : came[c][r] # None => came[c][r] <= ticks
  /\ started[c] = None => windows[c] = 0 /\ count[c] = 0 /\ admitted[c] = 0
  /\ started[c] # None =>
       /\ windows[c] >= 1
       /\ (windows[c] - 1) * Limits!window <= started[c] /\ started[c] <= ticks
       /\ count[c] <= Limits!limit
       /\ admitted[c] <= (windows[c] - 1) * Limits!limit + count[c]

LimitInv == Limits!TypeOK /\ \A c \in Clients : LimitSound(c)

LEMMA LimitStart == ASSUME Limits!Init PROVE LimitInv
BY LimitSettings DEF Limits!Init, LimitInv, Limits!TypeOK, LimitSound

LEMMA LimitTickStep == ASSUME LimitInv, Limits!Tick PROVE LimitInv'
<1>1. Limits!TypeOK'
  BY DEF LimitInv, Limits!TypeOK, Limits!Tick
<1>2. ASSUME NEW c \in Clients PROVE LimitSound(c)'
  <2>1. \A r \in Calls : came[c][r] \in Nat \union {None}
    BY DEF LimitInv, Limits!TypeOK
  <2>2. ticks \in Nat /\ started[c] \in Nat \union {None}
    BY DEF LimitInv, Limits!TypeOK
  <2>3. LimitSound(c) /\ ticks' = ticks + 1 /\ UNCHANGED <<came, started, count, windows, admitted>>
    BY DEF LimitInv, Limits!Tick
  <2>4. \A r \in Calls : came[c][r] # None => came[c][r] <= ticks + 1
    BY <2>1, <2>2, <2>3 DEF LimitSound
  <2>5. started[c] # None => started[c] <= ticks + 1
    BY <2>2, <2>3 DEF LimitSound
  <2> QED
    BY <2>3, <2>4, <2>5 DEF LimitSound
<1> QED
  BY <1>1, <1>2 DEF LimitInv

LEMMA LimitArriveStep ==
  ASSUME LimitInv, NEW c \in Clients, NEW r \in Calls, Limits!Arrive(c, r) PROVE LimitInv'
<1>1. Limits!TypeOK'
  BY DEF LimitInv, Limits!TypeOK, Limits!Arrive
<1>2. ASSUME NEW d \in Clients PROVE LimitSound(d)'
  <2>1. LimitSound(d) /\ UNCHANGED <<ticks, started, count, windows, admitted>>
    BY DEF LimitInv, Limits!Arrive
  <2>2. \A s \in Calls : came'[d][s] # None => came'[d][s] <= ticks
    BY <2>1 DEF LimitSound, LimitInv, Limits!TypeOK, Limits!Arrive
  <2> QED
    BY <2>1, <2>2 DEF LimitSound
<1> QED
  BY <1>1, <1>2 DEF LimitInv

LEMMA LimitRefuseStep ==
  ASSUME LimitInv, NEW c \in Clients, NEW r \in Calls, Limits!Refuse(c, r) PROVE LimitInv'
<1>1. Limits!TypeOK'
  BY DEF LimitInv, Limits!TypeOK, Limits!Refuse
<1>2. ASSUME NEW d \in Clients PROVE LimitSound(d)'
  <2>1. LimitSound(d) /\ UNCHANGED <<ticks, started, count, windows, admitted>>
    BY DEF LimitInv, Limits!Refuse
  <2>2. \A s \in Calls : came'[d][s] # None => came'[d][s] <= ticks
    BY <2>1 DEF LimitSound, LimitInv, Limits!TypeOK, Limits!Refuse
  <2> QED
    BY <2>1, <2>2 DEF LimitSound
<1> QED
  BY <1>1, <1>2 DEF LimitInv

LEMMA LimitAdmitStep ==
  ASSUME LimitInv, NEW c \in Clients, NEW r \in Calls, Limits!Admit(c, r)
  PROVE  LimitInv'
<1> DEFINE time == came[c][r]
<1>1. Limits!TypeOK'
  <2>1. /\ ticks \in Nat /\ time \in Nat
        /\ came \in [Clients -> [Calls -> Nat \union {None}]]
        /\ started \in [Clients -> Nat \union {None}] /\ count \in [Clients -> Nat]
        /\ windows \in [Clients -> Nat] /\ admitted \in [Clients -> Nat]
    BY DEF LimitInv, Limits!TypeOK, Limits!Admit
  <2>2. /\ ticks' \in Nat /\ admitted' \in [Clients -> Nat]
        /\ came' \in [Clients -> [Calls -> Nat \union {None}]]
    BY <2>1 DEF Limits!Admit
  <2>3. started' \in [Clients -> Nat \union {None}] /\ windows' \in [Clients -> Nat]
    BY <2>1 DEF Limits!Admit
  <2>4. count' \in [Clients -> Nat]
    BY <2>1 DEF Limits!Admit
  <2> QED
    BY <2>2, <2>3, <2>4 DEF Limits!TypeOK
<1>2. ASSUME NEW d \in Clients, d # c PROVE LimitSound(d)'
  <2>1. /\ LimitSound(d) /\ ticks' = ticks /\ came'[d] = came[d] /\ started'[d] = started[d]
        /\ count'[d] = count[d] /\ windows'[d] = windows[d] /\ admitted'[d] = admitted[d]
    BY <1>2 DEF LimitInv, Limits!TypeOK, Limits!Admit
  <2> QED
    BY <2>1 DEF LimitSound
<1>3. /\ LimitSound(c) /\ ticks \in Nat /\ time \in Nat /\ time <= ticks
      /\ started[c] \in Nat \union {None} /\ count[c] \in Nat
      /\ windows[c] \in Nat /\ admitted[c] \in Nat
  BY DEF LimitInv, Limits!TypeOK, LimitSound, Limits!Admit
<1>4. /\ \A s \in Calls : came'[c][s] # None => came'[c][s] <= ticks
      /\ ticks' = ticks /\ admitted'[c] = admitted[c] + 1
  BY <1>3 DEF LimitSound, LimitInv, Limits!TypeOK, Limits!Admit
<1>5. ASSUME Limits!NewWindow(c, time), started'[c] = time, count'[c] = 1,
             windows'[c] = windows[c] + 1
      PROVE  LimitSound(c)'
  <2>1. windows[c] * Limits!window <= time
    <3>1. CASE started[c] = None
      BY <1>3, <3>1, LimitSettings DEF LimitSound
    <3>2. CASE started[c] # None
      <4>1. /\ windows[c] \in Nat \ {0}
            /\ (windows[c] - 1) * Limits!window <= started[c] /\ time - started[c] >= Limits!window
        BY <1>3, <1>5, <3>2 DEF LimitSound, Limits!NewWindow
      <4>2. /\ windows[c] * Limits!window = (windows[c] - 1) * Limits!window + Limits!window
            /\ (windows[c] - 1) * Limits!window \in Nat
        BY <4>1, OneMore, LimitSettings
      <4> QED
        BY <1>3, <3>2, <4>1, <4>2, LimitSettings
    <3> QED
      BY <3>1, <3>2
  <2>2. admitted[c] <= windows[c] * Limits!limit
    <3>1. CASE started[c] = None
      BY <1>3, <3>1, LimitSettings DEF LimitSound
    <3>2. CASE started[c] # None
      <4>1. /\ windows[c] \in Nat \ {0} /\ count[c] <= Limits!limit
            /\ admitted[c] <= (windows[c] - 1) * Limits!limit + count[c]
        BY <1>3, <3>2 DEF LimitSound
      <4>2. /\ windows[c] * Limits!limit = (windows[c] - 1) * Limits!limit + Limits!limit
            /\ (windows[c] - 1) * Limits!limit \in Nat
        BY <4>1, OneMore, LimitSettings
      <4> QED
        BY <1>3, <4>1, <4>2, LimitSettings
    <3> QED
      BY <3>1, <3>2
  <2>3. windows'[c] - 1 = windows[c] /\ windows'[c] >= 1 /\ started'[c] # None
    BY <1>3, <1>5, LimitSettings
  <2>4. (windows'[c] - 1) * Limits!window <= started'[c] /\ started'[c] <= ticks'
    BY <1>3, <1>4, <1>5, <2>1, <2>3
  <2>5. windows[c] * Limits!limit \in Nat
    BY <1>3, LimitSettings
  <2>6. count'[c] <= Limits!limit /\ admitted'[c] <= (windows'[c] - 1) * Limits!limit + count'[c]
    <3>1. admitted[c] + 1 <= windows[c] * Limits!limit + 1
      BY <1>3, <2>2, <2>5
    <3> QED
      BY <1>4, <1>5, <2>3, <3>1, LimitSettings
  <2> QED
    BY <1>4, <2>3, <2>4, <2>6 DEF LimitSound
<1>6. ASSUME ~Limits!NewWindow(c, time), count[c] < Limits!limit, count'[c] = count[c] + 1,
             started'[c] = started[c], windows'[c] = windows[c]
      PROVE  LimitSound(c)'
  <2>1. started[c] # None
    BY <1>6 DEF Limits!NewWindow
  <2>2. (windows[c] - 1) * Limits!limit \in Nat
    <3>1. windows[c] \in Nat \ {0}
      BY <1>3, <2>1 DEF LimitSound
    <3> QED
      BY <3>1, OneMore, LimitSettings
  <2>3. admitted'[c] <= (windows'[c] - 1) * Limits!limit + count'[c] /\ count'[c] <= Limits!limit
    <3>1. admitted[c] <= (windows[c] - 1) * Limits!limit + count[c]
      BY <1>3, <2>1 DEF LimitSound
    <3> QED
      BY <1>3, <1>4, <1>6, <2>2, <3>1, LimitSettings
  <2> QED
    BY <1>3, <1>4, <1>6, <2>1, <2>3 DEF LimitSound
<1>7. LimitSound(c)'
  BY <1>5, <1>6 DEF Limits!Admit, LimitInv, Limits!TypeOK
<1> QED
  BY <1>1, <1>2, <1>7 DEF LimitInv

LEMMA LimitStep == ASSUME LimitInv, [Limits!Next]_limitVars PROVE LimitInv'
<1>1. CASE Limits!Tick
  BY <1>1, LimitTickStep
<1>2. CASE \E c \in Clients, r \in Calls : Limits!Arrive(c, r) \/ Limits!Admit(c, r) \/ Limits!Refuse(c, r)
  BY <1>2, LimitArriveStep, LimitAdmitStep, LimitRefuseStep
<1>3. CASE UNCHANGED limitVars
  BY <1>3 DEF limitVars, LimitInv, Limits!TypeOK, LimitSound
<1> QED
  BY <1>1, <1>2, <1>3 DEF Limits!Next

LEMMA LimitBound == ASSUME LimitInv PROVE Limits!AdmissionsAreBounded
<1> SUFFICES ASSUME LimitInv, NEW c \in Clients
             PROVE  admitted[c] <= Limits!limit * (ticks \div Limits!window + 1)
  BY DEF Limits!AdmissionsAreBounded
<1> DEFINE q == ticks \div Limits!window
<1>1. /\ LimitSound(c) /\ ticks \in Nat /\ started[c] \in Nat \union {None}
      /\ count[c] \in Nat /\ windows[c] \in Nat /\ admitted[c] \in Nat
  BY DEF LimitInv, Limits!TypeOK
<1>2. q \in Nat /\ \A k \in Nat : k * Limits!window <= ticks => k <= q
  <2>1. 0 * Limits!window <= ticks
    BY <1>1, LimitSettings
  <2> QED
    BY <1>1, <2>1, Quotient, LimitSettings
<1> HIDE DEF q
<1>3. (q + 1) * Limits!limit = Limits!limit * (q + 1) /\ (q + 1) * Limits!limit \in Nat
  BY <1>2, LimitSettings
<1>4. CASE started[c] = None
  BY <1>1, <1>3, <1>4 DEF LimitSound, q
<1>5. CASE started[c] # None
  <2>1. windows[c] \in Nat \ {0} /\ windows[c] - 1 \in Nat
    BY <1>1, <1>5 DEF LimitSound
  <2>2. (windows[c] - 1) * Limits!window \in Nat /\ (windows[c] - 1) * Limits!window <= ticks
    BY <1>1, <1>5, <2>1, OneMore, LimitSettings DEF LimitSound
  <2>3. windows[c] <= q + 1
    BY <1>2, <2>1, <2>2
  <2>4. admitted[c] <= windows[c] * Limits!limit
    <3>1. windows[c] * Limits!limit = (windows[c] - 1) * Limits!limit + Limits!limit
            /\ (windows[c] - 1) * Limits!limit \in Nat
      BY <2>1, OneMore, LimitSettings
    <3> QED
      BY <1>1, <1>5, <3>1, LimitSettings DEF LimitSound
  <2>5. windows[c] * Limits!limit <= (q + 1) * Limits!limit /\ windows[c] * Limits!limit \in Nat
    BY <1>2, <2>1, <2>3, Monotone, LimitSettings
  <2> QED
    BY <1>1, <1>3, <2>4, <2>5 DEF q
<1> QED
  BY <1>4, <1>5

(* However requests are delayed between reading the time and being counted *)
(* (Allow), a client is let in at most limit times for each window of time *)
(* that has begun.                                                         *)
THEOREM Admissions == ComponentsSpec => []AdmissionsAreBounded
<1>1. ComponentsInit => LimitInv
  BY LimitStart DEF ComponentsInit
<1>2. LimitInv /\ [ComponentsNext]_componentVars => LimitInv'
  BY LimitStep, LimitSteps
<1>3. LimitInv => AdmissionsAreBounded
  BY LimitBound DEF AdmissionsAreBounded
<1> QED
  BY <1>1, <1>2, <1>3, PTL DEF ComponentsSpec

-----------------------------------------------------------------------------
(* The order page.  It waits for one answer or one timer, which is about   *)
(* its newest request, and which the status tells the kind of.             *)
PageWaits ==
  /\ timer # 0 => /\ calling = {} /\ timer = requestId
                 /\ status = "processing" /\ outcome[timer] # "unknown"
  /\ \A c, d \in calling : c = d
  /\ \A c \in calling :
       /\ c.of = requestId
       /\ c.kind \in {"submit", "poll"} => status = "processing"
       /\ c.kind = "poll" => outcome[c.of] # "unknown"
       /\ c.kind \in {"pay", "paid"} => status = "paying"
       /\ c.kind = "paid" => outcome[c.of] = "paid"

PageShows ==
  /\ orderNo # 0 => orderNo = requestId
  /\ status \in {"created", "paying", "paid"} => orderNo # 0
  /\ status \in {"rejected", "processing"} => requestId # 0
  /\ status \in {"created", "paying"} =>
       outcome[requestId] \in {"created", "paid", "expired"}
  /\ status \in {"rejected", "paid"} => outcome[requestId] = status

PageInv == Page!TypeOK /\ PageWaits /\ PageShows

LEMMA PageSteps ==
  ASSUME [ComponentsNext]_componentVars PROVE [Page!Next]_pageVars
  BY DEF ComponentsNext, componentVars, pageVars

LEMMA PageServer ==
  ASSUME PageInv, NEW r \in Page!Requests,
         Page!Publish(r) \/ Page!Decide(r) \/ Page!Charge(r)
  PROVE  PageInv'
<1> USE PageAssumption DEF PageInv, Page!TypeOK, PageWaits, PageShows, Page!Shown, Page!Requests,
        Page!PageAssumption
<1>1. CASE Page!Publish(r)
  BY <1>1 DEF Page!Publish
<1>2. CASE Page!Decide(r)
  BY <1>2 DEF Page!Decide
<1>3. CASE Page!Charge(r)
  BY <1>3 DEF Page!Charge
<1> QED
  BY <1>1, <1>2, <1>3

LEMMA PageUser ==
  ASSUME PageInv, Page!Submit \/ Page!PollAgain \/ Page!Pay
  PROVE  PageInv'
<1> USE PageAssumption DEF PageInv, Page!TypeOK, PageWaits, PageShows, Page!Shown, Page!Requests,
        Page!PageAssumption, Page!Show
<1>1. CASE Page!Submit
  BY <1>1 DEF Page!Submit, Page!Enabled
<1>2. CASE Page!PollAgain
  BY <1>2 DEF Page!PollAgain
<1>3. CASE Page!Pay
  BY <1>3 DEF Page!Pay
<1> QED
  BY <1>1, <1>2, <1>3

LEMMA PageAnswers ==
  ASSUME PageInv, NEW c \in calling,
         Page!Poll(c) \/ Page!Answer(c) \/ Page!Paid(c) \/ Page!Fails(c)
  PROVE  PageInv'
<1> USE PageAssumption DEF PageInv, Page!TypeOK, PageWaits, PageShows, Page!Shown, Page!Requests,
        Page!PageAssumption, Page!Show
<1>1. CASE Page!Poll(c)
  BY <1>1 DEF Page!Poll
<1>2. CASE Page!Answer(c)
  BY <1>2 DEF Page!Answer
<1>3. CASE Page!Paid(c)
  BY <1>3 DEF Page!Paid
<1>4. CASE Page!Fails(c)
  BY <1>4 DEF Page!Fails
<1> QED
  BY <1>1, <1>2, <1>3, <1>4

LEMMA PageStep == ASSUME PageInv, [Page!Next]_pageVars PROVE PageInv'
<1>1. CASE Page!Next
  BY <1>1, PageServer, PageUser, PageAnswers DEF Page!Next
<1>2. CASE UNCHANGED pageVars
  BY <1>2 DEF pageVars, PageInv, Page!TypeOK, PageWaits, PageShows, Page!Requests
<1> QED
  BY <1>1, <1>2

LEMMA PageStart == ASSUME Page!Init PROVE PageInv
  BY PageAssumption DEF Page!Init, PageInv, Page!TypeOK, PageWaits, PageShows, Page!Requests,
     Page!PageAssumption

LEMMA PageBound == ASSUME PageInv PROVE Page!ShownIsTrue
  BY DEF PageInv, PageWaits, PageShows, Page!ShownIsTrue

-----------------------------------------------------------------------------
(* The connection of the chat page.  Sockets are numbered as they are      *)
(* made, so that a new one takes the place of none.                        *)
SocketsNumbered ==
  \E k \in 0..MaxSockets : /\ asking + k <= MaxSockets
                           /\ \A s \in Client!Sockets : ready[s] # "none" <=> s <= k

ClientInv == Client!TypeOK /\ SocketsNumbered /\ Client!TheClientHears

LEMMA ClientSteps ==
  ASSUME [ComponentsNext]_componentVars PROVE [Client!Next]_clientVars
  BY DEF ComponentsNext, componentVars, clientVars

LEMMA ClientMade ==
  ASSUME ClientInv
  PROVE  \E k \in 0..MaxSockets :
           /\ asking + k <= MaxSockets /\ Cardinality(Client!Made) = k
           /\ \A s \in Client!Sockets : ready[s] # "none" <=> s <= k
<1>0. MaxSockets \in Nat
  BY ClientAssumption DEF Client!ClientAssumption
<1>1. PICK k \in 0..MaxSockets :
        /\ asking + k <= MaxSockets
        /\ \A s \in Client!Sockets : ready[s] # "none" <=> s <= k
  BY DEF ClientInv, SocketsNumbered
<1>2. Client!Made = 1..k
  BY <1>0, <1>1 DEF Client!Made, Client!Sockets
<1>3. Cardinality(1..k) = k
  BY <1>0, <1>1, FS_Interval
<1> QED
  BY <1>1, <1>2, <1>3

SocketStates == {"none", "connecting", "open", "gone", "closed"}

(* Closing the newest socket, if there is one.                             *)
LEMMA ClientDrop ==
  ASSUME Client!TypeOK, NEW r,
         \/ socket = 0 /\ r = ready
         \/ socket # 0 /\ r = Client!Drop(socket)
  PROVE  /\ r \in [Client!Sockets -> SocketStates]
         /\ \A t \in Client!Sockets :
              r[t] = ready[t] \/ (ready[t] \in {"connecting", "open"} /\ r[t] = "gone")
<1> USE DEF Client!TypeOK, SocketStates
<1>1. CASE socket = 0
  BY <1>1
<1>2. CASE socket # 0
  <2>1. r = [ready EXCEPT ![socket] = IF ready[socket] \in {"connecting", "open"} THEN "gone"
                                      ELSE ready[socket]]
    BY <1>2 DEF Client!Drop
  <2>2. socket \in Client!Sockets
    BY <1>2, ClientAssumption DEF Client!Sockets, Client!ClientAssumption
  <2> QED
    BY <2>1, <2>2
<1> QED
  BY <1>1, <1>2

LEMMA ClientStep == ASSUME ClientInv, [Client!Next]_clientVars PROVE ClientInv'
<1> USE ClientAssumption DEF Client!ClientAssumption, Client!Sockets, Client!StopPolling
<1>0. PICK k \in 0..MaxSockets :
        /\ asking + k <= MaxSockets /\ Cardinality(Client!Made) = k
        /\ \A s \in Client!Sockets : ready[s] # "none" <=> s <= k
  BY ClientMade
<1>1. CASE Client!Connect
  <2>1. /\ ready' \in [Client!Sockets -> SocketStates]
        /\ \A t \in Client!Sockets :
             ready'[t] = ready[t] \/ (ready[t] \in {"connecting", "open"} /\ ready'[t] = "gone")
    <3>1. \/ socket = 0 /\ ready' = ready
          \/ socket # 0 /\ ready' = Client!Drop(socket)
      BY <1>1 DEF Client!Connect
    <3> QED
      BY <3>1, ClientDrop DEF ClientInv
  <2>0. asking + k < MaxSockets /\ asking' = asking + 1
    <3>1. asking + Cardinality(Client!Made) < MaxSockets
      BY <1>1 DEF Client!Connect, Cardinality, Client!Cardinality
    <3>2. asking' = asking + 1
      BY <1>1 DEF Client!Connect
    <3> QED
      BY <1>0, <3>1, <3>2
  <2>5. asking' \in 0..MaxSockets /\ asking' + k <= MaxSockets
    BY <1>0, <2>0 DEF ClientInv, Client!TypeOK
  <2>2. Client!TypeOK'
    BY <2>5, <1>1, <2>1 DEF Client!Connect, ClientInv, Client!TypeOK, SocketStates
  <2>3. SocketsNumbered'
    <3>1. asking' + k <= MaxSockets
      BY <2>5
    <3>2. \A t \in Client!Sockets : ready'[t] # "none" <=> t <= k
      BY <1>0, <2>1
    <3> QED
      BY <3>1, <3>2 DEF SocketsNumbered
  <2>4. Client!TheClientHears'
    BY <1>1, <2>1 DEF Client!Connect, ClientInv, Client!TypeOK, Client!TheClientHears
  <2> QED
    BY <2>2, <2>3, <2>4 DEF ClientInv
<1>2. CASE Client!Refused
  <2>1. Client!TypeOK'
    BY <1>0, <1>2 DEF Client!Refused, ClientInv, Client!TypeOK
  <2>2. SocketsNumbered'
    <3>1. k \in 0..MaxSockets /\ asking' + k <= MaxSockets
      BY <1>0, <1>2 DEF Client!Refused, ClientInv, Client!TypeOK
    <3>2. \A t \in Client!Sockets : ready'[t] # "none" <=> t <= k
      BY <1>0, <1>2 DEF Client!Refused, ClientInv, Client!TypeOK
    <3> QED
      BY <3>1, <3>2 DEF SocketsNumbered
  <2>3. Client!TheClientHears'
    BY <1>0, <1>2 DEF Client!Refused, ClientInv, Client!TypeOK, Client!TheClientHears
  <2> QED
    BY <2>1, <2>2, <2>3 DEF ClientInv
<1>3. CASE Client!NewSocket
  <2>0. /\ k + 1 \in Client!Sockets /\ asking' = asking - 1 /\ asking' \in 0..MaxSockets
        /\ asking' + (k + 1) <= MaxSockets
    BY <1>0, <1>3 DEF Client!NewSocket, ClientInv, Client!TypeOK
  <2>1. socket' = k + 1 /\ ready' = [ready EXCEPT ![k + 1] = "connecting"] /\ ready[k + 1] = "none"
    <3>1. socket' = Cardinality(Client!Made) + 1
      BY <1>3 DEF Client!NewSocket, Cardinality, Client!Cardinality
    <3>2. ready' = [ready EXCEPT ![socket'] = "connecting"]
      BY <1>3, Zenon DEF Client!NewSocket
    <3> QED
      BY <1>0, <2>0, <3>1, <3>2
  <2>2. Client!TypeOK'
    BY <1>3, <2>0, <2>1 DEF Client!NewSocket, ClientInv, Client!TypeOK
  <2>3. SocketsNumbered'
    <3>1. \A t \in Client!Sockets : ready'[t] # "none" <=> t <= k + 1
      BY <1>0, <2>0, <2>1 DEF ClientInv, Client!TypeOK
    <3> QED
      BY <2>0, <3>1 DEF SocketsNumbered
  <2>4. Client!TheClientHears'
    BY <1>3, <2>0, <2>1 DEF Client!NewSocket, ClientInv, Client!TypeOK, Client!TheClientHears
  <2> QED
    BY <2>2, <2>3, <2>4 DEF ClientInv
<1>4. CASE Client!Leave
  <2>1. /\ ready' \in [Client!Sockets -> SocketStates]
        /\ \A t \in Client!Sockets :
             ready'[t] = ready[t] \/ (ready[t] \in {"connecting", "open"} /\ ready'[t] = "gone")
    <3>1. \/ socket = 0 /\ ready' = ready
          \/ socket # 0 /\ ready' = Client!Drop(socket)
      BY <1>4 DEF Client!Leave
    <3> QED
      BY <3>1, ClientDrop DEF ClientInv
  <2>2. Client!TypeOK'
    BY <1>0, <1>4, <2>1 DEF Client!Leave, ClientInv, Client!TypeOK, SocketStates
  <2>3. SocketsNumbered'
    <3>1. asking' + k <= MaxSockets
      BY <1>0, <1>4 DEF Client!Leave, ClientInv, Client!TypeOK
    <3>2. \A t \in Client!Sockets : ready'[t] # "none" <=> t <= k
      BY <1>0, <2>1
    <3> QED
      BY <3>1, <3>2 DEF SocketsNumbered
  <2>4. Client!TheClientHears'
    BY <1>4, <2>1 DEF Client!Leave, ClientInv, Client!TypeOK, Client!TheClientHears
  <2> QED
    BY <2>2, <2>3, <2>4 DEF ClientInv
<1>5. ASSUME NEW s \in Client!Sockets, Client!OnOpen(s) PROVE ClientInv'
  <2>1. Client!TypeOK'
    BY <1>0, <1>5 DEF Client!OnOpen, ClientInv, Client!TypeOK
  <2>2. SocketsNumbered'
    <3>1. k \in 0..MaxSockets /\ asking' + k <= MaxSockets
      BY <1>0, <1>5 DEF Client!OnOpen, ClientInv, Client!TypeOK
    <3>2. \A t \in Client!Sockets : ready'[t] # "none" <=> t <= k
      BY <1>0, <1>5 DEF Client!OnOpen, ClientInv, Client!TypeOK
    <3> QED
      BY <3>1, <3>2 DEF SocketsNumbered
  <2>3. Client!TheClientHears'
    BY <1>0, <1>5 DEF Client!OnOpen, ClientInv, Client!TypeOK, Client!TheClientHears
  <2> QED
    BY <2>1, <2>2, <2>3 DEF ClientInv
<1>6. ASSUME NEW s \in Client!Sockets, Client!Break(s) PROVE ClientInv'
  <2>1. Client!TypeOK'
    BY <1>0, <1>6 DEF Client!Break, Client!Drop, ClientInv, Client!TypeOK
  <2>2. SocketsNumbered'
    <3>1. k \in 0..MaxSockets /\ asking' + k <= MaxSockets
      BY <1>0, <1>6 DEF Client!Break, Client!Drop, ClientInv, Client!TypeOK
    <3>2. \A t \in Client!Sockets : ready'[t] # "none" <=> t <= k
      BY <1>0, <1>6 DEF Client!Break, Client!Drop, ClientInv, Client!TypeOK
    <3> QED
      BY <3>1, <3>2 DEF SocketsNumbered
  <2>3. Client!TheClientHears'
    BY <1>0, <1>6 DEF Client!Break, Client!Drop, ClientInv, Client!TypeOK, Client!TheClientHears
  <2> QED
    BY <2>1, <2>2, <2>3 DEF ClientInv
<1>7. ASSUME NEW s \in Client!Sockets, Client!OnClose(s) PROVE ClientInv'
  <2>1. Client!TypeOK'
    BY <1>0, <1>7 DEF Client!OnClose, Client!FallsBack, ClientInv, Client!TypeOK
  <2>2. SocketsNumbered'
    <3>1. k \in 0..MaxSockets /\ asking' + k <= MaxSockets
      BY <1>0, <1>7 DEF Client!OnClose, Client!FallsBack, ClientInv, Client!TypeOK
    <3>2. \A t \in Client!Sockets : ready'[t] # "none" <=> t <= k
      BY <1>0, <1>7 DEF Client!OnClose, Client!FallsBack, ClientInv, Client!TypeOK
    <3> QED
      BY <3>1, <3>2 DEF SocketsNumbered
  <2>3. Client!TheClientHears'
    BY <1>0, <1>7 DEF Client!OnClose, Client!FallsBack, ClientInv, Client!TypeOK,
       Client!TheClientHears
  <2> QED
    BY <2>1, <2>2, <2>3 DEF ClientInv
<1>8. CASE UNCHANGED clientVars
  BY <1>8 DEF clientVars, ClientInv, Client!TypeOK, SocketsNumbered, Client!TheClientHears
<1> QED
  BY <1>1, <1>2, <1>3, <1>4, <1>5, <1>6, <1>7, <1>8 DEF Client!Next

LEMMA ClientStart == ASSUME Client!Init PROVE ClientInv
  BY ClientAssumption DEF Client!Init, ClientInv, SocketsNumbered, Client!TypeOK,
     Client!TheClientHears,
     Client!ClientAssumption, Client!Sockets

(* What the order page shows the server has decided, and what it shows as  *)
(* paid is paid (useOrderCreation.ts); a chat page that says it is         *)
(* connected has something to hear from (useRealtimeChat.ts).              *)
THEOREM Pages == ComponentsSpec => []PagesTellTheTruth
<1>1. ComponentsInit => PageInv /\ ClientInv
  BY PageStart, ClientStart DEF ComponentsInit
<1>2. PageInv /\ ClientInv /\ [ComponentsNext]_componentVars => PageInv' /\ ClientInv'
  BY PageStep, PageSteps, ClientStep, ClientSteps
<1>3. PageInv /\ ClientInv => PagesTellTheTruth
  BY PageBound DEF ClientInv, PagesTellTheTruth
<1> QED
  BY <1>1, <1>2, <1>3, PTL DEF ComponentsSpec

-----------------------------------------------------------------------------
(* Processes that start.                                                   *)

LEMMA StartSteps ==
  ASSUME [ComponentsNext]_componentVars PROVE [Starts!Next]_startVars
  BY DEF ComponentsNext, componentVars, startVars

AskedPartitions(s) == IF s = CHOOSE t \in Servers : TRUE THEN 2 ELSE 3

(* A message has no recipient yet or the right one: a process that has     *)
(* migrated found none of the first kind, and nobody makes new ones.       *)
StartTypes ==
  /\ start \in [Starts!Processes -> {"migrate", "fill", "create", "read", "grow", "run",
                                     "check", "seed", "done"}]
  /\ batch \in [Starts!Processes -> SUBSET Messages]
  /\ author \in [Messages \union {Demo} -> Starts!Participants]
  /\ recipient \in [Messages \union {Demo} -> Starts!Participants \union {"nobody", "absent"}]
  /\ partitions \in Nat /\ seeded \in {0, 1}
  /\ \A p \in Starts!Processes : start[p] \in {"create", "read", "grow", "run"} => p \in Servers

HasOther(m) == recipient[m] \in Starts!Participants \ {author[m]}

RecipientsAreRight ==
  /\ \A m \in Messages : recipient[m] = "nobody" \/ HasOther(m)
  /\ \A p \in Starts!Processes : start[p] \notin {"migrate", "fill"} =>
       \A m \in Messages : HasOther(m)

PartitionsSuffice ==
  \A p \in Servers : start[p] = "run" => partitions >= AskedPartitions(p)

SeededOnce == (seeded = 1) = (recipient[Demo] = "publisher")

StartInv == StartTypes /\ RecipientsAreRight /\ PartitionsSuffice /\ SeededOnce

LEMMA StartFacts ==
  /\ Demo \notin Messages
  /\ \A p \in Servers : AskedPartitions(p) \in Nat /\ AskedPartitions(p) > 0
  BY StartupAssumption DEF Starts!StartupAssumption, AskedPartitions

LEMMA StartStart == ASSUME ComponentsInit PROVE StartInv
<1>1. Starts!Init
  BY DEF ComponentsInit
<1>2. StartTypes
  BY <1>1 DEF Starts!Init, StartTypes
<1> QED
  BY <1>1, <1>2, StartFacts
     DEF Starts!Init, StartInv, RecipientsAreRight, PartitionsSuffice, SeededOnce,
         Starts!Processes, Starts!Participants

LEMMA StartStep == ASSUME StartInv, [Starts!Next]_startVars PROVE StartInv'
<1> USE StartFacts DEF StartInv, Starts!Go
<1>1. ASSUME NEW p \in Starts!Processes, NEW next, start' = [start EXCEPT ![p] = next],
             next \in {"migrate", "fill", "create", "read", "grow", "check", "seed", "done"},
             next \in {"create", "read", "grow"} => p \in Servers,
             next \notin {"migrate", "fill"} => \A m \in Messages : HasOther(m),
             batch' \in [Starts!Processes -> SUBSET Messages],
             UNCHANGED <<author, recipient, partitions, seeded>>
      PROVE  StartInv'
  <2>1. StartTypes'
    BY <1>1 DEF StartTypes
  <2>2. RecipientsAreRight'
    BY <1>1 DEF StartTypes, RecipientsAreRight, HasOther
  <2>3. PartitionsSuffice' /\ SeededOnce'
    BY <1>1 DEF StartTypes, PartitionsSuffice, SeededOnce, Starts!Processes, AskedPartitions
  <2> QED
    BY <2>1, <2>2, <2>3
<1>2. ASSUME NEW p \in Starts!Processes, Starts!Select(p) PROVE StartInv'
  <2>1. batch' \in [Starts!Processes -> SUBSET Messages]
    BY <1>2 DEF Starts!Select, Starts!Unfilled, StartTypes
  <2> QED
    BY <1>1, <1>2, <2>1 DEF Starts!Select
<1>3. ASSUME NEW p \in Starts!Processes, Starts!Migrated(p) PROVE StartInv'
  <2>1. \A m \in Messages : HasOther(m)
    BY <1>3 DEF Starts!Migrated, Starts!Unfilled, RecipientsAreRight
  <2> QED
    BY <1>1, <1>3, <2>1 DEF Starts!Migrated, StartTypes
<1>4. ASSUME NEW p \in Starts!Processes, NEW m \in Messages, Starts!Fill(p, m) PROVE StartInv'
  <2>1. StartTypes'
    BY <1>4 DEF Starts!Fill, StartTypes, Starts!Other, Starts!Participants
  <2>2. RecipientsAreRight'
    BY <1>4 DEF Starts!Fill, StartTypes, RecipientsAreRight, HasOther, Starts!Other,
                Starts!Participants
  <2>3. PartitionsSuffice' /\ SeededOnce'
    BY <1>4 DEF Starts!Fill, StartTypes, PartitionsSuffice, SeededOnce, Starts!Processes,
                AskedPartitions
  <2> QED
    BY <2>1, <2>2, <2>3
<1>5. ASSUME NEW p \in Starts!Processes, NEW next \in {"read", "grow", "run", "migrate"}, NEW n \in Nat,
             start[p] \in {"create", "read", "grow"}, start' = [start EXCEPT ![p] = next],
             partitions' = n, n >= partitions,
             next = "run" /\ p \in Servers => n >= AskedPartitions(p),
             UNCHANGED <<batch, author, recipient, seeded>>
      PROVE  StartInv'
  <2>1. StartTypes'
    BY <1>5 DEF StartTypes
  <2>2. RecipientsAreRight'
    BY <1>5 DEF StartTypes, RecipientsAreRight, HasOther
  <2>3. ASSUME NEW q \in Servers, start'[q] = "run" PROVE partitions' >= AskedPartitions(q)
    BY <1>5, <2>3 DEF StartTypes, PartitionsSuffice, Starts!Processes
  <2>4. PartitionsSuffice'
    BY <2>3 DEF PartitionsSuffice, AskedPartitions
  <2> QED
    BY <1>5, <2>1, <2>2, <2>4 DEF SeededOnce
<1>6. ASSUME NEW p \in Starts!Processes, Starts!CreateTopic(p) PROVE StartInv'
  <2>1. p \in Servers
    BY <1>6 DEF Starts!CreateTopic, StartTypes
  <2>2. CASE partitions = 0
    <3>1. /\ start' = [start EXCEPT ![p] = "read"] /\ partitions' = AskedPartitions(p)
          /\ AskedPartitions(p) \in Nat /\ AskedPartitions(p) >= partitions
          /\ start[p] \in {"create", "read", "grow"}
          /\ UNCHANGED <<batch, author, recipient, seeded>>
      BY <1>6, <2>1, <2>2, StartupAssumption
         DEF Starts!CreateTopic, StartTypes, AskedPartitions, Starts!StartupAssumption
    <3> QED
      BY <1>5, <3>1
  <2>3. CASE partitions # 0
    <3>1. /\ start' = [start EXCEPT ![p] = "read"] /\ partitions' = partitions
          /\ partitions \in Nat /\ partitions >= partitions
          /\ start[p] \in {"create", "read", "grow"}
          /\ UNCHANGED <<batch, author, recipient, seeded>>
      BY <1>6, <2>1, <2>3, StartupAssumption
         DEF Starts!CreateTopic, StartTypes, AskedPartitions, Starts!StartupAssumption
    <3> QED
      BY <1>5, <3>1
  <2> QED
    BY <2>2, <2>3
<1>7. ASSUME NEW p \in Starts!Processes, Starts!ReadPartitions(p) PROVE StartInv'
  <2>1. p \in Servers /\ start[p] = "read"
    BY <1>7 DEF Starts!ReadPartitions, StartTypes
  <2>4. /\ start' = [start EXCEPT ![p] = IF partitions >= AskedPartitions(p) THEN "run" ELSE "grow"]
        /\ UNCHANGED <<batch, author, recipient, seeded, partitions>>
    BY <1>7, <2>1 DEF Starts!ReadPartitions, AskedPartitions
  <2>2. CASE partitions >= AskedPartitions(p)
    <3>1. /\ start' = [start EXCEPT ![p] = "run"] /\ partitions' = partitions
          /\ partitions \in Nat /\ partitions >= partitions
          /\ start[p] \in {"create", "read", "grow"}
          /\ UNCHANGED <<batch, author, recipient, seeded>>
      BY <2>1, <2>2, <2>4 DEF StartTypes
    <3> QED
      BY <1>5, <3>1, <2>2
  <2>3. CASE ~(partitions >= AskedPartitions(p))
    <3>1. /\ start' = [start EXCEPT ![p] = "grow"] /\ partitions' = partitions
          /\ partitions \in Nat /\ partitions >= partitions
          /\ start[p] \in {"create", "read", "grow"}
          /\ UNCHANGED <<batch, author, recipient, seeded>>
      BY <2>1, <2>3, <2>4 DEF StartTypes
    <3> QED
      BY <1>5, <3>1
  <2> QED
    BY <2>2, <2>3
<1>8. ASSUME NEW p \in Starts!Processes, Starts!CreatePartitions(p) PROVE StartInv'
  <2>1. p \in Servers /\ start[p] = "grow"
    BY <1>8 DEF Starts!CreatePartitions, StartTypes
  <2>2. CASE AskedPartitions(p) > partitions
    BY <1>5, <1>8, <2>1, <2>2 DEF Starts!CreatePartitions, StartTypes, AskedPartitions
  <2>3. CASE ~(AskedPartitions(p) > partitions)
    BY <1>5, <1>8, <2>1, <2>3 DEF Starts!CreatePartitions, StartTypes, AskedPartitions
  <2> QED
    BY <2>2, <2>3
<1>9. ASSUME NEW p \in Starts!Processes, Starts!Check(p) PROVE StartInv'
  BY <1>1, <1>9 DEF Starts!Check, StartTypes, RecipientsAreRight
<1>10. ASSUME NEW p \in Starts!Processes, Starts!Seed(p) PROVE StartInv'
  <2>1. CASE seeded > 0
    BY <1>1, <1>10, <2>1 DEF Starts!Seed, StartTypes
  <2>2. CASE seeded = 0
    <3>0. /\ start[p] = "seed" /\ recipient' = [recipient EXCEPT ![Demo] = "publisher"]
          /\ seeded' = 1 /\ start' = [start EXCEPT ![p] = "done"]
          /\ UNCHANGED <<batch, author, partitions>>
      BY <1>10, <2>2 DEF Starts!Seed
    <3>1. StartTypes'
      BY <3>0 DEF StartTypes, Starts!Participants
    <3>2. RecipientsAreRight'
      BY <3>0 DEF StartTypes, RecipientsAreRight, HasOther
    <3>3. PartitionsSuffice' /\ SeededOnce'
      BY <3>0 DEF StartTypes, PartitionsSuffice, SeededOnce, Starts!Processes, AskedPartitions
    <3> QED
      BY <3>1, <3>2, <3>3
  <2> QED
    BY <2>1, <2>2 DEF StartTypes
<1>11. ASSUME NEW p \in Starts!Processes, Starts!Dies(p) PROVE StartInv'
  BY <1>1, <1>11 DEF Starts!Dies, StartTypes
<1>12. CASE UNCHANGED startVars
  BY <1>12 DEF startVars, StartTypes, RecipientsAreRight, HasOther, PartitionsSuffice,
     SeededOnce,
               AskedPartitions
<1> QED
  BY <1>2, <1>3, <1>4, <1>6, <1>7, <1>8, <1>9, <1>10, <1>11, <1>12 DEF Starts!Next

(* However many processes start, die and overtake each other: one that has *)
(* migrated finds the recipient of every message, one that consumes finds  *)
(* its partitions, and the demonstration rows are there once.              *)
THEOREM Readiness == ComponentsSpec => []StartedIsReady
<1>1. ComponentsInit => StartInv
  BY StartStart
<1>2. StartInv /\ [ComponentsNext]_componentVars => StartInv'
  BY StartSteps, StartStep
<1>3. StartInv => StartedIsReady
  BY DEF StartInv, StartTypes, RecipientsAreRight, HasOther, PartitionsSuffice, SeededOnce,
         AskedPartitions, StartedIsReady, Starts!StartedIsReady
<1> QED
  BY <1>1, <1>2, <1>3, PTL DEF ComponentsSpec

-----------------------------------------------------------------------------
(* Samples of the queue.                                                   *)

LEMMA LagSteps ==
  ASSUME [ComponentsNext]_componentVars PROVE [Lag!Next]_lagVars
  BY DEF ComponentsNext, componentVars, lagVars

LEMMA LagFacts ==
  /\ IsFiniteSet(Partitions) /\ Partitions \subseteq Nat
  /\ IsFiniteSet(Workers) /\ Cardinality(Workers) \in Nat
<1>1. IsFiniteSet(Partitions) /\ IsFiniteSet(Workers)
  BY LagAssumption DEF Lag!LagAssumption, IsFiniteSet, Lag!IsFiniteSet
<1> QED
  BY <1>1, LagAssumption, FS_CardinalityType DEF Lag!LagAssumption

(* The library's operators under the name of the instance.                 *)
LEMMA LagSums ==
  ASSUME NEW f, NEW S PROVE Lag!SumFunctionOnSet(f, S) = SumFunctionOnSet(f, S)
  BY DEF SumFunctionOnSet, Lag!SumFunctionOnSet, FoldFunctionOnSet, Lag!FoldFunctionOnSet,
         MapThenFoldSet, Lag!MapThenFoldSet

LEMMA LagSizes == ASSUME NEW S PROVE Lag!Cardinality(S) = Cardinality(S)
  BY DEF Cardinality, Lag!Cardinality

(* The calls of a round by their numbers.                                  *)
LEMMA Rounds ==
  ASSUME at \in 1..5
  PROVE  /\ Lag!Calling("begin") <=> at = 1
         /\ Lag!Calling("offsets") <=> at = 2
         /\ Lag!Calling("ends") <=> at = 3
         /\ Lag!Calling("records") <=> at = 4
         /\ Lag!Calling("evaluate") <=> at = 5
         /\ Lag!Stages[at] \in {"offsets", "ends", "records"} => at \in 2..4
         /\ Lag!Sampling <=> at # 1
         /\ Lag!Proceed("evaluate") => at' = 5
         /\ Lag!Proceed("begin") => at' = 1
<1>1. /\ Lag!Calling("begin") <=> at = 1
      /\ Lag!Calling("offsets") <=> at = 2
      /\ Lag!Calling("ends") <=> at = 3
      /\ Lag!Calling("records") <=> at = 4
      /\ Lag!Calling("evaluate") <=> at = 5
      /\ Lag!Stages[at] \in {"offsets", "ends", "records"} => at \in 2..4
  BY DEF Lag!Calling, Lag!Stages
<1>2. DOMAIN Lag!Stages = 1..5
  BY DEF Lag!Stages
<1>3. \A i \in 1..5 : (Lag!Stages[i] = "evaluate" <=> i = 5) /\ (Lag!Stages[i] = "begin" <=> i = 1)
  BY DEF Lag!Stages
<1>4. Lag!Proceed("evaluate") => at' = 5
  BY <1>2, <1>3 DEF Lag!Proceed
<1>5. Lag!Proceed("begin") => at' = 1
  BY <1>2, <1>3 DEF Lag!Proceed
<1> QED
  BY <1>1, <1>4, <1>5 DEF Lag!Sampling

(* Records between f and e that a group at c has not committed, and when   *)
(* there are none up to n.                                                 *)
Open(f, e, c) == {o \in f..e - 1 : o >= c}
Past(f, n, c) == n <= f \/ n <= c
Total(F, E, C) ==
  SumFunctionOnSet([p \in Partitions |-> Cardinality(Open(F[p], E[p], C[p]))], Partitions)

LEMMA OpenSize ==
  ASSUME NEW f \in Nat, NEW e \in Nat, NEW c \in Int
  PROVE  /\ Cardinality(Open(f, e, c)) \in Nat
         /\ Cardinality(Open(f, e, c)) = 0 => Past(f, e, c)
         /\ \A l \in Int : l <= e /\ (l <= f \/ l <= c) => Cardinality(Open(f, e, c)) <= e - l
<1>1. IsFiniteSet(f..e - 1)
  BY FS_Interval
<1>2. IsFiniteSet(Open(f, e, c))
  BY <1>1, FS_Subset DEF Open
<1>3. Cardinality(Open(f, e, c)) \in Nat
  BY <1>2, FS_CardinalityType
<1>4. ASSUME Cardinality(Open(f, e, c)) = 0 PROVE Past(f, e, c)
  <2>1. Open(f, e, c) = {}
    BY <1>2, <1>4, FS_EmptySet
  <2>2. e - 1 \notin Open(f, e, c)
    BY <2>1
  <2> QED
    BY <2>2 DEF Open, Past
<1>5. ASSUME NEW l \in Int, l <= e, l <= f \/ l <= c PROVE Cardinality(Open(f, e, c)) <= e - l
  <2>1. Open(f, e, c) \in SUBSET (l..e - 1)
    BY <1>5 DEF Open
  <2>2. IsFiniteSet(l..e - 1)
    BY FS_Interval
  <2>3. Cardinality(l..e - 1) = e - l
    <3>1. Cardinality(l..e - 1) = IF l > e - 1 THEN 0 ELSE (e - 1) - l + 1
      BY FS_Interval
    <3> QED
      BY <1>5, <3>1
  <2> QED
    BY <2>1, <2>2, <2>3, FS_Subset
<1> QED
  BY <1>3, <1>4, <1>5

LEMMA TotalSize ==
  ASSUME NEW F \in [Partitions -> Nat], NEW E \in [Partitions -> Nat],
         NEW C \in [Partitions -> Int]
  PROVE  /\ Total(F, E, C) \in Nat
         /\ ~(Total(F, E, C) > 0) => \A p \in Partitions : Past(F[p], E[p], C[p])
<1> DEFINE f == [p \in Partitions |-> Cardinality(Open(F[p], E[p], C[p]))]
<1>1. \A p \in Partitions : F[p] \in Nat /\ E[p] \in Nat /\ C[p] \in Int
  OBVIOUS
<1>2. \A p \in Partitions : Cardinality(Open(F[p], E[p], C[p])) \in Nat
  BY <1>1, OpenSize
<1>3. f \in [Partitions -> Nat]
  BY <1>2
<1>4. \A p \in Partitions : f[p] = Cardinality(Open(F[p], E[p], C[p]))
  OBVIOUS
<1>5. Total(F, E, C) = SumFunctionOnSet(f, Partitions)
  BY DEF Total
<1> HIDE DEF f
<1>0. IsFiniteSet(Partitions) /\ Partitions \subseteq Partitions
  BY LagFacts
<1>8. SumFunctionOnSet(f, Partitions) \in Nat
  BY <1>0, <1>3, SumType
<1>6. Total(F, E, C) \in Nat
  BY <1>5, <1>8
<1>7. ASSUME ~(Total(F, E, C) > 0), NEW p \in Partitions PROVE Past(F[p], E[p], C[p])
  <2>4. SumFunctionOnSet(f, Partitions) = f[p] + SumFunctionOnSet(f, Partitions \ {p})
    BY <1>0, <1>3, SumRemove
  <2>1. Total(F, E, C) = f[p] + SumFunctionOnSet(f, Partitions \ {p})
    BY <1>5, <2>4
  <2>2. SumFunctionOnSet(f, Partitions \ {p}) \in Nat
    <3>1. IsFiniteSet(Partitions \ {p})
      BY LagFacts, FS_Subset
    <3> QED
      BY <1>3, <3>1, SumType
  <2>3. f[p] = 0
    BY <1>3, <1>6, <1>7, <2>1, <2>2
  <2> QED
    BY <1>1, <1>4, <2>3, OpenSize
<1> QED
  BY <1>6, <1>7

LEMMA BacklogIsTotal ==
  /\ Lag!Backlog = Total(first, end, committed)
  /\ Lag!Backlog' = Total(first', end', committed')
<1>1. \A p \in Partitions : Lag!Uncommitted(p) = Open(first[p], end[p], committed[p])
  BY DEF Lag!Uncommitted, Open
<1>2. Lag!Backlog = Total(first, end, committed)
  BY <1>1, LagSums, LagSizes DEF Lag!Backlog, Total
<1>3. \A p \in Partitions : Lag!Uncommitted(p)' = Open(first'[p], end'[p], committed'[p])
  BY DEF Lag!Uncommitted, Open
<1>4. Lag!Backlog' = SumFunctionOnSet([p \in Partitions |-> Cardinality(Lag!Uncommitted(p)')], Partitions)
  <2>1. Lag!Backlog' = Lag!SumFunctionOnSet([p \in Partitions |-> Lag!Cardinality(Lag!Uncommitted(p)')], Partitions)
    BY DEF Lag!Backlog
  <2> QED
    BY <2>1, LagSums, LagSizes
<1>5. Lag!Backlog' = Total(first', end', committed')
  BY <1>3, <1>4 DEF Total
<1> QED
  BY <1>2, <1>5

-----------------------------------------------------------------------------
(* The rounds of samples.                                                  *)

(* Where the lag of a partition begins, and the lag.                       *)
From(p) == IF position[p] < 0 THEN low[p] ELSE position[p]
Lags == [p \in Partitions |-> high[p] - From(p)]

TopicTypes ==
  /\ first \in [Partitions -> Nat] /\ end \in [Partitions -> Nat]
  /\ old \in [Partitions -> Nat] /\ committed \in [Partitions -> Int]
  /\ \A p \in Partitions : first[p] <= end[p] /\ old[p] <= end[p] /\ committed[p] <= end[p]

AnswerTypes ==
  /\ position \in [Partitions -> Int] /\ observed \in [Partitions -> Int]
  /\ low \in [Partitions -> Int] /\ high \in [Partitions -> Int]

RoundTypes ==
  /\ at \in 1..5 /\ todo \subseteq Partitions /\ backlog \in Nat
  /\ snapshot \in [state : {"unavailable", "not_integrated", "ok"}, lag : Nat,
                   overdue : BOOLEAN]
  /\ waited \in BOOLEAN /\ overdue \in BOOLEAN /\ excuse \in BOOLEAN
  /\ at # 1 => raised = {}

LagTypes == TopicTypes /\ AnswerTypes /\ RoundTypes

WorkersAreCounted == running \subseteq Workers /\ activeConsumers = Cardinality(running)

(* What the histories say of the answers, call by call: a sample that goes *)
(* wrong, finds a record or finds an overdue one has an excuse, something  *)
(* that waited or something that was overdue.                              *)
AtOffsets ==
  /\ snapshot = Lag!NoSample /\ todo = Partitions
  /\ \A p \in Partitions :
       /\ waited \/ Past(first[p], end[p], committed[p])
       /\ overdue \/ Past(first[p], observed[p], committed[p])
       /\ excuse \/ committed[p] < 0 \/ first[p] <= committed[p]

AtEnds ==
  /\ snapshot = Lag!NoSample /\ todo = Partitions
  /\ \A p \in Partitions :
       /\ position[p] <= committed[p]
       /\ waited \/ Past(first[p], end[p], position[p])
       /\ overdue \/ Past(first[p], observed[p], position[p])
       /\ excuse \/ position[p] < 0 \/ first[p] <= position[p]

FoundIsReal ==
  /\ snapshot.lag > 0 => waited
  /\ snapshot.overdue => overdue

AtRecords ==
  /\ \A p \in Partitions :
       /\ 0 <= low[p] /\ low[p] <= high[p] /\ position[p] <= high[p] /\ low[p] <= first[p]
       /\ waited \/ Past(low[p], high[p], position[p])
       /\ overdue \/ Past(first[p], observed[p], position[p])
       /\ excuse \/ (low[p] = first[p] /\ (position[p] < 0 \/ first[p] <= position[p]))
  /\ backlog <= snapshot.lag + SumFunctionOnSet(Lags, todo)
  /\ FoundIsReal

AtEvaluate ==
  /\ snapshot.state = "ok" => snapshot.lag >= backlog
  /\ snapshot.state = "unavailable" => excuse
  /\ FoundIsReal

LagInv ==
  /\ LagTypes /\ WorkersAreCounted
  /\ at = 1 => snapshot = Lag!NoSample
  /\ at = 2 => AtOffsets
  /\ at = 3 => AtEnds
  /\ at = 4 => AtRecords
  /\ at = 5 => AtEvaluate

LEMMA LagStart == ASSUME Lag!Init PROVE LagInv
<1>1. /\ Lag!Unknown \in [Partitions -> Int]
      /\ [p \in Partitions |-> 0] \in [Partitions -> Nat]
      /\ Lag!NoSample \in [state : {"unavailable", "not_integrated", "ok"}, lag : Nat,
                           overdue : BOOLEAN]
  BY DEF Lag!Unknown, Lag!NoSample
<1>4. /\ first = [p \in Partitions |-> 0] /\ end = first /\ old = first
      /\ committed = Lag!Unknown /\ position = Lag!Unknown /\ low = Lag!Unknown
      /\ high = Lag!Unknown /\ observed = Lag!Unknown /\ snapshot = Lag!NoSample
  BY DEF Lag!Init
<1>5. \A p \in Partitions : first[p] = 0 /\ end[p] = 0 /\ old[p] = 0 /\ committed[p] = -1
  BY <1>4 DEF Lag!Unknown
<1>6. TopicTypes
  <2>1. /\ first \in [Partitions -> Nat] /\ end \in [Partitions -> Nat]
        /\ old \in [Partitions -> Nat] /\ committed \in [Partitions -> Int]
    BY <1>1, <1>4, Zenon
  <2> QED
    BY <1>5, <2>1 DEF TopicTypes
<1>7. AnswerTypes
  BY <1>1, <1>4, Zenon DEF AnswerTypes
<1>8. RoundTypes
  <2>1. snapshot \in [state : {"unavailable", "not_integrated", "ok"}, lag : Nat,
                     overdue : BOOLEAN]
    BY <1>1, <1>4, Zenon
  <2>2. /\ at = 1 /\ todo = {} /\ backlog = 0
        /\ waited = FALSE /\ overdue = FALSE /\ excuse = FALSE
    BY DEF Lag!Init
  <2>3. at \in 1..5 /\ backlog \in Nat
    BY <2>2
  <2>4. todo \subseteq Partitions
    BY <2>2, Zenon
  <2>5. waited \in BOOLEAN /\ overdue \in BOOLEAN /\ excuse \in BOOLEAN
    BY <2>2, Zenon
  <2> QED
    BY <2>1, <2>2, <2>3, <2>4, <2>5, Zenon DEF RoundTypes
<1>2. LagTypes
  BY <1>6, <1>7, <1>8 DEF LagTypes
<1>3. WorkersAreCounted
  BY FS_EmptySet DEF Lag!Init, WorkersAreCounted
<1> QED
  BY <1>2, <1>3 DEF Lag!Init, LagInv

(* Records come, grow old, are committed and expire.                       *)
TopicMoves ==
  /\ TopicTypes'
  /\ \A p \in Partitions :
       /\ first[p] <= first'[p] /\ committed[p] <= committed'[p]
       /\ end'[p] = end[p]
            \/ (first'[p] = first[p] /\ committed'[p] = committed[p] /\ end[p] < end'[p])
       /\ committed'[p] = committed[p] \/ first'[p] <= committed'[p]
  /\ at # 1 /\ ~excuse' => ~excuse /\ first' = first
  /\ excuse' \in BOOLEAN
  /\ Lag!Happened

LEMMA TopicKeeps == ASSUME LagInv, TopicMoves PROVE LagInv'
<1> USE DEF LagInv, LagTypes
<1>1. /\ UNCHANGED <<running, activeConsumers, at, observed, position, low, high, todo, snapshot,
                     raised, backlog>>
      /\ at # 1 => waited' = (waited \/ Lag!Backlog' > 0)
      /\ at # 1 => overdue' = (overdue \/ Lag!SomeOverdue')
  BY Rounds DEF TopicMoves, Lag!Happened, Lag!fleet, Lag!answers, RoundTypes
<1>2. AnswerTypes'
  BY <1>1 DEF AnswerTypes
<1>3. RoundTypes'
  <2>1. waited' \in BOOLEAN /\ overdue' \in BOOLEAN
    BY DEF TopicMoves, Lag!Happened
  <2> QED
    BY <1>1, <2>1 DEF RoundTypes, TopicMoves
<1>4. at # 1 => (waited => waited') /\ (overdue => overdue') /\ (excuse => excuse')
  BY <1>1 DEF TopicMoves, RoundTypes
<1>5. ASSUME at # 1, ~waited', NEW p \in Partitions
      PROVE  Past(first'[p], end'[p], committed'[p]) /\ ~waited
  <2>1. ~(Total(first', end', committed') > 0) /\ ~waited
    BY <1>1, <1>5, BacklogIsTotal
  <2> QED
    BY <2>1, TotalSize DEF TopicMoves, TopicTypes
<1>6. \A p \in Partitions :
        /\ first[p] \in Nat /\ end[p] \in Nat /\ committed[p] \in Int
        /\ first'[p] \in Nat /\ end'[p] \in Nat /\ committed'[p] \in Int
        /\ observed[p] \in Int /\ position[p] \in Int /\ low[p] \in Int /\ high[p] \in Int
        /\ committed[p] <= end[p] /\ first[p] <= end[p]
  BY DEF TopicMoves, TopicTypes, AnswerTypes
<1>7. CASE at = 2
  <2>1. \A p \in Partitions :
       /\ waited' \/ Past(first'[p], end'[p], committed'[p])
       /\ overdue' \/ Past(first'[p], observed[p], committed'[p])
       /\ excuse' \/ committed'[p] < 0 \/ first'[p] <= committed'[p]
    BY <1>4, <1>5, <1>6, <1>7 DEF AtOffsets, TopicMoves, Past
  <2>2. AtOffsets'
    BY <1>1, <1>7, <2>1, Zenon DEF AtOffsets, Past, Lag!NoSample
  <2> QED
    BY <1>1, <1>2, <1>3, <1>7, <2>2 DEF WorkersAreCounted, TopicMoves
<1>8. CASE at = 3
  <2>1. ASSUME NEW p \in Partitions
        PROVE  /\ position[p] <= committed'[p]
               /\ waited' \/ Past(first'[p], end'[p], position[p])
               /\ overdue' \/ Past(first'[p], observed[p], position[p])
               /\ excuse' \/ position[p] < 0 \/ first'[p] <= position[p]
    <3>1. position[p] <= committed'[p]
      BY <1>6, <1>8 DEF AtEnds, TopicMoves
    <3>2. waited' \/ Past(first'[p], end'[p], position[p])
      BY <1>4, <1>5, <1>6, <1>8 DEF AtEnds, TopicMoves, Past
    <3>3. overdue' \/ Past(first'[p], observed[p], position[p])
      BY <1>4, <1>6, <1>8 DEF AtEnds, TopicMoves, Past
    <3>4. excuse' \/ position[p] < 0 \/ first'[p] <= position[p]
      BY <1>4, <1>6, <1>8 DEF AtEnds, TopicMoves, Past
    <3> QED
      BY <3>1, <3>2, <3>3, <3>4
  <2>2. AtEnds'
    BY <1>1, <1>8, <2>1, Zenon DEF AtEnds, Past, Lag!NoSample
  <2> QED
    BY <1>1, <1>2, <1>3, <1>8, <2>2 DEF WorkersAreCounted, TopicMoves
<1>9. CASE at = 4
  <2>0. FoundIsReal'
    BY <1>1, <1>4, <1>9 DEF AtRecords, FoundIsReal
  <2>1. ASSUME NEW p \in Partitions
        PROVE  /\ 0 <= low[p] /\ low[p] <= high[p] /\ position[p] <= high[p] /\ low[p] <= first'[p]
               /\ waited' \/ Past(low[p], high[p], position[p])
               /\ overdue' \/ Past(first'[p], observed[p], position[p])
               /\ excuse' \/ (low[p] = first'[p] /\ (position[p] < 0 \/ first'[p] <= position[p]))
    <3>1. 0 <= low[p] /\ low[p] <= high[p] /\ position[p] <= high[p] /\ low[p] <= first'[p]
      BY <1>6, <1>9 DEF AtRecords, TopicMoves
    <3>2. waited' \/ Past(low[p], high[p], position[p])
      BY <1>4, <1>9 DEF AtRecords
    <3>3. overdue' \/ Past(first'[p], observed[p], position[p])
      BY <1>4, <1>6, <1>9 DEF AtRecords, TopicMoves, Past
    <3>4. excuse' \/ (low[p] = first'[p] /\ (position[p] < 0 \/ first'[p] <= position[p]))
      BY <1>4, <1>6, <1>9 DEF AtRecords, TopicMoves
    <3> QED
      BY <3>1, <3>2, <3>3, <3>4
  <2>3. Lags' = Lags
    BY <1>1 DEF Lags, From
  <2>4. backlog' <= snapshot'.lag + SumFunctionOnSet(Lags', todo')
    BY <1>1, <1>9, <2>3 DEF AtRecords
  <2>2. AtRecords'
    BY <1>1, <2>0, <2>1, <2>4, Zenon DEF AtRecords, Past
  <2> QED
    BY <1>1, <1>2, <1>3, <1>9, <2>2 DEF WorkersAreCounted, TopicMoves
<1>10. CASE at = 5
  <2>1. AtEvaluate'
    BY <1>1, <1>4, <1>10 DEF AtEvaluate, FoundIsReal
  <2> QED
    BY <1>1, <1>2, <1>3, <1>10, <2>1 DEF WorkersAreCounted, TopicMoves
<1>11. CASE at = 1
  BY <1>1, <1>2, <1>3, <1>11 DEF WorkersAreCounted, TopicMoves, Lag!NoSample
<1> QED
  BY <1>7, <1>8, <1>9, <1>10, <1>11 DEF RoundTypes

LEMMA FirstUncommitted ==
  ASSUME TopicTypes, NEW p \in Partitions, Lag!Uncommitted(p) # {}
  PROVE  Lag!Min(Lag!Uncommitted(p)) \in Lag!Uncommitted(p)
<1>1. first[p] \in Nat /\ end[p] \in Nat /\ committed[p] \in Int
  BY DEF TopicTypes
<1>2. PICK x : x \in Lag!Uncommitted(p)
  OBVIOUS
<1> DEFINE m == IF committed[p] > first[p] THEN committed[p] ELSE first[p]
<1>3. m \in Lag!Uncommitted(p) /\ \A y \in Lag!Uncommitted(p) : m <= y
  BY <1>1, <1>2 DEF Lag!Uncommitted
<1> HIDE DEF m
<1> QED
  BY <1>3 DEF Lag!Min

LEMMA TopicSteps ==
  ASSUME LagInv, NEW p \in Partitions,
         Lag!Produce(p) \/ Lag!Age(p) \/ Lag!Commit(p) \/ Lag!Expire(p)
  PROVE  LagInv'
<1>0. \A q \in Partitions :
        /\ first[q] \in Nat /\ end[q] \in Nat /\ old[q] \in Nat /\ committed[q] \in Int
        /\ first[q] <= end[q] /\ old[q] <= end[q] /\ committed[q] <= end[q]
  BY DEF LagInv, LagTypes, TopicTypes
<1>t. TopicTypes /\ excuse \in BOOLEAN /\ at \in 1..5
  BY DEF LagInv, LagTypes, RoundTypes
<1>1. ASSUME Lag!Produce(p) PROVE TopicMoves
  <2>1. /\ end' = [end EXCEPT ![p] = @ + 1] /\ UNCHANGED <<first, old, committed, excuse>>
        /\ Lag!Happened
    BY <1>1 DEF Lag!Produce
  <2>2. TopicTypes'
    BY <1>0, <1>t, <2>1 DEF TopicTypes
  <2> QED
    BY <1>0, <1>t, <2>1, <2>2 DEF TopicMoves, TopicTypes
<1>2. ASSUME Lag!Age(p) PROVE TopicMoves
  <2>1. /\ old' = [old EXCEPT ![p] = @ + 1] /\ UNCHANGED <<first, end, committed, excuse>>
        /\ Lag!Happened /\ old[p] < end[p]
    BY <1>2 DEF Lag!Age
  <2>2. TopicTypes'
    BY <1>0, <1>t, <2>1 DEF TopicTypes
  <2> QED
    BY <1>0, <1>t, <2>1, <2>2 DEF TopicMoves
<1>3. ASSUME Lag!Commit(p) PROVE TopicMoves
  <2>1. PICK c \in Lag!Uncommitted(p) : committed' = [committed EXCEPT ![p] = c + 1]
    BY <1>3, <1>t, FirstUncommitted DEF Lag!Commit
  <2>2. UNCHANGED <<first, end, old, excuse>> /\ Lag!Happened
    BY <1>3 DEF Lag!Commit
  <2>3. c \in Nat /\ first[p] <= c /\ c < end[p] /\ committed[p] <= c
    BY <1>0, <2>1 DEF Lag!Uncommitted
  <2>4. TopicTypes'
    BY <1>0, <1>t, <2>1, <2>2, <2>3 DEF TopicTypes
  <2> QED
    BY <1>0, <1>t, <2>1, <2>2, <2>3, <2>4 DEF TopicMoves, TopicTypes
<1>4. ASSUME Lag!Expire(p) PROVE TopicMoves
  <2>1. /\ first' = [first EXCEPT ![p] = @ + 1] /\ UNCHANGED <<end, old, committed>>
        /\ Lag!Happened /\ first[p] < old[p]
    BY <1>4 DEF Lag!Expire
  <2>2. TopicTypes'
    BY <1>0, <1>t, <2>1 DEF TopicTypes
  <2>3. excuse' \in BOOLEAN /\ (at # 1 => excuse')
    BY <1>4, <1>t, Rounds DEF Lag!Expire
  <2> QED
    BY <1>0, <1>t, <2>1, <2>2, <2>3 DEF TopicMoves, TopicTypes
<1> QED
  BY <1>1, <1>2, <1>3, <1>4, TopicKeeps

LEMMA WorkerSteps ==
  ASSUME LagInv, NEW w \in Workers, Lag!WorkerStarts(w) \/ Lag!WorkerStops(w)
  PROVE  LagInv'
<1>1. UNCHANGED <<first, end, old, committed, at, observed, position, low, high, todo, snapshot,
                  raised, backlog, waited, overdue, excuse>>
  BY DEF Lag!WorkerStarts, Lag!WorkerStops, Lag!topic, Lag!answers, Lag!history
<1>2. IsFiniteSet(running) /\ running \subseteq Workers /\ activeConsumers = Cardinality(running)
  BY LagFacts, FS_Subset DEF LagInv, WorkersAreCounted
<1>3. WorkersAreCounted'
  <2>1. CASE Lag!WorkerStarts(w)
    BY <1>2, <2>1, FS_AddElement DEF Lag!WorkerStarts, WorkersAreCounted
  <2>2. CASE Lag!WorkerStops(w)
    <3>1. /\ Cardinality(running \ {w}) = Cardinality(running) - 1
          /\ Cardinality(running) \in Nat /\ Cardinality(running \ {w}) \in Nat
      BY <1>2, <2>2, FS_RemoveElement, FS_CardinalityType DEF Lag!WorkerStops
    <3> QED
      BY <1>2, <2>2, <3>1 DEF Lag!WorkerStops, WorkersAreCounted
  <2> QED
    BY <2>1, <2>2
<1>4. LagTypes'
  BY <1>1 DEF LagInv, LagTypes, TopicTypes, AnswerTypes, RoundTypes
<1>5. Lags' = Lags
  BY <1>1 DEF Lags, From
<1>6. /\ (at = 2 => AtOffsets') /\ (at = 3 => AtEnds') /\ (at = 5 => AtEvaluate')
      /\ (at = 1 => snapshot' = Lag!NoSample)
  BY <1>1 DEF LagInv, AtOffsets, AtEnds, AtEvaluate, FoundIsReal, Past, Lag!NoSample
<1>7. at = 4 => AtRecords'
  BY <1>1, <1>5 DEF LagInv, AtRecords, FoundIsReal, Past
<1> QED
  BY <1>1, <1>3, <1>4, <1>6, <1>7 DEF LagInv, Lag!NoSample

(* The sample ends.                                                        *)
LEMMA Ends ==
  ASSUME LagInv, at # 1, NEW state \in {"unavailable", "not_integrated", "ok"}, Lag!Conclude(state),
         UNCHANGED <<first, end, old, committed, running, activeConsumers>>,
         excuse' \in {excuse, TRUE},
         FoundIsReal,
         state = "ok" => snapshot.lag >= backlog,
         state = "unavailable" => excuse'
  PROVE  LagInv'
<1>0. TopicTypes /\ AnswerTypes /\ RoundTypes /\ at \in 1..5
  BY DEF LagInv, LagTypes, RoundTypes
<1>1. /\ snapshot' = [snapshot EXCEPT !.state = state] /\ at' = 5
      /\ todo' = {} /\ observed' = Lag!Unknown /\ position' = Lag!Unknown
      /\ low' = Lag!Unknown /\ high' = Lag!Unknown
      /\ UNCHANGED <<backlog, waited, overdue, raised>>
  BY <1>0, Rounds DEF Lag!Conclude, Lag!Forget
<1>2. /\ snapshot'.state = state /\ snapshot'.lag = snapshot.lag
      /\ snapshot'.overdue = snapshot.overdue
      /\ snapshot' \in [state : {"unavailable", "not_integrated", "ok"}, lag : Nat,
                        overdue : BOOLEAN]
  BY <1>0, <1>1 DEF RoundTypes
<1>3. TopicTypes'
  BY <1>0 DEF TopicTypes
<1>4. AnswerTypes'
  <2>1. Lag!Unknown \in [Partitions -> Int]
    BY DEF Lag!Unknown
  <2> QED
    BY <1>1, <2>1, Zenon DEF AnswerTypes
<1>5. RoundTypes'
  <2>1. todo' \subseteq Partitions
    BY <1>1, Zenon
  <2>2. at' \in 1..5
    BY <1>1
  <2>3. excuse' \in BOOLEAN
    BY <1>0, Zenon DEF RoundTypes
  <2> QED
    BY <1>0, <1>1, <1>2, <2>1, <2>2, <2>3, Zenon DEF RoundTypes
<1>6. AtEvaluate'
  BY <1>1, <1>2 DEF AtEvaluate, FoundIsReal
<1>7. WorkersAreCounted'
  BY DEF LagInv, WorkersAreCounted
<1> QED
  BY <1>1, <1>3, <1>4, <1>5, <1>6, <1>7 DEF LagInv, LagTypes

LEMMA BeginStep == ASSUME LagInv, Lag!Begin PROVE LagInv'
<1>0. TopicTypes /\ AnswerTypes /\ RoundTypes /\ at = 1 /\ snapshot = Lag!NoSample /\ at \in 1..5
  BY Rounds DEF LagInv, LagTypes, RoundTypes, Lag!Begin
<1>1. /\ at' = 2 /\ observed' = old /\ todo' = Partitions /\ raised' = {}
      /\ waited' = (Lag!Backlog > 0) /\ overdue' = Lag!SomeOverdue /\ excuse' = Lag!Expired
      /\ UNCHANGED <<first, end, old, committed, running, activeConsumers, position, low, high,
                     snapshot, backlog>>
  BY <1>0 DEF Lag!Begin, Lag!topic, Lag!fleet
<1>2. \A p \in Partitions :
        /\ first[p] \in Nat /\ end[p] \in Nat /\ old[p] \in Nat /\ committed[p] \in Int
        /\ old[p] <= end[p]
  BY <1>0 DEF TopicTypes
<1>3. ASSUME NEW p \in Partitions
      PROVE  /\ waited' \/ Past(first[p], end[p], committed[p])
             /\ overdue' \/ Past(first[p], old[p], committed[p])
             /\ excuse' \/ committed[p] < 0 \/ first[p] <= committed[p]
  <2>1. waited' \/ Past(first[p], end[p], committed[p])
    BY <1>0, <1>1, BacklogIsTotal, TotalSize DEF TopicTypes
  <2>2. ASSUME ~Past(first[p], old[p], committed[p]) PROVE Lag!SomeOverdue
    <3>1. old[p] - 1 \in Lag!Uncommitted(p) /\ old[p] - 1 < old[p]
      BY <1>2, <2>2 DEF Past, Lag!Uncommitted
    <3> QED
      BY <3>1 DEF Lag!SomeOverdue
  <2>3. ASSUME ~(committed[p] < 0), ~(first[p] <= committed[p]) PROVE Lag!Expired
    <3>1. committed[p] \in 0..first[p] - 1
      BY <1>2, <2>3
    <3> QED
      BY <3>1 DEF Lag!Expired
  <2> QED
    BY <1>1, <2>1, <2>2, <2>3
<1>4. AtOffsets'
  BY <1>0, <1>1, <1>3, Zenon DEF AtOffsets, Past, Lag!NoSample
<1>5. AnswerTypes'
  <2>1. old \in [Partitions -> Int]
    BY <1>0 DEF TopicTypes
  <2> QED
    BY <1>0, <1>1, <2>1, Zenon DEF AnswerTypes
<1>6. TopicTypes' /\ WorkersAreCounted'
  BY <1>0, <1>1 DEF LagInv, TopicTypes, WorkersAreCounted
<1>7. RoundTypes'
  <2>1. waited' \in BOOLEAN /\ overdue' \in BOOLEAN /\ excuse' \in BOOLEAN
    BY <1>1 DEF Lag!SomeOverdue, Lag!Expired
  <2> QED
    BY <1>0, <1>1, <2>1 DEF RoundTypes
<1> QED
  BY <1>1, <1>4, <1>5, <1>6, <1>7 DEF LagInv, LagTypes

LEMMA NothingFound == ASSUME snapshot = Lag!NoSample PROVE FoundIsReal
  BY DEF FoundIsReal, Lag!NoSample

LEMMA CallFailsStep == ASSUME LagInv, Lag!CallFails PROVE LagInv'
<1>1. at \in 2..4 /\ FoundIsReal
  BY Rounds, NothingFound DEF LagInv, LagTypes, RoundTypes, Lag!CallFails, AtOffsets,
     AtEnds, AtRecords
<1> QED
  BY <1>1, Ends DEF Lag!CallFails, Lag!topic, Lag!fleet

LEMMA ReadOffsetsStep == ASSUME LagInv, Lag!ReadOffsets PROVE LagInv'
<1>0. TopicTypes /\ AnswerTypes /\ RoundTypes /\ at = 2 /\ AtOffsets /\ at \in 1..5
  BY Rounds DEF LagInv, LagTypes, RoundTypes, Lag!ReadOffsets
<1>1. UNCHANGED <<first, end, old, committed, running, activeConsumers, excuse>>
  BY DEF Lag!ReadOffsets, Lag!topic, Lag!fleet
<1>2. CASE committed = Lag!Unknown
  BY <1>0, <1>1, <1>2, NothingFound, Ends DEF Lag!ReadOffsets, AtOffsets
<1>3. CASE committed # Lag!Unknown
  <2>1. /\ position' = committed /\ at' = 3
        /\ UNCHANGED <<observed, low, high, todo, backlog, waited, overdue, snapshot, raised>>
    BY <1>0, <1>3 DEF Lag!ReadOffsets
  <2>2. \A p \in Partitions : committed[p] <= committed[p]
    BY <1>0 DEF TopicTypes
  <2>3. AtEnds'
    <3>1. \A p \in Partitions :
       /\ position'[p] <= committed'[p]
       /\ waited' \/ Past(first'[p], end'[p], position'[p])
       /\ overdue' \/ Past(first'[p], observed'[p], position'[p])
       /\ excuse' \/ position'[p] < 0 \/ first'[p] <= position'[p]
      BY <1>0, <1>1, <2>1, <2>2, Zenon DEF AtOffsets
    <3> QED
      BY <1>0, <2>1, <3>1, Zenon DEF AtOffsets, AtEnds, Past, Lag!NoSample
  <2>4. AnswerTypes'
    BY <1>0, <2>1, Zenon DEF AnswerTypes, TopicTypes
  <2>5. TopicTypes' /\ WorkersAreCounted' /\ RoundTypes'
    BY <1>0, <1>1, <2>1 DEF LagInv, TopicTypes, WorkersAreCounted, RoundTypes
  <2> QED
    BY <2>1, <2>3, <2>4, <2>5 DEF LagInv, LagTypes
<1> QED
  BY <1>2, <1>3

LEMMA LagsSuffice ==
  ASSUME NEW F \in [Partitions -> Nat], NEW E \in [Partitions -> Nat],
         NEW C \in [Partitions -> Int], NEW Q \in [Partitions -> Int],
         \A p \in Partitions : F[p] <= E[p] /\ C[p] <= E[p] /\ Q[p] <= C[p]
  PROVE  Total(F, E, C)
           <= SumFunctionOnSet([p \in Partitions |-> E[p] - (IF Q[p] < 0 THEN F[p] ELSE Q[p])],
                               Partitions)
<1> DEFINE f == [p \in Partitions |-> Cardinality(Open(F[p], E[p], C[p]))]
           g == [p \in Partitions |-> E[p] - (IF Q[p] < 0 THEN F[p] ELSE Q[p])]
<1>1. \A p \in Partitions : F[p] \in Nat /\ E[p] \in Nat /\ C[p] \in Int /\ Q[p] \in Int
  OBVIOUS
<1>2. \A p \in Partitions :
        /\ Cardinality(Open(F[p], E[p], C[p])) \in Nat
        /\ E[p] - (IF Q[p] < 0 THEN F[p] ELSE Q[p]) \in Nat
        /\ Cardinality(Open(F[p], E[p], C[p])) <= E[p] - (IF Q[p] < 0 THEN F[p] ELSE Q[p])
  <2> TAKE p \in Partitions
  <2> DEFINE l == IF Q[p] < 0 THEN F[p] ELSE Q[p]
  <2>1. l \in Int /\ l <= E[p] /\ (l <= F[p] \/ l <= C[p]) /\ E[p] - l \in Nat
    BY <1>1
  <2> HIDE DEF l
  <2>2. /\ Cardinality(Open(F[p], E[p], C[p])) \in Nat
        /\ Cardinality(Open(F[p], E[p], C[p])) <= E[p] - l
    BY <1>1, <2>1, OpenSize
  <2> USE DEF l
  <2> QED
    BY <2>1, <2>2
<1>3. f \in [Partitions -> Nat] /\ g \in [Partitions -> Nat] /\ \A p \in Partitions : f[p] <= g[p]
  BY <1>2
<1>4. IsFiniteSet(Partitions) /\ Partitions \subseteq Partitions
  BY LagFacts
<1>5. Total(F, E, C) = SumFunctionOnSet(f, Partitions)
  BY DEF Total
<1> HIDE DEF f, g
<1>6. SumFunctionOnSet(f, Partitions) <= SumFunctionOnSet(g, Partitions)
  BY <1>3, <1>4, SumMonotone
<1> QED
  BY <1>5, <1>6 DEF g

LEMMA ReadEndsStep == ASSUME LagInv, Lag!ReadEnds PROVE LagInv'
<1>0. TopicTypes /\ AnswerTypes /\ RoundTypes /\ at = 3 /\ AtEnds /\ at \in 1..5
  BY Rounds DEF LagInv, LagTypes, RoundTypes, Lag!ReadEnds
<1>1. /\ at' = 4 /\ low' = first /\ high' = end /\ backlog' = Total(first, end, committed)
      /\ UNCHANGED <<first, end, old, committed, running, activeConsumers, observed, position, todo,
                     snapshot, raised, waited, overdue, excuse>>
  BY <1>0, BacklogIsTotal DEF Lag!ReadEnds, Lag!topic, Lag!fleet
<1>2. \A p \in Partitions :
        /\ first[p] \in Nat /\ end[p] \in Nat /\ committed[p] \in Int /\ position[p] \in Int
        /\ first[p] <= end[p] /\ committed[p] <= end[p] /\ position[p] <= committed[p]
  BY <1>0 DEF TopicTypes, AnswerTypes, AtEnds
<1>3. \A p \in Partitions :
       /\ 0 <= first[p] /\ first[p] <= end[p] /\ position[p] <= end[p] /\ first[p] <= first[p]
       /\ waited \/ Past(first[p], end[p], position[p])
       /\ overdue \/ Past(first[p], observed[p], position[p])
       /\ excuse \/ (first[p] = first[p] /\ (position[p] < 0 \/ first[p] <= position[p]))
  BY <1>0, <1>2 DEF AtEnds
<1>4. backlog' <= snapshot'.lag + SumFunctionOnSet(Lags', todo')
  <2>1. Lags' = [p \in Partitions |-> end[p] - (IF position[p] < 0 THEN first[p] ELSE position[p])]
    BY <1>1 DEF Lags, From
  <2>2. Total(first, end, committed) <= SumFunctionOnSet(Lags', Partitions)
    BY <1>0, <1>2, <2>1, LagsSuffice DEF TopicTypes, AnswerTypes
  <2>3. Lags' \in [Partitions -> Nat]
    <3>1. \A p \in Partitions : end[p] - (IF position[p] < 0 THEN first[p] ELSE position[p]) \in Nat
      BY <1>2
    <3> QED
      BY <2>1, <3>1
  <2>4. IsFiniteSet(Partitions) /\ Partitions \subseteq Partitions
    BY LagFacts
  <2>5. PICK n \in Nat : n = SumFunctionOnSet(Lags', Partitions)
    BY <2>3, <2>4, SumType
  <2>6. 0 + n = n
    OBVIOUS
  <2>7. snapshot'.lag = 0 /\ todo' = Partitions
    BY <1>0, <1>1 DEF AtEnds, Lag!NoSample
  <2> QED
    BY <1>1, <2>2, <2>5, <2>6, <2>7, Zenon
<1>5. FoundIsReal'
  BY <1>0, <1>1 DEF AtEnds, FoundIsReal, Lag!NoSample
<1>6. AtRecords'
  BY <1>1, <1>3, <1>4, <1>5, Zenon DEF AtRecords, Past
<1>7. AnswerTypes'
  <2>1. first \in [Partitions -> Int] /\ end \in [Partitions -> Int]
    BY <1>0 DEF TopicTypes
  <2> QED
    BY <1>0, <1>1, <2>1, Zenon DEF AnswerTypes
<1>8. RoundTypes'
  <2>1. backlog' \in Nat
    BY <1>0, <1>1, TotalSize DEF TopicTypes
  <2>2. at' \in 1..5
    BY <1>1
  <2> QED
    BY <1>0, <1>1, <2>1, <2>2 DEF RoundTypes
<1>9. TopicTypes' /\ WorkersAreCounted'
  BY <1>0, <1>1 DEF LagInv, TopicTypes, WorkersAreCounted
<1> QED
  BY <1>1, <1>6, <1>7, <1>8, <1>9 DEF LagInv, LagTypes

LEMMA LagsType ==
  ASSUME AnswerTypes, AtRecords
  PROVE  Lags \in [Partitions -> Nat] /\ \A p \in Partitions : Lags[p] = high[p] - From(p)
<1>1. \A p \in Partitions : high[p] - From(p) \in Nat
  BY DEF AtRecords, AnswerTypes, From
<1> QED
  BY <1>1 DEF Lags

LEMMA LookStep == ASSUME LagInv, NEW p \in todo, Lag!Look(p) PROVE LagInv'
<1>0. TopicTypes /\ AnswerTypes /\ RoundTypes /\ at = 4 /\ AtRecords /\ at \in 1..5 /\ p \in Partitions
  BY Rounds DEF LagInv, LagTypes, RoundTypes, Lag!Look
<1>1. /\ at' = at /\ todo' = todo \ {p}
      /\ UNCHANGED <<first, end, old, committed, running, activeConsumers, observed, position, low,
                     high, raised, backlog, waited, overdue, excuse>>
  BY DEF Lag!Look, Lag!topic, Lag!fleet, Lag!answers, Lag!history
<1>2. From(p) \in low[p]..high[p]
  BY DEF Lag!Look, From
<1>3. /\ first[p] \in Nat /\ position[p] \in Int /\ low[p] \in Int /\ high[p] \in Int
      /\ observed[p] \in Int /\ snapshot.lag \in Nat
      /\ snapshot \in [state : {"unavailable", "not_integrated", "ok"}, lag : Nat,
                       overdue : BOOLEAN]
  BY <1>0 DEF TopicTypes, AnswerTypes, RoundTypes
<1>4. /\ snapshot'.lag = snapshot.lag + (high[p] - From(p))
      /\ snapshot' \in [state : {"unavailable", "not_integrated", "ok"}, lag : Nat,
                        overdue : BOOLEAN]
      /\ FoundIsReal'
  <2>1. CASE high[p] - From(p) = 0 /\ UNCHANGED snapshot
    <3>1. snapshot.lag = snapshot.lag + 0
      BY <1>3
    <3> QED
      BY <1>0, <1>1, <1>3, <2>1, <3>1 DEF AtRecords, FoundIsReal
  <2>2. ASSUME high[p] - From(p) > 0,
               NEW base \in first[p]..From(p),
               snapshot' = [snapshot EXCEPT
                 !.lag = @ + (high[p] - From(p)),
                 !.overdue = @ \/ Lag!FirstRecord(base, From(p)) < observed[p]]
        PROVE  /\ snapshot'.lag = snapshot.lag + (high[p] - From(p))
               /\ snapshot' \in [state : {"unavailable", "not_integrated", "ok"}, lag : Nat,
                                 overdue : BOOLEAN]
               /\ FoundIsReal'
    <3>1. From(p) \in Int /\ high[p] - From(p) \in Nat
      BY <1>2, <1>3, <2>2
    <3>2. /\ snapshot'.lag = snapshot.lag + (high[p] - From(p))
          /\ snapshot'.overdue = (snapshot.overdue \/ Lag!FirstRecord(base, From(p)) < observed[p])
          /\ snapshot' \in [state : {"unavailable", "not_integrated", "ok"}, lag : Nat,
                            overdue : BOOLEAN]
      <4> DEFINE older == Lag!FirstRecord(base, From(p)) < observed[p]
                 all == snapshot.overdue \/ older
                 more == snapshot.lag + (high[p] - From(p))
      <4>1. all \in BOOLEAN
        OBVIOUS
      <4>2. more \in Nat
        BY <1>3, <3>1
      <4>3. snapshot' = [snapshot EXCEPT !.lag = more, !.overdue = all]
        BY <2>2
      <4> HIDE DEF more, all
      <4>4. /\ snapshot'.lag = more /\ snapshot'.overdue = all
            /\ snapshot' \in [state : {"unavailable", "not_integrated", "ok"}, lag : Nat,
                              overdue : BOOLEAN]
        BY <1>3, <4>1, <4>2, <4>3
      <4> USE DEF more, all
      <4> QED
        BY <4>4
    <3>3. waited
      BY <1>0, <1>2, <1>3, <2>2 DEF AtRecords, Past, From
    <3>4. Lag!FirstRecord(base, From(p)) = From(p) /\ first[p] <= From(p)
      BY <1>3, <2>2, <3>1 DEF Lag!FirstRecord
    <3>5. From(p) < observed[p] => overdue
      BY <1>0, <1>2, <1>3, <3>4 DEF AtRecords, Past, From
    <3>6. FoundIsReal'
      BY <1>0, <1>1, <3>2, <3>3, <3>4, <3>5 DEF AtRecords, FoundIsReal
    <3> QED
      BY <3>2, <3>6
  <2> QED
    BY <2>1, <2>2 DEF Lag!Look, From
<1>5. backlog' <= snapshot'.lag + SumFunctionOnSet(Lags', todo')
  <2>1. Lags \in [Partitions -> Nat] /\ Lags[p] = high[p] - From(p)
    BY <1>0, LagsType
  <2>2. IsFiniteSet(todo) /\ todo \subseteq Partitions
    BY <1>0, LagFacts, FS_Subset DEF RoundTypes
  <2>3. SumFunctionOnSet(Lags, todo) = Lags[p] + SumFunctionOnSet(Lags, todo \ {p})
    BY <2>1, <2>2, SumRemove
  <2>4. IsFiniteSet(todo \ {p}) /\ todo \ {p} \subseteq Partitions
    BY <2>2, FS_Subset
  <2>5. PICK n \in Nat, m \in Nat, l \in Nat, b \in Nat :
          /\ n = SumFunctionOnSet(Lags, todo \ {p}) /\ m = Lags[p] /\ l = snapshot.lag /\ b = backlog
    <3>1. SumFunctionOnSet(Lags, todo \ {p}) \in Nat
      BY <2>1, <2>4, SumType
    <3>2. Lags[p] \in Nat /\ backlog \in Nat
      BY <1>0, <2>1 DEF RoundTypes
    <3> QED
      BY <1>3, <3>1, <3>2
  <2>6. b <= l + (m + n)
    BY <1>0, <2>3, <2>5, Zenon DEF AtRecords
  <2>7. b <= (l + m) + n
    BY <2>6
  <2>8. Lags' = Lags
    BY <1>1 DEF Lags, From
  <2> QED
    BY <1>1, <1>4, <2>1, <2>5, <2>7, <2>8, Zenon
<1>6. AtRecords'
  BY <1>0, <1>1, <1>4, <1>5, Zenon DEF AtRecords, Past
<1>7. AnswerTypes' /\ TopicTypes' /\ WorkersAreCounted'
  BY <1>0, <1>1 DEF LagInv, TopicTypes, AnswerTypes, WorkersAreCounted
<1>8. RoundTypes'
  BY <1>0, <1>1, <1>4 DEF RoundTypes
<1> QED
  BY <1>0, <1>1, <1>6, <1>7, <1>8 DEF LagInv, LagTypes

LEMMA OutOfRangeStep == ASSUME LagInv, NEW p \in todo, Lag!OutOfRange(p) PROVE LagInv'
<1>0. TopicTypes /\ AnswerTypes /\ RoundTypes /\ at = 4 /\ AtRecords /\ at \in 1..5 /\ p \in Partitions
  BY Rounds DEF LagInv, LagTypes, RoundTypes, Lag!OutOfRange
<1>1. /\ first[p] \in Nat /\ position[p] \in Int /\ low[p] \in Int /\ high[p] \in Int
  BY <1>0 DEF TopicTypes, AnswerTypes
<1>2. From(p) \notin low[p]..high[p] \/ From(p) < first[p]
  BY DEF Lag!OutOfRange, From
<1>3. excuse
  BY <1>0, <1>1, <1>2 DEF AtRecords, From
<1> QED
  BY <1>0, <1>3, Ends DEF Lag!OutOfRange, AtRecords, Lag!topic, Lag!fleet

LEMMA LookedStep == ASSUME LagInv, Lag!Looked PROVE LagInv'
<1>0. TopicTypes /\ AnswerTypes /\ RoundTypes /\ at = 4 /\ AtRecords /\ at \in 1..5 /\ todo = {}
  BY Rounds DEF LagInv, LagTypes, RoundTypes, Lag!Looked
<1>1. snapshot.lag >= backlog
  <2>1. SumFunctionOnSet(Lags, todo) = 0
    BY <1>0, SumOfNone
  <2>2. snapshot.lag \in Nat /\ backlog \in Nat
    BY <1>0 DEF RoundTypes
  <2> QED
    BY <1>0, <2>1, <2>2 DEF AtRecords
<1> QED
  BY <1>0, <1>1, Ends DEF Lag!Looked, AtRecords, Lag!topic, Lag!fleet

LEMMA EvaluateStep == ASSUME LagInv, Lag!Evaluate PROVE LagInv'
<1>0. TopicTypes /\ AnswerTypes /\ RoundTypes /\ at = 5 /\ at \in 1..5
  BY Rounds DEF LagInv, LagTypes, RoundTypes, Lag!Evaluate
<1>1. /\ at' = 1 /\ snapshot' = Lag!NoSample /\ backlog' = 0 /\ todo' = {}
      /\ waited' = FALSE /\ overdue' = FALSE /\ excuse' = FALSE
      /\ observed' = Lag!Unknown /\ position' = Lag!Unknown /\ low' = Lag!Unknown
      /\ high' = Lag!Unknown
      /\ UNCHANGED <<first, end, old, committed, running, activeConsumers>>
  BY <1>0, Rounds DEF Lag!Evaluate, Lag!Forget, Lag!topic, Lag!fleet
<1>2. AnswerTypes'
  <2>1. Lag!Unknown \in [Partitions -> Int]
    BY DEF Lag!Unknown
  <2> QED
    BY <1>1, <2>1, Zenon DEF AnswerTypes
<1>3. RoundTypes'
  <2>1. Lag!NoSample \in [state : {"unavailable", "not_integrated", "ok"}, lag : Nat,
                          overdue : BOOLEAN]
    BY DEF Lag!NoSample
  <2>2. at' \in 1..5 /\ backlog' \in Nat
    BY <1>1
  <2>3. todo' \subseteq Partitions
    BY <1>1, Zenon
  <2>4. waited' \in BOOLEAN /\ overdue' \in BOOLEAN /\ excuse' \in BOOLEAN
    BY <1>1, Zenon
  <2> QED
    BY <1>1, <2>1, <2>2, <2>3, <2>4, Zenon DEF RoundTypes
<1>4. TopicTypes' /\ WorkersAreCounted'
  BY <1>0, <1>1 DEF LagInv, TopicTypes, WorkersAreCounted
<1> QED
  BY <1>1, <1>2, <1>3, <1>4 DEF LagInv, LagTypes, Lag!NoSample

LEMMA LagStep == ASSUME LagInv, [Lag!Next]_lagVars PROVE LagInv'
<1>1. CASE UNCHANGED lagVars
  <2>1. Lags' = Lags
    BY <1>1 DEF lagVars, Lags, From
  <2>2. LagTypes' /\ WorkersAreCounted'
    BY <1>1 DEF lagVars, LagInv, LagTypes, TopicTypes, AnswerTypes, RoundTypes,
       WorkersAreCounted
  <2>3. /\ (at = 2 => AtOffsets') /\ (at = 3 => AtEnds') /\ (at = 5 => AtEvaluate')
        /\ (at = 1 => snapshot' = Lag!NoSample)
    BY <1>1 DEF lagVars, LagInv, AtOffsets, AtEnds, AtEvaluate, FoundIsReal, Past, Lag!NoSample
  <2>4. at = 4 => AtRecords'
    BY <1>1, <2>1 DEF lagVars, LagInv, AtRecords, FoundIsReal, Past
  <2> QED
    BY <1>1, <2>2, <2>3, <2>4 DEF lagVars, LagInv, Lag!NoSample
<1> QED
  BY <1>1, TopicSteps, WorkerSteps, BeginStep, CallFailsStep, ReadOffsetsStep, ReadEndsStep,
     LookStep, OutOfRangeStep, LookedStep, EvaluateStep
     DEF Lag!Next, Lag!Round

(* The lag of a complete sample is never less than what was uncommitted    *)
(* when the ends of the log were read, and a sample is given up only if a  *)
(* call failed or records expired.                                         *)
THEOREM Samples == ComponentsSpec => []SamplesAreSound
<1>1. ComponentsInit => LagInv
  BY LagStart DEF ComponentsInit
<1>2. LagInv /\ [ComponentsNext]_componentVars => LagInv'
  BY LagSteps, LagStep
<1>3. LagInv => SamplesAreSound
  BY Rounds DEF LagInv, LagTypes, RoundTypes, AtEvaluate, SamplesAreSound, Lag!SamplesAreSound
<1> QED
  BY <1>1, <1>2, <1>3, PTL DEF ComponentsSpec

(* An alarm is about something that was so: an overdue record that was not *)
(* committed, a record that waited while no worker runs, a failed call or  *)
(* expired records.                                                        *)
THEOREM Alarms == ComponentsSpec => AlarmsAreReal
<1>1. ComponentsInit => LagInv
  BY LagStart DEF ComponentsInit
<1>2. LagInv /\ [ComponentsNext]_componentVars => LagInv'
  BY LagSteps, LagStep
<1>3. LagInv /\ [ComponentsNext]_componentVars 
        => [Lag!Calling("evaluate") =>
              /\ "order_queue_deadline" \in raised' => overdue
              /\ "order_consumer_stopped" \in raised' => waited /\ running = {}
              /\ "kafka_sample_unavailable" \in raised' => excuse]_Lag!vars
  <2> SUFFICES ASSUME LagInv, Lag!Next, Lag!Calling("evaluate")
               PROVE  /\ "order_queue_deadline" \in raised' => overdue
                      /\ "order_consumer_stopped" \in raised' => waited /\ running = {}
                      /\ "kafka_sample_unavailable" \in raised' => excuse
    BY LagSteps DEF lagVars, Lag!vars, Lag!topic, Lag!fleet, Lag!answers, Lag!history
  <2>0. at = 5 /\ raised = {} /\ AtEvaluate /\ at \in 1..5
    BY Rounds DEF LagInv, LagTypes, RoundTypes
  <2>1. CASE raised' = raised
    BY <2>0, <2>1
  <2>2. CASE Lag!Evaluate
    <3>1. activeConsumers = 0 => running = {}
      BY LagFacts, FS_Subset, FS_EmptySet DEF LagInv, WorkersAreCounted
    <3>2. raised' = Lag!conditions(snapshot, activeConsumers)
      BY <2>2 DEF Lag!Evaluate
    <3>3. "order_queue_deadline" \in raised' =>
            snapshot.state = "ok" /\ snapshot.lag > 0 /\ snapshot.overdue
      BY <3>2 DEF Lag!conditions
    <3>4. "order_consumer_stopped" \in raised' =>
            snapshot.state = "ok" /\ snapshot.lag > 0 /\ activeConsumers = 0
      BY <3>2 DEF Lag!conditions
    <3>5. "kafka_sample_unavailable" \in raised' => snapshot.state = "unavailable"
      BY <3>2 DEF Lag!conditions
    <3> QED
      BY <2>0, <3>1, <3>3, <3>4, <3>5, Zenon DEF AtEvaluate, FoundIsReal
  <2>3. CASE \E p \in Partitions :
               Lag!Produce(p) \/ Lag!Age(p) \/ Lag!Commit(p) \/ Lag!Expire(p)
    BY <2>1, <2>3 DEF Lag!Produce, Lag!Age, Lag!Commit, Lag!Expire, Lag!Happened
  <2>4. CASE \E w \in Workers : Lag!WorkerStarts(w) \/ Lag!WorkerStops(w)
    BY <2>1, <2>4 DEF Lag!WorkerStarts, Lag!WorkerStops
  <2>5. /\ ~Lag!Calling("begin") /\ ~Lag!Calling("offsets") /\ ~Lag!Calling("ends")
        /\ ~Lag!Calling("records") /\ Lag!Stages[at] \notin {"offsets", "ends", "records"}
    BY <2>0, Rounds
  <2>6. ~Lag!Begin /\ ~Lag!CallFails /\ ~Lag!ReadOffsets /\ ~Lag!ReadEnds /\ ~Lag!Looked
    BY <2>5, Zenon DEF Lag!Begin, Lag!CallFails, Lag!ReadOffsets, Lag!ReadEnds, Lag!Looked
  <2>7. \A p \in todo : ~Lag!Look(p) /\ ~Lag!OutOfRange(p)
    BY <2>5, Zenon DEF Lag!Look, Lag!OutOfRange
  <2> QED
    BY <2>2, <2>3, <2>4, <2>6, <2>7 DEF Lag!Next, Lag!Round
<1> QED
  BY <1>1, <1>2, <1>3, PTL DEF ComponentsSpec, AlarmsAreReal, Lag!AlarmsAreReal

-----------------------------------------------------------------------------
(* The report of a load test.                                              *)

LEMMA LoadSteps ==
  ASSUME [ComponentsNext]_componentVars PROVE [Load!Next]_loadVars
  BY DEF ComponentsNext, componentVars, loadVars

LEMMA LoadSizes == ASSUME NEW S PROVE Load!Cardinality(S) = Cardinality(S)
  BY DEF Cardinality, Load!Cardinality

LEMMA LoadFacts ==
  /\ Orders \in Nat \ {0} /\ Payments \in Nat /\ None \notin Nat
  /\ Load!Submissions = 1..Orders /\ Load!Settlements = Orders + 1..Orders + Payments
  /\ Load!Launches = 0..Orders + Payments
  /\ IsFiniteSet(1..Orders) /\ Cardinality(1..Orders) = Orders
  /\ IsFiniteSet(0..Orders) /\ Cardinality(0..Orders) = Orders + 1
<1>1. /\ Orders \in Nat \ {0} /\ Payments \in Nat /\ None \notin Nat
  BY LoadAssumption DEF Load!LoadAssumption
<1> QED
  BY <1>1, FS_Interval DEF Load!Submissions, Load!Settlements, Load!Launches

Outcomes == {"new", "running", "accepted", "refused", "lost"}
Fates == {"none", "published", "created", "rejected"}
Having(f, fate) == {c \in 1..Orders : f[c] = fate}
SizeOf(f, fate) == Cardinality(Having(f, fate))
Sent(f) == {c \in 0..Orders : f[c] # "none"}

(* The run has succeeded so far, once its input has ended and once it has  *)
(* drained.                                                                *)
Drained == step \in {"after", "lookup", "pay", "done"} \/ (step = "stop" /\ ~failing)
InputOver == step \in {"sampling", "counts", "drained"} \/ Drained

CallTypes ==
  /\ submission \in [0..Orders + Payments -> Outcomes]
  /\ order \in [0..Orders -> Fates]
  /\ counted \subseteq 0..Orders
  /\ settled \subseteq {c \in 0..Orders : order[c] \in {"created", "rejected"}}

(* What was answered was counted, the warm-up first; and no submission is  *)
(* under way when the input has ended.                                     *)
CallsAreCounted ==
  /\ step = "counter" => counted = {} /\ \A c \in 0..Orders + Payments : submission[c] = "new"
  /\ \A c \in 0..Orders : submission[c] = "accepted" => c \in counted
  /\ step \notin {"counter", "prime", "priming", "failed"} => submission[0] = "accepted"
  /\ InputOver => \A c \in 1..Orders : submission[c] \notin {"new", "running"}

(* Terminal orders do not change, so that the counts are never too high.   *)
ReportGrows ==
  /\ step \notin {"counter", "failed"} => before = 0
  /\ created \in Nat /\ rejected \in Nat
  /\ created <= SizeOf(order, "created")
  /\ rejected <= SizeOf(order, "rejected")
  /\ Drained => created + rejected >= SizeOf(submission, "accepted")
  /\ step \in {"lookup", "pay", "done"} =>
       after \in Nat /\ after >= SizeOf(submission, "accepted") + 1 /\ after <= Orders + 1

(* A lag is a number, and the peak is the largest one so far.              *)
PeakIsHighest ==
  /\ sampler \in [Load!Samplers -> [at : {"idle", "committed", "read"}, n : Nat]]
  /\ \A s \in Load!Samplers :
       sampler[s].at = "committed" => sampler[s].n <= Cardinality(Sent(order))
  /\ sampler["main"].at # "idle" => step = "sampling"
  /\ {latest, peak, atEnd} \subseteq Nat \union {None}
  /\ latest # None => peak # None /\ latest <= peak
  /\ atEnd # None => peak # None /\ atEnd <= peak

LoadInv ==
  /\ CallTypes /\ CallsAreCounted /\ ReportGrows /\ PeakIsHighest
  /\ step \in {"counter", "prime", "priming", "empty", "input", "sampling", "counts",
               "drained", "stop", "after", "lookup", "pay", "done", "failed"}

LEMMA Sizes ==
  ASSUME NEW f
  PROVE  /\ \A fate : IsFiniteSet(Having(f, fate)) /\ SizeOf(f, fate) \in 0..Orders
         /\ SizeOf(f, "created") + SizeOf(f, "rejected") <= Orders
         /\ IsFiniteSet(Sent(f)) /\ Cardinality(Sent(f)) \in Nat
<1> USE LoadFacts
<1>1. ASSUME NEW fate PROVE IsFiniteSet(Having(f, fate)) /\ SizeOf(f, fate) \in 0..Orders
  <2>1. Having(f, fate) \in SUBSET (1..Orders)
    BY DEF Having
  <2>2. IsFiniteSet(Having(f, fate)) /\ Cardinality(Having(f, fate)) <= Orders
    BY <2>1, FS_Subset
  <2>3. Cardinality(Having(f, fate)) \in Nat
    BY <2>2, FS_CardinalityType
  <2> QED
    BY <2>2, <2>3 DEF SizeOf
<1>2. SizeOf(f, "created") + SizeOf(f, "rejected") <= Orders
  <2> DEFINE A == Having(f, "created")  B == Having(f, "rejected")
  <2>1. A \intersect B = {}
    BY DEF Having
  <2>2. A \union B \in SUBSET (1..Orders)
    BY DEF Having
  <2>3. IsFiniteSet(A) /\ IsFiniteSet(B) /\ Cardinality(A) \in Nat /\ Cardinality(B) \in Nat
    BY <1>1 DEF SizeOf
  <2> HIDE DEF A, B
  <2>4. Cardinality(A \union B) = Cardinality(A) + Cardinality(B) - Cardinality(A \intersect B)
    BY <2>3, FS_Union
  <2>5. Cardinality(A \intersect B) = 0
    BY <2>1, FS_EmptySet
  <2>6. Cardinality(A \union B) <= Orders
    BY <2>2, FS_Subset
  <2> QED
    BY <2>3, <2>4, <2>5, <2>6 DEF A, B, SizeOf
<1>3. IsFiniteSet(Sent(f)) /\ Cardinality(Sent(f)) \in Nat
  <2>1. Sent(f) \in SUBSET (0..Orders)
    BY DEF Sent
  <2> QED
    BY <2>1, FS_Subset, FS_CardinalityType
<1> QED
  BY <1>1, <1>2, <1>3

LEMMA Grows ==
  ASSUME NEW f, NEW g, NEW fate, \A c \in 1..Orders : f[c] = fate => g[c] = fate
  PROVE  SizeOf(f, fate) <= SizeOf(g, fate)
<1>1. Having(f, fate) \in SUBSET Having(g, fate)
  BY DEF Having
<1> QED
  BY <1>1, Sizes, FS_Subset DEF SizeOf

LEMMA CountedSize ==
  ASSUME NEW S \in SUBSET (0..Orders)
  PROVE  IsFiniteSet(S) /\ Cardinality(S) \in Nat /\ Cardinality(S) <= Orders + 1
  BY LoadFacts, FS_Subset, FS_CardinalityType

LEMMA LoadStart == ASSUME Load!Init PROVE LoadInv
<1> USE LoadFacts
<1>1. CallTypes /\ CallsAreCounted
  BY DEF Load!Init, Load!InitAt, CallTypes, CallsAreCounted, InputOver, Drained, Outcomes, Fates
<1>2. ReportGrows
  BY Sizes DEF Load!Init, Load!InitAt, ReportGrows, Drained
<1>3. PeakIsHighest
  BY DEF Load!Init, Load!InitAt, PeakIsHighest, Load!Samplers, Load!Idle
<1> QED
  BY <1>1, <1>2, <1>3 DEF LoadInv, Load!Init, Load!InitAt

(* What the calls and the server may do: answers and decisions are final,  *)
(* and what is answered is counted.                                        *)
CallsMove ==
  /\ submission' \in [0..Orders + Payments -> Outcomes]
  /\ order' \in [0..Orders -> Fates]
  /\ counted' \subseteq 0..Orders
  /\ settled' \subseteq {c \in 0..Orders : order'[c] \in {"created", "rejected"}}
  /\ \A c \in 0..Orders : submission'[c] = "accepted" => c \in counted'
  /\ submission[0] = "accepted" => submission'[0] = "accepted"
  /\ \A c \in 0..Orders : /\ order[c] # "none" => order'[c] # "none"
                          /\ order[c] = "created" => order'[c] = "created"
                          /\ order[c] = "rejected" => order'[c] = "rejected"
  /\ InputOver => \A c \in 1..Orders : submission'[c] = submission[c]
  /\ step = "counter" => counted' = {} /\ submission' = submission
  /\ UNCHANGED <<step, failing, before, after, created, rejected, latest, peak, atEnd, sampler>>

(* Sent requests stay sent.                                                *)
LEMMA SentGrows ==
  ASSUME \A c \in 0..Orders : order[c] # "none" => order'[c] # "none"
  PROVE  \A n \in Nat : n <= Cardinality(Sent(order)) => n <= Cardinality(Sent(order'))
<1>1. Sent(order) \in SUBSET Sent(order')
  BY DEF Sent
<1>2. IsFiniteSet(Sent(order')) /\ Cardinality(Sent(order')) \in Nat
      /\ Cardinality(Sent(order)) \in Nat
  BY Sizes
<1>3. Cardinality(Sent(order)) <= Cardinality(Sent(order'))
  BY <1>1, <1>2, FS_Subset
<1> QED
  BY <1>2, <1>3

LEMMA CallsKeep == ASSUME LoadInv, CallsMove PROVE LoadInv'
<1>1. CallTypes'
  BY DEF CallsMove, CallTypes
<1>2. InputOver' = InputOver /\ Drained' = Drained /\ step' = step
  BY DEF CallsMove, InputOver, Drained
<1>3. CallsAreCounted'
  <2>1. step' \notin {"counter", "prime", "priming", "failed"} => submission'[0] = "accepted"
    BY DEF CallsMove, LoadInv, CallsAreCounted
  <2>2. InputOver' => \A c \in 1..Orders : submission'[c] \notin {"new", "running"}
    BY <1>2 DEF CallsMove, LoadInv, CallsAreCounted
  <2> QED
    BY <2>1, <2>2 DEF CallsMove, LoadInv, CallsAreCounted
<1>4. ReportGrows'
  <2>1. PICK a \in Nat : a = SizeOf(order, "created")
    BY Sizes
  <2>2. PICK b \in Nat : b = SizeOf(order', "created")
    BY Sizes
  <2>3. PICK c \in Nat : c = SizeOf(order, "rejected")
    BY Sizes
  <2>4. PICK d \in Nat : d = SizeOf(order', "rejected")
    BY Sizes
  <2>5. a <= b /\ c <= d
    <3>1. \A e \in 1..Orders : /\ order[e] = "created" => order'[e] = "created"
                               /\ order[e] = "rejected" => order'[e] = "rejected"
      BY LoadFacts DEF CallsMove
    <3> QED
      BY <2>1, <2>2, <2>3, <2>4, <3>1, Grows
  <2>6. created' = created /\ rejected' = rejected /\ created \in Nat /\ rejected \in Nat
        /\ created <= a /\ rejected <= c
    BY <2>1, <2>3 DEF CallsMove, LoadInv, ReportGrows
  <2>7. created' <= SizeOf(order', "created") /\ rejected' <= SizeOf(order', "rejected")
    <3>1. created' <= b /\ rejected' <= d
      BY <2>5, <2>6
    <3> QED
      BY <2>2, <2>4, <3>1, Zenon
  <2>8. InputOver => SizeOf(submission', "accepted") = SizeOf(submission, "accepted")
    BY DEF CallsMove, SizeOf, Having
  <2>9. step \in {"lookup", "pay", "done"} => InputOver
    BY DEF InputOver, Drained
  <2>10. Drained => InputOver
    BY DEF InputOver
  <2>11. /\ created' = created /\ rejected' = rejected /\ after' = after /\ before' = before
    BY DEF CallsMove
  <2> QED
    BY <1>2, <2>6, <2>7, <2>8, <2>9, <2>10, <2>11, Zenon DEF LoadInv, ReportGrows
<1>5. PeakIsHighest'
  <2>1. \A s \in Load!Samplers :
          sampler[s].at = "committed" => sampler[s].n <= Cardinality(Sent(order'))
    <3> SUFFICES ASSUME NEW s \in Load!Samplers, sampler[s].at = "committed"
                 PROVE  sampler[s].n <= Cardinality(Sent(order'))
      OBVIOUS
    <3>1. sampler[s].n \in Nat /\ sampler[s].n <= Cardinality(Sent(order))
      BY DEF LoadInv, PeakIsHighest
    <3>2. \A c \in 0..Orders : order[c] # "none" => order'[c] # "none"
      BY DEF CallsMove
    <3> QED
      BY <3>1, <3>2, SentGrows
  <2>2. UNCHANGED <<latest, peak, atEnd, sampler, step>>
    BY DEF CallsMove
  <2> QED
    BY <2>1, <2>2 DEF LoadInv, PeakIsHighest
<1> QED
  BY <1>1, <1>2, <1>3, <1>4, <1>5 DEF LoadInv

(* The calls and the server move so.                                       *)
LEMMA PublishStep == ASSUME LoadInv, NEW c \in 0..Orders, Load!Publish(c) PROVE CallsMove
<1> USE LoadFacts DEF LoadInv, CallTypes, CallsAreCounted
<1>1. order[c] = "none" /\ order' = [order EXCEPT ![c] = "published"]
      /\ submission[c] \in {"running", "lost"}
      /\ UNCHANGED <<step, failing, before, after, created, rejected, latest, peak, atEnd, sampler,
                     submission, counted, settled>>
  BY DEF Load!Publish, Load!report, Load!lags
<1>2. order' \in [0..Orders -> Fates]
  BY <1>1 DEF Fates
<1>3. settled' \subseteq {d \in 0..Orders : order'[d] \in {"created", "rejected"}}
  BY <1>1
<1>4. step # "counter"
  BY <1>1
<1> QED
  BY <1>1, <1>2, <1>3, <1>4 DEF CallsMove

LEMMA AcceptStep == ASSUME LoadInv, NEW c \in 0..Orders, Load!Accept(c) PROVE CallsMove
<1> USE LoadFacts DEF LoadInv, CallTypes, CallsAreCounted
<1>1. /\ submission[c] = "running" /\ counted' = counted \union {c}
      /\ submission' = [submission EXCEPT ![c] = "accepted"]
      /\ UNCHANGED <<step, failing, before, after, created, rejected, latest, peak, atEnd, sampler,
                     order, settled>>
  BY DEF Load!Accept, Load!report, Load!lags
<1>2. submission' \in [0..Orders + Payments -> Outcomes]
  BY <1>1 DEF Outcomes
<1>3. \A d \in 0..Orders : submission'[d] = "accepted" => d \in counted'
  BY <1>1
<1>4. InputOver => \A d \in 1..Orders : submission'[d] = submission[d]
  BY <1>1
<1>5. step # "counter" /\ counted' \subseteq 0..Orders
  BY <1>1
<1>6. submission[0] = "accepted" => submission'[0] = "accepted"
  BY <1>1
<1> QED
  BY <1>1, <1>2, <1>3, <1>4, <1>5, <1>6 DEF CallsMove

LEMMA CountLateStep == ASSUME LoadInv, NEW c \in 0..Orders, Load!CountLate(c) PROVE CallsMove
<1> USE LoadFacts DEF LoadInv, CallTypes, CallsAreCounted
<1>1. /\ submission[c] = "lost" /\ counted' = counted \union {c}
      /\ UNCHANGED <<step, failing, before, after, created, rejected, latest, peak, atEnd, sampler,
                     submission, order, settled>>
  BY DEF Load!CountLate, Load!report, Load!lags
<1>2. step # "counter" /\ counted' \subseteq 0..Orders
  BY <1>1
<1> QED
  BY <1>1, <1>2 DEF CallsMove

LEMMA DecideStep == ASSUME LoadInv, NEW c \in 0..Orders, Load!Decide(c) PROVE CallsMove
<1> USE LoadFacts DEF LoadInv, CallTypes, CallsAreCounted
<1>1. PICK fate \in {"created", "rejected"} :
        /\ order[c] = "published" /\ order' = [order EXCEPT ![c] = fate]
        /\ UNCHANGED <<step, failing, before, after, created, rejected, latest, peak, atEnd,
                       sampler, submission, counted, settled>>
  BY DEF Load!Decide, Load!report, Load!lags
<1>2. order' \in [0..Orders -> Fates]
  BY <1>1 DEF Fates
<1>3. settled' \subseteq {d \in 0..Orders : order'[d] \in {"created", "rejected"}}
  BY <1>1
<1> QED
  BY <1>1, <1>2, <1>3 DEF CallsMove

LEMMA CommitStep == ASSUME LoadInv, NEW c \in 0..Orders, Load!Commit(c) PROVE CallsMove
<1> USE LoadFacts DEF LoadInv, CallTypes, CallsAreCounted
<1>1. /\ order[c] \in {"created", "rejected"} /\ settled' = settled \union {c}
      /\ UNCHANGED <<step, failing, before, after, created, rejected, latest, peak, atEnd,
                     sampler, submission, order, counted>>
  BY DEF Load!Commit, Load!report, Load!lags, Load!Decided
<1> QED
  BY <1>1 DEF CallsMove

(* A call ends, or a new one is started.                                   *)
LEMMA OutcomeStep ==
  ASSUME LoadInv, NEW c \in 0..Orders + Payments, NEW outcome_1 \in Outcomes,
         submission' = [submission EXCEPT ![c] = outcome_1],
         outcome_1 = "accepted" => c > Orders,
         submission[c] # "accepted", step # "counter",
         InputOver => c \notin 1..Orders,
         UNCHANGED <<step, failing, before, after, created, rejected, latest, peak, atEnd,
                     sampler, order, counted, settled>>
  PROVE  CallsMove
<1> USE LoadFacts DEF LoadInv, CallTypes, CallsAreCounted
<1>1. submission' \in [0..Orders + Payments -> Outcomes]
  OBVIOUS
<1>2. \A d \in 0..Orders : submission'[d] = "accepted" => d \in counted'
  OBVIOUS
<1>3. InputOver => \A d \in 1..Orders : submission'[d] = submission[d]
  OBVIOUS
<1>4. submission[0] = "accepted" => submission'[0] = "accepted"
  OBVIOUS
<1> QED
  BY <1>1, <1>2, <1>3, <1>4 DEF CallsMove

LEMMA SettleStep == ASSUME LoadInv, NEW c \in Load!Settlements, Load!Settle(c) PROVE CallsMove
<1> USE LoadFacts
<1>1. /\ submission[c] = "running" /\ submission' = [submission EXCEPT ![c] = "accepted"]
      /\ UNCHANGED <<step, failing, before, after, created, rejected, latest, peak, atEnd,
                     sampler, order, counted, settled>>
  BY DEF Load!Settle, Load!report, Load!lags
<1>2. c \in 0..Orders + Payments /\ c > Orders /\ c \notin 1..Orders
  OBVIOUS
<1>3. step # "counter" /\ "accepted" \in Outcomes
  BY <1>1, <1>2 DEF LoadInv, CallsAreCounted, Outcomes
<1> QED
  BY <1>1, <1>2, <1>3, OutcomeStep

LEMMA CallFailsMove == ASSUME LoadInv, NEW c \in Load!Launches, Load!CallFails(c) PROVE CallsMove
<1> USE LoadFacts
<1>1. PICK outcome_1 \in {"refused", "lost"} :
        /\ submission[c] = "running" /\ submission' = [submission EXCEPT ![c] = outcome_1]
        /\ UNCHANGED <<step, failing, before, after, created, rejected, latest, peak, atEnd,
                       sampler, order, counted, settled>>
  BY DEF Load!CallFails, Load!report, Load!lags, Load!server
<1>2. InputOver => c \notin 1..Orders
  BY <1>1 DEF LoadInv, CallsAreCounted
<1>3. step # "counter" /\ outcome_1 \in Outcomes
  BY <1>1 DEF LoadInv, CallsAreCounted, Outcomes
<1> QED
  BY <1>1, <1>2, <1>3, OutcomeStep

LEMMA LaunchStep == ASSUME LoadInv, NEW c \in Load!Launches, Load!Launch(c) PROVE CallsMove
<1> USE LoadFacts
<1>1. /\ submission[c] = "new" /\ submission' = [submission EXCEPT ![c] = "running"]
      /\ c \in Load!Phase
      /\ UNCHANGED <<step, failing, before, after, created, rejected, latest, peak, atEnd,
                     sampler, order, counted, settled>>
  BY DEF Load!Launch, Load!report, Load!lags, Load!server
<1>2. InputOver => c \notin 1..Orders
  BY <1>1 DEF LoadInv, CallsAreCounted
<1>3. step # "counter" /\ "running" \in Outcomes
  BY <1>1 DEF Load!Phase, Outcomes
<1> QED
  BY <1>1, <1>2, <1>3, OutcomeStep

-----------------------------------------------------------------------------
(* The samples of the lag, and the deadlines.                              *)

LEMMA SamplesKeep ==
  ASSUME LoadInv, PeakIsHighest',
         step' = step \/ (step = "sampling" /\ step' = "counts"),
         UNCHANGED <<failing, submission, order, counted, settled, before, after,
                     created, rejected>>
  PROVE  LoadInv'
<1>1. CallTypes'
  BY DEF LoadInv, CallTypes
<1>2. Drained' = Drained /\ InputOver' = InputOver
  BY DEF Drained, InputOver
<1>3. CallsAreCounted'
  BY <1>2 DEF LoadInv, CallsAreCounted
<1>4. ReportGrows'
  BY <1>2, Zenon DEF LoadInv, ReportGrows
<1> QED
  BY <1>1, <1>3, <1>4 DEF LoadInv

LEMMA ReadCommittedStep ==
  ASSUME LoadInv, NEW s \in Load!Samplers, Load!ReadCommitted(s) PROVE LoadInv'
<1>1. /\ s # "loop" => step = "sampling"
      /\ sampler' = [sampler EXCEPT ![s] = [at |-> "committed", n |-> Cardinality(settled)]]
      /\ UNCHANGED <<step, failing, submission, order, counted, settled, before, after, created,
                     rejected, latest, peak, atEnd>>
  BY LoadSizes DEF Load!ReadCommitted, Load!report, Load!server
<1>2. Cardinality(settled) \in Nat /\ Cardinality(settled) <= Cardinality(Sent(order))
  <2>1. settled \in SUBSET Sent(order)
    BY DEF LoadInv, CallTypes, Sent
  <2> QED
    BY <2>1, Sizes, FS_Subset, FS_CardinalityType
<1>3. PeakIsHighest'
  <2> DEFINE sample == [at |-> "committed", n |-> Cardinality(settled)]
  <2>1. sample \in [at : {"idle", "committed", "read"}, n : Nat]
        /\ sample.at = "committed" /\ sample.n <= Cardinality(Sent(order))
    BY <1>2
  <2> HIDE DEF sample
  <2>2. sampler' = [sampler EXCEPT ![s] = sample]
    BY <1>1 DEF sample
  <2>3. sampler' \in [Load!Samplers -> [at : {"idle", "committed", "read"}, n : Nat]]
    BY <2>1, <2>2 DEF LoadInv, PeakIsHighest
  <2>4. \A t \in Load!Samplers :
          sampler'[t].at = "committed" => sampler'[t].n <= Cardinality(Sent(order))
    BY <2>1, <2>2, Zenon DEF LoadInv, PeakIsHighest
  <2>5. sampler'["main"].at # "idle" => step = "sampling"
    BY <1>1, <2>2 DEF LoadInv, PeakIsHighest, Load!Samplers
  <2> QED
    BY <1>1, <2>3, <2>4, <2>5, Zenon DEF LoadInv, PeakIsHighest
<1> QED
  BY <1>1, <1>3, SamplesKeep

LEMMA ReadEndsOfLog ==
  ASSUME LoadInv, NEW s \in Load!Samplers, Load!ReadEnds(s) PROVE LoadInv'
<1>1. /\ sampler[s].at = "committed"
      /\ sampler' = [sampler EXCEPT ![s] =
           [at |-> "read", n |-> Cardinality(Load!Published) - sampler[s].n]]
      /\ UNCHANGED <<step, failing, submission, order, counted, settled, before, after, created,
                     rejected, latest, peak, atEnd>>
  BY LoadSizes DEF Load!ReadEnds, Load!report, Load!server
<1>2. Load!Published = Sent(order)
  BY DEF LoadInv, CallTypes, Sent, Load!Published
<1>3. sampler[s].n \in Nat /\ sampler[s].n <= Cardinality(Sent(order))
  BY <1>1 DEF LoadInv, PeakIsHighest
<1>4. Cardinality(Load!Published) - sampler[s].n \in Nat
  BY <1>2, <1>3, Sizes
<1>5. PeakIsHighest'
  <2> DEFINE sample == [at |-> "read", n |-> Cardinality(Load!Published) - sampler[s].n]
  <2>1. sample \in [at : {"idle", "committed", "read"}, n : Nat] /\ sample.at = "read"
    BY <1>4
  <2> HIDE DEF sample
  <2>2. sampler' = [sampler EXCEPT ![s] = sample]
    BY <1>1 DEF sample
  <2>3. sampler' \in [Load!Samplers -> [at : {"idle", "committed", "read"}, n : Nat]]
    BY <2>1, <2>2 DEF LoadInv, PeakIsHighest
  <2>4. \A t \in Load!Samplers :
          sampler'[t].at = "committed" => sampler'[t].n <= Cardinality(Sent(order))
    <3> SUFFICES ASSUME NEW t \in Load!Samplers, sampler'[t].at = "committed"
                 PROVE  sampler'[t].n <= Cardinality(Sent(order))
      OBVIOUS
    <3>1. sampler'[t] = sampler[t]
      BY <2>1, <2>2 DEF LoadInv, PeakIsHighest
    <3> QED
      BY <3>1 DEF LoadInv, PeakIsHighest
  <2>5. sampler'["main"].at # "idle" => step = "sampling"
    BY <1>1, <2>2 DEF LoadInv, PeakIsHighest, Load!Samplers
  <2> QED
    BY <1>1, <2>3, <2>4, <2>5, Zenon DEF LoadInv, PeakIsHighest
<1> QED
  BY <1>1, <1>5, SamplesKeep

LEMMA StoreLagStep ==
  ASSUME LoadInv, NEW s \in Load!Samplers, NEW sampled \in BOOLEAN,
         Load!StoreLag(s, sampled), s = "main" => step = "sampling",
         UNCHANGED <<failing, submission, order, counted, settled, before, after,
                     created, rejected>>
  PROVE  LoadInv'
<1>1. sampler' = [sampler EXCEPT ![s] = Load!Idle]
  BY DEF Load!StoreLag
<1>2. /\ sampler[s].n \in Nat /\ {latest, peak, atEnd} \subseteq Nat \union {None}
      /\ latest # None => peak # None /\ latest <= peak
      /\ atEnd # None => peak # None /\ atEnd <= peak
  BY DEF LoadInv, PeakIsHighest
<1>3. /\ latest' = (IF sampled THEN sampler[s].n ELSE latest)
      /\ peak' = (IF sampled /\ (peak = None \/ sampler[s].n > peak) THEN sampler[s].n ELSE peak)
      /\ (s = "main" /\ atEnd' = latest' /\ step' = "counts")
           \/ (s # "main" /\ atEnd' = atEnd /\ step' = step)
  BY DEF Load!StoreLag
<1>4. /\ {latest', peak'} \subseteq Nat \union {None}
      /\ latest' # None => peak' # None /\ latest' <= peak'
      /\ peak # None => peak' # None /\ peak <= peak'
  <2> HIDE DEF PeakIsHighest
  <2>1. CASE sampled
    BY <1>2, <1>3, <2>1, LoadFacts
  <2>2. CASE ~sampled
    BY <1>2, <1>3, <2>2, LoadFacts
  <2> QED
    BY <2>1, <2>2
<1>5. /\ atEnd' \in Nat \union {None}
      /\ atEnd' # None => peak' # None /\ atEnd' <= peak'
  BY <1>2, <1>3, <1>4, LoadFacts
<1>6. PeakIsHighest'
  <2>1. Load!Idle \in [at : {"idle", "committed", "read"}, n : Nat] /\ Load!Idle.at = "idle"
    BY DEF Load!Idle
  <2>2. sampler' \in [Load!Samplers -> [at : {"idle", "committed", "read"}, n : Nat]]
    BY <1>1, <2>1 DEF LoadInv, PeakIsHighest
  <2>3. \A t \in Load!Samplers : sampler'[t] = sampler[t] \/ sampler'[t].at = "idle"
    BY <1>1, <2>1 DEF LoadInv, PeakIsHighest
  <2>4. \A t \in Load!Samplers :
          sampler'[t].at = "committed" => sampler'[t].n <= Cardinality(Sent(order))
    BY <2>3 DEF LoadInv, PeakIsHighest
  <2>5. sampler'["main"].at # "idle" => step' = "sampling"
    <3>1. "main" \in Load!Samplers
      BY DEF Load!Samplers
    <3>2. s = "main" => sampler'["main"] = Load!Idle
      BY <1>1 DEF LoadInv, PeakIsHighest
    <3> QED
      BY <1>3, <2>1, <2>3, <3>1, <3>2 DEF LoadInv, PeakIsHighest
  <2>6. {latest', peak', atEnd'} \subseteq Nat \union {None}
    BY <1>4, <1>5
  <2>7. order' = order
    OBVIOUS
  <2> QED
    BY <1>4, <1>5, <2>2, <2>4, <2>5, <2>6, <2>7, Zenon DEF PeakIsHighest
<1> QED
  BY <1>3, <1>6, SamplesKeep

LEMMA SampleSteps ==
  ASSUME LoadInv, NEW s \in Load!Samplers, Load!Sample(s) \/ Load!SampleFails(s) PROVE LoadInv'
<1>0. sampler[s].at # "idle" /\ s = "main" => step = "sampling"
  BY DEF LoadInv, PeakIsHighest
<1>1. CASE Load!SampleEnds(s)
  BY <1>0, <1>1, StoreLagStep DEF Load!SampleEnds, Load!report, Load!server
<1>2. CASE Load!SampleFails(s)
  <2>1. s = "main" => step = "sampling"
    BY <1>0, <1>2 DEF Load!SampleFails
  <2>2. Load!StoreLag(s, FALSE) /\ FALSE \in BOOLEAN
        /\ UNCHANGED <<failing, submission, order, counted, settled, before, after,
                    created, rejected>>
    BY <1>2 DEF Load!SampleFails, Load!report, Load!server
  <2> QED
    BY <2>1, <2>2, StoreLagStep
<1> QED
  BY <1>1, <1>2, ReadCommittedStep, ReadEndsOfLog DEF Load!Sample

-----------------------------------------------------------------------------
(* The run.                                                                *)

LEMMA LoadSame ==
  ASSUME LoadInv,
         UNCHANGED <<step, failing, submission, order, counted, settled, before, after, created,
                     rejected, latest, peak, atEnd, sampler>>
  PROVE  LoadInv'
<1>1. PeakIsHighest'
  BY DEF LoadInv, PeakIsHighest
<1> QED
  BY <1>1, SamplesKeep

Steps == {"counter", "prime", "priming", "empty", "input", "sampling", "counts",
          "drained", "stop", "after", "lookup", "pay", "done", "failed"}

Answers == SizeOf(submission, "accepted")

LEMMA AnswersAreNumbers ==
  /\ Load!Cardinality(Load!Answered(Load!Submissions)) = Answers
  /\ Answers \in Nat
<1>1. Load!Cardinality(Load!Answered(Load!Submissions)) = Answers
  BY LoadFacts, LoadSizes DEF Answers, SizeOf, Having, Load!Answered
<1>2. Answers \in 0..Orders
  BY Sizes DEF Answers
<1> QED
  BY <1>1, <1>2

(* A step of the run that leaves the calls alone.                          *)
LEMMA RunKeeps ==
  ASSUME LoadInv, step # "sampling", step' \in Steps \ {"counter"},
         UNCHANGED <<submission, order, counted, settled, latest, peak, atEnd, sampler>>,
         step' \notin {"prime", "priming", "failed"} => submission[0] = "accepted",
         InputOver' => \A c \in 1..Orders : submission[c] \notin {"new", "running"},
         ReportGrows'
  PROVE  LoadInv'
<1>1. CallTypes'
  BY DEF LoadInv, CallTypes
<1>2. CallsAreCounted'
  BY DEF LoadInv, CallsAreCounted, Steps
<1>3. PeakIsHighest'
  BY DEF LoadInv, PeakIsHighest
<1> QED
  BY <1>1, <1>2, <1>3, Zenon DEF LoadInv, Steps

(* ... and the report, too.                                                *)
LEMMA RunGoesOn ==
  ASSUME LoadInv, step # "sampling", step' \in Steps \ {"counter"},
         step' # "failed" => step \notin {"counter", "failed"},
         UNCHANGED <<submission, order, counted, settled, latest, peak, atEnd, sampler,
                     before, after, created, rejected>>,
         step' \notin {"prime", "priming", "failed"} => submission[0] = "accepted",
         InputOver' => \A c \in 1..Orders : submission[c] \notin {"new", "running"},
         Drained' => Drained \/ created + rejected >= Answers,
         step' \in {"lookup", "pay", "done"} => step \in {"lookup", "pay", "done"}
  PROVE  LoadInv'
<1>1. ReportGrows'
  BY Zenon DEF LoadInv, ReportGrows, Answers
<1> QED
  BY <1>1, RunKeeps

LEMMA ReadBeforeStep == ASSUME LoadInv, Load!ReadBefore PROVE LoadInv'
<1>1. /\ step = "counter" /\ step' = "prime" /\ before' = Cardinality(counted)
      /\ UNCHANGED <<failing, submission, order, counted, settled, latest, peak, atEnd, sampler,
                     after, created, rejected>>
  BY LoadSizes DEF Load!ReadBefore, Load!Go, Load!lags, Load!server
<1>2. before' = 0
  BY <1>1, FS_EmptySet DEF LoadInv, CallsAreCounted
<1>3. ~Drained' /\ ~InputOver' /\ step' \in Steps \ {"counter"}
  BY <1>1 DEF Drained, InputOver, Steps
<1>4. ReportGrows'
  BY <1>1, <1>2, <1>3, Zenon DEF LoadInv, ReportGrows
<1> QED
  BY <1>1, <1>3, <1>4, RunKeeps

LEMMA PrimeStep == ASSUME LoadInv, Load!Prime PROVE LoadInv'
<1> USE LoadFacts
<1>1. /\ step = "prime" /\ step' = "priming"
      /\ submission' = [submission EXCEPT ![0] = "running"]
      /\ UNCHANGED <<failing, order, counted, settled, latest, peak, atEnd, sampler, before, after,
                     created, rejected>>
  BY DEF Load!Prime, Load!Go, Load!report, Load!lags, Load!server
<1>2. CallTypes'
  BY <1>1 DEF LoadInv, CallTypes, Outcomes
<1>3. ~Drained' /\ ~InputOver'
  BY <1>1 DEF Drained, InputOver
<1>4. CallsAreCounted'
  BY <1>1, <1>3 DEF LoadInv, CallTypes, CallsAreCounted
<1>5. ReportGrows'
  BY <1>1, <1>3, Zenon DEF LoadInv, ReportGrows
<1>6. PeakIsHighest'
  BY <1>1 DEF LoadInv, PeakIsHighest
<1> QED
  BY <1>1, <1>2, <1>4, <1>5, <1>6 DEF LoadInv

LEMMA PrimedStep == ASSUME LoadInv, Load!Primed PROVE LoadInv'
<1>1. /\ step = "priming"
      /\ \/ step' = "empty" /\ submission[0] = "accepted"
         \/ step' = "failed"
      /\ UNCHANGED <<failing, submission, order, counted, settled, latest, peak, atEnd, sampler,
                     before, after, created, rejected>>
  BY DEF Load!Primed, Load!Go, Load!report, Load!server
<1>2. ~Drained' /\ ~InputOver' /\ step' \in Steps \ {"counter"}
  BY <1>1 DEF Drained, InputOver, Steps
<1> QED
  BY <1>1, <1>2, RunGoesOn

LEMMA QueueIsEmptyStep == ASSUME LoadInv, Load!QueueIsEmpty PROVE LoadInv'
<1>1. /\ step = "empty" /\ (step' = "input" \/ (step' = "stop" /\ failing'))
      /\ UNCHANGED <<submission, order, counted, settled, latest, peak, atEnd, sampler, before,
                     after, created, rejected>>
  BY DEF Load!QueueIsEmpty, Load!Go, Load!report, Load!lags, Load!server
<1>2. ~Drained' /\ ~InputOver' /\ step' \in Steps \ {"counter"}
  BY <1>1 DEF Drained, InputOver, Steps
<1>3. submission[0] = "accepted"
  BY <1>1 DEF LoadInv, CallsAreCounted
<1> QED
  BY <1>1, <1>2, <1>3, RunGoesOn

LEMMA InputEndsStep == ASSUME LoadInv, Load!InputEnds PROVE LoadInv'
<1>1. /\ step = "input" /\ step' = "sampling"
      /\ \A c \in 1..Orders : submission[c] \notin {"new", "running"}
      /\ UNCHANGED <<submission, order, counted, settled, latest, peak, atEnd, sampler, before,
                     after, created, rejected>>
  BY LoadFacts DEF Load!InputEnds, Load!Go, Load!report, Load!lags, Load!server
<1>2. ~Drained' /\ step' \in Steps \ {"counter"}
  BY <1>1 DEF Drained, Steps
<1>3. submission[0] = "accepted"
  BY <1>1 DEF LoadInv, CallsAreCounted
<1> QED
  BY <1>1, <1>2, <1>3, RunGoesOn

LEMMA ReadCountsStep == ASSUME LoadInv, Load!ReadCounts PROVE LoadInv'
<1>1. /\ step = "counts"
      /\ UNCHANGED <<submission, order, counted, settled, latest, peak, atEnd, sampler, before,
                     after>>
      /\ \/ step' = "stop" /\ failing' /\ UNCHANGED <<created, rejected>>
         \/ /\ step' = "drained"
            /\ created' = SizeOf(order, "created") /\ rejected' = SizeOf(order, "rejected")
  BY LoadSizes, LoadFacts
     DEF Load!ReadCounts, Load!Go, Load!lags, Load!server, Load!CountOf, SizeOf, Having
<1>2. ~Drained' /\ step' \in Steps \ {"counter"} /\ step' \notin {"lookup", "pay", "done"}
  BY <1>1 DEF Drained, Steps
<1>3. submission[0] = "accepted" /\ \A c \in 1..Orders : submission[c] \notin {"new", "running"}
  BY <1>1 DEF LoadInv, CallsAreCounted, InputOver
<1>4. /\ created' \in Nat /\ created' <= SizeOf(order, "created")
      /\ rejected' \in Nat /\ rejected' <= SizeOf(order, "rejected")
  <2>1. PICK a \in Nat : a = SizeOf(order, "created")
    BY Sizes
  <2>2. PICK b \in Nat : b = SizeOf(order, "rejected")
    BY Sizes
  <2>3. CASE UNCHANGED <<created, rejected>>
    BY <2>3 DEF LoadInv, ReportGrows
  <2>4. CASE created' = a /\ rejected' = b
    BY <2>1, <2>2, <2>4
  <2> QED
    BY <1>1, <2>1, <2>2, <2>3, <2>4
<1>5. ReportGrows'
  BY <1>1, <1>2, <1>4, Zenon DEF LoadInv, ReportGrows
<1> QED
  BY <1>1, <1>2, <1>3, <1>5, RunKeeps

LEMMA DrainStep == ASSUME LoadInv, Load!Drain PROVE LoadInv'
<1>1. /\ step = "drained"
      /\ UNCHANGED <<submission, order, counted, settled, latest, peak, atEnd, sampler, before,
                     after, created, rejected>>
      /\ \/ step' = "stop" /\ created + rejected >= Answers
         \/ step' = "stop" /\ failing'
         \/ step' = "counts"
  BY AnswersAreNumbers
     DEF Load!Drain, Load!Go, Load!report, Load!lags, Load!server, Load!HasDrained
<1>2. step' \in Steps \ {"counter"} /\ step' \notin {"lookup", "pay", "done"}
      /\ (Drained' => created + rejected >= Answers)
  BY <1>1 DEF Drained, Steps
<1>3. submission[0] = "accepted" /\ \A c \in 1..Orders : submission[c] \notin {"new", "running"}
  BY <1>1 DEF LoadInv, CallsAreCounted, InputOver
<1> QED
  BY <1>1, <1>2, <1>3, RunGoesOn

(* After the drain the run goes on step by step, or fails.                 *)
LEMMA AfterDrain ==
  ASSUME LoadInv, Drained, step' \in {"after", "pay", "done", "failed"},
         step' \in {"pay", "done"} => step \in {"lookup", "pay"},
         UNCHANGED <<submission, order, counted, settled, latest, peak, atEnd, sampler, before,
                     after, created, rejected>>
  PROVE  LoadInv'
<1>1. step \notin {"sampling", "counter", "prime", "priming", "failed"} /\ InputOver
  BY DEF Drained, InputOver
<1>2. submission[0] = "accepted" /\ \A c \in 1..Orders : submission[c] \notin {"new", "running"}
  BY <1>1 DEF LoadInv, CallsAreCounted
<1>3. step' \in Steps \ {"counter"}
  BY DEF Steps
<1> QED
  BY <1>1, <1>2, <1>3, RunGoesOn

LEMMA WaitForObserverStep == ASSUME LoadInv, Load!WaitForObserver PROVE LoadInv'
<1>1. /\ step = "stop" /\ step' = (IF failing THEN "failed" ELSE "after")
      /\ UNCHANGED <<submission, order, counted, settled, latest, peak, atEnd, sampler, before,
                     after, created, rejected>>
  BY DEF Load!WaitForObserver, Load!Go, Load!report, Load!lags, Load!server
<1>2. CASE failing
  <2>1. step' \in Steps \ {"counter"} /\ ~Drained' /\ ~InputOver'
    BY <1>1, <1>2 DEF Steps, Drained, InputOver
  <2> QED
    BY <1>1, <1>2, <2>1, RunGoesOn
<1>3. CASE ~failing
  BY <1>1, <1>3, AfterDrain DEF Drained
<1> QED
  BY <1>2, <1>3

LEMMA ReadAfterStep == ASSUME LoadInv, Load!ReadAfter PROVE LoadInv'
<1>1. /\ step = "after" /\ after' = Cardinality(counted) /\ step' \in {"failed", "lookup"}
      /\ UNCHANGED <<submission, order, counted, settled, latest, peak, atEnd, sampler, before,
                     created, rejected>>
  BY LoadSizes DEF Load!ReadAfter, Load!Go, Load!lags, Load!server
<1>2. step' \in Steps \ {"counter"} /\ Drained
  BY <1>1 DEF Steps, Drained
<1>3. submission[0] = "accepted" /\ \A c \in 1..Orders : submission[c] \notin {"new", "running"}
  BY <1>1, <1>2 DEF LoadInv, CallsAreCounted, InputOver
<1>4. after' \in Nat /\ after' <= Orders + 1
  BY <1>1, CountedSize DEF LoadInv, CallTypes
<1>5. after' >= Answers + 1
  <2> DEFINE A == Having(submission, "accepted")
  <2>1. IsFiniteSet(A) /\ Cardinality(A) = Answers /\ 0 \notin A
    <3>1. 0 \notin A
      BY LoadFacts DEF Having
    <3>2. IsFiniteSet(A)
      BY Sizes, Zenon
    <3> QED
      BY <3>1, <3>2, Zenon DEF Answers, SizeOf
  <2>2. A \union {0} \in SUBSET counted
    BY <1>3, LoadFacts DEF LoadInv, CallsAreCounted, Having
  <2> HIDE DEF A
  <2>3. IsFiniteSet(counted)
    BY CountedSize DEF LoadInv, CallTypes
  <2>4. Cardinality(A \union {0}) = Cardinality(A) + 1
    BY <2>1, FS_AddElement
  <2>5. Cardinality(A \union {0}) <= Cardinality(counted)
    BY <2>2, <2>3, FS_Subset
  <2> QED
    BY <1>1, <2>1, <2>4, <2>5, AnswersAreNumbers
<1>6. ReportGrows'
  BY <1>1, <1>2, <1>4, <1>5, Zenon DEF LoadInv, ReportGrows, Answers
<1> QED
  BY <1>1, <1>2, <1>3, <1>6, RunKeeps

LEMMA LookUpStep == ASSUME LoadInv, Load!LookUp PROVE LoadInv'
<1>1. /\ step = "lookup" /\ step' \in {"failed", "pay"}
      /\ UNCHANGED <<submission, order, counted, settled, latest, peak, atEnd, sampler, before,
                     after, created, rejected>>
  BY DEF Load!LookUp, Load!Go, Load!lags, Load!server
<1> QED
  BY <1>1, AfterDrain DEF Drained

LEMMA FinishStep == ASSUME LoadInv, Load!Finish PROVE LoadInv'
<1>1. /\ step = "pay" /\ step' = "done"
      /\ UNCHANGED <<submission, order, counted, settled, latest, peak, atEnd, sampler, before,
                     after, created, rejected>>
  BY DEF Load!Finish, Load!Go, Load!report, Load!lags, Load!server
<1> QED
  BY <1>1, AfterDrain DEF Drained

LEMMA ReadFailsStep == ASSUME LoadInv, Load!ReadFails PROVE LoadInv'
<1>1. /\ \/ step' = "failed"
         \/ step' = "stop" /\ failing' /\ step \in {"counts", "drained"}
      /\ step # "sampling"
      /\ UNCHANGED <<submission, order, counted, settled, latest, peak, atEnd, sampler, before,
                     after, created, rejected>>
  BY DEF Load!ReadFails, Load!Go, Load!report, Load!lags, Load!server
<1>2. ~Drained' /\ ~InputOver' /\ step' \in Steps \ {"counter"}
  BY <1>1 DEF Drained, InputOver, Steps
<1>3. step' # "failed" => submission[0] = "accepted"
  BY <1>1 DEF LoadInv, CallsAreCounted
<1> QED
  BY <1>1, <1>2, <1>3, RunGoesOn

LEMMA LoadStep == ASSUME LoadInv, [Load!Next]_loadVars PROVE LoadInv'
<1>1. CASE UNCHANGED loadVars
  BY <1>1, LoadSame DEF loadVars
<1>2. CASE Load!Deadline \/ Load!ObserverEnds
  BY <1>2, LoadSame DEF Load!Deadline, Load!ObserverEnds, Load!report, Load!lags, Load!server
<1>3. CASE Load!Run
  BY <1>3, ReadBeforeStep, PrimeStep, PrimedStep, QueueIsEmptyStep, InputEndsStep,
     ReadCountsStep,
     DrainStep, WaitForObserverStep, ReadAfterStep, LookUpStep, FinishStep DEF Load!Run
<1>4. ASSUME NEW c \in 0..Orders,
             Load!Server(c) \/ Load!CountLate(c) \/ Load!Decide(c) \/ Load!Commit(c)
      PROVE  LoadInv'
  BY <1>4, PublishStep, AcceptStep, CountLateStep, DecideStep, CommitStep, CallsKeep
     DEF Load!Server
<1>5. ASSUME NEW c \in Load!Settlements, Load!Settle(c) PROVE LoadInv'
  BY <1>5, SettleStep, CallsKeep
<1>6. ASSUME NEW c \in Load!Launches, Load!CallFails(c) \/ Load!Launch(c) PROVE LoadInv'
  BY <1>6, CallFailsMove, LaunchStep, CallsKeep
<1>7. ASSUME NEW s \in Load!Samplers, Load!Sample(s) \/ Load!SampleFails(s) PROVE LoadInv'
  BY <1>7, SampleSteps
<1> QED
  BY <1>1, <1>2, <1>3, <1>4, <1>5, <1>6, <1>7, ReadFailsStep DEF Load!Next

(* When every submission was answered, the counts at the end are those of  *)
(* all orders: there is no room for another.                               *)
LEMMA EverythingIsCounted ==
  ASSUME LoadInv, step = "done", Answers = Orders
  PROVE  /\ created = SizeOf(order, "created") /\ rejected = SizeOf(order, "rejected")
         /\ 1..Orders \subseteq Having(order, "created") \union Having(order, "rejected")
<1> DEFINE A == Having(order, "created")  B == Having(order, "rejected")
<1>0. PICK a \in Nat : a = Cardinality(A)
  BY Sizes DEF SizeOf
<1>1. PICK b \in Nat : b = Cardinality(B)
  BY Sizes DEF SizeOf
<1>2. created \in Nat /\ rejected \in Nat /\ created <= a /\ rejected <= b
      /\ created + rejected >= Orders
  BY <1>0, <1>1 DEF LoadInv, ReportGrows, Drained, Answers, SizeOf
<1>3. a + b <= Orders
  BY <1>0, <1>1, Sizes DEF SizeOf
<1>4. created = a /\ rejected = b /\ a + b = Orders
  BY <1>2, <1>3, LoadFacts
<1>5. Cardinality(A \union B) = Orders
  <2>1. A \intersect B = {}
    BY DEF Having
  <2>2. IsFiniteSet(A) /\ IsFiniteSet(B)
    BY Sizes, Zenon
  <2> HIDE DEF A, B
  <2>3. Cardinality(A \union B) = Cardinality(A) + Cardinality(B) - Cardinality(A \intersect B)
    BY <2>2, FS_Union
  <2>4. Cardinality(A \intersect B) = 0
    BY <2>1, FS_EmptySet
  <2> QED
    BY <1>0, <1>1, <1>4, <2>3, <2>4
<1>6. A \union B = 1..Orders
  <2>1. A \union B \in SUBSET (1..Orders)
    BY DEF Having
  <2> HIDE DEF A, B
  <2> QED
    BY <1>5, <2>1, LoadFacts, FS_Subset
<1> QED
  BY <1>0, <1>1, <1>4, <1>6 DEF SizeOf

(* A finished report adds up, for any number of orders and payments,       *)
(* however calls, samples and reads fail or come late (run).               *)
THEOREM Report == ComponentsSpec => []TheReportAddsUp
<1>1. ComponentsInit => LoadInv
  BY LoadStart DEF ComponentsInit
<1>2. LoadInv /\ [ComponentsNext]_componentVars => LoadInv'
  BY LoadSteps, LoadStep
<1>3. LoadInv => TheReportAddsUp
  <2> SUFFICES ASSUME LoadInv, step = "done"
               PROVE  /\ Load!Received \in Answers..Orders
                      /\ created + rejected >= Answers
                      /\ Load!Answered(Load!Submissions) = Load!Submissions =>
                           /\ Load!Submissions \subseteq Load!Decided
                           /\ created = Load!CountOf("created")
                           /\ rejected = Load!CountOf("rejected")
                      /\ atEnd # None => peak >= atEnd
    BY AnswersAreNumbers DEF TheReportAddsUp, Load!TheReportAddsUp
  <2>1. /\ before = 0 /\ after \in Nat /\ after >= Answers + 1 /\ after <= Orders + 1
        /\ created + rejected >= Answers
    BY DEF LoadInv, ReportGrows, Drained, Answers
  <2>2. Load!Received \in Answers..Orders
    BY <2>1, AnswersAreNumbers, LoadFacts DEF Load!Received
  <2>3. ASSUME Load!Answered(Load!Submissions) = Load!Submissions
        PROVE  /\ Load!Submissions \subseteq Load!Decided
               /\ created = Load!CountOf("created") /\ rejected = Load!CountOf("rejected")
    <3>1. Answers = Orders
      BY <2>3, AnswersAreNumbers, LoadSizes, LoadFacts
    <3>2. Having(order, "created") \union Having(order, "rejected") \subseteq Load!Decided
      BY LoadFacts DEF Having, Load!Decided, LoadInv, CallTypes
    <3> QED
      BY <3>1, <3>2, EverythingIsCounted, LoadSizes, LoadFacts DEF Load!CountOf, SizeOf, Having
  <2>4. atEnd # None => peak >= atEnd
    <3>1. {peak, atEnd} \subseteq Nat \union {None}
          /\ (atEnd # None => peak # None /\ atEnd <= peak)
      BY DEF LoadInv, PeakIsHighest
    <3> QED
      BY <3>1
  <2> QED
    BY <2>1, <2>2, <2>3, <2>4
<1> QED
  BY <1>1, <1>2, <1>3, PTL DEF ComponentsSpec

-----------------------------------------------------------------------------
(* The mix of a load test.                                                 *)

LEMMA DivMod ==
  ASSUME NEW n \in Nat, NEW m \in Nat \ {0}
  PROVE  /\ n \div m \in Nat /\ n % m \in 0..m - 1
         /\ n = m * (n \div m) + (n % m)
  OBVIOUS

(* Going round m places, the next one follows or the first one does.       *)
LEMMA NextPlace ==
  ASSUME NEW n \in Nat, NEW m \in Nat \ {0}
  PROVE  \/ /\ (n + 1) \div m = n \div m
            /\ (n + 1) % m = (n % m) + 1
         \/ /\ (n + 1) \div m = n \div m + 1
            /\ (n + 1) % m = 0 /\ n % m = m - 1
  OBVIOUS

(* How many of the first requests are hot, and whether the next one is.    *)
HotBefore(p, i) == (i \div 100) * p + (((i % 100) * p) \div 100)
NextIsHot(p, i) == (((i % 100) + 1) * p) \div 100 > ((i % 100) * p) \div 100

LEMMA Shares ==
  ASSUME NEW p \in 0..99, NEW a \in 0..99
  PROVE  /\ (a * p) \div 100 \in 0..a
         /\ ((a + 1) * p) \div 100 \in {(a * p) \div 100, ((a * p) \div 100) + 1}
         /\ (0 * p) \div 100 = 0 /\ (100 * p) \div 100 = p
<1>1. a * p \in Nat /\ (a + 1) * p = a * p + p /\ a * p <= 100 * a /\ a * p \in Int
  OBVIOUS
<1>2. PICK x \in Nat : x = a * p
  BY <1>1
<1>3. x \div 100 \in 0..a
  BY <1>1, <1>2
<1>4. (x + p) \div 100 \in {x \div 100, (x \div 100) + 1}
  OBVIOUS
<1>5. (0 * p) \div 100 = 0 /\ (100 * p) \div 100 = p
  OBVIOUS
<1> QED
  BY <1>1, <1>2, <1>3, <1>4, <1>5

LEMMA HotStep ==
  ASSUME NEW p \in 0..99, NEW i \in Nat
  PROVE  /\ HotBefore(p, i) \in Nat /\ i - HotBefore(p, i) \in Nat
         /\ HotBefore(p, i + 1) = HotBefore(p, i) + (IF NextIsHot(p, i) THEN 1 ELSE 0)
         /\ i - HotBefore(p, i)
              = (i \div 100) * (100 - p) + (i % 100) - (((i % 100) * p) \div 100)
<1>1. PICK h \in Nat, a \in 0..99 : h = i \div 100 /\ a = i % 100 /\ i = 100 * h + a
  BY DivMod
<1>2. PICK b \in Nat : b = (a * p) \div 100 /\ b <= a
  BY Shares
<1>3. PICK k \in Nat : k = h * p
  OBVIOUS
<1>4. h * (100 - p) = 100 * h - k /\ 100 * h - k \in Nat
  <2>1. PICK q \in Nat : q = 100 - p
    OBVIOUS
  <2>2. h * q \in Nat /\ h * q = 100 * h - h * p
    BY <2>1
  <2> QED
    BY <2>1, <2>2, <1>3
<1>5. HotBefore(p, i) = k + b
  BY <1>1, <1>2, <1>3 DEF HotBefore
<1>6. HotBefore(p, i + 1) = k + b + (IF NextIsHot(p, i) THEN 1 ELSE 0)
  <2>1. CASE a = 99
    <3>1. (i + 1) \div 100 = h + 1 /\ (i + 1) % 100 = 0
      BY <1>1, <2>1
    <3>2. (h + 1) * p = k + p
      BY <1>3
    <3>3. HotBefore(p, i + 1) = k + p
      BY <3>1, <3>2, Shares DEF HotBefore
    <3>4. (a + 1) * p = 100 * p /\ (100 * p) \div 100 = p
      BY <2>1, Shares
    <3>5. p \in {b, b + 1}
      BY <3>4, <1>2, Shares
    <3>6. NextIsHot(p, i) <=> p > b
      BY <1>1, <1>2, <3>4 DEF NextIsHot
    <3> QED
      BY <3>3, <3>5, <3>6
  <2>2. CASE a # 99
    <3>1. (i + 1) \div 100 = h /\ (i + 1) % 100 = a + 1
      BY <1>1, <2>2
    <3>2. PICK c \in {b, b + 1} : c = ((a + 1) * p) \div 100
      BY <1>2, Shares
    <3>3. HotBefore(p, i + 1) = k + c
      BY <1>3, <3>1, <3>2 DEF HotBefore
    <3>4. NextIsHot(p, i) <=> c > b
      BY <1>1, <1>2, <3>2 DEF NextIsHot
    <3> QED
      BY <3>2, <3>3, <3>4
  <2> QED
    BY <2>1, <2>2
<1> QED
  <2>1. PICK r \in Nat : r = 100 * h - k
    BY <1>4
  <2>2. i = 100 * h + a /\ b <= a
    BY <1>1, <1>2
  <2>3. i - HotBefore(p, i) = r + a - b /\ r + a - b \in Nat /\ HotBefore(p, i) \in Nat
    <3>1. PICK n \in Nat : n = HotBefore(p, i) /\ n = k + b
      BY <1>5
    <3>2. i - n = r + a - b /\ r + a - b \in Nat
      BY <2>1, <2>2, <3>1
    <3> QED
      BY <3>1, <3>2
  <2>5. i - HotBefore(p, i)
          = (i \div 100) * (100 - p) + (i % 100) - (((i % 100) * p) \div 100)
    BY <2>1, <2>3, <1>1, <1>2, <1>4
  <2>4. HotBefore(p, i + 1) = HotBefore(p, i) + (IF NextIsHot(p, i) THEN 1 ELSE 0)
    BY <1>5, <1>6
  <2> QED
    BY <2>3, <2>4, <2>5

(* The listing of a request is the next one in the round of its kind.      *)
LEMMA Location ==
  ASSUME Profile!Valid(profile), profile.listings \in Nat \ {0}, profile.hot \in Nat,
         profile.percent \in 0..99, NEW i \in Nat
  PROVE  Profile!listingIDForRequest(i)
           = IF NextIsHot(profile.percent, i)
             THEN HotBefore(profile.percent, i) % profile.hot
             ELSE profile.hot + ((i - HotBefore(profile.percent, i))
                                   % (profile.listings - profile.hot))
<1> DEFINE p == profile.percent
<1>1. /\ HotBefore(p, i) = (i \div 100) * p + (((i % 100) * p) \div 100)
      /\ NextIsHot(p, i) <=> (((i % 100) + 1) * p) \div 100 > ((i % 100) * p) \div 100
  BY DEF HotBefore, NextIsHot
<1>2. i - HotBefore(p, i)
        = (i \div 100) * (100 - p) + (i % 100) - (((i % 100) * p) \div 100)
  BY HotStep
<1>3. CASE profile.hot = 0
  <2>1. p = 0
    BY <1>3 DEF Profile!Valid
  <2>2. ~NextIsHot(0, i) /\ HotBefore(0, i) = 0
    <3>1. (i \div 100) * 0 = 0 /\ (i % 100) * 0 = 0 /\ ((i % 100) + 1) * 0 = 0 /\ 0 \div 100 = 0
      OBVIOUS
    <3> QED
      BY <3>1 DEF NextIsHot, HotBefore
  <2>3. Profile!listingIDForRequest(i) = i % profile.listings
    BY <1>3 DEF Profile!listingIDForRequest
  <2>4. profile.hot + ((i - HotBefore(0, i)) % (profile.listings - profile.hot))
          = i % profile.listings
    <3>1. PICK n \in Nat \ {0} : n = profile.listings
      OBVIOUS
    <3>2. i - HotBefore(0, i) = i /\ n - 0 = n
      BY <2>2
    <3>3. PICK r \in Nat : r = i % n
      <4>1. i % n \in 0..n - 1
        BY DivMod
      <4> QED
        BY <4>1
    <3> QED
      BY <3>1, <3>2, <3>3, <1>3
  <2> QED
    BY <2>1, <2>2, <2>3, <2>4
<1>4. CASE profile.hot # 0
  BY <1>1, <1>2, <1>4 DEF Profile!listingIDForRequest, Profile!Hundred
<1> QED
  BY <1>3, <1>4

(* Places of a round that have been reached once more than the others.     *)
Visits(n, m, l) == (n \div m) + (IF l < n % m THEN 1 ELSE 0)

(* What each listing has of x hot and y other requests.                    *)
Spread(x, y, m, w) ==
  [l \in 0..(m + w) - 1 |-> IF l < m THEN Visits(x, m, l) ELSE Visits(y, w, l - m)]

(* How many of the first requests each listing has.                        *)
HitsOf(n) ==
  Spread(HotBefore(profile.percent, n), n - HotBefore(profile.percent, n),
         profile.hot, profile.listings - profile.hot)

LEMMA RoundStep ==
  ASSUME NEW n \in Nat, NEW m \in Nat \ {0}, NEW l \in 0..m - 1
  PROVE  /\ Visits(n + 1, m, l) = Visits(n, m, l) + (IF l = n % m THEN 1 ELSE 0)
         /\ Visits(n, m, l) \in Nat
         /\ \A k \in 0..m - 1 : Visits(n, m, l) <= Visits(n, m, k) + 1
         /\ Visits(0, m, l) = 0
<1>1. PICK q \in Nat, r \in 0..m - 1 : q = n \div m /\ r = n % m
  BY DivMod
<1>2. \/ (n + 1) \div m = q /\ (n + 1) % m = r + 1
      \/ (n + 1) \div m = q + 1 /\ (n + 1) % m = 0 /\ r = m - 1
  BY <1>1, NextPlace
<1>3. 0 \div m = 0 /\ 0 % m = 0
  OBVIOUS
<1> QED
  BY <1>1, <1>2, <1>3 DEF Visits

LEMMA SpreadStep ==
  ASSUME NEW m \in Nat, NEW w \in Nat \ {0}, NEW x \in Nat, NEW y \in Nat
  PROVE  /\ Spread(x, y, m, w) \in [0..(m + w) - 1 -> Nat]
         /\ m # 0 => /\ x % m \in 0..(m + w) - 1 /\ x % m < m
                     /\ Spread(x + 1, y, m, w) = [Spread(x, y, m, w) EXCEPT ![x % m] = @ + 1]
         /\ m + (y % w) \in 0..(m + w) - 1 /\ ~(m + (y % w) < m)
         /\ Spread(x, y + 1, m, w) = [Spread(x, y, m, w) EXCEPT ![m + (y % w)] = @ + 1]
         /\ Spread(0, 0, m, w) = [l \in 0..(m + w) - 1 |-> 0]
<1> DEFINE D == 0..(m + w) - 1
           V(a, b, l) == IF l < m THEN Visits(a, m, l) ELSE Visits(b, w, l - m)
<1>1. ASSUME NEW l \in D PROVE IF l < m THEN m # 0 /\ l \in 0..m - 1 ELSE l - m \in 0..w - 1
  OBVIOUS
<1>2. \A a, b \in Nat : \A l \in D : V(a, b, l) \in Nat /\ V(0, 0, l) = 0
  <2>1. ASSUME NEW a \in Nat, NEW b \in Nat, NEW l \in D
        PROVE  V(a, b, l) \in Nat /\ V(0, 0, l) = 0
    <3>1. CASE l < m
      <4>1. m \in Nat \ {0} /\ l \in 0..m - 1
        BY <3>1, <1>1
      <4>2. Visits(a, m, l) \in Nat /\ Visits(0, m, l) = 0
        BY <4>1, RoundStep
      <4> QED
        BY <4>2, <3>1
    <3>2. CASE ~(l < m)
      <4>1. l - m \in 0..w - 1
        BY <3>2, <1>1
      <4>2. Visits(b, w, l - m) \in Nat /\ Visits(0, w, l - m) = 0
        BY <4>1, RoundStep
      <4> QED
        BY <4>2, <3>2
    <3> QED
      BY <3>1, <3>2
  <2> QED
    BY <2>1
<1>3. \A a, b : Spread(a, b, m, w) = [l \in D |-> V(a, b, l)]
  BY DEF Spread
<1> HIDE DEF V
<1>4. \A a, b \in Nat : Spread(a, b, m, w) \in [D -> Nat]
  BY <1>2, <1>3
<1>5. ASSUME m # 0
      PROVE  /\ x % m \in D /\ x % m < m
             /\ Spread(x + 1, y, m, w) = [Spread(x, y, m, w) EXCEPT ![x % m] = @ + 1]
  <2>1. PICK r \in 0..m - 1 : r = x % m
    BY <1>5, DivMod
  <2>2. r \in D /\ r < m /\ x + 1 \in Nat
    BY <2>1
  <2>3. ASSUME NEW l \in D PROVE V(x + 1, y, l) = V(x, y, l) + (IF l = r THEN 1 ELSE 0)
    <3>1. CASE l < m
      <4>1. l \in 0..m - 1 /\ m \in Nat \ {0}
        BY <3>1, <1>1
      <4>2. Visits(x + 1, m, l) = Visits(x, m, l) + (IF l = r THEN 1 ELSE 0)
        BY <4>1, <2>1, RoundStep
      <4> QED
        BY <4>2, <3>1 DEF V
    <3>2. CASE ~(l < m)
      <4>1. V(x + 1, y, l) = V(x, y, l) /\ l # r
        BY <3>2, <2>2 DEF V
      <4> QED
        BY <4>1, <1>2, <2>2
    <3> QED
      BY <3>1, <3>2
  <2>4. Spread(x + 1, y, m, w) = [Spread(x, y, m, w) EXCEPT ![r] = @ + 1]
    <3>1. PICK e \in D : e = r
      BY <2>2
    <3>2. PICK f \in [D -> Nat] : f = Spread(x, y, m, w) /\ \A l \in D : f[l] = V(x, y, l)
      BY <1>3, <1>4
    <3>3. PICK g \in [D -> Nat] :
            g = Spread(x + 1, y, m, w) /\ \A l \in D : g[l] = V(x + 1, y, l)
      <4>1. Spread(x + 1, y, m, w) \in [D -> Nat]
        BY <1>4, <2>2
      <4>2. \A l \in D : Spread(x + 1, y, m, w)[l] = V(x + 1, y, l)
        BY <1>3
      <4> QED
        BY <4>1, <4>2
    <3>4. \A l \in D : g[l] = f[l] + (IF l = e THEN 1 ELSE 0)
      BY <2>3, <3>1, <3>2, <3>3
    <3>5. g = [f EXCEPT ![e] = @ + 1]
      BY <3>4
    <3> QED
      BY <3>1, <3>2, <3>3, <3>5
  <2> QED
    BY <2>1, <2>2, <2>4
<1>6. /\ m + (y % w) \in D /\ ~(m + (y % w) < m)
      /\ Spread(x, y + 1, m, w) = [Spread(x, y, m, w) EXCEPT ![m + (y % w)] = @ + 1]
  <2>1. PICK r \in 0..w - 1 : r = y % w
    BY DivMod
  <2>2. m + r \in D /\ ~(m + r < m) /\ y + 1 \in Nat
    BY <2>1
  <2>3. ASSUME NEW l \in D PROVE V(x, y + 1, l) = V(x, y, l) + (IF l = m + r THEN 1 ELSE 0)
    <3>1. CASE l < m
      <4>1. V(x, y + 1, l) = V(x, y, l) /\ l # m + r
        BY <3>1, <2>2 DEF V
      <4> QED
        BY <4>1, <1>2, <2>2
    <3>2. CASE ~(l < m)
      <4>1. l - m \in 0..w - 1 /\ (l - m = r <=> l = m + r)
        BY <3>2, <1>1, <2>2
      <4>2. Visits(y + 1, w, l - m) = Visits(y, w, l - m) + (IF l - m = r THEN 1 ELSE 0)
        BY <4>1, <2>1, RoundStep
      <4> QED
        BY <4>1, <4>2, <3>2 DEF V
    <3> QED
      BY <3>1, <3>2
  <2>4. Spread(x, y + 1, m, w) = [Spread(x, y, m, w) EXCEPT ![m + r] = @ + 1]
    <3>1. PICK e \in D : e = m + r
      BY <2>2
    <3>2. PICK f \in [D -> Nat] : f = Spread(x, y, m, w) /\ \A l \in D : f[l] = V(x, y, l)
      BY <1>3, <1>4
    <3>3. PICK g \in [D -> Nat] :
            g = Spread(x, y + 1, m, w) /\ \A l \in D : g[l] = V(x, y + 1, l)
      <4>1. Spread(x, y + 1, m, w) \in [D -> Nat]
        BY <1>4, <2>2
      <4>2. \A l \in D : Spread(x, y + 1, m, w)[l] = V(x, y + 1, l)
        BY <1>3
      <4> QED
        BY <4>1, <4>2
    <3>4. \A l \in D : g[l] = f[l] + (IF l = e THEN 1 ELSE 0)
      BY <2>3, <3>1, <3>2, <3>3
    <3>5. g = [f EXCEPT ![e] = @ + 1]
      BY <3>4
    <3> QED
      BY <3>1, <3>2, <3>3, <3>5
  <2> QED
    BY <2>1, <2>2, <2>4
<1>7. Spread(0, 0, m, w) = [l \in D |-> 0]
  BY <1>2, <1>3
<1> QED
  BY <1>4, <1>5, <1>6, <1>7

(* What seed and readProfile admit.                                        *)
ProfileOK ==
  /\ profile.listings \in Nat \ {0} /\ profile.hot \in Nat /\ profile.hot < profile.listings
  /\ profile.percent \in 0..99 /\ profile.codes \in Nat
  /\ Profile!Valid(profile)

LEMMA HitsStep ==
  ASSUME ProfileOK, NEW n \in Nat
  PROVE  /\ HitsOf(n) \in [Profile!Listings -> Nat]
         /\ Profile!listingIDForRequest(n) \in Profile!Listings
         /\ Profile!listingIDForRequest(n) < profile.hot <=> NextIsHot(profile.percent, n)
         /\ HitsOf(n + 1) = [HitsOf(n) EXCEPT ![Profile!listingIDForRequest(n)] = @ + 1]
         /\ HitsOf(0) = [l \in Profile!Listings |-> 0]
<1>1. PICK p \in 0..99, m \in Nat, w \in Nat \ {0} :
        /\ p = profile.percent /\ m = profile.hot /\ w = profile.listings - profile.hot
        /\ m + w = profile.listings
  <2>1. PICK q \in Nat, m \in Nat : q = profile.listings /\ m = profile.hot /\ m < q
    BY DEF ProfileOK
  <2>2. q - m \in Nat \ {0} /\ m + (q - m) = q
    BY <2>1
  <2> QED
    BY <2>1, <2>2 DEF ProfileOK
<1>2. PICK x \in Nat, y \in Nat : x = HotBefore(p, n) /\ y = n - x
  BY HotStep
<1>3. /\ HotBefore(p, n + 1) = x + (IF NextIsHot(p, n) THEN 1 ELSE 0)
      /\ (n + 1) - HotBefore(p, n + 1) = y + (IF NextIsHot(p, n) THEN 0 ELSE 1)
  <2>1. HotBefore(p, n + 1) = x + (IF NextIsHot(p, n) THEN 1 ELSE 0)
    BY <1>2, HotStep
  <2> QED
    BY <2>1, <1>2
<1>4. Profile!listingIDForRequest(n) = IF NextIsHot(p, n) THEN x % m ELSE m + (y % w)
  BY <1>1, <1>2, Location DEF ProfileOK
<1>5. Profile!Listings = 0..(m + w) - 1
  BY <1>1 DEF Profile!Listings
<1>6. NextIsHot(p, n) => m # 0
  <2>1. ~NextIsHot(0, n)
    <3>1. (n % 100) * 0 = 0 /\ ((n % 100) + 1) * 0 = 0 /\ 0 \div 100 = 0
      OBVIOUS
    <3> QED
      BY <3>1 DEF NextIsHot
  <2>2. m = 0 => p = 0
    BY <1>1 DEF ProfileOK, Profile!Valid
  <2> QED
    BY <2>1, <2>2
<1>7. HotBefore(p, 0) = 0
  <2>1. 0 \div 100 = 0 /\ 0 % 100 = 0 /\ 0 * p = 0
    OBVIOUS
  <2> QED
    BY <2>1 DEF HotBefore
<1>8. /\ HitsOf(n) = Spread(x, y, m, w) /\ HitsOf(0) = Spread(0, 0, m, w)
      /\ NextIsHot(p, n) => HitsOf(n + 1) = Spread(x + 1, y, m, w)
      /\ ~NextIsHot(p, n) => HitsOf(n + 1) = Spread(x, y + 1, m, w)
  <2>1. x + 0 = x /\ y + 0 = y /\ 0 - 0 = 0
    OBVIOUS
  <2> QED
    BY <2>1, <1>1, <1>2, <1>3, <1>7 DEF HitsOf
<1>0. /\ Spread(x, y, m, w) \in [0..(m + w) - 1 -> Nat]
      /\ m # 0 => /\ x % m \in 0..(m + w) - 1 /\ x % m < m
                  /\ Spread(x + 1, y, m, w) = [Spread(x, y, m, w) EXCEPT ![x % m] = @ + 1]
      /\ m + (y % w) \in 0..(m + w) - 1 /\ ~(m + (y % w) < m)
      /\ Spread(x, y + 1, m, w) = [Spread(x, y, m, w) EXCEPT ![m + (y % w)] = @ + 1]
      /\ Spread(0, 0, m, w) = [l \in 0..(m + w) - 1 |-> 0]
  BY SpreadStep
<1>9. HitsOf(n) \in [Profile!Listings -> Nat] /\ HitsOf(0) = [l \in Profile!Listings |-> 0]
  BY <1>5, <1>8, <1>0, Zenon
<1>10. CASE NextIsHot(p, n)
  <2>1. PICK l : l = Profile!listingIDForRequest(n) /\ l = x % m
    BY <1>4, <1>10
  <2>2. l \in Profile!Listings /\ l < m /\ HitsOf(n + 1) = [HitsOf(n) EXCEPT ![l] = @ + 1]
    BY <2>1, <1>5, <1>6, <1>8, <1>10, <1>0, Zenon
  <2> QED
    BY <2>1, <2>2, <1>1, <1>9, <1>10
<1>11. CASE ~NextIsHot(p, n)
  <2>1. PICK l : l = Profile!listingIDForRequest(n) /\ l = m + (y % w)
    BY <1>4, <1>11
  <2>2. l \in Profile!Listings /\ ~(l < m) /\ HitsOf(n + 1) = [HitsOf(n) EXCEPT ![l] = @ + 1]
    BY <2>1, <1>5, <1>8, <1>11, <1>0, Zenon
  <2> QED
    BY <2>1, <2>2, <1>1, <1>9, <1>11
<1> QED
  BY <1>10, <1>11

LEMMA HitsGrow ==
  ASSUME ProfileOK, NEW i \in Nat, NEW j \in Nat, i <= j, NEW l \in Profile!Listings
  PROVE  HitsOf(i)[l] <= HitsOf(j)[l] /\ HitsOf(j)[l] <= HitsOf(i)[l] + (j - i)
<1> DEFINE Within(k) == HitsOf(i)[l] <= HitsOf(i + k)[l] /\ HitsOf(i + k)[l] <= HitsOf(i)[l] + k
           S == {k \in Nat : ~Within(k)}
<1>1. \A k \in Nat : HitsOf(i + k)[l] \in Nat
  <2>1. ASSUME NEW k \in Nat PROVE HitsOf(i + k)[l] \in Nat
    <3>1. i + k \in Nat
      OBVIOUS
    <3>2. HitsOf(i + k) \in [Profile!Listings -> Nat]
      BY <3>1, HitsStep
    <3> QED
      BY <3>2
  <2> QED
    BY <2>1
<1>2. ASSUME NEW k \in Nat, Within(k) PROVE Within(k + 1)
  <2>1. i + k \in Nat /\ (i + k) + 1 = i + (k + 1) /\ k + 1 \in Nat
    OBVIOUS
  <2>2. PICK e \in Profile!Listings : HitsOf(i + (k + 1)) = [HitsOf(i + k) EXCEPT ![e] = @ + 1]
    BY <2>1, HitsStep
  <2>3. HitsOf(i + k) \in [Profile!Listings -> Nat]
    BY <2>1, HitsStep
  <2>4. HitsOf(i + (k + 1))[l] \in {HitsOf(i + k)[l], HitsOf(i + k)[l] + 1}
    BY <2>2, <2>3
  <2>5. HitsOf(i + k)[l] \in Nat /\ HitsOf(i)[l] \in Nat
    <3>1. i + 0 = i
      OBVIOUS
    <3> QED
      BY <3>1, <1>1
  <2> QED
    BY <2>4, <2>5, <1>2
<1>3. Within(0)
  <2>1. i + 0 = i /\ HitsOf(i + 0)[l] \in Nat
    BY <1>1
  <2> QED
    BY <2>1
<1>4. S = {}
  <2> SUFFICES ASSUME S # {} PROVE FALSE
    OBVIOUS
  <2> HIDE DEF Within
  <2>1. PICK k \in S : \A o \in S : k <= o
    <3>1. S \in SUBSET Nat
      OBVIOUS
    <3> QED
      BY <3>1, NatMin
  <2>2. k # 0 /\ k - 1 \in Nat /\ k - 1 \notin S /\ (k - 1) + 1 = k
    BY <2>1, <1>3
  <2> QED
    BY <2>1, <2>2, <1>2
<1>5. j - i \in Nat /\ i + (j - i) = j
  OBVIOUS
<1> QED
  BY <1>4, <1>5

LEMMA ProfileSteps ==
  ASSUME [ComponentsNext]_componentVars PROVE [Profile!Next]_profileVars
  BY DEF ComponentsNext, componentVars, profileVars

LEMMA ProfileSums ==
  ASSUME NEW f, NEW S PROVE Profile!SumFunctionOnSet(f, S) = SumFunctionOnSet(f, S)
  BY DEF SumFunctionOnSet, Profile!SumFunctionOnSet, FoldFunctionOnSet,
         Profile!FoldFunctionOnSet, MapThenFoldSet, Profile!MapThenFoldSet

(* What the warm-up order took of a listing.                               *)
Warmed(l) == IF l = 0 THEN 1 ELSE 0

(* The codes are where seed put them, less those of the requests so far;   *)
(* both go by the same list.                                               *)
ProfileInv ==
  /\ ProfileOK
  /\ turn \in 0..profile.codes /\ phase \in {"seed", "run", "end"}
  /\ hits \in [Profile!Listings -> Nat] /\ shelf \in [Profile!Listings -> Int]
  /\ phase = "seed" => shelf = HitsOf(turn) /\ hits = [l \in Profile!Listings |-> 0]
  /\ phase # "seed" =>
       /\ hits = HitsOf(turn)
       /\ shelf = [l \in Profile!Listings |->
                     HitsOf(profile.codes)[l] - HitsOf(turn)[l] - Warmed(l)]
  /\ SumFunctionOnSet(hits, Profile!Hot)
       = IF phase = "seed" THEN 0 ELSE HotBefore(profile.percent, turn)
  /\ times \in [Durations -> Nat]
  /\ phase = "end" => \E d \in Durations : times[d] > 0

LEMMA HotFacts ==
  ASSUME ProfileOK
  PROVE  /\ IsFiniteSet(Profile!Hot) /\ Profile!Hot \subseteq Profile!Listings
         /\ \A l \in Profile!Listings : l \in Profile!Hot <=> l < profile.hot
<1>1. PICK q \in Nat, m \in Nat : q = profile.listings /\ m = profile.hot /\ m < q
  BY DEF ProfileOK
<1>2. IsFiniteSet(0..m - 1)
  BY FS_Interval
<1> QED
  BY <1>1, <1>2 DEF Profile!Hot, Profile!Listings

LEMMA ProfileStart == ASSUME Profile!Init PROVE ProfileInv
<1>1. PICK p \in Profile!Profiles : p = profile
  BY DEF Profile!Init
<1>2. ProfileOK
  <2>1. Profile!Valid(p) /\ p \in [listings : 1..MaxListings, hot : 0..MaxListings,
                                  percent : Percents \union {0},
                                  codes : {MaxListings, CodesOfProfile}]
    BY DEF Profile!Profiles
  <2>2. p.percent \in 0..99 /\ p.codes \in Nat /\ p.listings \in Nat \ {0} /\ p.hot \in Nat
    <3>1. MaxListings \in Nat /\ CodesOfProfile \in Nat /\ Percents \subseteq 0..99
      BY ProfileAssumption DEF Profile!ProfileAssumption
    <3>2. /\ p.percent \in Percents \union {0} /\ p.codes \in {MaxListings, CodesOfProfile}
          /\ p.listings \in 1..MaxListings /\ p.hot \in 0..MaxListings
      BY <2>1
    <3>3. p.listings \in Nat \ {0} /\ p.hot \in Nat
      BY <3>1, <3>2
    <3>4. 0 \in 0..99
      OBVIOUS
    <3> QED
      BY <3>1, <3>2, <3>3, <3>4, Zenon
  <2> QED
    BY <1>1, <2>1, <2>2 DEF ProfileOK, Profile!Valid
<1>3. HitsOf(0) = [l \in Profile!Listings |-> 0]
  BY <1>2, HitsStep
<1>4. SumFunctionOnSet(hits, Profile!Hot) = 0
  <2>1. \A l \in Profile!Hot : hits[l] = 0
    BY <1>2, HotFacts DEF Profile!Init
  <2> QED
    BY <2>1, <1>2, HotFacts, SumOfZeros
<1>5. /\ turn = 0 /\ phase = "seed" /\ times = [d \in Durations |-> 0]
      /\ shelf = [l \in Profile!Listings |-> 0] /\ hits = [l \in Profile!Listings |-> 0]
  BY DEF Profile!Init
<1>6. turn \in 0..profile.codes
  BY <1>2, <1>5 DEF ProfileOK
<1> QED
  BY <1>2, <1>3, <1>4, <1>5, <1>6 DEF ProfileInv

LEMMA SeedStep == ASSUME ProfileInv, Profile!Seed PROVE ProfileInv'
<1>1. PICK n \in Nat : n = turn /\ n < profile.codes /\ turn' = n + 1
  BY DEF ProfileInv, Profile!Seed, ProfileOK
<1>2. UNCHANGED <<profile, phase, hits, times>> /\ phase = "seed"
      /\ shelf' = [shelf EXCEPT ![Profile!listingIDForRequest(n)] = @ + 1]
  BY <1>1 DEF Profile!Seed, Profile!listingOfCode
<1>3. /\ HitsOf(n + 1) = [HitsOf(n) EXCEPT ![Profile!listingIDForRequest(n)] = @ + 1]
      /\ HitsOf(n + 1) \in [Profile!Listings -> Nat]
  <2>1. n + 1 \in Nat /\ ProfileOK
    BY DEF ProfileInv
  <2> QED
    BY <2>1, HitsStep
<1>4. shelf = HitsOf(n)
  BY <1>1, <1>2 DEF ProfileInv
<1>5. HitsOf(n + 1)' = HitsOf(n + 1) /\ Profile!Listings' = Profile!Listings /\ ProfileOK'
      /\ Profile!Hot' = Profile!Hot
  BY <1>2 DEF HitsOf, Profile!Listings, ProfileInv, ProfileOK, Profile!Valid, Profile!Hot
<1>6. shelf' = HitsOf(turn)' /\ shelf' \in [Profile!Listings -> Int]
  <2>1. shelf' = HitsOf(n + 1)
    BY <1>2, <1>3, <1>4
  <2>2. HitsOf(turn)' = HitsOf(n + 1)
    BY <1>1, <1>2 DEF HitsOf
  <2>3. shelf' \in [Profile!Listings -> Int]
    BY <2>1, <1>3
  <2> QED
    BY <2>1, <2>2, <2>3
<1>7. turn' \in 0..profile.codes
  BY <1>1 DEF ProfileInv, ProfileOK
<1> QED
  BY <1>2, <1>5, <1>6, <1>7 DEF ProfileInv

LEMMA WarmUpStep == ASSUME ProfileInv, Profile!WarmUp PROVE ProfileInv'
<1>1. /\ UNCHANGED <<profile, hits, times>> /\ phase = "seed" /\ phase' = "run" /\ turn' = 0
      /\ turn = profile.codes /\ shelf' = [shelf EXCEPT ![0] = @ - 1]
  BY DEF Profile!WarmUp
<1>2. /\ \A n : HitsOf(n)' = HitsOf(n) /\ Profile!Listings' = Profile!Listings
      /\ ProfileOK' /\ Profile!Hot' = Profile!Hot
  BY <1>1 DEF HitsOf, Profile!Listings, ProfileInv, ProfileOK, Profile!Valid, Profile!Hot
<1>3. /\ hits = HitsOf(0) /\ HitsOf(0) = [l \in Profile!Listings |-> 0]
      /\ HitsOf(turn) \in [Profile!Listings -> Nat] /\ shelf = HitsOf(turn)
  BY <1>1, HitsStep DEF ProfileInv, ProfileOK
<1>4. shelf' = [l \in Profile!Listings |-> HitsOf(turn)[l] - HitsOf(0)[l] - Warmed(l)]
  BY <1>1, <1>3 DEF Warmed
<1>5. SumFunctionOnSet(hits, Profile!Hot) = 0 /\ HotBefore(profile.percent, 0) = 0
  <2>1. 0 \div 100 = 0 /\ 0 % 100 = 0 /\ 0 * profile.percent = 0
    BY DEF ProfileInv, ProfileOK
  <2> QED
    BY <1>1, <2>1 DEF ProfileInv, HotBefore
<1>6. turn' \in 0..profile.codes /\ shelf' \in [Profile!Listings -> Int]
  <2>1. turn' \in 0..profile.codes
    BY <1>1 DEF ProfileInv, ProfileOK
  <2>2. shelf \in [Profile!Listings -> Int]
    BY DEF ProfileInv
  <2>3. shelf' \in [Profile!Listings -> Int]
    <3>1. \A l \in Profile!Listings : shelf'[l] \in Int
      BY <2>2, <1>1
    <3> QED
      BY <3>1, <1>4
  <2> QED
    BY <2>1, <2>3
<1> QED
  BY <1>1, <1>2, <1>3, <1>4, <1>5, <1>6 DEF ProfileInv, Warmed

LEMMA RequestStep == ASSUME ProfileInv, Profile!Request PROVE ProfileInv'
<1>1. PICK n \in Nat : n = turn /\ n < profile.codes /\ turn' = n + 1
  BY DEF ProfileInv, Profile!Request, ProfileOK
<1>2. PICK e : /\ e = Profile!listingIDForRequest(n) /\ phase = "run"
               /\ UNCHANGED <<profile, phase, times>>
               /\ hits' = [hits EXCEPT ![e] = @ + 1] /\ shelf' = [shelf EXCEPT ![e] = @ - 1]
  BY <1>1 DEF Profile!Request
<1>3. /\ HitsOf(n + 1) = [HitsOf(n) EXCEPT ![e] = @ + 1] /\ e \in Profile!Listings
      /\ HitsOf(n) \in [Profile!Listings -> Nat] /\ HitsOf(n + 1) \in [Profile!Listings -> Nat]
      /\ HitsOf(profile.codes) \in [Profile!Listings -> Nat]
      /\ e < profile.hot <=> NextIsHot(profile.percent, n)
  <2>1. n + 1 \in Nat /\ ProfileOK /\ profile.codes \in Nat
    BY DEF ProfileInv, ProfileOK
  <2>2. /\ HitsOf(n + 1) = [HitsOf(n) EXCEPT ![e] = @ + 1] /\ e \in Profile!Listings
        /\ e < profile.hot <=> NextIsHot(profile.percent, n)
    BY <2>1, <1>2, HitsStep
  <2>3. \A i \in Nat : HitsOf(i) \in [Profile!Listings -> Nat]
    BY <2>1, HitsStep
  <2> QED
    BY <2>1, <2>2, <2>3
<1>4. hits = HitsOf(n)
      /\ shelf = [l \in Profile!Listings |->
                    HitsOf(profile.codes)[l] - HitsOf(n)[l] - Warmed(l)]
  BY <1>1, <1>2 DEF ProfileInv
<1>5. /\ \A i : HitsOf(i)' = HitsOf(i) /\ Profile!Listings' = Profile!Listings
      /\ ProfileOK' /\ Profile!Hot' = Profile!Hot
  BY <1>2 DEF HitsOf, Profile!Listings, ProfileInv, ProfileOK, Profile!Valid, Profile!Hot
<1>6. shelf' = [l \in Profile!Listings |->
                  HitsOf(profile.codes)[l] - HitsOf(n + 1)[l] - Warmed(l)]
  BY <1>2, <1>3, <1>4 DEF Warmed
<1>7. SumFunctionOnSet(hits', Profile!Hot) = HotBefore(profile.percent, n + 1)
  <2>1. SumFunctionOnSet(hits', Profile!Hot)
          = SumFunctionOnSet(hits, Profile!Hot) + (IF e \in Profile!Hot THEN 1 ELSE 0)
    <3>1. hits \in [Profile!Listings -> Nat] /\ ProfileOK
      BY DEF ProfileInv
    <3>2. SumFunctionOnSet([hits EXCEPT ![e] = @ + 1], Profile!Hot)
            = SumFunctionOnSet(hits, Profile!Hot) + (IF e \in Profile!Hot THEN 1 ELSE 0)
      BY <3>1, <1>3, HotFacts, SumOneMore
    <3> QED
      BY <3>2, <1>2
  <2>2. HotBefore(profile.percent, n + 1)
          = HotBefore(profile.percent, n) + (IF NextIsHot(profile.percent, n) THEN 1 ELSE 0)
    <3>1. PICK p \in 0..99 : p = profile.percent
      BY DEF ProfileInv, ProfileOK
    <3>2. HotBefore(p, n + 1) = HotBefore(p, n) + (IF NextIsHot(p, n) THEN 1 ELSE 0)
      BY HotStep
    <3> QED
      BY <3>1, <3>2, Zenon
  <2>3. SumFunctionOnSet(hits, Profile!Hot) = HotBefore(profile.percent, n)
    BY <1>1, <1>2 DEF ProfileInv
  <2>4. e \in Profile!Hot <=> NextIsHot(profile.percent, n)
    BY <1>3, HotFacts DEF ProfileInv
  <2> QED
    BY <2>1, <2>2, <2>3, <2>4
<1>8. turn' \in 0..profile.codes
  BY <1>1 DEF ProfileInv, ProfileOK
<1>9. shelf' \in [Profile!Listings -> Int] /\ hits' = HitsOf(n + 1)
      /\ hits' \in [Profile!Listings -> Nat]
  BY <1>2, <1>3, <1>4 DEF ProfileInv
<1> QED
  BY <1>1, <1>2, <1>5, <1>6, <1>7, <1>8, <1>9 DEF ProfileInv, Warmed

LEMMA ProfileStep == ASSUME ProfileInv, [Profile!Next]_profileVars PROVE ProfileInv'
<1>1. CASE Profile!Measure
  <2>1. UNCHANGED <<profile, turn, shelf, hits>> /\ phase = "run" /\ phase' = "end"
        /\ times' \in [Durations -> Tallies] /\ \E d \in Durations : times'[d] > 0
    BY <1>1 DEF Profile!Measure
  <2>2. times' \in [Durations -> Nat]
    BY <2>1, ProfileAssumption DEF Profile!ProfileAssumption
  <2>3. /\ \A i : HitsOf(i)' = HitsOf(i) /\ Profile!Listings' = Profile!Listings
        /\ ProfileOK' /\ Profile!Hot' = Profile!Hot
    BY <2>1 DEF HitsOf, Profile!Listings, ProfileInv, ProfileOK, Profile!Valid, Profile!Hot
  <2> QED
    BY <2>1, <2>2, <2>3 DEF ProfileInv, Warmed
<1>2. CASE UNCHANGED profileVars
  <2>1. UNCHANGED <<profile, phase, turn, shelf, hits, times>>
    BY <1>2 DEF profileVars
  <2>2. /\ \A i : HitsOf(i)' = HitsOf(i) /\ Profile!Listings' = Profile!Listings
        /\ ProfileOK' /\ Profile!Hot' = Profile!Hot
    BY <2>1 DEF HitsOf, Profile!Listings, ProfileInv, ProfileOK, Profile!Valid, Profile!Hot
  <2> QED
    BY <2>1, <2>2 DEF ProfileInv, Warmed
<1> QED
  BY <1>1, <1>2, SeedStep, WarmUpStep, RequestStep DEF Profile!Next

(* The least of some times.                                                *)
LEMMA LeastIsLeast ==
  ASSUME NEW S \in SUBSET Nat, S # {}
  PROVE  Profile!Least(S) \in S /\ \A w \in S : Profile!Least(S) <= w
<1>1. \E v \in S : \A w \in S : v <= w
  BY NatMin
<1> QED
  BY <1>1 DEF Profile!Least

LEMMA ProfileFinite ==
  ASSUME NEW S, Profile!IsFiniteSet(S) PROVE IsFiniteSet(S)
  BY DEF Profile!IsFiniteSet, IsFiniteSet

LEMMA UptoFacts ==
  ASSUME ProfileInv
  PROVE  /\ Profile!Total \in Nat /\ \A v : Profile!Upto(v) \in Nat
         /\ \A v, w \in Nat : v <= w => Profile!Upto(v) <= Profile!Upto(w)
<1>1. IsFiniteSet(Durations) /\ Durations \subseteq Nat /\ times \in [Durations -> Nat]
  <2>1. Durations \subseteq Nat /\ IsFiniteSet(Durations)
    BY ProfileAssumption, ProfileFinite DEF Profile!ProfileAssumption
  <2> QED
    BY <2>1 DEF ProfileInv
<1>2. \A v : IsFiniteSet({u \in Durations : u <= v})
  BY <1>1, FS_Subset
<1>3. Profile!Total = SumFunctionOnSet(times, Durations)
      /\ \A v : Profile!Upto(v) = SumFunctionOnSet(times, {u \in Durations : u <= v})
  BY ProfileSums DEF Profile!Total, Profile!Upto
<1>4. ASSUME NEW v PROVE Profile!Upto(v) \in Nat
  <2>1. IsFiniteSet({u \in Durations : u <= v}) /\ {u \in Durations : u <= v} \subseteq Durations
    BY <1>2
  <2> QED
    BY <2>1, <1>1, <1>3, SumType
<1>5. ASSUME NEW v \in Nat, NEW w \in Nat, v <= w PROVE Profile!Upto(v) <= Profile!Upto(w)
  <2>1. {u \in Durations : u <= v} \in SUBSET {u \in Durations : u <= w}
    <3>1. \A u \in Nat : u <= v => u <= w
      BY <1>5
    <3> QED
      BY <3>1, <1>1, Zenon
  <2>2. IsFiniteSet({u \in Durations : u <= w}) /\ {u \in Durations : u <= w} \subseteq Durations
    BY <1>2
  <2>3. SumFunctionOnSet(times, {u \in Durations : u <= v})
          <= SumFunctionOnSet(times, {u \in Durations : u <= w})
    BY <2>1, <2>2, <1>1, SumSubset
  <2> QED
    BY <2>3, <1>3
<1>6. Profile!Total \in Nat
  BY <1>1, <1>3, SumType
<1> QED
  BY <1>4, <1>5, <1>6

LEMMA OnePercentile ==
  ASSUME ProfileInv, phase = "end", NEW buckets \in SUBSET Durations, buckets # {},
         NEW last, last = CHOOSE b \in buckets : \A c \in buckets : c <= b,
         Profile!Upto(last) = Profile!Total
  PROVE  Profile!parseHistogramP99(buckets)
           = Profile!Least({b \in buckets : b >= Profile!percentileMillis(99)})
<1>1. Durations \subseteq Nat /\ IsFiniteSet(Durations) /\ times \in [Durations -> Nat]
      /\ \E d \in Durations : times[d] > 0
  <2>1. Durations \subseteq Nat /\ IsFiniteSet(Durations)
    BY ProfileAssumption, ProfileFinite DEF Profile!ProfileAssumption
  <2> QED
    BY <2>1 DEF ProfileInv
<1>2. last \in buckets /\ last \in Durations
  <2>1. \E b \in buckets : \A c \in buckets : c <= b
    <3>1. IsFiniteSet(buckets) /\ buckets \in SUBSET Nat
      BY <1>1, FS_Subset
    <3> QED
      BY <3>1, FiniteMax
  <2> QED
    BY <2>1
<1>3. PICK t \in Nat : t = Profile!Total /\ t # 0
  <2>1. SumFunctionOnSet(times, Durations) # 0
    BY <1>1, SumOfSomething
  <2> QED
    BY <2>1, UptoFacts, ProfileSums DEF Profile!Total
<1>4. Profile!parseHistogramP99(buckets)
        = Profile!Least({b \in buckets : 100 * Profile!Upto(b) >= 99 * t})
  BY <1>3 DEF Profile!parseHistogramP99
<1> DEFINE S == {v \in Durations : Profile!Upto(v) >= (t * 99 + 99) \div 100}
<1>5. Profile!percentileMillis(99) = Profile!Least(S)
  BY <1>3 DEF Profile!percentileMillis
<1>6. \A u \in Nat : u >= (t * 99 + 99) \div 100 <=> 100 * u >= 99 * t
  OBVIOUS
<1>7. S # {} /\ S \in SUBSET Nat
  <2>1. Profile!Upto(last) = t
    BY <1>3
  <2>2. 100 * t >= 99 * t
    OBVIOUS
  <2>3. t >= (t * 99 + 99) \div 100
    BY <1>6, <2>2
  <2>4. last \in S
    BY <1>2, <2>1, <2>3
  <2> QED
    BY <2>4, <1>1
<1> HIDE DEF S
<1>8. PICK p \in Nat : p = Profile!Least(S) /\ p \in S /\ \A w \in S : p <= w
  BY <1>7, LeastIsLeast
<1>9. ASSUME NEW b \in buckets
      PROVE  100 * Profile!Upto(b) >= 99 * t <=> b >= p
  <2>1. b \in Durations /\ b \in Nat
    BY <1>1
  <2>2. PICK u \in Nat, v \in Nat : u = Profile!Upto(b) /\ v = Profile!Upto(p)
    BY UptoFacts
  <2>3. b \in S <=> 100 * u >= 99 * t
    BY <2>1, <2>2, <1>6 DEF S
  <2>4. 100 * v >= 99 * t
    BY <2>2, <1>6, <1>8 DEF S
  <2>5. b >= p => v <= u
    BY <2>1, <2>2, UptoFacts
  <2>6. b \in S => b >= p
    BY <1>8, <2>1
  <2> QED
    BY <2>2, <2>3, <2>4, <2>5, <2>6
<1>10. {b \in buckets : 100 * Profile!Upto(b) >= 99 * t} = {b \in buckets : b >= p}
  BY <1>9
<1> QED
  BY <1>4, <1>5, <1>8, <1>10

LEMMA Percentiles == ASSUME ProfileInv PROVE Profile!PercentilesAgree
  BY OnePercentile, Zenon DEF Profile!PercentilesAgree

LEMMA Stock == ASSUME ProfileInv PROVE Profile!TheStockLasts
<1> SUFFICES ASSUME NEW l \in Profile!Listings
             PROVE  shelf[l] >= (IF l = 0 /\ phase # "seed" THEN -1 ELSE 0)
  BY DEF Profile!TheStockLasts
<1>1. /\ turn \in Nat /\ profile.codes \in Nat /\ turn <= profile.codes /\ ProfileOK
  BY DEF ProfileInv, ProfileOK
<1>2. HitsOf(turn)[l] \in Nat /\ HitsOf(profile.codes)[l] \in Nat
      /\ HitsOf(turn)[l] <= HitsOf(profile.codes)[l]
  <2>1. HitsOf(turn) \in [Profile!Listings -> Nat] /\ HitsOf(profile.codes) \in [Profile!Listings -> Nat]
    BY <1>1, HitsStep
  <2> QED
    BY <2>1, <1>1, HitsGrow
<1>3. CASE phase = "seed"
  BY <1>2, <1>3 DEF ProfileInv
<1>4. CASE phase # "seed"
  <2>1. shelf[l] = HitsOf(profile.codes)[l] - HitsOf(turn)[l] - Warmed(l)
    BY <1>4 DEF ProfileInv
  <2> QED
    BY <2>1, <1>2, <1>4 DEF Warmed
<1> QED
  BY <1>3, <1>4

LEMMA Mix == ASSUME ProfileInv PROVE Profile!TheMixIsEven
<1> SUFFICES ASSUME phase = "run"
             PROVE  /\ SumFunctionOnSet(hits, Profile!Hot) = HotBefore(profile.percent, turn)
                    /\ \A l, k \in Profile!Hot : hits[l] <= hits[k] + 1
                    /\ \A l, k \in Profile!Listings \ Profile!Hot : hits[l] <= hits[k] + 1
  BY ProfileSums DEF Profile!TheMixIsEven, HotBefore, Profile!Hundred
<1>1. SumFunctionOnSet(hits, Profile!Hot) = HotBefore(profile.percent, turn)
  BY DEF ProfileInv
<1>2. PICK n \in Nat, p \in 0..99, m \in Nat, q \in Nat :
        /\ n = turn /\ p = profile.percent /\ m = profile.hot /\ q = profile.listings /\ m < q
  <2>1. ProfileOK /\ turn \in 0..profile.codes
    BY DEF ProfileInv
  <2>2. profile.codes \in Nat
    BY <2>1 DEF ProfileOK
  <2>3. turn \in Nat
    BY <2>1, <2>2
  <2> QED
    BY <2>1, <2>3 DEF ProfileOK
<1>3. PICK w \in Nat \ {0} : w = q - m /\ m + w = q
  <2>1. q - m \in Nat \ {0} /\ m + (q - m) = q
    BY <1>2
  <2> QED
    BY <2>1
<1>4. PICK x \in Nat, y \in Nat : x = HotBefore(p, n) /\ y = n - x
  BY HotStep
<1>5. hits = [l \in 0..(m + w) - 1 |-> IF l < m THEN Visits(x, m, l) ELSE Visits(y, w, l - m)]
  BY <1>2, <1>3, <1>4 DEF ProfileInv, HitsOf, Spread
<1>6. Profile!Listings = 0..(m + w) - 1 /\ Profile!Hot = 0..m - 1
  BY <1>2, <1>3 DEF Profile!Listings, Profile!Hot
<1>7. ASSUME NEW l \in 0..m - 1, NEW k \in 0..m - 1 PROVE hits[l] <= hits[k] + 1
  <2>1. /\ l \in 0..(m + w) - 1 /\ l < m /\ k \in 0..(m + w) - 1 /\ k < m /\ m \in Nat \ {0}
    OBVIOUS
  <2>2. hits[l] = Visits(x, m, l) /\ hits[k] = Visits(x, m, k)
    BY <2>1, <1>5
  <2> QED
    BY <2>1, <2>2, RoundStep
<1>8. ASSUME NEW l \in (0..(m + w) - 1) \ (0..m - 1), NEW k \in (0..(m + w) - 1) \ (0..m - 1)
      PROVE  hits[l] <= hits[k] + 1
  <2>1. l - m \in 0..w - 1 /\ ~(l < m) /\ k - m \in 0..w - 1 /\ ~(k < m)
    OBVIOUS
  <2>2. PICK a \in 0..w - 1, b \in 0..w - 1 : a = l - m /\ b = k - m
    BY <2>1
  <2>3. hits[l] = Visits(y, w, a) /\ hits[k] = Visits(y, w, b)
    BY <2>1, <2>2, <1>5
  <2>4. Visits(y, w, a) <= Visits(y, w, b) + 1
    BY RoundStep
  <2> QED
    BY <2>3, <2>4
<1> QED
  BY <1>1, <1>6, <1>7, <1>8

(* A load test asks each listing for its share, and for no more codes than *)
(* seed gave it, whatever the listings, the hot ones and their share; and  *)
(* the two ways of the report to tell the slowest requests agree (seed,    *)
(* listingIDForRequest, percentileMillis, parseHistogramP99).              *)
THEOREM Shape == ComponentsSpec => []ProfileIsSound
<1>1. ComponentsInit => ProfileInv
  BY ProfileStart DEF ComponentsInit
<1>2. ProfileInv /\ [ComponentsNext]_componentVars => ProfileInv'
  BY ProfileSteps, ProfileStep
<1>3. ProfileInv => ProfileIsSound
  BY Mix, Stock, Percentiles DEF ProfileIsSound
<1> QED
  BY <1>1, <1>2, <1>3, PTL DEF ComponentsSpec

-----------------------------------------------------------------------------
(* What the invariants above leave open of the variables' types.           *)

LEMMA CheckTypes ==
  ASSUME Checks!TypeOK, [Checks!Next]_checkVars PROVE Checks!TypeOK'
<1> USE DEF Checks!TypeOK
<1>1. CASE UNCHANGED checkVars
  BY <1>1 DEF checkVars
<1>2. CASE Checks!Require
  BY <1>2 DEF Checks!Require, Checks!newPrincipal
<1>3. ASSUME NEW r \in Checks!Rules, Checks!RequireEndpoint(r) PROVE Checks!TypeOK'
  BY <1>3 DEF Checks!RequireEndpoint
<1>4. ASSUME NEW place \in Checks!Places, NEW policy \in Checks!Policies,
             NEW q \in Checks!Requests, Checks!Serve(place, policy, q)
      PROVE  Checks!TypeOK'
  <2>1. /\ UNCHANGED <<record, principal>> /\ rule' = None /\ request' = q
        /\ constraint' = Checks!AuthorizeService(principal, place, policy, q)
        /\ stage' \in {"denied", "served"}
    BY <1>4 DEF Checks!Serve
  <2>2. constraint' = None \/ constraint' = Checks!deriveConstraint(principal, policy)
    BY <2>1 DEF Checks!AuthorizeService
  <2>3. \/ Checks!deriveConstraint(principal, policy) = None
        \/ Checks!deriveConstraint(principal, policy).Kind \in Checks!Scopes
    BY DEF Checks!deriveConstraint, Checks!Scopes
  <2> QED
    BY <2>1, <2>2, <2>3, Zenon
<1> QED
  BY <1>1, <1>2, <1>3, <1>4 DEF Checks!Next

(* No log is longer than all of them may be.                               *)
LogsFit == SumFunctionOnSet(end, Partitions) <= MaxOffset

AnswersFit ==
  /\ LogsFit
  /\ committed \in [Partitions -> -1..MaxOffset] /\ position \in [Partitions -> -1..MaxOffset]
  /\ low \in [Partitions -> -1..MaxOffset] /\ high \in [Partitions -> -1..MaxOffset]
  /\ observed \in [Partitions -> -1..MaxOffset]

LEMMA LogFits ==
  ASSUME LagInv, LogsFit, NEW p \in Partitions
  PROVE  end[p] \in 0..MaxOffset
<1>1. end \in [Partitions -> Nat] /\ MaxOffset \in Nat
  BY LagAssumption DEF LagInv, LagTypes, TopicTypes, Lag!LagAssumption
<1>2. SumFunctionOnSet(end, Partitions) = end[p] + SumFunctionOnSet(end, Partitions \ {p})
  <2>1. IsFiniteSet(Partitions) /\ Partitions \subseteq Partitions
    BY LagFacts
  <2> QED
    BY <1>1, <2>1, SumRemove
<1>3. SumFunctionOnSet(end, Partitions \ {p}) \in Nat
  <2>1. IsFiniteSet(Partitions \ {p})
    BY LagFacts, FS_Subset
  <2> QED
    BY <1>1, <2>1, SumType
<1> QED
  BY <1>1, <1>2, <1>3 DEF LogsFit

LEMMA LagUnknown == ASSUME Lag!LagAssumption PROVE Lag!Unknown \in [Partitions -> -1..MaxOffset]
  BY DEF Lag!Unknown, Lag!LagAssumption

LEMMA AnswersStep ==
  ASSUME LagInv, AnswersFit, [Lag!Next]_lagVars PROVE AnswersFit'
<1> USE DEF Lag!Happened, Lag!topic, Lag!fleet, Lag!answers, Lag!history
<1>1. UNCHANGED end \/ \E p \in Partitions : Lag!Produce(p)
  BY DEF Lag!Next, Lag!Round, Lag!Begin, Lag!CallFails, Lag!ReadOffsets, Lag!ReadEnds, Lag!Looked,
     Lag!Evaluate, Lag!Look, Lag!OutOfRange, Lag!Age, Lag!Commit, Lag!Expire, Lag!WorkerStarts,
     Lag!WorkerStops, lagVars
<1>2. LogsFit'
  <2>1. CASE UNCHANGED end
    BY <2>1 DEF LogsFit, AnswersFit
  <2>2. ASSUME NEW p \in Partitions, Lag!Produce(p) PROVE LogsFit'
    <3>1. end \in [Partitions -> Nat] /\ MaxOffset \in Nat
      BY LagAssumption DEF LagInv, LagTypes, TopicTypes, Lag!LagAssumption
    <3>2. SumFunctionOnSet([end EXCEPT ![p] = @ + 1], Partitions)
            = SumFunctionOnSet(end, Partitions) + (IF p \in Partitions THEN 1 ELSE 0)
      BY <3>1, LagFacts, SumOneMore
    <3>3. SumFunctionOnSet(end, Partitions) \in Nat
      BY <3>1, LagFacts, SumType
    <3>4. SumFunctionOnSet(end, Partitions) < MaxOffset /\ end' = [end EXCEPT ![p] = @ + 1]
      BY <2>2, LagSums DEF Lag!Produce
    <3> QED
      BY <3>1, <3>2, <3>3, <3>4 DEF LogsFit
  <2> QED
    BY <1>1, <2>1, <2>2
<1>3. \A p \in Partitions : end[p] \in 0..MaxOffset /\ first[p] \in 0..MaxOffset
                              /\ old[p] \in 0..MaxOffset /\ committed[p] <= end[p]
  <2>1. \A p \in Partitions : end[p] \in 0..MaxOffset
    BY LogFits DEF AnswersFit
  <2> QED
    BY <2>1, LagAssumption DEF LagInv, LagTypes, TopicTypes, Lag!LagAssumption
<1>4. committed' \in [Partitions -> -1..MaxOffset]
  <2>1. UNCHANGED committed \/ \E p \in Partitions : Lag!Commit(p)
    BY DEF Lag!Next, Lag!Round, Lag!Begin, Lag!CallFails, Lag!ReadOffsets, Lag!ReadEnds, Lag!Looked,
       Lag!Evaluate, Lag!Look, Lag!OutOfRange, Lag!Age, Lag!Produce, Lag!Expire, Lag!WorkerStarts,
       Lag!WorkerStops, lagVars
  <2>2. ASSUME NEW p \in Partitions, Lag!Commit(p) PROVE committed' \in [Partitions -> -1..MaxOffset]
    <3>1. committed' = [committed EXCEPT ![p] = Lag!Min(Lag!Uncommitted(p)) + 1]
          /\ Lag!Uncommitted(p) # {}
      BY <2>2 DEF Lag!Commit
    <3>2. Lag!Min(Lag!Uncommitted(p)) \in Lag!Uncommitted(p)
      BY <3>1, <1>3, FirstUncommitted DEF LagInv, LagTypes
    <3>3. Lag!Min(Lag!Uncommitted(p)) \in first[p]..end[p] - 1
      BY <3>2 DEF Lag!Uncommitted
    <3>4. Lag!Min(Lag!Uncommitted(p)) + 1 \in -1..MaxOffset
      <4>1. PICK m : m = Lag!Min(Lag!Uncommitted(p)) /\ m \in first[p]..end[p] - 1
        BY <3>3
      <4>2. m + 1 \in -1..MaxOffset
        BY <4>1, <1>3, LagAssumption DEF Lag!LagAssumption
      <4> QED
        BY <4>1, <4>2
    <3> QED
      BY <3>1, <3>4 DEF AnswersFit
  <2> QED
    BY <2>1, <2>2 DEF AnswersFit
<1>5. /\ observed' \in {observed, old, Lag!Unknown} /\ position' \in {position, committed, Lag!Unknown}
      /\ low' \in {low, first, Lag!Unknown} /\ high' \in {high, end, Lag!Unknown}
  BY DEF Lag!Next, Lag!Round, Lag!Begin, Lag!CallFails, Lag!ReadOffsets, Lag!ReadEnds, Lag!Looked,
     Lag!Evaluate, Lag!Look, Lag!OutOfRange, Lag!Age, Lag!Produce, Lag!Commit, Lag!Expire,
     Lag!WorkerStarts, Lag!WorkerStops, Lag!Conclude, Lag!Forget, lagVars
<1>6. /\ first \in [Partitions -> -1..MaxOffset] /\ end \in [Partitions -> -1..MaxOffset]
      /\ old \in [Partitions -> -1..MaxOffset] /\ Lag!Unknown \in [Partitions -> -1..MaxOffset]
  <2>1. \A n \in 0..MaxOffset : n \in -1..MaxOffset
    OBVIOUS
  <2> QED
    BY <2>1, <1>3, LagUnknown, LagAssumption DEF LagInv, LagTypes, TopicTypes
<1> QED
  BY <1>2, <1>4, <1>5, <1>6, Zenon DEF AnswersFit

LEMMA AnswersStart == ASSUME Lag!Init PROVE AnswersFit
<1>1. /\ end = [p \in Partitions |-> 0] /\ committed = Lag!Unknown /\ observed = Lag!Unknown
      /\ position = Lag!Unknown /\ low = Lag!Unknown /\ high = Lag!Unknown
  BY DEF Lag!Init
<1>2. SumFunctionOnSet(end, Partitions) = 0
  <2>1. \A p \in Partitions : end[p] = 0
    BY <1>1
  <2> QED
    BY <2>1, LagFacts, SumOfZeros
<1> QED
  BY <1>1, <1>2, LagUnknown, LagAssumption DEF AnswersFit, LogsFit, Lag!LagAssumption

LEMMA LagTyped == ASSUME LagInv, AnswersFit PROVE Lag!TypeOK
<1>1. \A p \in Partitions : end[p] \in 0..MaxOffset
  BY LogFits DEF AnswersFit
<1>2. /\ first \in [Partitions -> 0..MaxOffset] /\ end \in [Partitions -> 0..MaxOffset]
      /\ old \in [Partitions -> 0..MaxOffset]
  BY <1>1, LagAssumption DEF LagInv, LagTypes, TopicTypes, Lag!LagAssumption
<1>3. activeConsumers \in 0..Lag!Cardinality(Workers)
  <2>1. Cardinality(running) \in Nat /\ Cardinality(running) <= Cardinality(Workers)
    BY LagFacts, FS_Subset, FS_CardinalityType DEF LagInv, WorkersAreCounted
  <2> QED
    BY <2>1, LagSizes, LagFacts DEF LagInv, WorkersAreCounted
<1> QED
  BY <1>2, <1>3
     DEF LagInv, LagTypes, TopicTypes, RoundTypes, WorkersAreCounted, AnswersFit, Lag!TypeOK

(* Calls in flight, and what the run and the server know so far.           *)
LoadFits ==
  /\ Cardinality(Load!Running) <= MaxInflight
  /\ step \in {"counter", "prime"} => Load!Running = {}
  /\ failing \in BOOLEAN /\ late \in BOOLEAN /\ loop \in {"off", "on", "ended"}
  /\ before \in Nat \union {None} /\ after \in Nat \union {None} /\ found \in 0..Orders
  /\ counted \subseteq Load!Published /\ paid \subseteq Load!Settlements

LEMMA RunningIsFinite ==
  IsFiniteSet(Load!Running) /\ Cardinality(Load!Running) \in Nat
<1>1. Load!Running \in SUBSET (0..Orders + Payments) /\ IsFiniteSet(0..Orders + Payments)
  BY LoadFacts, FS_Interval DEF Load!Running
<1> QED
  BY <1>1, FS_Subset, FS_CardinalityType

LEMMA CallsInFlight ==
  ASSUME LoadInv, LoadFits, Load!Next
  PROVE  /\ Cardinality(Load!Running') <= MaxInflight
         /\ step' \in {"counter", "prime"} => Load!Running' = {}
<1> USE DEF Load!report, Load!lags, Load!server
<1>1. \/ UNCHANGED <<submission, step>>
      \/ UNCHANGED submission /\ (step' = "prime" => step = "counter") /\ step' # "counter"
      \/ UNCHANGED step /\ \E c, answer : /\ submission' = [submission EXCEPT ![c] = answer]
                                          /\ answer # "running"
      \/ Load!Prime
      \/ \E c \in Load!Launches : Load!Launch(c)
  BY DEF Load!Next, Load!Server, Load!Publish, Load!Accept, Load!CountLate, Load!Decide,
     Load!Commit, Load!Settle, Load!CallFails, Load!Sample, Load!ReadCommitted, Load!ReadEnds,
     Load!SampleEnds, Load!SampleFails, Load!StoreLag, Load!Deadline, Load!ReadFails,
     Load!ObserverEnds, Load!Run, Load!ReadBefore, Load!Primed, Load!QueueIsEmpty,
     Load!InputEnds, Load!ReadCounts, Load!Drain, Load!WaitForObserver, Load!ReadAfter,
     Load!LookUp, Load!Finish, Load!Go, Load!Idle
<1>2. ASSUME Load!Running' \in SUBSET Load!Running,
             step' \in {"counter", "prime"} => step \in {"counter", "prime"}
      PROVE  /\ Cardinality(Load!Running') <= MaxInflight
             /\ step' \in {"counter", "prime"} => Load!Running' = {}
  <2>1. Cardinality(Load!Running') <= Cardinality(Load!Running) /\ Cardinality(Load!Running') \in Nat
    BY <1>2, RunningIsFinite, FS_Subset, FS_CardinalityType
  <2>2. MaxInflight \in Nat
    BY LoadAssumption DEF Load!LoadAssumption
  <2> QED
    BY <1>2, <2>1, <2>2, RunningIsFinite DEF LoadFits
<1>3. CASE UNCHANGED submission /\ (step' = "prime" => step \in {"counter", "prime"})
             /\ (step' = "counter" => step = "counter")
  <2>1. Load!Running' = Load!Running
    BY <1>3 DEF Load!Running
  <2> QED
    BY <1>2, <1>3, <2>1
<1>4. ASSUME UNCHANGED step, NEW c, NEW answer, answer # "running",
             submission' = [submission EXCEPT ![c] = answer]
      PROVE  /\ Cardinality(Load!Running') <= MaxInflight
             /\ step' \in {"counter", "prime"} => Load!Running' = {}
  <2>1. Load!Running' \in SUBSET Load!Running
    BY <1>4, LoadFacts DEF Load!Running, LoadInv, CallTypes
  <2> QED
    BY <1>2, <1>4, <2>1
<1>5. ASSUME NEW c, NEW n \in Nat, n = Cardinality(Load!Running), n < MaxInflight,
             submission' = [submission EXCEPT ![c] = "running"],
             step' \notin {"counter", "prime"}
      PROVE  /\ Cardinality(Load!Running') <= MaxInflight
             /\ step' \in {"counter", "prime"} => Load!Running' = {}
  <2>1. Load!Running' \in SUBSET (Load!Running \union {c})
    BY <1>5, LoadFacts DEF Load!Running, LoadInv, CallTypes
  <2>2. IsFiniteSet(Load!Running \union {c}) /\ Cardinality(Load!Running \union {c}) \in {n, n + 1}
    BY <1>5, RunningIsFinite, FS_AddElement
  <2>3. Cardinality(Load!Running') <= Cardinality(Load!Running \union {c})
        /\ Cardinality(Load!Running') \in Nat
    BY <2>1, <2>2, FS_Subset, FS_CardinalityType
  <2>4. MaxInflight \in Nat
    BY LoadAssumption DEF Load!LoadAssumption
  <2> QED
    BY <1>5, <2>2, <2>3, <2>4
<1>6. CASE Load!Prime
  <2>1. Load!Running = {} /\ step' = "priming" /\ submission' = [submission EXCEPT ![0] = "running"]
    BY <1>6 DEF Load!Prime, Load!Go, LoadFits
  <2>2. Cardinality(Load!Running) = 0 /\ 0 < MaxInflight
    BY <2>1, FS_EmptySet, LoadAssumption DEF Load!LoadAssumption
  <2>3. step' \notin {"counter", "prime"} /\ 0 \in Nat /\ MaxInflight \in Nat
    BY <2>1, LoadAssumption DEF Load!LoadAssumption
  <2>4. 0 = Cardinality(Load!Running)
    BY <2>2
  <2> QED
    BY <1>5, <2>1, <2>2, <2>3, <2>4, Zenon
<1>7. ASSUME NEW c \in Load!Launches, Load!Launch(c)
      PROVE  /\ Cardinality(Load!Running') <= MaxInflight
             /\ step' \in {"counter", "prime"} => Load!Running' = {}
  <2>1. submission' = [submission EXCEPT ![c] = "running"] /\ step' \notin {"counter", "prime"}
        /\ Cardinality(Load!Running) < MaxInflight
    BY <1>7, LoadSizes DEF Load!Launch, Load!Phase
  <2> QED
    BY <1>5, <2>1, RunningIsFinite
<1> QED
  BY <1>1, <1>3, <1>4, <1>6, <1>7

LEMMA LoadFitsStep ==
  ASSUME LoadInv, LoadFits, [Load!Next]_loadVars PROVE LoadFits'
<1> USE DEF Load!report, Load!lags, Load!server
<1>0. CASE UNCHANGED loadVars
  BY <1>0 DEF loadVars, LoadFits, Load!Running, Load!Published
<1> SUFFICES ASSUME Load!Next PROVE LoadFits'
  BY <1>0
<1>1. /\ Cardinality(Load!Running') <= MaxInflight
      /\ step' \in {"counter", "prime"} => Load!Running' = {}
  BY CallsInFlight
<1>2. failing' \in BOOLEAN /\ late' \in BOOLEAN /\ loop' \in {"off", "on", "ended"}
  BY DEF LoadFits, Load!Next, Load!Server, Load!Publish, Load!Accept, Load!CountLate, Load!Decide,
     Load!Commit, Load!Settle, Load!CallFails, Load!Launch, Load!Sample, Load!ReadCommitted,
     Load!ReadEnds, Load!SampleEnds, Load!SampleFails, Load!StoreLag, Load!Deadline,
     Load!ReadFails, Load!ObserverEnds, Load!Run, Load!ReadBefore, Load!Prime, Load!Primed,
     Load!QueueIsEmpty, Load!InputEnds, Load!ReadCounts, Load!Drain, Load!WaitForObserver,
     Load!ReadAfter, Load!LookUp, Load!Finish, Load!Go
<1>3. /\ before' \in {before, Load!Cardinality(counted)}
      /\ after' \in {after, Load!Cardinality(counted)}
      /\ found' \in {found, Load!CountOf("created")}
  BY DEF Load!Next, Load!Server, Load!Publish, Load!Accept, Load!CountLate, Load!Decide,
     Load!Commit, Load!Settle, Load!CallFails, Load!Launch, Load!Sample, Load!ReadCommitted,
     Load!ReadEnds, Load!SampleEnds, Load!SampleFails, Load!StoreLag, Load!Deadline,
     Load!ReadFails, Load!ObserverEnds, Load!Run, Load!ReadBefore, Load!Prime, Load!Primed,
     Load!QueueIsEmpty, Load!InputEnds, Load!ReadCounts, Load!Drain, Load!WaitForObserver,
     Load!ReadAfter, Load!LookUp, Load!Finish
<1>4. Load!Cardinality(counted) \in Nat /\ Load!CountOf("created") \in 0..Orders
  <2>1. Cardinality(counted) \in Nat
    BY CountedSize DEF LoadInv, CallTypes
  <2>2. Load!CountOf("created") = SizeOf(order, "created")
    BY LoadSizes, LoadFacts DEF Load!CountOf, SizeOf, Having
  <2> QED
    BY <2>1, <2>2, LoadSizes, Sizes
<1>5. counted' \subseteq Load!Published' /\ paid' \subseteq Load!Settlements
  <2>1. \/ UNCHANGED <<order, counted, paid>>
        \/ \E c \in 0..Orders : \E fate : /\ fate # "none" /\ order' = [order EXCEPT ![c] = fate]
                                            /\ UNCHANGED <<counted, paid>>
        \/ \E c \in 0..Orders : /\ counted' = counted \union {c} /\ order[c] # "none"
                                /\ UNCHANGED <<order, paid>>
        \/ \E c \in Load!Settlements : paid' = paid \union {c} /\ UNCHANGED <<order, counted>>
    BY DEF Load!Next, Load!Server, Load!Publish, Load!Accept, Load!CountLate, Load!Decide,
       Load!Commit, Load!Settle, Load!CallFails, Load!Launch, Load!Sample, Load!ReadCommitted,
       Load!ReadEnds, Load!SampleEnds, Load!SampleFails, Load!StoreLag, Load!Deadline,
       Load!ReadFails, Load!ObserverEnds, Load!Run, Load!ReadBefore, Load!Prime, Load!Primed,
       Load!QueueIsEmpty, Load!InputEnds, Load!ReadCounts, Load!Drain, Load!WaitForObserver,
       Load!ReadAfter, Load!LookUp, Load!Finish
  <2>2. order \in [0..Orders -> Fates] /\ counted \subseteq Load!Published /\ paid \subseteq Load!Settlements
    BY DEF LoadInv, CallTypes, LoadFits
  <2> QED
    BY <2>1, <2>2 DEF Load!Published
<1> QED
  BY <1>1, <1>2, <1>3, <1>4, <1>5 DEF LoadFits

LEMMA LoadFitsStart == ASSUME Load!Init PROVE LoadFits
<1>1. Load!Running = {}
  BY DEF Load!Init, Load!InitAt, Load!Running
<1>2. Cardinality(Load!Running) = 0 /\ 0 <= MaxInflight
  BY <1>1, FS_EmptySet, LoadAssumption DEF Load!LoadAssumption
<1> QED
  <2>1. 0 \in 0..Orders
    BY LoadFacts
  <2>2. /\ failing = FALSE /\ late = FALSE /\ loop = "off" /\ before = None /\ after = None
        /\ found = 0 /\ counted = {} /\ paid = {}
    BY DEF Load!Init, Load!InitAt
  <2> QED
    BY <1>1, <1>2, <2>1, <2>2 DEF LoadFits

LEMMA LoadTyped == ASSUME LoadInv, LoadFits PROVE Load!TypeOK
<1>1. created \in 0..Orders /\ rejected \in 0..Orders
  BY Sizes, LoadFacts DEF LoadInv, ReportGrows
<1>2. Load!Cardinality(Load!Running) <= MaxInflight
  BY LoadSizes DEF LoadFits
<1>3. settled \subseteq Load!Decided
  BY DEF LoadInv, CallTypes, Load!Decided
<1>4. /\ sampler \in [Load!Samplers -> [at : {"idle", "committed", "read"}, n : Nat]]
      /\ {latest, peak, atEnd} \subseteq Nat \union {None}
  BY DEF LoadInv, PeakIsHighest
<1> QED
  BY <1>1, <1>2, <1>3, <1>4, LoadFacts
     DEF LoadInv, CallTypes, LoadFits, Load!TypeOK, Outcomes, Fates

(* No listing has more codes or requests than there are codes.             *)
LEMMA ProfileTyped ==
  ASSUME ProfileInv, profile.codes <= CodesOfProfile, times \in [Durations -> Tallies]
  PROVE  Profile!TypeOK
<1>1. /\ turn \in Nat /\ profile.codes \in Nat /\ turn <= profile.codes /\ ProfileOK
      /\ CodesOfProfile \in Nat
  BY ProfileAssumption DEF ProfileInv, ProfileOK, Profile!ProfileAssumption
<1>2. ASSUME NEW l \in Profile!Listings
      PROVE  shelf[l] \in -1..CodesOfProfile /\ hits[l] \in 0..CodesOfProfile
  <2>1. PICK s \in Int : s = shelf[l]
    BY DEF ProfileInv
  <2>2. s >= -1
    BY <2>1, Stock DEF Profile!TheStockLasts
  <2>3. ASSUME NEW i \in Nat, i <= profile.codes
        PROVE  HitsOf(i)[l] \in Nat /\ HitsOf(i)[l] <= CodesOfProfile
    <3>1. HitsOf(0)[l] = 0 /\ HitsOf(i)[l] <= HitsOf(0)[l] + (i - 0) /\ HitsOf(i)[l] \in Nat
      <4>1. 0 \in Nat /\ 0 <= i
        OBVIOUS
      <4>2. HitsOf(0) = [k \in Profile!Listings |-> 0] /\ HitsOf(i) \in [Profile!Listings -> Nat]
        BY <1>1, HitsStep
      <4> QED
        BY <4>1, <4>2, <1>1, HitsGrow
    <3> QED
      BY <3>1, <2>3, <1>1
  <2>4. CASE phase = "seed"
    <3>1. shelf[l] = HitsOf(turn)[l] /\ hits[l] = 0
      BY <2>4 DEF ProfileInv
    <3>2. HitsOf(turn)[l] \in Nat /\ HitsOf(turn)[l] <= CodesOfProfile
      BY <2>3, <1>1
    <3> QED
      BY <3>1, <3>2, <1>1
  <2>5. CASE phase # "seed"
    <3>1. hits[l] = HitsOf(turn)[l]
          /\ shelf[l] = HitsOf(profile.codes)[l] - HitsOf(turn)[l] - Warmed(l)
      BY <2>5 DEF ProfileInv
    <3>2. /\ HitsOf(turn)[l] \in Nat /\ HitsOf(turn)[l] <= CodesOfProfile
          /\ HitsOf(profile.codes)[l] \in Nat /\ HitsOf(profile.codes)[l] <= CodesOfProfile
      BY <2>3, <1>1
    <3> QED
      BY <3>1, <3>2, <2>1, <2>2, <1>1 DEF Warmed
  <2> QED
    BY <2>4, <2>5
<1>3. shelf \in [Profile!Listings -> -1..CodesOfProfile]
      /\ hits \in [Profile!Listings -> 0..CodesOfProfile]
  BY <1>2 DEF ProfileInv
<1>4. turn \in 0..CodesOfProfile
  BY <1>1
<1> QED
  BY <1>3, <1>4 DEF ProfileInv, ProfileOK, Profile!TypeOK

LEMMA ProfileKeeps ==
  ASSUME [Profile!Next]_profileVars
  PROVE  profile' = profile /\ (times' = times \/ times' \in [Durations -> Tallies])
  BY DEF Profile!Next, Profile!Seed, Profile!WarmUp, Profile!Request, Profile!Measure, profileVars

LEMMA ProfileFits ==
  ASSUME Profile!Init
  PROVE  profile.codes <= CodesOfProfile /\ times \in [Durations -> Tallies]
<1>1. profile.codes \in {MaxListings, CodesOfProfile}
  BY DEF Profile!Init, Profile!Profiles
<1> QED
  BY <1>1, ProfileAssumption DEF Profile!Init, Profile!ProfileAssumption

(* Every variable keeps its type, whichever part of the system moves.      *)
THEOREM Types == ComponentsSpec => []ComponentsTypeOK
<1>1. ComponentsSpec => [](part \in {"tokens", "changes", "codes", "passwords", "permissions",
                                     "checks", "limits", "starts", "lag", "load", "profile",
                                     "page", "client"})
  <2> DEFINE Named == part \in {"tokens", "changes", "codes", "passwords", "permissions",
                                "checks", "limits", "starts", "lag", "load", "profile",
                                "page", "client"}
  <2>1. ComponentsInit => Named
    BY DEF ComponentsInit
  <2>2. Named /\ [ComponentsNext]_componentVars => Named'
    BY DEF ComponentsNext, componentVars
  <2> QED
    BY <2>1, <2>2, PTL DEF ComponentsSpec
<1>2. ComponentsSpec => []TypeOK
  <2>1. ComponentsInit => Init
    BY DEF ComponentsInit
  <2>2. [ComponentsNext]_componentVars => [Next]_vars
    BY DEF ComponentsNext, componentVars
  <2>3. SInv => TypeOK
    BY DEF SInv
  <2> QED
    BY <2>1, <2>2, <2>3, SessionInvariant, PTL DEF ComponentsSpec, Spec
<1>3. ComponentsSpec => [](Email!TypeOK /\ Password!TypeOK)
  <2>1. ComponentsInit => MailInv /\ LockInv
    BY MailStart, LockStart DEF ComponentsInit
  <2>2. MailInv /\ LockInv /\ [ComponentsNext]_componentVars => MailInv' /\ LockInv'
    BY EmailSteps, MailStep, PasswordSteps, LockStep
  <2>3. MailInv /\ LockInv => Email!TypeOK /\ Password!TypeOK
    BY DEF MailInv, LockInv
  <2> QED
    BY <2>1, <2>2, <2>3, PTL DEF ComponentsSpec
<1>4. ComponentsSpec => [](Access!TypeOK /\ Checks!TypeOK)
  <2>1. ComponentsInit => AccessInv /\ Checks!TypeOK
    BY AccessStart DEF ComponentsInit, Checks!Init, Checks!TypeOK
  <2>2. AccessInv /\ Checks!TypeOK /\ [ComponentsNext]_componentVars
          => AccessInv' /\ Checks!TypeOK'
    BY AccessSteps, AccessStep, CheckSteps, CheckTypes
  <2>3. AccessInv => Access!TypeOK
    BY DEF AccessInv
  <2> QED
    BY <2>1, <2>2, <2>3, PTL DEF ComponentsSpec
<1>5. ComponentsSpec => [](Limits!TypeOK /\ Page!TypeOK /\ Client!TypeOK)
  <2>1. ComponentsInit => LimitInv /\ PageInv /\ ClientInv
    BY LimitStart, PageStart, ClientStart DEF ComponentsInit
  <2>2. LimitInv /\ PageInv /\ ClientInv /\ [ComponentsNext]_componentVars
          => LimitInv' /\ PageInv' /\ ClientInv'
    BY LimitSteps, LimitStep, PageSteps, PageStep, ClientSteps, ClientStep
  <2>3. LimitInv /\ PageInv /\ ClientInv => Limits!TypeOK /\ Page!TypeOK /\ Client!TypeOK
    BY DEF LimitInv, PageInv, ClientInv
  <2> QED
    BY <2>1, <2>2, <2>3, PTL DEF ComponentsSpec
<1>6. ComponentsSpec => [](Starts!TypeOK /\ Lag!TypeOK)
  <2>1. ComponentsInit => StartInv /\ LagInv /\ AnswersFit
    BY StartStart, LagStart, AnswersStart DEF ComponentsInit
  <2>2. StartInv /\ LagInv /\ AnswersFit /\ [ComponentsNext]_componentVars
          => StartInv' /\ LagInv' /\ AnswersFit'
    BY StartSteps, StartStep, LagSteps, LagStep, AnswersStep
  <2>3. StartInv /\ LagInv /\ AnswersFit => Starts!TypeOK /\ Lag!TypeOK
    <3>1. StartInv => Starts!TypeOK
      BY DEF StartInv, StartTypes, Starts!TypeOK
    <3> QED
      BY <3>1, LagTyped
  <2> QED
    BY <2>1, <2>2, <2>3, PTL DEF ComponentsSpec
<1>7. ComponentsSpec => [](Load!TypeOK /\ Profile!TypeOK)
  <2> DEFINE Kept == profile.codes <= CodesOfProfile /\ times \in [Durations -> Tallies]
  <2>1. ComponentsInit => LoadInv /\ LoadFits /\ ProfileInv /\ Kept
    BY LoadStart, LoadFitsStart, ProfileStart, ProfileFits DEF ComponentsInit
  <2>2. LoadInv /\ LoadFits /\ ProfileInv /\ Kept /\ [ComponentsNext]_componentVars
          => LoadInv' /\ LoadFits' /\ ProfileInv' /\ Kept'
    BY LoadSteps, LoadStep, LoadFitsStep, ProfileSteps, ProfileStep, ProfileKeeps
  <2>3. LoadInv /\ LoadFits /\ ProfileInv /\ Kept => Load!TypeOK /\ Profile!TypeOK
    BY LoadTyped, ProfileTyped
  <2> QED
    BY <2>1, <2>2, <2>3, PTL DEF ComponentsSpec
<1>8. /\ TypeOK /\ Email!TypeOK /\ Password!TypeOK /\ Access!TypeOK /\ Checks!TypeOK
      /\ Limits!TypeOK /\ Page!TypeOK /\ Client!TypeOK /\ Starts!TypeOK /\ Lag!TypeOK
      /\ Load!TypeOK /\ Profile!TypeOK
      /\ part \in {"tokens", "changes", "codes", "passwords", "permissions", "checks",
                   "limits", "starts", "lag", "load", "profile", "page", "client"}
      => ComponentsTypeOK
  BY Zenon DEF ComponentsTypeOK
<1> QED
  BY <1>1, <1>2, <1>3, <1>4, <1>5, <1>6, <1>7, <1>8, PTL
=============================================================================
