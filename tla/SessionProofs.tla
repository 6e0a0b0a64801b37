--------------------------- MODULE SessionProofs ----------------------------
(***************************************************************************)
(* Slots and sessions, what was revoked, and refresh tokens, each of which *)
(* is exchanged once, for any number of users, calls, tokens, changes and  *)
(* failures.                                                               *)
(***************************************************************************)
EXTENDS Sessions, TLAPS

Scanning == {"scanning", "getting", "deleting"}

(* A session or a token that is known to anybody has been made.            *)
Known ==
  /\ \A s \in Tokens : s > tokens => ~Live(s)
  /\ \A t \in Tokens : index[t] # None => index[t] <= tokens
  /\ \A t \in Tokens : replay[t] # None => replay[t] <= tokens
  /\ \A s \in ended : s <= tokens

(* What a call in progress relies on.  A scan has dealt with the devices   *)
(* before the one it is at, and the session it is about to delete is the   *)
(* only one of its targets that may still be alive on that device.         *)
CallHolds(c) ==
  /\ call[c].pc = "replacing" => call[c].user \in Users
  /\ call[c].pc \in {"recording", "rotating", "revoking"} =>
       call[c].sid \in Tokens /\ call[c].sid <= tokens
  /\ call[c].pc = "rotating" => call[c].hash \in Tokens
  /\ call[c].pc = "deleting" => call[c].sid \in Tokens
  /\ call[c].pc \in Scanning =>
       /\ call[c].user \in Users
       /\ \A s \in call[c].targets :
            /\ s <= tokens
            /\ Live(s) =>
                 /\ session[s].user = call[c].user
                 /\ call[c].device = "mobile" => session[s].device = "mobile"
                 /\ call[c].pc = "deleting" /\ session[s].device = call[c].device =>
                      s = call[c].sid

CallsHold == \A c \in Calls : CallHolds(c)

SInv == TypeOK /\ Known /\ CallsHold /\ SlotsNameTheSessions /\ RevokedSessionsStayGone

-----------------------------------------------------------------------------
(* What a step may do to sessions and slots.                               *)
Removes(s) ==
  /\ Live(s)
  /\ session' = [session EXCEPT ![s] = NoSession]
  /\ slot' = [x \in Users \X Devices |-> IF slot[x] = s THEN None ELSE slot[x]]
  /\ tokens' = tokens

Records(u, d) == [user : {u}, device : {d}, hash : Tokens, facts : Facts]

Makes(u, d, s) ==
  /\ s = tokens + 1
  /\ s \in Tokens
  /\ tokens' = s
  /\ \E record \in Records(u, d) : session' = Replaced(u, d, s, record)
  /\ slot' = [slot EXCEPT ![<<u, d>>] = s]

Rotates(s) ==
  /\ Live(s) /\ tokens + 1 \in Tokens /\ tokens' = tokens + 1
  /\ session' = [session EXCEPT ![s].hash = tokens + 1]
  /\ slot' = slot

LEMMA Numbers ==
  ASSUME TypeOK
  PROVE  /\ tokens \in Nat /\ MaxTokens \in Nat
         /\ tokens < MaxTokens => tokens + 1 \in Tokens
         /\ \A s \in Tokens : s \in Nat /\ s # 0
         /\ None \notin Users /\ None \notin Tokens
  BY SessionsAssumption DEF TypeOK, Tokens

LEMMA Owners ==
  ASSUME TypeOK, NEW s \in Tokens, Live(s)
  PROVE  /\ session[s] \in [user : Users, device : Devices, hash : Tokens, facts : Facts]
         /\ session[s].user \in Users /\ session[s].device \in Devices
  BY DEF TypeOK, Live

(* A slot that names a session names a live one.                           *)
LEMMA SlotIsLive ==
  ASSUME SInv, NEW u \in Users, NEW d \in Devices, slot[<<u, d>>] # None
  PROVE  slot[<<u, d>>] \in Tokens /\ Live(slot[<<u, d>>])
<1>1. slot[<<u, d>>] \in Tokens
  BY DEF SInv, TypeOK
<1>2. session[slot[<<u, d>>]].user = u
  BY DEF SInv, SlotsNameTheSessions
<1>3. NoSession.user = None /\ u # None
  BY Numbers DEF NoSession, SInv
<1> QED
  BY <1>1, <1>2, <1>3 DEF Live

LEMMA DeleteRemoves ==
  ASSUME SInv, NEW u \in Users, NEW d \in Devices, NEW s \in Tokens,
         DeleteSessionIfCurrent(u, d, s), tokens' = tokens
  PROVE  /\ UNCHANGED <<session, slot>> \/ Removes(s)
         /\ slot[<<u, d>>] = s => Removes(s)
<1>1. CASE slot[<<u, d>>] = s
  <2>1. Live(s) /\ session[s].user = u /\ session[s].device = d
    BY <1>1, SlotIsLive, Numbers DEF SInv, SlotsNameTheSessions
  <2>2. \A x \in Users \X Devices : slot[x] = s => x = <<u, d>>
    <3> SUFFICES ASSUME NEW v \in Users, NEW e \in Devices, slot[<<v, e>>] = s
                 PROVE  v = u /\ e = d
      OBVIOUS
    <3> QED
      BY <2>1, Numbers DEF SInv, SlotsNameTheSessions
  <2>3. slot \in [Users \X Devices -> Tokens \union {None}]
    BY DEF SInv, TypeOK
  <2>4. slot' = [slot EXCEPT ![<<u, d>>] = None]
    BY <1>1 DEF DeleteSessionIfCurrent
  <2>5. slot' = [x \in Users \X Devices |-> IF slot[x] = s THEN None ELSE slot[x]]
    BY <1>1, <2>2, <2>3, <2>4
  <2> QED
    BY <1>1, <2>1, <2>5 DEF DeleteSessionIfCurrent, Removes
<1>2. CASE slot[<<u, d>>] # s
  BY <1>2 DEF DeleteSessionIfCurrent
<1> QED
  BY <1>1, <1>2

LEMMA SessionKinds ==
  ASSUME SInv, [Next]_vars
  PROVE  \/ UNCHANGED <<session, slot, tokens>>
         \/ \E u \in Users, d \in Devices : Makes(u, d, tokens + 1)
         \/ \E s \in Tokens : Rotates(s) \/ Removes(s)
<1> USE DEF SInv
<1>1. ASSUME NEW c \in Calls, ReplaceSession(c)
      PROVE  \E u \in Users, d \in Devices : Makes(u, d, tokens + 1)
  <2>1. /\ call[c].user \in Users /\ call[c].device \in Devices /\ call[c].facts \in Facts
    BY <1>1 DEF ReplaceSession, TypeOK, CallsHold, CallHolds
  <2>2. tokens + 1 \in Tokens
    BY <1>1, Numbers DEF ReplaceSession
  <2>3. [user |-> call[c].user, device |-> call[c].device, hash |-> tokens + 1,
         facts |-> call[c].facts]
          \in Records(call[c].user, call[c].device)
    BY <2>1, <2>2 DEF Records
  <2> QED
    BY <1>1, <2>1, <2>2, <2>3 DEF ReplaceSession, Makes
<1>2. ASSUME NEW c \in Calls, RotateRefreshHash(c)
      PROVE  UNCHANGED <<session, slot, tokens>> \/ Rotates(call[c].sid)
  <2>1. CASE IsCurrent(c) /\ UNCHANGED slot /\ tokens' = tokens + 1
             /\ session' = [session EXCEPT ![call[c].sid].hash = tokens + 1]
    <3>1. call[c].sid \in Tokens /\ call[c].hash \in Tokens
      BY <1>2 DEF RotateRefreshHash, CallsHold, CallHolds
    <3>2. Live(call[c].sid)
      BY <2>1, <3>1, Numbers DEF IsCurrent, Live, NoSession
    <3> QED
      BY <1>2, <2>1, <3>2, Numbers DEF RotateRefreshHash, Rotates
  <2> QED
    BY <1>2, <2>1 DEF RotateRefreshHash
<1>3. ASSUME NEW c \in Calls, RotateRefreshHash(c), ~ UNCHANGED <<session, slot, tokens>>
      PROVE  call[c].sid \in Tokens
  BY <1>3 DEF RotateRefreshHash, CallsHold, CallHolds
<1>4. ASSUME NEW c \in Calls, RevokeSession(c)
      PROVE  UNCHANGED <<session, slot, tokens>> \/ \E s \in Tokens : Removes(s)
  <2>1. call[c].sid \in Tokens /\ tokens' = tokens
    BY <1>4 DEF RevokeSession, CallsHold, CallHolds
  <2> QED
    BY <1>4, <2>1, Owners, DeleteRemoves DEF RevokeSession
<1>5. ASSUME NEW c \in Calls, ScanDelete(c)
      PROVE  UNCHANGED <<session, slot, tokens>> \/ \E s \in Tokens : Removes(s)
  <2>1. /\ call[c].sid \in Tokens /\ tokens' = tokens
        /\ call[c].user \in Users /\ call[c].device \in Devices
    BY <1>5 DEF ScanDelete, CallsHold, CallHolds, TypeOK, Scanning
  <2> QED
    BY <1>5, <2>1, DeleteRemoves DEF ScanDelete
<1>6. ASSUME NEW s \in Tokens, Expire(s)
      PROVE  Removes(s)
  BY <1>6 DEF Expire, Removes
<1>7. ASSUME NEW c \in Calls,
             \/ \E u \in Users :
                  \/ \E d \in Devices : Login(c, u, d)
                  \/ LogoutAll(c, u) \/ SetRole(c, u) \/ SetAccountStatus(c, u)
                  \/ SetPermission(c, u) \/ BootstrapAdmin(c, u)
             \/ \E t \in Tokens : Refresh(c, t) \/ Logout(c, t)
             \/ RecordLogin(c) \/ Serve(c) \/ ScanHas(c) \/ ScanGet(c) \/ Crash(c)
      PROVE  UNCHANGED <<session, slot, tokens>>
  BY <1>7 DEF Login, LogoutAll, SetRole, SetAccountStatus, SetPermission, BootstrapAdmin,
     Change, Refresh, Logout, RecordLogin, Serve, ScanHas, ScanGet, Crash, redis
<1> QED
  BY <1>1, <1>2, <1>3, <1>4, <1>5, <1>6, <1>7 DEF Next, vars, redis

-----------------------------------------------------------------------------
LEMMA SlotsStep ==
  ASSUME SInv, [Next]_vars
  PROVE  SlotsNameTheSessions'
<1> USE DEF SInv
<1>0. slot \in [Users \X Devices -> Tokens \union {None}]
      /\ session \in [Tokens -> {NoSession} \union
                   [user : Users, device : Devices, hash : Tokens, facts : Facts]]
  BY DEF TypeOK
<1>1. CASE UNCHANGED <<session, slot, tokens>>
  BY <1>1 DEF SlotsNameTheSessions, Live
<1>2. ASSUME NEW u \in Users, NEW d \in Devices, Makes(u, d, tokens + 1)
      PROVE  SlotsNameTheSessions'
  <2> DEFINE s == tokens + 1
  <2>1. PICK record \in Records(u, d) :
          session' = Replaced(u, d, s, record)
    BY <1>2 DEF Makes
  <2>2. s \in Tokens /\ slot' = [slot EXCEPT ![<<u, d>>] = s] /\ ~Live(s)
    BY <1>2, Numbers DEF Makes, Known
  <2>3. /\ session'[s] = record /\ record.user = u /\ record.device = d
        /\ \A t \in Tokens : t # s =>
             session'[t] = IF t = slot[<<u, d>>] THEN NoSession ELSE session[t]
    BY <2>1, <2>2 DEF Replaced, Records
  <2>4. \A v \in Users, e \in Devices : slot'[<<v, e>>] = IF v = u /\ e = d THEN s ELSE slot[<<v, e>>]
    BY <1>0, <2>2
  <2>5. \A v \in Users, e \in Devices : slot[<<v, e>>] # s
    BY <2>2, SlotIsLive, Numbers
  <2>6. ASSUME NEW t \in Tokens, Live(t)'
        PROVE  slot'[<<session'[t].user, session'[t].device>>] = t
    <3>1. CASE t = s
      BY <2>3, <2>4, <3>1
    <3>2. CASE t # s
      <4>1. t # slot[<<u, d>>] /\ session'[t] = session[t] /\ Live(t)
        BY <2>3, <2>6, <3>2 DEF Live
      <4>2. slot[<<session[t].user, session[t].device>>] = t
        BY <4>1 DEF SlotsNameTheSessions
      <4> QED
        BY <2>4, <4>1, <4>2, Owners
    <3> QED
      BY <3>1, <3>2
  <2>7. ASSUME NEW v \in Users, NEW e \in Devices, slot'[<<v, e>>] # None
        PROVE  session'[slot'[<<v, e>>]].user = v /\ session'[slot'[<<v, e>>]].device = e
    <3>1. CASE v = u /\ e = d
      BY <2>3, <2>4, <3>1
    <3>2. CASE ~(v = u /\ e = d)
      <4>1. slot'[<<v, e>>] = slot[<<v, e>>] /\ slot[<<v, e>>] # s
        BY <2>4, <2>5, <3>2
      <4>2. /\ slot[<<v, e>>] \in Tokens
            /\ session[slot[<<v, e>>]].user = v /\ session[slot[<<v, e>>]].device = e
        BY <2>7, <4>1, SlotIsLive DEF SlotsNameTheSessions
      <4>3. slot[<<v, e>>] # slot[<<u, d>>]
        BY <3>2, <4>2, Numbers DEF SlotsNameTheSessions
      <4> QED
        BY <2>3, <4>1, <4>2, <4>3
    <3> QED
      BY <3>1, <3>2
  <2> QED
    BY <2>6, <2>7 DEF SlotsNameTheSessions
<1>3. ASSUME NEW s \in Tokens, Rotates(s)
      PROVE  SlotsNameTheSessions'
  <2>1. /\ \A t \in Tokens : session'[t].user = session[t].user
                             /\ session'[t].device = session[t].device
        /\ \A t \in Tokens : Live(t)' <=> Live(t)
    <3>1. session'[s].user = session[s].user /\ session'[s].device = session[s].device
      BY <1>0, <1>3, Owners DEF Rotates
    <3>2. session[s].user # None
      BY <1>3, Owners, Numbers DEF Rotates
    <3> QED
      BY <1>0, <1>3, <3>1, <3>2 DEF Rotates, Live, NoSession
  <2>2. \A u \in Users, d \in Devices : slot[<<u, d>>] # None => slot[<<u, d>>] \in Tokens
    BY <1>0
  <2> QED
    BY <1>3, <2>1, <2>2 DEF Rotates, SlotsNameTheSessions
<1>4. ASSUME NEW s \in Tokens, Removes(s)
      PROVE  SlotsNameTheSessions'
  <2>1. /\ \A u \in Users, d \in Devices :
             slot'[<<u, d>>] = IF slot[<<u, d>>] = s THEN None ELSE slot[<<u, d>>]
        /\ session'[s] = NoSession
        /\ \A t \in Tokens : t # s => session'[t] = session[t]
    BY <1>0, <1>4 DEF Removes
  <2>2. \A t \in Tokens : Live(t)' => t # s /\ Live(t)
    BY <2>1 DEF Live
  <2>3. \A u \in Users, d \in Devices : slot[<<u, d>>] # None => slot[<<u, d>>] \in Tokens
    BY <1>0
  <2> QED
    BY <2>1, <2>2, <2>3, Owners DEF SlotsNameTheSessions
<1> QED
  BY <1>1, <1>2, <1>3, <1>4, SessionKinds

(* No session that has been made comes back or changes hands.              *)
LEMMA NoneReturns ==
  ASSUME SInv, [Next]_vars
  PROVE  /\ tokens' \in Nat /\ tokens' >= tokens
         /\ \A s \in Tokens : s <= tokens /\ Live(s)' =>
              /\ Live(s)
              /\ session'[s].user = session[s].user
              /\ session'[s].device = session[s].device
         /\ \A s \in Tokens : s > tokens' => ~Live(s)'
<1> USE DEF SInv
<1>0. session \in [Tokens -> {NoSession} \union
                   [user : Users, device : Devices, hash : Tokens, facts : Facts]]
  BY DEF TypeOK
<1>1. CASE UNCHANGED <<session, slot, tokens>>
  BY <1>1, Numbers DEF Live, Known
<1>2. ASSUME NEW u \in Users, NEW d \in Devices, Makes(u, d, tokens + 1)
      PROVE  /\ tokens' = tokens + 1
             /\ \A s \in Tokens : s # tokens + 1 /\ Live(s)' => session'[s] = session[s]
  BY <1>2, Numbers DEF Makes, Replaced, Live
<1>3. ASSUME NEW s \in Tokens, Rotates(s)
      PROVE  /\ tokens' = tokens + 1
             /\ \A t \in Tokens : Live(t)' =>
                  /\ Live(t)
                  /\ session'[t].user = session[t].user
                  /\ session'[t].device = session[t].device
  BY <1>0, <1>3, Owners DEF Rotates, Live
<1>4. ASSUME NEW s \in Tokens, Removes(s)
      PROVE  /\ tokens' = tokens
             /\ \A t \in Tokens : Live(t)' => session'[t] = session[t]
  BY <1>0, <1>4 DEF Removes, Live
<1>5. CASE \E u \in Users, d \in Devices : Makes(u, d, tokens + 1)
  BY <1>2, <1>5, Numbers DEF Live, Known
<1>6. CASE \E s \in Tokens : Rotates(s)
  BY <1>3, <1>6, Numbers DEF Known
<1>7. CASE \E s \in Tokens : Removes(s)
  BY <1>4, <1>7, Numbers DEF Live, Known
<1> QED
  BY <1>1, <1>5, <1>6, <1>7, SessionKinds

-----------------------------------------------------------------------------
CallRecords ==
  [pc : {"idle", "replacing", "recording", "rotating", "revoking",
         "scanning", "getting", "deleting", "booted"},
   user : Users \union {None}, device : Devices, sid : Tokens \union {None},
   hash : Tokens \union {0}, facts : Facts, targets : SUBSET Tokens]

LEMMA NoCallType == NoCall \in CallRecords
  BY SessionsAssumption DEF NoCall, CallRecords, NoFacts, Facts, Roles, Devices

LEMMA FactsTypes ==
  ASSUME TypeOK, NEW u \in Users
  PROVE  /\ FactsOf(u) \in Facts /\ NoFacts \in Facts
         /\ LiveOf(u) \subseteq Tokens
         /\ account[u].version + 1 <= MaxChanges => account[u].version + 1 \in 0..MaxChanges
  BY SessionsAssumption DEF TypeOK, FactsOf, Facts, NoFacts, Roles, LiveOf

LEMMA WithSid ==
  ASSUME call \in [Calls -> CallRecords], NEW c \in Calls, NEW s \in Tokens,
         NEW pc \in {"recording", "revoking", "deleting"}
  PROVE  [call EXCEPT ![c].pc = pc, ![c].sid = s] \in [Calls -> CallRecords]
<1>1. [call[c] EXCEPT !.pc = pc] \in CallRecords
  BY DEF CallRecords
<1>2. [[call[c] EXCEPT !.pc = pc] EXCEPT !.sid = s] \in CallRecords
  BY <1>1 DEF CallRecords
<1>3. [call EXCEPT ![c].pc = pc, ![c].sid = s]
        = [call EXCEPT ![c] = [[call[c] EXCEPT !.pc = pc] EXCEPT !.sid = s]]
  OBVIOUS
<1> QED
  BY <1>2, <1>3

(* What a step may do to a call.                                           *)
LEMMA CallType ==
  ASSUME SInv, [Next]_vars
  PROVE  call' \in [Calls -> CallRecords]
<1> USE DEF SInv
<1>0. call \in [Calls -> CallRecords]
  BY DEF TypeOK, CallRecords
<1>1. ASSUME NEW c \in Calls, NEW u \in Users, NEW d \in Devices, Login(c, u, d)
      PROVE  call' \in [Calls -> CallRecords]
  BY <1>0, <1>1, NoCallType, FactsTypes DEF Login, Begin, CallRecords
<1>2. ASSUME NEW c \in Calls, NEW u \in Users, NEW facts \in Facts, Scan(c, u, facts)
      PROVE  call' \in [Calls -> CallRecords]
  BY <1>0, <1>2, NoCallType, FactsTypes DEF Scan, Begin, CallRecords
<1>3. ASSUME NEW c \in Calls, NEW u \in Users, NEW role \in Roles, NEW active \in BOOLEAN,
             Change(c, u, role, active)
      PROVE  call' \in [Calls -> CallRecords]
  <2>1. [role |-> role, version |-> account[u].version + 1] \in Facts
    BY <1>3, FactsTypes DEF Change, Facts
  <2> QED
    BY <1>2, <1>3, <2>1 DEF Change
<1>4. ASSUME NEW c \in Calls, NEW u \in Users,
             LogoutAll(c, u) \/ SetRole(c, u) \/ SetAccountStatus(c, u)
               \/ SetPermission(c, u) \/ BootstrapAdmin(c, u)
      PROVE  call' \in [Calls -> CallRecords]
  <2>1. CASE LogoutAll(c, u)
    BY <1>2, <2>1, FactsTypes DEF LogoutAll
  <2>2. account[u].role \in Roles /\ account[u].active \in BOOLEAN /\ "admin" \in Roles
    BY DEF TypeOK, Roles
  <2>3. CASE SetRole(c, u) \/ SetAccountStatus(c, u) \/ SetPermission(c, u)
    BY <1>3, <2>2, <2>3 DEF SetRole, SetAccountStatus, SetPermission
  <2>4. CASE BootstrapAdmin(c, u)
    <3>1. CASE Change(c, u, "admin", account[u].active)
      BY <1>3, <2>2, <3>1
    <3>2. CASE Begin(c, [NoCall EXCEPT !.pc = "booted", !.user = u])
      BY <1>0, <3>2, NoCallType DEF Begin, CallRecords
    <3> QED
      BY <2>4, <3>1, <3>2 DEF BootstrapAdmin
  <2> QED
    BY <1>4, <2>1, <2>3, <2>4
<1>5. ASSUME NEW c \in Calls, NEW t \in Tokens, Refresh(c, t) \/ Logout(c, t)
      PROVE  call' \in [Calls -> CallRecords]
  <2>1. CASE Refresh(c, t)
    BY <1>0, <2>1, NoCallType DEF Refresh, Begin, CallRecords, TypeOK
  <2>2. CASE Logout(c, t)
    BY <1>0, <2>2, NoCallType DEF Logout, Begin, CallRecords
  <2> QED
    BY <1>5, <2>1, <2>2
<1>6. ASSUME NEW c \in Calls, ReplaceSession(c)
      PROVE  call' \in [Calls -> CallRecords]
  BY <1>0, <1>6, Numbers, WithSid DEF ReplaceSession
<1>7. ASSUME NEW c \in Calls, Return(c)
      PROVE  call' \in [Calls -> CallRecords]
  BY <1>0, <1>7, NoCallType DEF Return
<1>8. ASSUME NEW c \in Calls, NEW pc \in {"revoking", "getting"}, Goto(c, pc)
      PROVE  call' \in [Calls -> CallRecords]
  BY <1>0, <1>8 DEF Goto, CallRecords
<1>9. ASSUME NEW c \in Calls, RotateRefreshHash(c)
      PROVE  call' \in [Calls -> CallRecords]
  <2>1. CASE Return(c)
    BY <1>7, <2>1
  <2>2. CASE ~Return(c)
    <3>1. /\ replay[call[c].hash] # None
          /\ call' = [call EXCEPT ![c].pc = "revoking", ![c].sid = replay[call[c].hash]]
      BY <1>9, <2>2 DEF RotateRefreshHash
    <3>2. call[c].hash \in Tokens
      BY <1>9 DEF RotateRefreshHash, CallsHold, CallHolds
    <3>3. replay[call[c].hash] \in Tokens
      BY <3>1, <3>2 DEF TypeOK
    <3> QED
      BY <1>0, <3>1, <3>3, WithSid
  <2> QED
    BY <2>1, <2>2
<1>10. ASSUME NEW c \in Calls, ScanNext(c)
       PROVE  call' \in [Calls -> CallRecords]
  BY <1>0, <1>7, <1>10 DEF ScanNext, CallRecords, Devices
<1>11. ASSUME NEW c \in Calls, ScanGet(c)
       PROVE  call' \in [Calls -> CallRecords]
  <2>1. CASE Return(c)
    BY <1>7, <2>1
  <2>2. CASE ~Return(c)
    <3> DEFINE s == slot[<<call[c].user, call[c].device>>]
    <3>1. s # None /\ call' = [call EXCEPT ![c].pc = "deleting", ![c].sid = s]
      BY <1>11, <2>2 DEF ScanGet
    <3>2. call[c].user \in Users /\ call[c].device \in Devices
      BY <1>0, <1>11 DEF ScanGet, CallsHold, CallHolds, Scanning, CallRecords
    <3>3. s \in Tokens
      BY <3>1, <3>2 DEF TypeOK
    <3> HIDE DEF s
    <3> QED
      BY <1>0, <3>1, <3>3, WithSid
  <2> QED
    BY <2>1, <2>2
<1>12. ASSUME NEW c \in Calls, RecordLogin(c) \/ RevokeSession(c) \/ Serve(c)
                                \/ ScanHas(c) \/ ScanDelete(c) \/ Crash(c)
       PROVE  call' \in [Calls -> CallRecords]
  BY <1>7, <1>8, <1>10, <1>12 DEF RecordLogin, RevokeSession, Serve, ScanHas, ScanDelete, Crash
<1>13. CASE (\E s \in Tokens : Expire(s)) \/ UNCHANGED vars
  BY <1>0, <1>13 DEF Expire, vars
<1> QED
  BY <1>1, <1>4, <1>5, <1>6, <1>9, <1>11, <1>12, <1>13 DEF Next

(* What a step may do to the tokens' keys.                                 *)
Indexes(h, s) ==
  /\ h \in Tokens /\ s \in Tokens /\ tokens + 1 \in Tokens
  /\ tokens' = tokens + 1 /\ s <= tokens + 1
  /\ index' = [index EXCEPT ![tokens + 1] = s]
  /\ \/ UNCHANGED <<replay, exchanged>>
     \/ /\ s <= tokens
        /\ replay' = [replay EXCEPT ![h] = s]
        /\ exchanged' = exchanged \union {<<h, tokens + 1>>}

LEMMA TokenKinds ==
  ASSUME SInv, [Next]_vars
  PROVE  \/ UNCHANGED <<index, replay, exchanged, tokens>>
         \/ \E h, s \in Tokens : Indexes(h, s)
<1> USE DEF SInv
<1>1. ASSUME NEW c \in Calls, ReplaceSession(c)
      PROVE  Indexes(tokens + 1, tokens + 1)
  BY <1>1, Numbers DEF ReplaceSession, Indexes, history
<1>2. ASSUME NEW c \in Calls, RotateRefreshHash(c)
      PROVE  \/ UNCHANGED <<index, replay, exchanged, tokens>>
             \/ Indexes(call[c].hash, call[c].sid)
  <2>1. call[c].sid \in Tokens /\ call[c].sid <= tokens /\ call[c].hash \in Tokens
    BY <1>2 DEF RotateRefreshHash, CallsHold, CallHolds
  <2> QED
    BY <1>2, <2>1, Numbers DEF RotateRefreshHash, Indexed, Indexes
<1>3. ASSUME NEW c \in Calls,
             \/ \E u \in Users :
                  \/ \E d \in Devices : Login(c, u, d)
                  \/ LogoutAll(c, u) \/ SetRole(c, u) \/ SetAccountStatus(c, u)
                  \/ SetPermission(c, u) \/ BootstrapAdmin(c, u)
             \/ \E t \in Tokens : Refresh(c, t) \/ Logout(c, t)
             \/ RecordLogin(c) \/ RevokeSession(c) \/ Serve(c) \/ ScanHas(c)
             \/ ScanGet(c) \/ ScanDelete(c) \/ Crash(c)
      PROVE  UNCHANGED <<index, replay, exchanged, tokens>>
  BY <1>3 DEF Login, LogoutAll, SetRole, SetAccountStatus, SetPermission, BootstrapAdmin,
     Change, Refresh, Logout, RecordLogin, RevokeSession, Serve, ScanHas, ScanGet,
     ScanDelete, Crash, redis, history
<1>4. CASE (\E s \in Tokens : Expire(s)) \/ UNCHANGED vars
  BY <1>4 DEF Expire, vars, redis, history
<1>5. ASSUME NEW c \in Calls, RotateRefreshHash(c)
      PROVE  call[c].sid \in Tokens /\ call[c].hash \in Tokens
  BY <1>5 DEF RotateRefreshHash, CallsHold, CallHolds
<1>6. ASSUME NEW c \in Calls, ReplaceSession(c)
      PROVE  tokens + 1 \in Tokens
  BY <1>6, Numbers DEF ReplaceSession
<1> QED
  BY <1>1, <1>2, <1>3, <1>4, <1>5, <1>6 DEF Next

(* What a step may report.                                                 *)
LEMMA ReportKinds ==
  ASSUME SInv, [Next]_vars
  PROVE  \/ UNCHANGED <<ended, enforced>>
         \/ \E c \in Calls : /\ RevokeSession(c)
                             /\ ended' = ended \union {call[c].sid}
                             /\ enforced' = enforced
         \/ \E c \in Calls :
              /\ ScanHas(c) \/ ScanDelete(c)
              /\ call[c].device = "mobile"
              /\ ended' = ended \union call[c].targets
              /\ enforced' = [enforced EXCEPT ![call[c].user] =
                   IF @ < call[c].facts.version THEN call[c].facts.version ELSE @]
<1>1. ASSUME NEW c \in Calls,
             \/ \E u \in Users :
                  \/ \E d \in Devices : Login(c, u, d)
                  \/ LogoutAll(c, u) \/ SetRole(c, u) \/ SetAccountStatus(c, u)
                  \/ SetPermission(c, u) \/ BootstrapAdmin(c, u)
             \/ \E t \in Tokens : Refresh(c, t) \/ Logout(c, t)
             \/ ReplaceSession(c) \/ RecordLogin(c) \/ RotateRefreshHash(c) \/ Serve(c)
             \/ ScanGet(c) \/ Crash(c)
      PROVE  UNCHANGED <<ended, enforced>>
  BY <1>1 DEF Login, LogoutAll, SetRole, SetAccountStatus, SetPermission, BootstrapAdmin,
     Change, Refresh, Logout, ReplaceSession, RecordLogin, RotateRefreshHash, Serve, ScanGet,
     Crash, history
<1>2. ASSUME NEW c \in Calls, RevokeSession(c)
      PROVE  ended' = ended \union {call[c].sid} /\ enforced' = enforced
  BY <1>2 DEF RevokeSession
<1>3. ASSUME NEW c \in Calls, ScanHas(c) \/ ScanDelete(c)
      PROVE  \/ UNCHANGED <<ended, enforced>>
             \/ /\ call[c].device = "mobile"
                /\ ended' = ended \union call[c].targets
                /\ enforced' = [enforced EXCEPT ![call[c].user] =
                     IF @ < call[c].facts.version THEN call[c].facts.version ELSE @]
  BY <1>3 DEF ScanHas, ScanDelete, ScanNext, IsLastDevice
<1>4. CASE (\E s \in Tokens : Expire(s)) \/ UNCHANGED vars
  BY <1>4 DEF Expire, vars, history
<1> QED
  BY <1>1, <1>2, <1>3, <1>4 DEF Next

LEMMA AccountType ==
  ASSUME SInv, [Next]_vars
  PROVE  account' \in [Users -> [role : Roles, active : BOOLEAN, version : 0..MaxChanges]]
<1> USE DEF SInv
<1>0. account \in [Users -> [role : Roles, active : BOOLEAN, version : 0..MaxChanges]]
  BY DEF TypeOK
<1>1. ASSUME NEW c \in Calls, NEW u \in Users, NEW role \in Roles, NEW active \in BOOLEAN,
             Change(c, u, role, active)
      PROVE  account' \in [Users -> [role : Roles, active : BOOLEAN, version : 0..MaxChanges]]
  <2>1. [role |-> role, active |-> active, version |-> account[u].version + 1]
          \in [role : Roles, active : BOOLEAN, version : 0..MaxChanges]
    BY <1>1, FactsTypes DEF Change
  <2> QED
    BY <1>0, <1>1, <2>1 DEF Change
<1>2. ASSUME NEW c \in Calls, NEW u \in Users,
             SetRole(c, u) \/ SetAccountStatus(c, u) \/ SetPermission(c, u)
               \/ BootstrapAdmin(c, u)
      PROVE  account' \in [Users -> [role : Roles, active : BOOLEAN, version : 0..MaxChanges]]
  <2>1. account[u].role \in Roles /\ account[u].active \in BOOLEAN /\ "admin" \in Roles
    BY <1>0 DEF Roles
  <2> QED
    BY <1>0, <1>1, <1>2, <2>1 DEF SetRole, SetAccountStatus, SetPermission, BootstrapAdmin
<1>3. ASSUME NEW c \in Calls,
             \/ \E u \in Users : \/ \E d \in Devices : Login(c, u, d)
                                \/ LogoutAll(c, u)
             \/ \E t \in Tokens : Refresh(c, t) \/ Logout(c, t)
             \/ ReplaceSession(c) \/ RecordLogin(c) \/ RotateRefreshHash(c)
             \/ RevokeSession(c) \/ Serve(c)
             \/ ScanHas(c) \/ ScanGet(c) \/ ScanDelete(c)
             \/ Crash(c)
      PROVE  account' = account
  BY <1>3 DEF Login, LogoutAll, Refresh, Logout, ReplaceSession, RecordLogin,
     RotateRefreshHash, RevokeSession, Serve, ScanHas, ScanGet, ScanDelete, Crash
<1>4. CASE (\E s \in Tokens : Expire(s)) \/ UNCHANGED vars
  BY <1>0, <1>4 DEF Expire, vars
<1> QED
  BY <1>0, <1>2, <1>3, <1>4 DEF Next

LEMMA TypeStep ==
  ASSUME SInv, [Next]_vars
  PROVE  TypeOK'
<1> USE DEF SInv
<1>1. session' \in [Tokens -> {NoSession} \union
                     [user : Users, device : Devices, hash : Tokens, facts : Facts]]
      /\ slot' \in [Users \X Devices -> Tokens \union {None}]
  <2>0. session \in [Tokens -> {NoSession} \union
                       [user : Users, device : Devices, hash : Tokens, facts : Facts]]
        /\ slot \in [Users \X Devices -> Tokens \union {None}]
    BY DEF TypeOK
  <2>1. ASSUME NEW u \in Users, NEW d \in Devices, Makes(u, d, tokens + 1)
        PROVE  session' \in [Tokens -> {NoSession} \union
                              [user : Users, device : Devices, hash : Tokens, facts : Facts]]
               /\ slot' \in [Users \X Devices -> Tokens \union {None}]
    <3>1. Records(u, d) \subseteq [user : Users, device : Devices, hash : Tokens, facts : Facts]
      BY DEF Records
    <3> QED
      BY <2>0, <2>1, <3>1 DEF Makes, Replaced
  <2>2. ASSUME NEW s \in Tokens, Rotates(s)
        PROVE  session' \in [Tokens -> {NoSession} \union
                              [user : Users, device : Devices, hash : Tokens, facts : Facts]]
               /\ slot' \in [Users \X Devices -> Tokens \union {None}]
    <3>1. [session[s] EXCEPT !.hash = tokens + 1]
            \in [user : Users, device : Devices, hash : Tokens, facts : Facts]
      BY <2>2, Owners DEF Rotates
    <3> QED
      BY <2>0, <2>2, <3>1 DEF Rotates
  <2>3. ASSUME NEW s \in Tokens, Removes(s)
        PROVE  session' \in [Tokens -> {NoSession} \union
                              [user : Users, device : Devices, hash : Tokens, facts : Facts]]
               /\ slot' \in [Users \X Devices -> Tokens \union {None}]
    BY <2>0, <2>3 DEF Removes
  <2> QED
    BY <2>0, <2>1, <2>2, <2>3, SessionKinds
<1>2. /\ index' \in [Tokens -> Tokens \union {None}]
      /\ replay' \in [Tokens -> Tokens \union {None}]
      /\ exchanged' \subseteq Tokens \X Tokens
      /\ tokens' \in 0..MaxTokens
  <2>0. /\ index \in [Tokens -> Tokens \union {None}]
        /\ replay \in [Tokens -> Tokens \union {None}]
        /\ exchanged \subseteq Tokens \X Tokens
        /\ tokens \in 0..MaxTokens
    BY DEF TypeOK
  <2>1. ASSUME NEW h \in Tokens, NEW s \in Tokens, Indexes(h, s)
        PROVE  /\ index' \in [Tokens -> Tokens \union {None}]
               /\ replay' \in [Tokens -> Tokens \union {None}]
               /\ exchanged' \subseteq Tokens \X Tokens
               /\ tokens' \in 0..MaxTokens
    <3>1. tokens' \in 0..MaxTokens
      BY <2>1, Numbers DEF Indexes, Tokens
    <3>2. /\ replay' \in [Tokens -> Tokens \union {None}]
          /\ exchanged' \subseteq Tokens \X Tokens
      BY <2>0, <2>1 DEF Indexes
    <3> QED
      BY <2>0, <2>1, <3>1, <3>2 DEF Indexes
  <2> QED
    BY <2>0, <2>1, TokenKinds
<1>3. ended' \subseteq Tokens
  BY ReportKinds DEF TypeOK, RevokeSession, CallsHold, CallHolds
<1>4. enforced' \in [Users -> 0..MaxChanges]
  <2>1. \A c \in Calls : call[c].facts.version \in 0..MaxChanges
    BY DEF TypeOK, Facts
  <2> QED
    BY <2>1, ReportKinds DEF TypeOK
<1> QED
  BY <1>1, <1>2, <1>3, <1>4, CallType, AccountType DEF TypeOK, CallRecords

LEMMA KnownStep ==
  ASSUME SInv, [Next]_vars
  PROVE  Known'
<1> USE DEF SInv
<1>1. \A s \in Tokens : s > tokens' => ~Live(s)'
  BY NoneReturns
<1>2. /\ \A t \in Tokens : index'[t] # None => index'[t] <= tokens'
      /\ \A t \in Tokens : replay'[t] # None => replay'[t] <= tokens'
  <2>1. /\ index \in [Tokens -> Tokens \union {None}]
        /\ replay \in [Tokens -> Tokens \union {None}]
    BY DEF TypeOK
  <2> QED
    BY <2>1, TokenKinds, Numbers DEF Known, Indexes
<1>3. \A s \in ended' : s <= tokens'
  <2>1. ended \subseteq Tokens /\ \A c \in Calls : call[c].targets \subseteq Tokens
    BY DEF TypeOK
  <2>2. \A c \in Calls : call[c].pc = "revoking" => call[c].sid \in Tokens /\ call[c].sid <= tokens
    BY DEF CallsHold, CallHolds
  <2>3. \A c \in Calls : call[c].pc \in Scanning => \A s \in call[c].targets : s <= tokens
    BY DEF CallsHold, CallHolds
  <2>4. \A s \in ended : s \in Tokens /\ s <= tokens
    BY <2>1 DEF Known
  <2>5. ASSUME NEW c \in Calls, RevokeSession(c), ended' = ended \union {call[c].sid}
        PROVE  \A s \in ended' : s \in Tokens /\ s <= tokens
    BY <2>2, <2>4, <2>5 DEF RevokeSession
  <2>6. ASSUME NEW c \in Calls, ScanHas(c) \/ ScanDelete(c),
               ended' = ended \union call[c].targets
        PROVE  \A s \in ended' : s \in Tokens /\ s <= tokens
    BY <2>1, <2>3, <2>4, <2>6 DEF ScanHas, ScanDelete, Scanning
  <2>7. \A s \in ended' : s \in Tokens /\ s <= tokens
    BY <2>4, <2>5, <2>6, ReportKinds
  <2> QED
    BY <2>7, NoneReturns, Numbers
<1> QED
  BY <1>1, <1>2, <1>3 DEF Known

-----------------------------------------------------------------------------
(* What was reported as revoked is gone.                                   *)
LEMMA RevokedStep ==
  ASSUME SInv, [Next]_vars
  PROVE  RevokedSessionsStayGone'
<1> USE DEF SInv
<1>1. \A s \in ended : ~Live(s)'
  BY NoneReturns DEF TypeOK, Known, RevokedSessionsStayGone
<1>0. session \in [Tokens -> {NoSession} \union
                   [user : Users, device : Devices, hash : Tokens, facts : Facts]]
  BY DEF TypeOK
<1>2. ASSUME NEW c \in Calls, RevokeSession(c), NEW s, s = call[c].sid
      PROVE  ~Live(s)'
  <2>1. s \in Tokens /\ tokens' = tokens
    BY <1>2 DEF RevokeSession, CallsHold, CallHolds
  <2>2. CASE Live(s)
    <3>1. Removes(s)
      BY <1>2, <2>1, <2>2, Owners, DeleteRemoves DEF RevokeSession, SlotsNameTheSessions
    <3> QED
      BY <1>0, <2>1, <3>1 DEF Removes, Live
  <2>3. CASE ~Live(s)
    BY <1>2, <2>3 DEF RevokeSession, Live
  <2> QED
    BY <2>2, <2>3
<1>3. ASSUME NEW c \in Calls, ScanHas(c) \/ ScanDelete(c), call[c].device = "mobile",
             ended' = ended \union call[c].targets, NEW s \in call[c].targets
      PROVE  ~Live(s)'
  <2>1. /\ s \in Tokens /\ s <= tokens /\ call[c].user \in Users
        /\ Live(s) => /\ session[s].user = call[c].user
                      /\ session[s].device = "mobile"
                      /\ call[c].pc = "deleting" => s = call[c].sid
    BY <1>3 DEF ScanHas, ScanDelete, CallsHold, CallHolds, Scanning, TypeOK
  <2>2. SUFFICES ASSUME Live(s) PROVE ~Live(s)'
    BY <2>1, NoneReturns
  <2>3. slot[<<call[c].user, "mobile">>] = s
    BY <2>1, <2>2 DEF SlotsNameTheSessions
  <2>4. ScanDelete(c)
    <3>1. s \notin ended
      BY <2>2 DEF RevokedSessionsStayGone
    <3>2. ~ScanHas(c)
      BY <1>3, <2>1, <2>3, <3>1, Numbers DEF ScanHas
    <3> QED
      BY <1>3, <3>2
  <2>5. Removes(s)
    BY <1>3, <2>1, <2>2, <2>3, <2>4, DeleteRemoves DEF ScanDelete, Devices
  <2> QED
    BY <1>0, <2>1, <2>5 DEF Removes, Live
<1>4. ASSUME NEW c \in Calls, RevokeSession(c), ended' = ended \union {call[c].sid}
      PROVE  \A s \in ended' : ~Live(s)'
  BY <1>1, <1>2, <1>4
<1>5. ASSUME NEW c \in Calls, ScanHas(c) \/ ScanDelete(c), call[c].device = "mobile",
             ended' = ended \union call[c].targets
      PROVE  \A s \in ended' : ~Live(s)'
  BY <1>1, <1>3, <1>5
<1>6. CASE ended' = ended
  BY <1>1, <1>6 DEF RevokedSessionsStayGone
<1> QED
  BY <1>4, <1>5, <1>6, ReportKinds DEF RevokedSessionsStayGone

-----------------------------------------------------------------------------
(* A step keeps what the calls in progress rely on: the calls that do not  *)
(* move lose nothing, and the one that moves has established what its next *)
(* step needs.                                                             *)
Moves(c) == \A x \in Calls : x # c => call'[x] = call[x]

LEMMA Later ==
  ASSUME SInv, [Next]_vars, NEW s \in Tokens, s <= tokens
  PROVE  s <= tokens'
<1>1. tokens \in Nat /\ tokens' \in Nat /\ tokens <= tokens' /\ s \in Nat
  BY NoneReturns, Numbers DEF SInv
<1> QED
  BY <1>1

LEMMA OtherCalls ==
  ASSUME SInv, [Next]_vars, NEW c \in Calls, call'[c] = call[c]
  PROVE  CallHolds(c)'
<1>1. CallHolds(c) /\ call[c].targets \subseteq Tokens
  BY DEF SInv, CallsHold, TypeOK
<1>3. ASSUME call[c].pc \in {"recording", "rotating", "revoking"}
      PROVE  call[c].sid \in Tokens /\ call[c].sid <= tokens'
  <2>1. call[c].sid \in Tokens /\ call[c].sid <= tokens
    BY <1>1, <1>3 DEF CallHolds
  <2> QED
    BY <2>1, Later
<1>4. ASSUME call[c].pc \in Scanning, NEW s \in call[c].targets
      PROVE  /\ s <= tokens'
             /\ Live(s)' =>
                  /\ session'[s].user = call[c].user
                  /\ call[c].device = "mobile" => session'[s].device = "mobile"
                  /\ call[c].pc = "deleting" /\ session'[s].device = call[c].device =>
                       s = call[c].sid
  <2>1. s \in Tokens /\ s <= tokens
    BY <1>1, <1>4 DEF CallHolds
  <2>2. Live(s)' => /\ Live(s)
                    /\ session'[s].user = session[s].user
                    /\ session'[s].device = session[s].device
    BY <2>1, NoneReturns
  <2>3. s <= tokens'
    BY <2>1, Later
  <2> QED
    BY <1>1, <1>4, <2>2, <2>3 DEF CallHolds
<1> QED
  BY <1>1, <1>3, <1>4 DEF CallHolds

LEMMA IdleCalls ==
  ASSUME NEW c \in Calls, call'[c].pc \in {"idle", "booted"}
  PROVE  CallHolds(c)'
  BY DEF CallHolds, Scanning

LEMMA BusyCalls ==
  ASSUME NEW c \in Calls, call'[c].pc \in {"recording", "rotating", "revoking"},
         call'[c].sid \in Tokens, call'[c].sid <= tokens',
         call'[c].pc = "rotating" => call'[c].hash \in Tokens
  PROVE  CallHolds(c)'
  BY DEF CallHolds, Scanning

LEMMA NewScans ==
  ASSUME SInv, NEW c \in Calls, NEW u \in Users, NEW facts,
         Scan(c, u, facts), UNCHANGED <<session, tokens>>
  PROVE  CallHolds(c)' /\ Moves(c)
<1> USE DEF SInv
<1>1. call' = [call EXCEPT ![c] = [NoCall EXCEPT !.pc = "scanning", !.user = u, !.facts = facts,
                                                 !.targets = LiveOf(u)]]
  BY DEF Scan, Begin
<1>2. call \in [Calls -> CallRecords]
  BY DEF TypeOK, CallRecords
<1>3. /\ call'[c].pc = "scanning" /\ call'[c].user = u /\ call'[c].device = "pc"
      /\ call'[c].targets = LiveOf(u)
  BY <1>1, <1>2 DEF NoCall
<1>4. ASSUME NEW s \in LiveOf(u)
      PROVE  s <= tokens' /\ session'[s].user = u
  BY <1>4, Numbers DEF LiveOf, Known
<1> QED
  BY <1>1, <1>2, <1>3, <1>4 DEF CallHolds, Scanning, Moves

LEMMA OldScans ==
  ASSUME SInv, [Next]_vars, NEW c \in Calls, ScanHas(c) \/ ScanGet(c) \/ ScanDelete(c)
  PROVE  CallHolds(c)' /\ Moves(c)
<1> USE DEF SInv
<1> DEFINE u == call[c].user
           d == call[c].device
<1>0. call \in [Calls -> CallRecords]
  BY DEF TypeOK, CallRecords
<1>1. /\ u \in Users /\ d \in Devices
      /\ call[c].pc \in Scanning
      /\ call[c].targets \subseteq Tokens
      /\ \A s \in call[c].targets : s <= tokens'
  <2>1. call[c].pc \in Scanning /\ d \in Devices /\ call[c].targets \subseteq Tokens
    BY <1>0 DEF ScanHas, ScanGet, ScanDelete, Scanning, CallRecords
  <2>2. u \in Users /\ \A s \in call[c].targets : s <= tokens
    BY <2>1 DEF CallsHold, CallHolds
  <2> QED
    BY <2>1, <2>2, Later
<1>2. ASSUME NEW s \in call[c].targets, Live(s)'
      PROVE  /\ s \in Tokens /\ Live(s)
             /\ session[s].user = u /\ session'[s].user = u
             /\ session'[s].device = session[s].device
             /\ d = "mobile" => session[s].device = "mobile"
             /\ call[c].pc = "deleting" /\ session[s].device = d => s = call[c].sid
             /\ slot[<<u, session[s].device>>] = s
             /\ session[s].device \in Devices
  <2>1. s \in Tokens /\ s <= tokens
    BY <1>1 DEF CallsHold, CallHolds
  <2>2. Live(s) /\ session'[s].user = session[s].user /\ session'[s].device = session[s].device
    BY <1>2, <2>1, NoneReturns
  <2> QED
    BY <1>1, <2>1, <2>2, Owners DEF CallsHold, CallHolds, SlotsNameTheSessions
<1>3. CASE Return(c)
  <2>1. call'[c] = NoCall /\ Moves(c)
    BY <1>0, <1>3 DEF Return, Moves
  <2> QED
    BY <2>1, IdleCalls DEF NoCall
<1>4. ASSUME ScanHas(c) \/ ScanDelete(c), d = "pc",
             call' = [call EXCEPT ![c].pc = "scanning", ![c].device = "mobile"]
      PROVE  CallHolds(c)' /\ Moves(c)
  <2>1. ASSUME NEW s \in call[c].targets, Live(s)'
        PROVE  session[s].device = "mobile"
    <3>1. SUFFICES ASSUME session[s].device = "pc" PROVE FALSE
      BY <1>2, <2>1 DEF Devices
    <3>2. slot[<<u, d>>] = s /\ s \in Tokens
      BY <1>2, <1>4, <2>1, <3>1
    <3>3. ScanDelete(c)
      <4>1. ~ScanHas(c)
        <5>1. SUFFICES ASSUME ScanHas(c) PROVE FALSE
          OBVIOUS
        <5>2. Goto(c, "getting")
          BY <3>2, <5>1, Numbers DEF ScanHas
        <5>3. call'[c].device = d
          BY <1>0, <5>2 DEF Goto
        <5>4. call'[c].device = "mobile"
          BY <1>0, <1>4
        <5> QED
          BY <1>4, <5>3, <5>4
      <4> QED
        BY <1>4, <4>1
    <3>4. s = call[c].sid
      BY <1>2, <1>4, <2>1, <3>1, <3>3 DEF ScanDelete
    <3>5. Removes(s)
      BY <1>1, <3>2, <3>3, <3>4, DeleteRemoves DEF ScanDelete
    <3>6. session'[s] = NoSession
      BY <3>2, <3>5 DEF Removes, TypeOK
    <3> QED
      BY <2>1, <3>6 DEF Live
  <2>2. /\ call'[c].pc = "scanning" /\ call'[c].user = u /\ call'[c].device = "mobile"
        /\ call'[c].targets = call[c].targets /\ Moves(c)
    BY <1>0, <1>4 DEF Moves
  <2> QED
    BY <1>1, <1>2, <2>1, <2>2 DEF CallHolds, Scanning
<1>5. CASE Goto(c, "getting")
  <2>1. /\ call'[c].pc = "getting" /\ call'[c].user = u /\ call'[c].device = d
        /\ call'[c].targets = call[c].targets /\ Moves(c)
    BY <1>0, <1>5 DEF Goto, Moves
  <2> QED
    BY <1>1, <1>2, <2>1 DEF CallHolds, Scanning
<1>6. CASE ScanGet(c) /\ ~Return(c)
  <2>1. /\ slot[<<u, d>>] # None
        /\ call' = [call EXCEPT ![c].pc = "deleting", ![c].sid = slot[<<u, d>>]]
    BY <1>6 DEF ScanGet
  <2>2. slot[<<u, d>>] \in Tokens
    BY <1>1, <2>1 DEF TypeOK
  <2>3. /\ call'[c].pc = "deleting" /\ call'[c].user = u /\ call'[c].device = d
        /\ call'[c].targets = call[c].targets /\ call'[c].sid = slot[<<u, d>>] /\ Moves(c)
    BY <1>0, <2>1 DEF Moves
  <2>4. ASSUME NEW s \in call[c].targets, Live(s)'
        PROVE  /\ s <= tokens' /\ session'[s].user = u
               /\ d = "mobile" => session'[s].device = "mobile"
               /\ session'[s].device = d => s = slot[<<u, d>>]
    BY <1>1, <1>2, <2>4
  <2> HIDE DEF u, d
  <2> QED
    BY <1>1, <2>2, <2>3, <2>4 DEF CallHolds, Scanning
<1> QED
  BY <1>1, <1>3, <1>4, <1>5, <1>6 DEF ScanHas, ScanGet, ScanDelete, ScanNext, IsLastDevice, Devices

LEMMA CallsStep ==
  ASSUME SInv, [Next]_vars
  PROVE  CallsHold'
<1> USE DEF SInv
<1>0. call \in [Calls -> CallRecords]
  BY DEF TypeOK, CallRecords
<1>1. ASSUME NEW c \in Calls, CallHolds(c)', Moves(c)
      PROVE  CallsHold'
  BY <1>1, OtherCalls DEF Moves, CallsHold
<1>2. ASSUME NEW c \in Calls, NEW u \in Users, NEW d \in Devices, Login(c, u, d)
      PROVE  CallsHold'
  <2>1. call'[c].pc = "replacing" /\ call'[c].user = u /\ Moves(c)
    BY <1>0, <1>2 DEF Login, Begin, NoCall, Moves
  <2> QED
    BY <1>1, <2>1 DEF CallHolds, Scanning
<1>3. ASSUME NEW c \in Calls, NEW u \in Users, NEW facts, Scan(c, u, facts), UNCHANGED redis,
             UNCHANGED tokens
      PROVE  CallsHold'
  BY <1>1, <1>3, NewScans DEF redis
<1>4. ASSUME NEW c \in Calls, NEW u \in Users,
             LogoutAll(c, u) \/ SetRole(c, u) \/ SetAccountStatus(c, u) \/ SetPermission(c, u)
      PROVE  CallsHold'
  BY <1>3, <1>4 DEF LogoutAll, SetRole, SetAccountStatus, SetPermission, Change
<1>5. ASSUME NEW c \in Calls, NEW u \in Users, BootstrapAdmin(c, u)
      PROVE  CallsHold'
  <2>1. CASE Change(c, u, "admin", account[u].active)
    BY <1>3, <2>1 DEF Change
  <2>2. CASE Begin(c, [NoCall EXCEPT !.pc = "booted", !.user = u])
    <3>1. call'[c].pc = "booted" /\ Moves(c)
      BY <1>0, <2>2 DEF Begin, NoCall, Moves
    <3> QED
      BY <1>1, <3>1, IdleCalls
  <2> QED
    BY <1>5, <2>1, <2>2 DEF BootstrapAdmin
<1>6. ASSUME NEW c \in Calls, NEW h \in Tokens, Refresh(c, h)
      PROVE  CallsHold'
  <2>1. /\ call'[c].pc = "rotating" /\ call'[c].sid = index[h] /\ call'[c].hash = h /\ Moves(c)
    BY <1>0, <1>6 DEF Refresh, Begin, NoCall, Moves
  <2>2. index[h] \in Tokens /\ index[h] <= tokens /\ tokens' = tokens
    BY <1>6 DEF Refresh, TypeOK, Known
  <2> QED
    BY <1>1, <2>1, <2>2, BusyCalls
<1>7. ASSUME NEW c \in Calls, NEW s \in Tokens, Logout(c, s)
      PROVE  CallsHold'
  <2>1. /\ call'[c].pc = "revoking" /\ call'[c].sid = s /\ Moves(c)
    BY <1>0, <1>7 DEF Logout, Begin, NoCall, Moves
  <2>2. s <= tokens /\ tokens' = tokens
    BY <1>7, Numbers DEF Logout, Known
  <2> QED
    BY <1>1, <2>1, <2>2, BusyCalls
<1>8. ASSUME NEW c \in Calls, ReplaceSession(c)
      PROVE  CallsHold'
  <2>1. /\ call'[c].pc = "recording" /\ call'[c].sid = tokens + 1 /\ Moves(c)
    BY <1>0, <1>8 DEF ReplaceSession, Moves
  <2>2. tokens + 1 \in Tokens /\ tokens' = tokens + 1 /\ tokens \in Nat
    BY <1>8, Numbers DEF ReplaceSession
  <2> QED
    BY <1>1, <2>1, <2>2, BusyCalls
<1>9. ASSUME NEW c \in Calls, Return(c)
      PROVE  CallsHold'
  <2>1. call'[c].pc = "idle" /\ Moves(c)
    BY <1>0, <1>9 DEF Return, NoCall, Moves
  <2> QED
    BY <1>1, <2>1, IdleCalls
<1>10. ASSUME NEW c \in Calls, RecordLogin(c)
       PROVE  CallsHold'
  <2>1. CASE Goto(c, "revoking")
    <3>1. call'[c].pc = "revoking" /\ call'[c].sid = call[c].sid /\ Moves(c)
      BY <1>0, <2>1 DEF Goto, Moves
    <3>2. call[c].sid \in Tokens /\ call[c].sid <= tokens /\ tokens' = tokens
      BY <1>10 DEF RecordLogin, CallsHold, CallHolds
    <3> QED
      BY <1>1, <3>1, <3>2, BusyCalls
  <2> QED
    BY <1>9, <1>10, <2>1 DEF RecordLogin
<1>11. ASSUME NEW c \in Calls, RotateRefreshHash(c)
       PROVE  CallsHold'
  <2>1. CASE ~Return(c)
    <3> DEFINE s == replay[call[c].hash]
    <3>1. /\ s # None /\ tokens' = tokens
          /\ call' = [call EXCEPT ![c].pc = "revoking", ![c].sid = s]
      BY <1>11, <2>1 DEF RotateRefreshHash
    <3>2. call[c].hash \in Tokens
      BY <1>11 DEF RotateRefreshHash, CallsHold, CallHolds
    <3>3. s \in Tokens /\ s <= tokens
      BY <3>1, <3>2 DEF TypeOK, Known
    <3>4. call'[c].pc = "revoking" /\ call'[c].sid = s /\ Moves(c)
      BY <1>0, <3>1 DEF Moves
    <3> QED
      BY <1>1, <3>1, <3>3, <3>4, BusyCalls
  <2> QED
    BY <1>9, <2>1
<1>12. ASSUME NEW c \in Calls, ScanHas(c) \/ ScanGet(c) \/ ScanDelete(c)
       PROVE  CallsHold'
  BY <1>1, <1>12, OldScans
<1>13. ASSUME NEW c \in Calls, RevokeSession(c) \/ Serve(c) \/ Crash(c)
       PROVE  CallsHold'
  BY <1>9, <1>13 DEF RevokeSession, Serve, Crash
<1>14. CASE (\E s \in Tokens : Expire(s)) \/ UNCHANGED vars
  <2>1. call' = call
    BY <1>14 DEF Expire, vars
  <2> QED
    BY <2>1, OtherCalls DEF CallsHold
<1> QED
  BY <1>2, <1>4, <1>5, <1>6, <1>7, <1>8, <1>10, <1>11, <1>12, <1>13, <1>14 DEF Next

-----------------------------------------------------------------------------
LEMMA InitHolds ==
  ASSUME Init
  PROVE  SInv
<1>1. TypeOK
  <2>1. call \in [Calls -> CallRecords]
    BY NoCallType DEF Init
  <2> QED
    BY <2>1, SessionsAssumption DEF Init, TypeOK, CallRecords, Roles, Tokens
<1>2. \A s \in Tokens : ~Live(s)
  BY DEF Init, Live
<1>3. \A u \in Users, d \in Devices : slot[<<u, d>>] = None
  BY DEF Init
<1>4. Known
  BY <1>2 DEF Init, Known
<1>5. CallsHold
  BY DEF Init, NoCall, CallsHold, CallHolds, Scanning
<1> QED
  BY <1>1, <1>2, <1>3, <1>4, <1>5 DEF Init, SInv, SlotsNameTheSessions, RevokedSessionsStayGone

(* In every reachable state the calls in progress know what they rely on,  *)
(* slots and sessions match, and what was reported as revoked is gone.     *)
THEOREM SessionInvariant == Spec => []SInv
<1>1. SInv /\ [Next]_vars => SInv'
  BY TypeStep, KnownStep, CallsStep, SlotsStep, RevokedStep DEF SInv
<1> QED
  BY <1>1, InitHolds, PTL DEF Spec

(* A device has at most the one session its slot names and a slot names a  *)
(* session of that user and device, whatever logins, refreshes, scans,     *)
(* crashes and expiries interleave: what revokeUserSessions looks at       *)
(* (auth.go) is all there is.                                              *)
THEOREM Slots == Spec => []SlotsNameTheSessions
  BY SessionInvariant, PTL DEF SInv

(* A session a call reported as revoked never authorises a request again,  *)
(* not through a refresh or a scan that was under way at the time.         *)
THEOREM Revoked == Spec => []RevokedSessionsStayGone
  BY SessionInvariant, PTL DEF SInv

-----------------------------------------------------------------------------
(* Refresh tokens: the ones before the newest are known as replays of      *)
(* their session.                                                          *)

(* A token that was exchanged is known as a replay.                        *)
ExchangedAreReplays == \A x \in exchanged : replay[x[1]] # None

(* Nothing is known of a token before it is made.                          *)
Unmade == \A t \in Tokens : t > tokens => index[t] = None /\ replay[t] = None

TInv == SInv /\ Unmade /\ OldTokensAreReplays /\ ExchangedAreReplays /\ TokensAreExchangedOnce

MakesOrRotates == \E c \in Calls : ReplaceSession(c) \/ RotateRefreshHash(c)

(* Only making and rotating a session touch the keys of tokens.            *)
LEMMA NoTokens ==
  ASSUME SInv, [Next]_vars, ~MakesOrRotates
  PROVE  /\ UNCHANGED <<index, replay, exchanged>>
         /\ \A s \in Tokens : Live(s)' => Live(s) /\ session'[s] = session[s]
<1>0. /\ tokens \in Nat
      /\ session \in [Tokens -> {NoSession} \union
                   [user : Users, device : Devices, hash : Tokens, facts : Facts]]
  BY Numbers DEF SInv, TypeOK
<1>1. ASSUME NEW c \in Calls,
             \/ \E u \in Users :
                  \/ \E d \in Devices : Login(c, u, d)
                  \/ LogoutAll(c, u) \/ SetRole(c, u) \/ SetAccountStatus(c, u)
                  \/ SetPermission(c, u) \/ BootstrapAdmin(c, u)
             \/ \E t \in Tokens : Refresh(c, t) \/ Logout(c, t)
             \/ RecordLogin(c) \/ RevokeSession(c) \/ Serve(c) \/ ScanHas(c)
             \/ ScanGet(c) \/ ScanDelete(c) \/ Crash(c)
      PROVE  UNCHANGED <<index, replay, exchanged, tokens>>
  BY <1>1 DEF Login, LogoutAll, SetRole, SetAccountStatus, SetPermission, BootstrapAdmin,
     Change, Refresh, Logout, RecordLogin, RevokeSession, Serve, ScanHas, ScanGet,
     ScanDelete, Crash, redis, history
<1>2. ASSUME (\E s \in Tokens : Expire(s)) \/ UNCHANGED vars
      PROVE  UNCHANGED <<index, replay, exchanged, tokens>>
  BY <1>2 DEF Expire, vars, redis, history
<1>3. UNCHANGED <<index, replay, exchanged, tokens>>
  <2>1. \A c \in Calls : ~ReplaceSession(c) /\ ~RotateRefreshHash(c)
    BY DEF MakesOrRotates
  <2>2. CASE \E s \in Tokens : Expire(s)
    BY <1>2, <2>2
  <2>3. CASE UNCHANGED vars
    BY <1>2, <2>3
  <2> QED
    BY <1>1, <2>1, <2>2, <2>3 DEF Next
<1>4. UNCHANGED <<session, slot, tokens>> \/ \E s \in Tokens : Removes(s)
  <2>1. tokens' # tokens + 1
    BY <1>0, <1>3
  <2>2. \A u \in Users, d \in Devices : ~Makes(u, d, tokens + 1)
    BY <2>1 DEF Makes
  <2>3. \A s \in Tokens : ~Rotates(s)
    BY <2>1 DEF Rotates
  <2> QED
    BY <2>2, <2>3, SessionKinds
<1>5. ASSUME NEW t \in Tokens, Removes(t), NEW s \in Tokens, Live(s)'
      PROVE  Live(s) /\ session'[s] = session[s]
  BY <1>0, <1>5 DEF Removes, Live
<1> QED
  BY <1>3, <1>4, <1>5 DEF Live

LEMMA Quiet ==
  ASSUME TInv, [Next]_vars, ~MakesOrRotates
  PROVE  /\ OldTokensAreReplays' /\ ExchangedAreReplays' /\ TokensAreExchangedOnce'
         /\ Unmade'
<1>1. /\ UNCHANGED <<index, replay, exchanged>>
      /\ \A s \in Tokens : Live(s)' => Live(s) /\ session'[s] = session[s]
  BY NoTokens DEF TInv
<1>2. \A t \in Tokens : t > tokens' => t > tokens
  BY NoneReturns, Numbers DEF TInv, SInv
<1> QED
  BY <1>1, <1>2 DEF TInv, Unmade, OldTokensAreReplays, ExchangedAreReplays, TokensAreExchangedOnce

(* The tokens of sessions that are made or rotated.                        *)
LEMMA Hashes ==
  ASSUME TInv, NEW s \in Tokens, Live(s)
  PROVE  /\ session[s].hash \in Tokens /\ session[s].hash <= tokens
         /\ index[session[s].hash] = s /\ replay[session[s].hash] = None
         /\ \A t \in Tokens : index[t] = s /\ t # session[s].hash => replay[t] = s
<1>1. session[s].hash \in Tokens
  BY Owners DEF TInv, SInv
<1>2. index[session[s].hash] = s /\ replay[session[s].hash] = None
  BY DEF TInv, OldTokensAreReplays
<1>3. session[s].hash <= tokens
  <2>1. s # None /\ tokens \in Nat /\ session[s].hash \in Nat
    BY <1>1, Numbers DEF TInv, SInv
  <2>2. ~(session[s].hash > tokens)
    BY <1>1, <1>2, <2>1 DEF TInv, Unmade
  <2> QED
    BY <2>1, <2>2
<1>4. \A t \in Tokens : index[t] = s /\ t # session[s].hash => replay[t] = s
  BY DEF TInv, OldTokensAreReplays
<1> QED
  BY <1>1, <1>2, <1>3, <1>4

(* A new session brings a token nothing was known of.                      *)
LEMMA Made ==
  ASSUME TInv, [Next]_vars, NEW c \in Calls, ReplaceSession(c)
  PROVE  /\ OldTokensAreReplays' /\ ExchangedAreReplays' /\ TokensAreExchangedOnce'
         /\ Unmade'
<1> USE DEF TInv, SInv
<1> DEFINE new == tokens + 1
<1>1. /\ new \in Tokens /\ tokens' = new /\ tokens \in Nat /\ Tokens \subseteq Nat
      /\ \A t \in Tokens : t <= tokens => t # new
      /\ None \notin Tokens
  BY Numbers DEF ReplaceSession, Tokens
<1>2. /\ \A t \in Tokens : index'[t] = IF t = new THEN new ELSE index[t]
      /\ UNCHANGED <<replay, exchanged>>
  BY DEF ReplaceSession, TypeOK, history
<1>3. /\ session'[new].hash = new
      /\ \A s \in Tokens : s # new /\ Live(s)' => Live(s) /\ session'[s] = session[s]
  BY <1>1 DEF ReplaceSession, Replaced, Live
<1>4. index[new] = None /\ replay[new] = None
  BY <1>1 DEF Unmade
<1>5. \A t \in Tokens : index[t] # new
  <2> SUFFICES ASSUME NEW t \in Tokens, index[t] = new PROVE FALSE
    OBVIOUS
  <2>1. index[t] # None
    BY <1>1
  <2> QED
    BY <1>1, <2>1 DEF Known
<1> HIDE DEF new
<1>6. ASSUME NEW s \in Tokens, Live(s)'
      PROVE  /\ index'[session'[s].hash] = s
             /\ replay'[session'[s].hash] = None
             /\ \A t \in Tokens : index'[t] = s /\ t # session'[s].hash => replay'[t] = s
  <2>1. CASE s = new
    BY <1>1, <1>2, <1>3, <1>4, <1>5, <2>1
  <2>2. CASE s # new
    <3>1. Live(s) /\ session'[s] = session[s]
      BY <1>3, <1>6, <2>2
    <3>2. session[s].hash \in Tokens /\ session[s].hash # new
      BY <1>1, <3>1, Hashes
    <3> QED
      BY <1>2, <2>2, <3>1, <3>2, Hashes
  <2> QED
    BY <2>1, <2>2
<1>7. Unmade'
  <2>1. \A t \in Tokens : t > new => t > tokens /\ t # new
    BY <1>1 DEF new
  <2> QED
    BY <1>1, <1>2, <2>1 DEF Unmade
<1> QED
  BY <1>2, <1>6, <1>7 DEF OldTokensAreReplays, ExchangedAreReplays, TokensAreExchangedOnce

(* A rotation puts an unknown token in the place of the newest one, which  *)
(* no exchange had taken.                                                  *)
LEMMA Rotated ==
  ASSUME TInv, [Next]_vars, NEW c \in Calls, RotateRefreshHash(c)
  PROVE  /\ OldTokensAreReplays' /\ ExchangedAreReplays' /\ TokensAreExchangedOnce'
         /\ Unmade'
<1> USE DEF TInv, SInv
<1> DEFINE new == tokens + 1
           r == call[c].sid
           h == call[c].hash
<1>0. /\ r \in Tokens /\ h \in Tokens
  BY DEF RotateRefreshHash, CallsHold, CallHolds
<1>1. CASE ~IsCurrent(c)
  <2>1. UNCHANGED <<tokens, session, replay, index, exchanged>>
    BY <1>1 DEF RotateRefreshHash
  <2> QED
    BY <2>1 DEF OldTokensAreReplays, ExchangedAreReplays, TokensAreExchangedOnce, Unmade, Live
<1>2. CASE IsCurrent(c)
  <2>1. /\ new \in Tokens /\ tokens' = new /\ tokens \in Nat /\ Tokens \subseteq Nat
        /\ \A t \in Tokens : t <= tokens => t # new
        /\ None \notin Tokens
    BY <1>2, Numbers DEF RotateRefreshHash, Tokens
  <2>2. /\ \A t \in Tokens : index'[t] = IF t = new THEN r ELSE index[t]
        /\ \A t \in Tokens : replay'[t] = IF t = h THEN r ELSE replay[t]
        /\ exchanged' = exchanged \union {<<h, new>>}
        /\ session' = [session EXCEPT ![r].hash = new]
    BY <1>0, <1>2 DEF RotateRefreshHash, Indexed, TypeOK
  <2>3. Live(r) /\ session[r].hash = h
    BY <1>0, <1>2, Numbers DEF IsCurrent, Live, NoSession
  <2>4. /\ session'[r].hash = new
        /\ \A s \in Tokens : s # r /\ Live(s)' => Live(s) /\ session'[s] = session[s]
    BY <1>0, <2>2, <2>3, Owners DEF TypeOK, Live
  <2>5. index[new] = None /\ replay[new] = None
    BY <2>1 DEF Unmade
  <2>6. h <= tokens /\ h # new /\ replay[h] = None /\ index[h] = r
    BY <1>0, <2>1, <2>3, Hashes
  <2> HIDE DEF new, r, h
  <2>7. ASSUME NEW s \in Tokens, Live(s)'
        PROVE  /\ index'[session'[s].hash] = s
               /\ replay'[session'[s].hash] = None
               /\ \A t \in Tokens : index'[t] = s /\ t # session'[s].hash => replay'[t] = s
    <3>1. CASE s = r
      <4>1. \A t \in Tokens : index[t] = r /\ t # h => replay[t] = r
        BY <1>0, <2>3, Hashes
      <4> QED
        BY <1>0, <2>1, <2>2, <2>4, <2>5, <2>6, <3>1, <4>1
    <3>2. CASE s # r
      <4>1. Live(s) /\ session'[s] = session[s]
        BY <2>4, <2>7, <3>2
      <4>2. /\ session[s].hash \in Tokens /\ session[s].hash # new
            /\ index[session[s].hash] = s /\ replay[session[s].hash] = None
            /\ \A t \in Tokens : index[t] = s /\ t # session[s].hash => replay[t] = s
        BY <2>1, <4>1, Hashes
      <4>3. session[s].hash # h
        BY <2>6, <3>2, <4>2
      <4>4. ASSUME NEW t \in Tokens, index'[t] = s, t # session[s].hash
            PROVE  replay'[t] = s
        BY <2>2, <2>6, <3>2, <4>2, <4>4
      <4> QED
        BY <2>2, <4>1, <4>2, <4>3, <4>4
    <3> QED
      BY <3>1, <3>2
  <2>8. Unmade'
    <3>1. \A t \in Tokens : t > new => t > tokens /\ t # new /\ t # h
      BY <1>0, <2>1, <2>6 DEF new
    <3> QED
      BY <2>1, <2>2, <3>1 DEF Unmade
  <2>9. \A x \in exchanged : x[1] # h /\ x[1] \in Tokens
    BY <2>6 DEF ExchangedAreReplays, TypeOK
  <2>10. ExchangedAreReplays'
    <3>1. r # None
      BY <1>0, <2>1
    <3> QED
      BY <1>0, <2>2, <2>9, <3>1 DEF ExchangedAreReplays
  <2>11. TokensAreExchangedOnce'
    BY <2>2, <2>9 DEF TokensAreExchangedOnce
  <2> QED
    BY <2>7, <2>8, <2>10, <2>11 DEF OldTokensAreReplays
<1> QED
  BY <1>1, <1>2

(* In every reachable state the tokens of sessions, the replays and what   *)
(* was exchanged match.                                                    *)
THEOREM TokenInvariant == Spec => []TInv
<1>1. Init => Unmade /\ OldTokensAreReplays /\ ExchangedAreReplays /\ TokensAreExchangedOnce
  BY DEF Init, Unmade, OldTokensAreReplays, ExchangedAreReplays, TokensAreExchangedOnce, Live
<1>2. SInv /\ (Unmade /\ OldTokensAreReplays /\ ExchangedAreReplays /\ TokensAreExchangedOnce)
        /\ [Next]_vars
        => (Unmade /\ OldTokensAreReplays /\ ExchangedAreReplays /\ TokensAreExchangedOnce)'
  BY Quiet, Made, Rotated DEF TInv, MakesOrRotates
<1> QED
  BY <1>1, <1>2, SessionInvariant, PTL DEF Spec, TInv

(* A refresh token is exchanged for one new token, whoever presents it and *)
(* however many refreshes of it run at once, and shown again it is known   *)
(* as a replay of its session (rotateRefreshHashScript).                   *)
THEOREM Rotations == Spec => []TokensRotateOnce
<1>1. TInv => TokensRotateOnce
  BY DEF TInv, TokensRotateOnce
<1> QED
  BY <1>1, TokenInvariant, PTL
=============================================================================
