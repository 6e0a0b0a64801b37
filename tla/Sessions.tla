------------------------------ MODULE Sessions ------------------------------
(***************************************************************************)
(* Device sessions and refresh tokens (internal/auth/auth.go and the Lua   *)
(* scripts of internal/platform/clients.go).  MySQL holds the account's    *)
(* role, status and permission flags; Redis holds what a login compiled    *)
(* from them.  Requests are authorised from Redis alone, so a change of    *)
(* the account has to find and remove the sessions made before it.         *)
(*                                                                         *)
(* Each Redis script and each database transaction is one step.  Tokens    *)
(* are numbers in the order they are made; a session is named by the       *)
(* number of its first token.                                              *)
(***************************************************************************)
EXTENDS Naturals, FiniteSets

CONSTANTS Users,
          Calls,        \* calls of the service in progress at the same time
          None,
          MaxTokens, MaxChanges, MaxFaults   \* bounds

ASSUME SessionsAssumption ==
  /\ MaxTokens \in Nat /\ MaxChanges \in Nat /\ MaxFaults \in Nat
  /\ None \notin Users \union Nat

Devices == {"pc", "mobile"}
Roles == {"user", "admin"}
Tokens == 1..MaxTokens

VARIABLES
  account,    \* users and user_accesses; version numbers the commits
  session,    \* session:<sid>
  slot,       \* the session of a user's device
  index,      \* refresh index: the session a token was made for
  replay,     \* the session a token was already exchanged in
  call,       \* a call in progress
  tokens,     \* tokens made so far
  exchanged,  \* history: <<old token, new token>> handed out by Refresh
  ended,      \* history: sessions a call has reported as revoked
  enforced,   \* history: the newest change of an account reported as done
  faults

redis == <<session, slot, index, replay>>
history == <<exchanged, ended, enforced>>
vars == <<account, redis, call, tokens, history, faults>>

Facts == [role : Roles, version : 0..MaxChanges]
NoFacts == [role |-> "user", version |-> 0]
NoSession == [user |-> None, device |-> "pc", hash |-> 0, facts |-> NoFacts]
NoCall == [pc |-> "idle", user |-> None, device |-> "pc", sid |-> None,
           hash |-> 0, facts |-> NoFacts, targets |-> {}]

TypeOK ==
  /\ account \in [Users -> [role : Roles, active : BOOLEAN, version : 0..MaxChanges]]
  /\ session \in [Tokens -> {NoSession} \union
                   [user : Users, device : Devices, hash : Tokens, facts : Facts]]
  /\ slot \in [Users \X Devices -> Tokens \union {None}]
  /\ index \in [Tokens -> Tokens \union {None}]
  /\ replay \in [Tokens -> Tokens \union {None}]
  /\ call \in [Calls ->
       [pc : {"idle", "replacing", "recording", "rotating", "revoking",
              "scanning", "getting", "deleting", "booted"},
        user : Users \union {None}, device : Devices, sid : Tokens \union {None},
        hash : Tokens \union {0}, facts : Facts, targets : SUBSET Tokens]]
  /\ tokens \in 0..MaxTokens
  /\ exchanged \subseteq Tokens \X Tokens
  /\ ended \subseteq Tokens
  /\ enforced \in [Users -> 0..MaxChanges]

Init ==
  /\ account = [u \in Users |-> [role |-> "user", active |-> TRUE, version |-> 0]]
  /\ session = [s \in Tokens |-> NoSession]
  /\ slot = [x \in Users \X Devices |-> None]
  /\ index = [t \in Tokens |-> None]
  /\ replay = [t \in Tokens |-> None]
  /\ call = [c \in Calls |-> NoCall]
  /\ tokens = 0
  /\ exchanged = {} /\ ended = {} /\ enforced = [u \in Users |-> 0]
  /\ faults = 0

Live(s) == session[s] # NoSession
LiveOf(u) == {s \in Tokens : Live(s) /\ session[s].user = u}
FactsOf(u) == [role |-> account[u].role, version |-> account[u].version]

Begin(c, fields) ==
  /\ call[c].pc = "idle"
  /\ call' = [call EXCEPT ![c] = fields]

Return(c) == call' = [call EXCEPT ![c] = NoCall]

Goto(c, pc) == call' = [call EXCEPT ![c].pc = pc]

-----------------------------------------------------------------------------
(* Login by password, code or registration: the user row and the access    *)
(* flags are read and compiled into the role and permissions of a session. *)
Login(c, u, d) ==
  /\ account[u].active
  /\ Begin(c, [NoCall EXCEPT !.pc = "replacing", !.user = u, !.device = d,
                             !.facts = FactsOf(u)])
  /\ UNCHANGED <<account, redis, tokens, history, faults>>

(* Fault: the script is not given the prefix of the old session's key.     *)
OnlyAdded(u, d, s, record) == [session EXCEPT ![s] = record]

(* replaceSessionScript: the device's old session goes, the new one comes. *)
Replaced(u, d, s, record) ==
  [t \in Tokens |-> IF t = s THEN record
                    ELSE IF t = slot[<<u, d>>] THEN NoSession ELSE session[t]]

ReplaceSession(c) ==
  LET u == call[c].user
      d == call[c].device
      s == tokens + 1
  IN /\ call[c].pc = "replacing"
     /\ tokens < MaxTokens
     /\ tokens' = s
     /\ session' = Replaced(u, d, s, [user |-> u, device |-> d, hash |-> s,
                                      facts |-> call[c].facts])
     /\ slot' = [slot EXCEPT ![<<u, d>>] = s]
     /\ index' = [index EXCEPT ![s] = s]
     /\ call' = [call EXCEPT ![c].pc = "recording", ![c].sid = s]
     /\ UNCHANGED <<account, replay, history, faults>>

(* The login event is stored; if that fails the session is taken back.     *)
RecordLogin(c) ==
  /\ call[c].pc = "recording"
  /\ \/ Return(c) /\ UNCHANGED faults
     \/ /\ faults < MaxFaults
        /\ Goto(c, "revoking")
        /\ faults' = faults + 1
  /\ UNCHANGED <<account, redis, tokens, history>>

-----------------------------------------------------------------------------
(* Refresh looks the token and its session up, then runs                   *)
(* rotateRefreshHashScript.                                                *)
Refresh(c, h) ==
  /\ index[h] # None
  /\ Live(index[h])
  /\ Begin(c, [NoCall EXCEPT !.pc = "rotating", !.sid = index[h], !.hash = h])
  /\ UNCHANGED <<account, redis, tokens, history, faults>>

(* Fault: every token of a live session is good.                           *)
IsIndexed(c) == Live(call[c].sid)

(* Fault: the hash of a session that is gone is taken for a match.         *)
IsCurrentOrGone(c) == session[call[c].sid].hash \in {0, call[c].hash}

IsCurrent(c) == session[call[c].sid].hash = call[c].hash

(* Fault: the index of the new token is not written.                       *)
NotIndexed(s, new) == index

Indexed(s, new) == [index EXCEPT ![new] = s]

RotateRefreshHash(c) ==
  LET s == call[c].sid
      h == call[c].hash
      new == tokens + 1
  IN /\ call[c].pc = "rotating"
     /\ tokens < MaxTokens
     /\ \/ /\ IsCurrent(c)
           /\ tokens' = new
           /\ session' = [session EXCEPT ![s].hash = new]
           /\ replay' = [replay EXCEPT ![h] = s]
           /\ index' = Indexed(s, new)
           /\ exchanged' = exchanged \union {<<h, new>>}
           /\ Return(c)
        \/ /\ ~IsCurrent(c)
           /\ IF replay[h] # None
              THEN call' = [call EXCEPT ![c].pc = "revoking", ![c].sid = replay[h]]
              ELSE Return(c)
           /\ UNCHANGED <<tokens, session, replay, index, exchanged>>
     /\ UNCHANGED <<account, slot, ended, enforced, faults>>

-----------------------------------------------------------------------------
(* Fault: the slot is deleted whatever session it names by now.            *)
DeleteSession(u, d, s) ==
  /\ slot' = [slot EXCEPT ![<<u, d>>] = None]
  /\ session' = [session EXCEPT ![s] = NoSession]

(* Fault: a revoked session only loses its token.                          *)
BlankToken(u, d, s) ==
  /\ slot' = IF slot[<<u, d>>] = s THEN [slot EXCEPT ![<<u, d>>] = None] ELSE slot
  /\ session' = [session EXCEPT ![s].hash = 0]

(* deleteSessionIfCurrentScript.                                           *)
DeleteSessionIfCurrent(u, d, s) ==
  IF slot[<<u, d>>] = s
  THEN /\ slot' = [slot EXCEPT ![<<u, d>>] = None]
       /\ session' = [session EXCEPT ![s] = NoSession]
  ELSE UNCHANGED <<slot, session>>

(* Logout and RevokeSession of one session by its user.                    *)
Logout(c, s) ==
  /\ Live(s)
  /\ Begin(c, [NoCall EXCEPT !.pc = "revoking", !.sid = s])
  /\ UNCHANGED <<account, redis, tokens, history, faults>>

(* A session's user and device never change, so reading them and deleting  *)
(* the session is one step.                                                *)
RevokeSession(c) ==
  LET s == call[c].sid
  IN /\ call[c].pc = "revoking"
     /\ IF Live(s)
        THEN DeleteSessionIfCurrent(session[s].user, session[s].device, s)
        ELSE UNCHANGED <<slot, session>>
     /\ ended' = ended \union {s}
     /\ Return(c)
     /\ UNCHANGED <<account, index, replay, tokens, exchanged, enforced, faults>>

-----------------------------------------------------------------------------
(* revokeUserSessions: device by device, Has, Get, conditional delete.     *)
Scan(c, u, facts) ==
  Begin(c, [NoCall EXCEPT !.pc = "scanning", !.user = u, !.facts = facts,
                          !.targets = LiveOf(u)])

LogoutAll(c, u) ==
  /\ Scan(c, u, NoFacts)
  /\ UNCHANGED <<account, redis, tokens, history, faults>>

(* SetRole, SetAccountStatus, and Set- and ClearPermissionRestriction      *)
(* commit the change and then revoke.                                      *)
Change(c, u, role, active) ==
  LET version == account[u].version + 1
  IN /\ version <= MaxChanges
     /\ account' = [account EXCEPT ![u] = [role |-> role, active |-> active,
                                           version |-> version]]
     /\ Scan(c, u, [role |-> role, version |-> version])
     /\ UNCHANGED <<redis, tokens, history, faults>>

SetRole(c, u) == \E role \in Roles : Change(c, u, role, account[u].active)
SetAccountStatus(c, u) == \E b \in BOOLEAN : Change(c, u, account[u].role, b)
SetPermission(c, u) == Change(c, u, account[u].role, account[u].active)

(* At process start.  An account that is an admin already is left alone.   *)
BootstrapAdmin(c, u) ==
  \/ /\ account[u].role # "admin"
     /\ Change(c, u, "admin", account[u].active)
  \/ /\ account[u].role = "admin"
     /\ Begin(c, [NoCall EXCEPT !.pc = "booted", !.user = u])
     /\ UNCHANGED <<account, redis, tokens, history, faults>>

Serve(c) ==
  /\ call[c].pc = "booted"
  /\ Return(c)
  /\ UNCHANGED <<account, redis, tokens, history, faults>>

(* Fault: a device without a session ends the scan.                        *)
EndsScan(c) == call[c].device = "mobile" \/ call[c].pc = "scanning"

IsLastDevice(c) == call[c].device = "mobile"

ScanNext(c) ==
  LET u == call[c].user
  IN IF IsLastDevice(c)
     THEN /\ Return(c)
          /\ ended' = ended \union call[c].targets
          /\ enforced' = [enforced EXCEPT ![u] =
               IF @ < call[c].facts.version THEN call[c].facts.version ELSE @]
     ELSE /\ call' = [call EXCEPT ![c].pc = "scanning", ![c].device = "mobile"]
          /\ UNCHANGED <<ended, enforced>>

ScanHas(c) ==
  /\ call[c].pc = "scanning"
  /\ IF slot[<<call[c].user, call[c].device>>] = None
     THEN ScanNext(c)
     ELSE Goto(c, "getting") /\ UNCHANGED <<ended, enforced>>
  /\ UNCHANGED <<account, redis, tokens, exchanged, faults>>

(* A slot that vanished since Has is an error, which ends the call: the    *)
(* other device is not looked at.                                          *)
ScanGet(c) ==
  LET s == slot[<<call[c].user, call[c].device>>]
  IN /\ call[c].pc = "getting"
     /\ IF s = None THEN Return(c)
        ELSE call' = [call EXCEPT ![c].pc = "deleting", ![c].sid = s]
     /\ UNCHANGED <<account, redis, tokens, history, faults>>

ScanDelete(c) ==
  /\ call[c].pc = "deleting"
  /\ DeleteSessionIfCurrent(call[c].user, call[c].device, call[c].sid)
  /\ ScanNext(c)
  /\ UNCHANGED <<account, index, replay, tokens, exchanged, faults>>

-----------------------------------------------------------------------------
(* The process dies or a call of Redis or MySQL fails: the caller gets no  *)
(* or an error answer and nothing is undone.                               *)
Crash(c) ==
  /\ faults < MaxFaults
  /\ call[c].pc # "idle"
  /\ Return(c)
  /\ faults' = faults + 1
  /\ UNCHANGED <<account, redis, tokens, history>>

(* RefreshTokenTTL has passed.  The script gave slot and record one        *)
(* expiry; the token indexes go too, but lead nowhere without the record.  *)
Expire(s) ==
  /\ Live(s)
  /\ session' = [session EXCEPT ![s] = NoSession]
  /\ slot' = [x \in Users \X Devices |-> IF slot[x] = s THEN None ELSE slot[x]]
  /\ UNCHANGED <<account, index, replay, call, tokens, history, faults>>

Next ==
  \/ \E c \in Calls :
       \/ \E u \in Users :
            \/ \E d \in Devices : Login(c, u, d)
            \/ LogoutAll(c, u) \/ SetRole(c, u) \/ SetAccountStatus(c, u)
            \/ SetPermission(c, u) \/ BootstrapAdmin(c, u)
       \/ \E t \in Tokens : Refresh(c, t) \/ Logout(c, t)
       \/ ReplaceSession(c) \/ RecordLogin(c) \/ RotateRefreshHash(c)
       \/ RevokeSession(c) \/ Serve(c)
       \/ ScanHas(c) \/ ScanGet(c) \/ ScanDelete(c)
       \/ Crash(c)
  \/ \E s \in Tokens : Expire(s)

Spec == Init /\ [][Next]_vars

-----------------------------------------------------------------------------
(* A device has at most the one session its slot names, and a slot names   *)
(* a session of that user and device: no session is out of the reach of    *)
(* revokeUserSessions, which only looks at slots.                          *)
SlotsNameTheSessions ==
  /\ \A s \in Tokens : Live(s) => slot[<<session[s].user, session[s].device>>] = s
  /\ \A u \in Users, d \in Devices : slot[<<u, d>>] # None =>
       session[slot[<<u, d>>]].user = u /\ session[slot[<<u, d>>]].device = d

(* A refresh token is exchanged for one new token, whoever presents it and *)
(* however often at once.                                                  *)
TokensAreExchangedOnce ==
  \A x, y \in exchanged : x[1] = y[1] => x = y

(* The newest token of a live session works, and any older one is known as *)
(* a replay, so that presenting it ends the session.                       *)
OldTokensAreReplays ==
  \A s \in Tokens : Live(s) =>
    /\ index[session[s].hash] = s
    /\ replay[session[s].hash] = None
    /\ \A t \in Tokens : index[t] = s /\ t # session[s].hash => replay[t] = s

(* A refresh token is exchanged once, and shown again it is a replay that  *)
(* ends the session (rotateRefreshHash).                                   *)
TokensRotateOnce == TokensAreExchangedOnce /\ OldTokensAreReplays

(* A session reported as revoked - by a logout, by a replayed token, by a  *)
(* failed login, or by an account change that found it alive - is gone and *)
(* no refresh in progress brings it back.                                  *)
RevokedSessionsStayGone == \A s \in ended : ~Live(s)

(* "SetPermissionRestriction changes durable permission facts, ... and     *)
(* forces both device sessions to establish fresh state" (auth.go 772):    *)
(* after such a change was reported as done no session is older than it.   *)
ChangesForceFreshState ==
  \A s \in Tokens : Live(s) => session[s].facts.version >= enforced[session[s].user]

(* "It is called during process start so a surviving Redis instance cannot *)
(* retain a stale ordinary-user session" (auth.go 478).                    *)
BootstrapLeavesNoOrdinarySession ==
  \A c \in Calls : call[c].pc = "booted" =>
    \A s \in LiveOf(call[c].user) : session[s].facts.role = "admin"
=============================================================================
