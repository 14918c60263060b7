----------------------------- MODULE Edge_proofs ----------------------------
(***************************************************************************)
(* Theorems about what faces the clients: auth, for any users, requests in *)
(* flight, lifetime and number of faults; the gateway's rate limiter, for  *)
(* any plans, windows, weights and requests; its webhooks, for any hooks,  *)
(* events, dispatches and crashes.                                         *)
(***************************************************************************)
EXTENDS AuthService, RateLimiter, Webhooks, FiniteSetTheorems, TLAPS

\* ------------------------------------------------------------------- auth

\* The invariant but for the times at which tokens were signed.
Base ==
  /\ TypeOK
  /\ GivenTokensAreStored
  /\ ExchangedTokensAreRevoked
  /\ RequestsAreConsistent

LEMMA InitBase == Init => Base
BY AuthAssumption
   DEF Init, Base, TypeOK, Seconds, GivenTokensAreStored, ExchangedTokensAreRevoked,
       RequestsAreConsistent

\* The death of the process takes the requests and leaves the tables.
LEMMA DeathKeepsBase ==
  ASSUME Base, NEW cause \in {"collision", "expired", "database", "crash"}, Die(cause),
         now' = now, faults' \in 0 .. MaxFaults
  PROVE  Base'
BY DEF Base, TypeOK, GivenTokensAreStored, ExchangedTokensAreRevoked, RequestsAreConsistent,
       Die, tableVars, historyVars

\* So does an answer, but for the request it ends.
LEMMA AnswerKeepsBase ==
  ASSUME Base, NEW r \in Requests, Answer(r), UNCHANGED <<now, refreshTokens, successors>>,
         users' \in SUBSET Users, faults' \in 0 .. MaxFaults, deaths' = deaths,
         \/ clients' = clients
         \/ pc[r] = "respond" /\ clients' = clients \cup {fresh[r]}
  PROVE  Base'
<1>1. clients' \in SUBSET Tokens /\ \A t \in clients' : refreshTokens'[t] # "none"
  BY DEF Base, TypeOK, GivenTokensAreStored
<1>2. QED
  BY <1>1 DEF Base, TypeOK, GivenTokensAreStored, ExchangedTokensAreRevoked,
              RequestsAreConsistent, Answer

\* A new row: its token is none of those that were given out or exchanged.
LEMMA InsertKeepsBase ==
  ASSUME Base, NEW r \in Requests, UNCHANGED <<now, faults>>,
         \/ Insert(r, "issue") /\ UNCHANGED successors
         \/ Insert(r, "reissue") /\ Succeed(r)
  PROVE  Base'
<1> DEFINE t == presented[r]
           f == fresh[r]
<1>1. /\ f \in Tokens
      /\ refreshTokens[f] = "none"
      /\ refreshTokens' = [refreshTokens EXCEPT ![f] = "live"]
      /\ pc' = [pc EXCEPT ![r] = "respond"]
      /\ pc[r] \in {"issue", "reissue"}
      /\ UNCHANGED <<users, subject, presented, fresh, clients, deaths>>
  BY DEF Insert, Step, Base, RequestsAreConsistent
<1>2. TypeOK /\ GivenTokensAreStored /\ ExchangedTokensAreRevoked /\ RequestsAreConsistent
  BY DEF Base
<1>3. \A u \in Tokens : refreshTokens[u] # "none" => refreshTokens'[u] = refreshTokens[u]
  BY <1>1, <1>2 DEF TypeOK
<1>4. refreshTokens'[f] = "live" /\ refreshTokens' \in [Tokens -> {"none", "live", "revoked"}]
  BY <1>1, <1>2 DEF TypeOK
<1>5. \A u \in Tokens : successors[u] \in SUBSET Tokens
  BY <1>2 DEF TypeOK
<1>6. GivenTokensAreStored'
  <2>1. \A u \in clients' : refreshTokens'[u] # "none"
    BY <1>1, <1>2, <1>3 DEF GivenTokensAreStored, TypeOK
  <2>2. ASSUME NEW q \in Requests, pc'[q] = "respond"
        PROVE  fresh'[q] \in Tokens /\ refreshTokens'[fresh'[q]] # "none"
    <3>1. CASE q = r
      BY <1>1, <1>4, <3>1
    <3>2. CASE q # r
      <4>1. pc[q] = "respond" /\ fresh'[q] = fresh[q]
        BY <1>1, <1>2, <2>2, <3>2 DEF TypeOK
      <4>2. QED
        BY <1>2, <1>3, <4>1 DEF GivenTokensAreStored
    <3>3. QED
      BY <3>1, <3>2
  <2>3. QED
    BY <2>1, <2>2 DEF GivenTokensAreStored
<1>7. CASE UNCHANGED successors
  <2>1. TypeOK'
    BY <1>1, <1>2, <1>4, <1>7 DEF TypeOK, Awaits
  <2>3. ExchangedTokensAreRevoked'
    BY <1>2, <1>3, <1>5, <1>7 DEF ExchangedTokensAreRevoked
  <2>4. RequestsAreConsistent'
    BY <1>1, <1>2, <1>3 DEF RequestsAreConsistent, TypeOK
  <2>5. QED
    BY <1>6, <2>1, <2>3, <2>4 DEF Base
<1>8. CASE Insert(r, "reissue") /\ Succeed(r)
  <2>1. /\ t \in Tokens
        /\ refreshTokens[t] = "revoked"
        /\ f[1] = t[1]
        /\ successors' = [successors EXCEPT ![t] = @ \cup {f}]
    BY <1>2, <1>8 DEF Succeed, Insert, Step, RequestsAreConsistent, TypeOK
  <2>2. TypeOK'
    BY <1>1, <1>2, <1>4, <2>1 DEF TypeOK, Awaits
  <2>4. ASSUME NEW u \in Tokens, NEW s \in successors'[u]
        PROVE  /\ refreshTokens'[u] = "revoked"
               /\ refreshTokens'[s] # "none"
               /\ s # u
               /\ s[1] = u[1]
    <3>1. CASE s \in successors[u]
      BY <1>2, <1>3, <1>5, <3>1 DEF ExchangedTokensAreRevoked
    <3>2. CASE s \notin successors[u]
      <4>1. u = t /\ s = f
        BY <1>2, <2>1, <3>2 DEF TypeOK
      <4>2. QED
        BY <1>1, <1>3, <1>4, <2>1, <4>1
    <3>3. QED
      BY <3>1, <3>2
  <2>5. ExchangedTokensAreRevoked'
    BY <2>4 DEF ExchangedTokensAreRevoked
  <2>6. RequestsAreConsistent'
    BY <1>1, <1>2, <1>3 DEF RequestsAreConsistent, TypeOK
  <2>7. QED
    BY <1>6, <2>2, <2>5, <2>6 DEF Base
<1>9. QED
  BY <1>7, <1>8

\* Steps that move one request on without touching a table.
LEMMA MovesKeepIInv ==
  ASSUME Base, NEW r \in Requests, UNCHANGED <<now, tableVars, historyVars, deaths, faults>>,
         \/ \E u \in Users : /\ Arrive(r, u, "hash") \/ Arrive(r, u, "find")
                             /\ UNCHANGED <<presented, fresh>>
         \/ \E t \in clients : /\ Arrive(r, t[1], "check")
                               /\ presented' = [presented EXCEPT ![r] = t]
                               /\ UNCHANGED fresh
         \/ /\ Step(r, "hash", "create") \/ Step(r, "find", "compare") \/ Step(r, "check", "revoke")
            /\ UNCHANGED <<subject, presented, fresh>>
         \/ /\ Step(r, "compare", "issue")
            /\ fresh' = [fresh EXCEPT ![r] = <<subject[r], now>>]
            /\ UNCHANGED <<subject, presented>>
  PROVE  Base'
<1>1. /\ TypeOK /\ GivenTokensAreStored /\ ExchangedTokensAreRevoked /\ RequestsAreConsistent
      /\ UNCHANGED <<now, users, refreshTokens, clients, successors, deaths, faults>>
  BY DEF Base, tableVars, historyVars
<1> DEFINE Good == TypeOK' /\ GivenTokensAreStored' /\ RequestsAreConsistent'
<1>2. ASSUME NEW u \in Users, Arrive(r, u, "hash") \/ Arrive(r, u, "find"),
             UNCHANGED <<presented, fresh>>
      PROVE  Good
  BY <1>1, <1>2 DEF TypeOK, GivenTokensAreStored, RequestsAreConsistent, Arrive, Step, Awaits
<1>3. ASSUME NEW t \in clients, Arrive(r, t[1], "check"),
             presented' = [presented EXCEPT ![r] = t], UNCHANGED fresh
      PROVE  Good
  <2>1. t \in Tokens /\ t[1] \in Users
    BY <1>1 DEF TypeOK, Tokens
  <2>2. QED
    BY <1>1, <1>3, <2>1
       DEF TypeOK, GivenTokensAreStored, RequestsAreConsistent, Arrive, Step, Awaits
<1>4. CASE /\ Step(r, "hash", "create") \/ Step(r, "find", "compare") \/ Step(r, "check", "revoke")
           /\ UNCHANGED <<subject, presented, fresh>>
  <2>1. \A q \in Requests :
          \/ pc'[q] = pc[q]
          \/ pc'[q] \in {"create", "compare"}
          \/ pc[q] = "check" /\ pc'[q] = "revoke"
    BY <1>1, <1>4 DEF TypeOK, Step
  <2>2. pc' \in [Requests -> Awaits \cup {"idle"}]
    BY <1>1, <1>4 DEF TypeOK, Step, Awaits
  <2>3. TypeOK'
    BY <1>1, <1>4, <2>2 DEF TypeOK
  <2>4. GivenTokensAreStored'
    BY <1>1, <1>4, <2>1 DEF GivenTokensAreStored
  <2>5. RequestsAreConsistent'
    BY <1>1, <1>4, <2>1 DEF RequestsAreConsistent
  <2>6. QED
    BY <1>1, <2>3, <2>4, <2>5 DEF Base, ExchangedTokensAreRevoked
<1>5. CASE /\ Step(r, "compare", "issue")
           /\ fresh' = [fresh EXCEPT ![r] = <<subject[r], now>>]
           /\ UNCHANGED <<subject, presented>>
  <2>1. <<subject[r], now>> \in Tokens
    BY <1>1 DEF TypeOK, Tokens
  <2>2. \A q \in Requests : \/ pc'[q] = pc[q] /\ fresh'[q] = fresh[q]
                            \/ pc'[q] = "issue" /\ fresh'[q] \in Tokens
    BY <1>1, <1>5, <2>1 DEF TypeOK, Step
  <2>3. TypeOK'
    BY <1>1, <1>5, <2>1 DEF TypeOK, Step, Awaits
  <2>4. GivenTokensAreStored'
    BY <1>1, <1>5, <2>2 DEF GivenTokensAreStored
  <2>5. RequestsAreConsistent'
    BY <1>1, <1>5, <2>2 DEF RequestsAreConsistent
  <2>6. QED
    BY <1>1, <2>3, <2>4, <2>5 DEF Base, ExchangedTokensAreRevoked
<1>6. ExchangedTokensAreRevoked'
  BY <1>1 DEF ExchangedTokensAreRevoked
<1>7. QED
  BY <1>2, <1>3, <1>4, <1>5, <1>6 DEF Base

\* The revocation, and the new token it is followed by.
LEMMA RevocationKeepsBase ==
  ASSUME Base, NEW r \in Requests, RevokeToken(r)
  PROVE  Base'
<1>1. /\ TypeOK /\ GivenTokensAreStored /\ ExchangedTokensAreRevoked /\ RequestsAreConsistent
      /\ UNCHANGED <<now, users, subject, presented, clients, successors, deaths, faults>>
      /\ pc[r] = "revoke"
      /\ pc' = [pc EXCEPT ![r] = "reissue"]
      /\ refreshTokens' = [refreshTokens EXCEPT ![presented[r]] = "revoked"]
      /\ fresh' = [fresh EXCEPT ![r] = <<subject[r], now>>]
  BY DEF Base, RevokeToken, Step, historyVars
<1>2. presented[r] \in Tokens /\ presented[r] \in clients /\ presented[r][1] = subject[r]
  BY <1>1 DEF RequestsAreConsistent, TypeOK
<1>3. <<subject[r], now>> \in Tokens
  BY <1>1 DEF TypeOK, Tokens
<1>4. \A u \in Tokens : /\ refreshTokens'[u] = "none" => refreshTokens[u] = "none"
                        /\ refreshTokens[u] = "revoked" => refreshTokens'[u] = "revoked"
  BY <1>1, <1>2 DEF TypeOK, GivenTokensAreStored
<1>5. TypeOK'
  BY <1>1, <1>2, <1>3 DEF TypeOK, Awaits
<1>6. GivenTokensAreStored'
  BY <1>1, <1>4 DEF GivenTokensAreStored, TypeOK
<1>7. ExchangedTokensAreRevoked'
  BY <1>1, <1>4 DEF ExchangedTokensAreRevoked, TypeOK
<1>8. RequestsAreConsistent'
  BY <1>1, <1>2, <1>3, <1>4 DEF RequestsAreConsistent, TypeOK
<1>9. QED
  BY <1>5, <1>6, <1>7, <1>8 DEF Base

\* Every step keeps this much of the invariant.
LEMMA NextKeepsBase ==
  ASSUME Base, [Next]_vars
  PROVE  Base'
<1> USE DEF vars, requestVars, tableVars, historyVars
<1>1. ASSUME NEW r \in Requests, NEW u \in Users, Register(r, u) \/ Login(r, u)
      PROVE  Base'
  BY <1>1, MovesKeepIInv DEF Register, Login
<1>2. ASSUME NEW r \in Requests, NEW t \in Tokens, Refresh(r, t)
      PROVE  Base'
  BY <1>2, MovesKeepIInv DEF Refresh
<1>3. ASSUME NEW r \in Requests, HashPassword(r)
      PROVE  Base'
  BY <1>3, MovesKeepIInv DEF HashPassword
<1>4. ASSUME NEW r \in Requests, CreateUser(r)
      PROVE  Base'
  <2>1. users' \in SUBSET Users /\ faults' \in 0 .. MaxFaults
    BY <1>4 DEF CreateUser, Base, TypeOK
  <2>2. QED
    BY <1>4, <2>1, AnswerKeepsBase DEF CreateUser
<1>5. users \in SUBSET Users /\ faults \in 0 .. MaxFaults
  BY DEF Base, TypeOK
<1>6. ASSUME NEW r \in Requests, FindUser(r)
      PROVE  Base'
  <2>1. CASE subject[r] \in users
    BY <1>6, <2>1, MovesKeepIInv DEF FindUser
  <2>2. CASE subject[r] \notin users
    BY <1>5, <1>6, <2>2, AnswerKeepsBase DEF FindUser
  <2>3. QED
    BY <2>1, <2>2
<1>7. ASSUME NEW r \in Requests, ComparePassword(r)
      PROVE  Base'
  <2>1. CASE Answer(r)
    BY <1>5, <1>7, <2>1, AnswerKeepsBase DEF ComparePassword
  <2>2. CASE ~Answer(r)
    BY <1>7, <2>2, MovesKeepIInv DEF ComparePassword
  <2>3. QED
    BY <2>1, <2>2
<1>8. ASSUME NEW r \in Requests, IssueRefreshToken(r) \/ Reissue(r)
      PROVE  Base'
  <2>1. CASE Insert(r, "issue") /\ UNCHANGED <<now, faults, successors>>
    BY <2>1, InsertKeepsBase
  <2>2. CASE Insert(r, "reissue") /\ Succeed(r) /\ UNCHANGED <<now, faults>>
    BY <2>2, InsertKeepsBase
  <2>3. CASE Die("collision") /\ UNCHANGED <<now, faults>>
    BY <1>5, <2>3, DeathKeepsBase
  <2>4. QED
    BY <1>8, <2>1, <2>2, <2>3 DEF IssueRefreshToken, Reissue, Collide
<1>9. ASSUME NEW r \in Requests, CheckToken(r)
      PROVE  Base'
  <2>1. CASE Step(r, "check", "revoke") /\ UNCHANGED <<subject, presented, fresh>>
    BY <1>9, <2>1, MovesKeepIInv DEF CheckToken, Die, Answer, Step
  <2>2. CASE Die("expired")
    BY <1>5, <1>9, <2>2, DeathKeepsBase DEF CheckToken
  <2>3. CASE Answer(r) /\ UNCHANGED <<users, refreshTokens, clients, successors, deaths>>
    BY <1>5, <1>9, <2>3, AnswerKeepsBase DEF CheckToken
  <2>4. QED
    BY <1>9, <2>1, <2>2, <2>3 DEF CheckToken
<1>10. ASSUME NEW r \in Requests, RevokeToken(r)
       PROVE  Base'
  BY <1>10, RevocationKeepsBase
<1>11. ASSUME NEW r \in Requests, Respond(r)
       PROVE  Base'
  BY <1>5, <1>11, AnswerKeepsBase DEF Respond
<1>12. faults < MaxFaults /\ faults' = faults + 1 => faults' \in 0 .. MaxFaults
  BY <1>5, AuthAssumption
<1>13. ASSUME NEW r \in Requests, DatabaseFails(r)
       PROVE  Base'
  <2>1. CASE Die("database")
    BY <1>12, <1>13, <2>1, DeathKeepsBase DEF DatabaseFails
  <2>2. CASE Answer(r) /\ UNCHANGED <<users, refreshTokens, clients, successors, deaths>>
    BY <1>5, <1>12, <1>13, <2>2, AnswerKeepsBase DEF DatabaseFails
  <2>3. QED
    BY <1>13, <2>1, <2>2 DEF DatabaseFails
<1>14. CASE Crash
  BY <1>12, <1>14, DeathKeepsBase DEF Crash
<1>15. CASE Tick
  <2>1. now' \in Seconds
    BY <1>15, AuthAssumption DEF Tick, Base, TypeOK, Seconds
  <2>2. QED
    BY <1>15, <2>1 DEF Tick, Base, TypeOK, GivenTokensAreStored, ExchangedTokensAreRevoked,
                       RequestsAreConsistent
<1>16. CASE UNCHANGED vars
  BY <1>16 DEF Base, TypeOK, GivenTokensAreStored, ExchangedTokensAreRevoked,
               RequestsAreConsistent
<1>17. QED
  BY <1>1, <1>2, <1>3, <1>4, <1>6, <1>7, <1>8, <1>9, <1>10, <1>11, <1>13, <1>14, <1>15, <1>16
     DEF Next, Handle

\* What request q is to respond with was signed before, or is signed now, and then for a
\* token that was signed before.
SignsInTime(q) ==
  \/ pc'[q] \notin {"issue", "reissue", "respond"}
  \/ /\ pc[q] \in {"issue", "reissue", "respond"} /\ fresh'[q] = fresh[q]
     /\ pc'[q] = "reissue" => pc[q] = "reissue" /\ presented'[q] = presented[q]
  \/ /\ fresh'[q][2] = now
     /\ pc'[q] = "reissue" => presented'[q] \in clients

LEMMA OrderIsKept ==
  ASSUME IInv, now' \in Seconds, now <= now', \A q \in Requests : SignsInTime(q),
         \/ clients' = clients
         \/ \E r \in Requests : pc[r] = "respond" /\ clients' = clients \cup {fresh[r]},
         \/ successors' = successors
         \/ \E r \in Requests :
              /\ pc[r] = "reissue"
              /\ successors' = [successors EXCEPT ![presented[r]] = @ \cup {fresh[r]}]
  PROVE  TokensAreSignedInOrder'
<1>1. TypeOK /\ TokensAreSignedInOrder /\ RequestsAreConsistent /\ GivenTokensAreStored
  BY DEF IInv
<1>2. now \in Int /\ now' \in Int /\ \A t \in Tokens : t[2] \in Int
  BY <1>1, AuthAssumption DEF TypeOK, Tokens, Seconds
<1>3. \A q \in Requests : /\ pc[q] \in {"issue", "reissue", "respond"} => fresh[q] \in Tokens
                          /\ pc[q] = "reissue" => presented[q] \in Tokens
  BY <1>1 DEF RequestsAreConsistent, GivenTokensAreStored, TypeOK
<1>4. \A t \in clients : t[2] <= now /\ t \in Tokens
  BY <1>1 DEF TokensAreSignedInOrder, TypeOK
<1>5. \A t \in clients' : t[2] <= now'
  BY <1>1, <1>2, <1>3, <1>4 DEF TokensAreSignedInOrder
<1>6. ASSUME NEW q \in Requests
      PROVE  /\ pc'[q] \in {"issue", "reissue", "respond"} => fresh'[q][2] <= now'
             /\ pc'[q] = "reissue" => presented'[q][2] <= fresh'[q][2]
  BY <1>1, <1>2, <1>3, <1>4 DEF SignsInTime, TokensAreSignedInOrder
<1>7. ASSUME NEW t \in Tokens, NEW u \in successors'[t]
      PROVE  t[2] <= u[2]
  <2>1. CASE u \in successors[t]
    BY <1>1, <2>1 DEF TokensAreSignedInOrder
  <2>2. CASE u \notin successors[t]
    <3>1. PICK r \in Requests :
            /\ pc[r] = "reissue"
            /\ successors' = [successors EXCEPT ![presented[r]] = @ \cup {fresh[r]}]
      BY <2>2
    <3>2. t = presented[r] /\ u = fresh[r]
      BY <1>1, <2>2, <3>1 DEF TypeOK
    <3>3. QED
      BY <1>1, <3>1, <3>2 DEF TokensAreSignedInOrder
  <2>3. QED
    BY <2>1, <2>2
<1>8. QED
  BY <1>5, <1>6, <1>7 DEF TokensAreSignedInOrder

\* Every step signs in time.
LEMMA NextKeepsTheOrder ==
  ASSUME IInv, [Next]_vars
  PROVE  TokensAreSignedInOrder'
<1> USE DEF tableVars, historyVars
<1>1. TypeOK /\ RequestsAreConsistent
  BY DEF IInv
<1>2. now \in Seconds /\ now <= now
  BY <1>1, AuthAssumption DEF TypeOK, Seconds
<1>3. ASSUME UNCHANGED <<now, clients, successors>>, \A q \in Requests : SignsInTime(q)
      PROVE  TokensAreSignedInOrder'
  BY <1>2, <1>3, OrderIsKept
<1>4. ASSUME NEW r \in Requests, NEW u \in Users, Register(r, u) \/ Login(r, u)
      PROVE  TokensAreSignedInOrder'
  BY <1>1, <1>3, <1>4 DEF Register, Login, Arrive, Step, SignsInTime, TypeOK
<1>5. ASSUME NEW r \in Requests, NEW t \in Tokens, Refresh(r, t)
      PROVE  TokensAreSignedInOrder'
  BY <1>1, <1>3, <1>5 DEF Refresh, Arrive, Step, SignsInTime, TypeOK
<1>6. ASSUME NEW r \in Requests, HashPassword(r)
      PROVE  TokensAreSignedInOrder'
  BY <1>1, <1>3, <1>6 DEF HashPassword, Step, SignsInTime, TypeOK
<1>7. ASSUME NEW r \in Requests, Answer(r), UNCHANGED <<now, clients, successors>>
      PROVE  TokensAreSignedInOrder'
  BY <1>1, <1>3, <1>7 DEF Answer, SignsInTime, TypeOK
<1>8. ASSUME NEW cause, Die(cause), now' = now
      PROVE  TokensAreSignedInOrder'
  BY <1>3, <1>8 DEF Die, SignsInTime
<1>9. ASSUME NEW r \in Requests, CreateUser(r)
      PROVE  TokensAreSignedInOrder'
  BY <1>7, <1>9 DEF CreateUser
<1>10. ASSUME NEW r \in Requests, FindUser(r)
       PROVE  TokensAreSignedInOrder'
  <2>1. CASE Answer(r)
    BY <1>7, <1>10, <2>1 DEF FindUser
  <2>2. CASE ~Answer(r)
    BY <1>1, <1>3, <1>10, <2>2 DEF FindUser, Step, SignsInTime, TypeOK
  <2>3. QED
    BY <2>1, <2>2
<1>11. ASSUME NEW r \in Requests, ComparePassword(r)
       PROVE  TokensAreSignedInOrder'
  <2>1. CASE Answer(r)
    BY <1>7, <1>11, <2>1 DEF ComparePassword
  <2>2. CASE ~Answer(r)
    BY <1>1, <1>3, <1>11, <2>2 DEF ComparePassword, Step, SignsInTime, TypeOK
  <2>3. QED
    BY <2>1, <2>2
<1>12. ASSUME NEW r \in Requests, IssueRefreshToken(r) \/ Reissue(r)
       PROVE  TokensAreSignedInOrder'
  <2>1. now' = now
    BY <1>12 DEF IssueRefreshToken, Reissue
  <2>2. CASE Die("collision")
    BY <1>8, <2>1, <2>2
  <2>3. CASE Insert(r, "issue") /\ UNCHANGED successors
    BY <1>1, <1>3, <2>1, <2>3 DEF Insert, Step, SignsInTime, TypeOK
  <2>4. CASE Insert(r, "reissue") /\ Succeed(r)
    <3>1. \A q \in Requests : SignsInTime(q)
      BY <1>1, <2>4 DEF Insert, Step, SignsInTime, TypeOK
    <3>2. /\ clients' = clients /\ pc[r] = "reissue"
          /\ successors' = [successors EXCEPT ![presented[r]] = @ \cup {fresh[r]}]
      BY <2>4 DEF Insert, Step, Succeed
    <3>3. QED
      BY <1>2, <2>1, <3>1, <3>2, OrderIsKept
  <2>5. QED
    BY <1>12, <2>2, <2>3, <2>4 DEF IssueRefreshToken, Reissue, Collide
<1>13. ASSUME NEW r \in Requests, CheckToken(r)
       PROVE  TokensAreSignedInOrder'
  <2>1. CASE Answer(r) /\ UNCHANGED <<clients, successors>>
    BY <1>7, <1>13, <2>1 DEF CheckToken
  <2>2. CASE Die("expired")
    BY <1>8, <1>13, <2>2 DEF CheckToken
  <2>3. CASE Step(r, "check", "revoke") /\ UNCHANGED <<presented, fresh, clients, successors>>
    BY <1>1, <1>3, <1>13, <2>3 DEF CheckToken, Step, SignsInTime, TypeOK
  <2>4. QED
    BY <1>13, <2>1, <2>2, <2>3 DEF CheckToken
<1>14. ASSUME NEW r \in Requests, RevokeToken(r)
       PROVE  TokensAreSignedInOrder'
  <2>1. presented[r] \in clients
    BY <1>1, <1>14 DEF RevokeToken, Step, RequestsAreConsistent
  <2>2. QED
    BY <1>1, <1>3, <1>14, <2>1 DEF RevokeToken, Step, SignsInTime, TypeOK
<1>15. ASSUME NEW r \in Requests, Respond(r)
       PROVE  TokensAreSignedInOrder'
  <2>1. \A q \in Requests : SignsInTime(q)
    BY <1>1, <1>15 DEF Respond, Answer, SignsInTime, TypeOK
  <2>2. QED
    BY <1>2, <1>15, <2>1, OrderIsKept DEF Respond
<1>16. ASSUME NEW r \in Requests, DatabaseFails(r)
       PROVE  TokensAreSignedInOrder'
  BY <1>7, <1>8, <1>16 DEF DatabaseFails
<1>17. CASE Crash
  BY <1>8, <1>17 DEF Crash
<1>18. CASE Tick
  <2>1. now' \in Seconds /\ now <= now'
    BY <1>2, <1>18, AuthAssumption DEF Tick, Seconds
  <2>2. \A q \in Requests : SignsInTime(q)
    BY <1>18 DEF Tick, SignsInTime, requestVars
  <2>3. QED
    BY <1>18, <2>1, <2>2, OrderIsKept DEF Tick
<1>19. CASE UNCHANGED vars
  BY <1>3, <1>19 DEF vars, requestVars, SignsInTime
<1>20. QED
  BY <1>4, <1>5, <1>6, <1>9, <1>10, <1>11, <1>12, <1>13, <1>14, <1>15, <1>16, <1>17, <1>18, <1>19
     DEF Next, Handle

LEMMA InitIInv == Init => IInv
<1>1. Init => TokensAreSignedInOrder
  BY DEF Init, TokensAreSignedInOrder
<1>2. QED
  BY <1>1, InitBase DEF Base, IInv

LEMMA NextKeepsIInv ==
  ASSUME IInv, [Next]_vars
  PROVE  IInv'
<1>1. Base
  BY DEF IInv, Base
<1>2. QED
  BY <1>1, NextKeepsBase, NextKeepsTheOrder DEF IInv, Base

\* The tables, the tokens clients hold and the requests in flight agree in every state, and
\* no token was exchanged for one signed earlier.
THEOREM AuthInvariant == Spec => []IInv
<1>1. Init => IInv
  BY InitIInv
<1>2. IInv /\ [Next]_vars => IInv'
  BY NextKeepsIInv
<1>3. QED
  BY <1>1, <1>2, PTL DEF Spec

-----------------------------------------------------------------------------
\* What one step can do to the tables and to the requests past the check.
OthersWait(r) ==
  \A q \in Requests \ {r} : pc'[q] = pc[q] /\ presented'[q] = presented[q] /\ fresh'[q] = fresh[q]

TablesStay == UNCHANGED <<refreshTokens, clients, successors>>

Leaves(r) ==
  /\ pc[r] # "reissue"
  /\ pc'[r] \notin {"revoke", "reissue", "respond"}
  /\ TablesStay

PassesTheCheck(r) ==
  /\ pc[r] = "check" /\ refreshTokens[presented[r]] = "live"
  /\ pc'[r] = "revoke" /\ presented'[r] = presented[r]
  /\ TablesStay

Revokes(r) ==
  /\ pc[r] = "revoke" /\ presented[r] \in clients
  /\ pc'[r] = "reissue" /\ presented'[r] = presented[r]
  /\ refreshTokens' = [refreshTokens EXCEPT ![presented[r]] = "revoked"]
  /\ UNCHANGED <<clients, successors>>

Inserts(r) ==
  /\ pc[r] \in {"issue", "reissue"}
  /\ pc'[r] = "respond" /\ fresh'[r] = fresh[r]
  /\ fresh[r] \in Tokens /\ refreshTokens[fresh[r]] = "none"
  /\ refreshTokens' = [refreshTokens EXCEPT ![fresh[r]] = "live"]
  /\ \/ pc[r] = "issue" /\ UNCHANGED successors
     \/ pc[r] = "reissue" /\ Succeed(r)
  /\ UNCHANGED clients

Responds(r) ==
  /\ pc[r] = "respond" /\ pc'[r] = "idle"
  /\ clients' = clients \cup {fresh[r]}
  /\ UNCHANGED <<refreshTokens, successors>>

Advances(r) ==
  /\ OthersWait(r)
  /\ deaths' = deaths
  /\ Leaves(r) \/ PassesTheCheck(r) \/ Revokes(r) \/ Inserts(r) \/ Responds(r)

Dies ==
  /\ deaths' # {}
  /\ \A q \in Requests : pc'[q] = "idle"
  /\ TablesStay

Waits == UNCHANGED <<pc, presented, fresh, deaths>> /\ TablesStay

LEMMA DyingSteps ==
  ASSUME NEW cause, Die(cause)
  PROVE  Dies
BY DEF Die, Dies, TablesStay, tableVars, historyVars

LEMMA AnsweringSteps ==
  ASSUME TypeOK, NEW r \in Requests, pc[r] # "reissue", Answer(r), TablesStay, deaths' = deaths
  PROVE  Advances(r)
BY DEF TypeOK, Answer, Advances, OthersWait, Leaves

\* Every step is the death of the process, one request going on, or none of the two.
LEMMA StepsOfTheService ==
  ASSUME IInv, [Next]_vars
  PROVE  Dies \/ Waits \/ \E r \in Requests : Advances(r)
<1> USE DEF tableVars, historyVars, TablesStay
<1>1. TypeOK /\ RequestsAreConsistent
  BY DEF IInv
<1>2. ASSUME NEW r \in Requests, NEW u \in Users, Register(r, u) \/ Login(r, u)
      PROVE  Advances(r)
  BY <1>1, <1>2 DEF Register, Login, Arrive, Step, Advances, OthersWait, Leaves, TypeOK
<1>3. ASSUME NEW r \in Requests, NEW t \in Tokens, Refresh(r, t)
      PROVE  Advances(r)
  BY <1>1, <1>3 DEF Refresh, Arrive, Step, Advances, OthersWait, Leaves, TypeOK
<1>4. ASSUME NEW r \in Requests, HashPassword(r)
      PROVE  Advances(r)
  BY <1>1, <1>4 DEF HashPassword, Step, Advances, OthersWait, Leaves, TypeOK
<1>5. ASSUME NEW r \in Requests, CreateUser(r)
      PROVE  Advances(r)
  BY <1>1, <1>5, AnsweringSteps DEF CreateUser
<1>6. ASSUME NEW r \in Requests, FindUser(r)
      PROVE  Advances(r)
  <2>1. CASE Answer(r)
    BY <1>1, <1>6, <2>1, AnsweringSteps DEF FindUser
  <2>2. CASE ~Answer(r)
    BY <1>1, <1>6, <2>2 DEF FindUser, Step, Advances, OthersWait, Leaves, TypeOK
  <2>3. QED
    BY <2>1, <2>2
<1>7. ASSUME NEW r \in Requests, ComparePassword(r)
      PROVE  Advances(r)
  <2>1. CASE Answer(r)
    BY <1>1, <1>7, <2>1, AnsweringSteps DEF ComparePassword
  <2>2. CASE ~Answer(r)
    BY <1>1, <1>7, <2>2 DEF ComparePassword, Step, Advances, OthersWait, Leaves, TypeOK
  <2>3. QED
    BY <2>1, <2>2
<1>8. ASSUME NEW r \in Requests, IssueRefreshToken(r) \/ Reissue(r)
      PROVE  Dies \/ Advances(r)
  <2>1. CASE Insert(r, "issue") /\ UNCHANGED successors
    BY <1>1, <2>1 DEF Insert, Step, Advances, OthersWait, Inserts, TypeOK, RequestsAreConsistent
  <2>2. CASE Insert(r, "reissue") /\ Succeed(r)
    BY <1>1, <2>2 DEF Insert, Step, Advances, OthersWait, Inserts, TypeOK, RequestsAreConsistent
  <2>3. CASE Die("collision")
    BY <2>3, DyingSteps
  <2>4. QED
    BY <1>8, <2>1, <2>2, <2>3 DEF IssueRefreshToken, Reissue, Collide
<1>9. ASSUME NEW r \in Requests, CheckToken(r)
      PROVE  Dies \/ Advances(r)
  <2>1. CASE /\ Step(r, "check", "revoke")
             /\ refreshTokens[presented[r]] = "live"
             /\ UNCHANGED <<users, refreshTokens, presented, fresh, clients, successors, deaths>>
    BY <1>1, <2>1 DEF Step, Advances, OthersWait, PassesTheCheck, TypeOK
  <2>2. CASE Die("expired")
    BY <2>2, DyingSteps
  <2>3. CASE Answer(r) /\ pc[r] = "check" /\ TablesStay /\ UNCHANGED deaths
    BY <1>1, <2>3, AnsweringSteps
  <2>4. QED
    BY <1>9, <2>1, <2>2, <2>3 DEF CheckToken
<1>10. ASSUME NEW r \in Requests, RevokeToken(r)
       PROVE  Advances(r)
  BY <1>1, <1>10 DEF RevokeToken, Step, Advances, OthersWait, Revokes, TypeOK, RequestsAreConsistent
<1>11. ASSUME NEW r \in Requests, Respond(r)
       PROVE  Advances(r)
  BY <1>1, <1>11 DEF Respond, Answer, Advances, OthersWait, Responds, TypeOK
<1>12. ASSUME NEW r \in Requests, DatabaseFails(r)
       PROVE  Dies \/ Advances(r)
  <2>1. CASE Die("database")
    BY <2>1, DyingSteps
  <2>2. CASE Answer(r) /\ pc[r] = "create" /\ TablesStay /\ UNCHANGED deaths
    BY <1>1, <2>2, AnsweringSteps
  <2>3. QED
    BY <1>12, <2>1, <2>2 DEF DatabaseFails
<1>13. CASE Crash
  BY <1>13, DyingSteps DEF Crash
<1>14. CASE Tick \/ UNCHANGED vars
  BY <1>14 DEF Tick, vars, requestVars, Waits
<1>15. QED
  BY <1>2, <1>3, <1>4, <1>5, <1>6, <1>7, <1>8, <1>9, <1>10, <1>11, <1>12, <1>13, <1>14
     DEF Next, Handle

\* Rotation, for any number of requests and deaths: once a revoked token is in the
\* hands of no request past the check, nothing is ever issued for it again.
THEOREM RevokedTokensStaySpent == Spec => RevokedTokensAreSpent
<1>1. ASSUME IInv, [Next]_vars, NEW t \in Tokens, Spent(t)
      PROVE  Spent(t)' /\ successors'[t] = successors[t]
  <2>1. TypeOK /\ refreshTokens[t] = "revoked"
    BY <1>1 DEF IInv, Spent
  <2>2. CASE Dies \/ Waits
    BY <1>1, <2>1, <2>2 DEF Dies, Waits, TablesStay, Spent
  <2>3. ASSUME NEW r \in Requests, Advances(r)
        PROVE  Spent(t)' /\ successors'[t] = successors[t]
    <3>1. refreshTokens'[t] = "revoked"
      BY <2>1, <2>3 DEF Advances, Leaves, PassesTheCheck, Revokes, Inserts, Responds, TablesStay,
                        TypeOK
    <3>2. \A q \in Requests : pc'[q] \in {"revoke", "reissue"} => presented'[q] # t
      BY <1>1, <2>1, <2>3
         DEF Advances, OthersWait, Leaves, PassesTheCheck, Revokes, Inserts, Responds, Spent
    <3>3. successors'[t] = successors[t]
      BY <1>1, <2>1, <2>3
         DEF Advances, Leaves, PassesTheCheck, Revokes, Inserts, Responds, TablesStay, Spent,
             Succeed, TypeOK
    <3>4. QED
      BY <3>1, <3>2, <3>3 DEF Spent
  <2>4. QED
    BY <1>1, <2>2, <2>3, StepsOfTheService
<1>2. IInv /\ [Next]_vars
      => [\A t \in Tokens : Spent(t) => Spent(t)' /\ successors'[t] = successors[t]]_vars
  BY <1>1
<1>3. QED
  BY <1>2, AuthInvariant, PTL DEF Spec, RevokedTokensAreSpent

\* A token on its way to a client is one nobody could present yet.
AnswersAreFresh ==
  \A r \in Requests : pc[r] = "respond" => fresh[r] \in clients \/ refreshTokens[fresh[r]] = "live"

\* While the process has not died, no client loses the way into its session.
THEOREM SessionsOnlyDieWithTheProcess == Spec => []SessionsSurvive
<1> DEFINE J == AnswersAreFresh /\ SessionsSurvive
<1>1. Init => J
  BY DEF Init, AnswersAreFresh, SessionsSurvive
<1>2. ASSUME IInv, J, [Next]_vars
      PROVE  J'
  <2>1. /\ TypeOK
        /\ \A q \in Requests : pc[q] = "respond" => fresh[q] \in Tokens
    BY <1>2 DEF IInv, GivenTokensAreStored
  <2>2. CASE Dies
    BY <2>2 DEF Dies, AnswersAreFresh, SessionsSurvive
  <2>3. CASE Waits
    BY <1>2, <2>3 DEF Waits, TablesStay, AnswersAreFresh, SessionsSurvive
  <2>4. ASSUME NEW r \in Requests, Advances(r)
        PROVE  J'
    <3>1. /\ OthersWait(r) /\ deaths' = deaths
          /\ Leaves(r) \/ PassesTheCheck(r) \/ Revokes(r) \/ Inserts(r) \/ Responds(r)
      BY <2>4 DEF Advances
    <3>2. clients \in SUBSET Tokens /\ clients \subseteq clients'
      <4>1. clients \in SUBSET Tokens
        BY <2>1 DEF TypeOK
      <4>2. clients' = clients \/ clients' = clients \cup {fresh[r]}
        BY <3>1 DEF Leaves, PassesTheCheck, Revokes, Inserts, Responds, TablesStay
      <4>3. QED
        BY <4>1, <4>2
    <3>3. \A u \in Tokens :
            refreshTokens[u] = "live" =>
              refreshTokens'[u] = "live" \/ (Revokes(r) /\ u = presented[r])
      <4>1. CASE UNCHANGED refreshTokens
        BY <4>1
      <4>2. CASE Revokes(r)
        BY <2>1, <4>2 DEF TypeOK, Revokes
      <4>3. CASE Inserts(r)
        BY <2>1, <4>3 DEF TypeOK, Inserts
      <4>4. QED
        BY <3>1, <4>1, <4>2, <4>3 DEF Leaves, PassesTheCheck, Responds, TablesStay
    <3>4. AnswersAreFresh'
      <4>1. ASSUME NEW q \in Requests, pc'[q] = "respond"
            PROVE  fresh'[q] \in clients' \/ refreshTokens'[fresh'[q]] = "live"
        <5>1. CASE q = r
          BY <2>1, <3>1, <4>1, <5>1
             DEF Leaves, PassesTheCheck, Revokes, Inserts, Responds, TypeOK
        <5>2. CASE q # r
          <6>1. pc[q] = "respond" /\ fresh'[q] = fresh[q]
            BY <3>1, <4>1, <5>2 DEF OthersWait
          <6>2. QED
            BY <1>2, <2>1, <3>2, <3>3, <6>1 DEF AnswersAreFresh, Revokes
        <5>3. QED
          BY <5>1, <5>2
      <4>2. QED
        BY <4>1 DEF AnswersAreFresh
    <3>5. \A u \in Tokens : successors[u] # {} => successors'[u] # {}
      BY <2>1, <3>1
         DEF TypeOK, Leaves, PassesTheCheck, Revokes, Inserts, Responds, TablesStay, Succeed
    <3>6. ASSUME deaths = {}, NEW u \in clients
          PROVE  \/ refreshTokens'[u] = "live"
                 \/ successors'[u] # {}
                 \/ \E q \in Requests : pc'[q] = "reissue" /\ presented'[q] = u
      <4>1. CASE refreshTokens[u] = "live"
        BY <3>2, <3>3, <4>1 DEF Revokes
      <4>2. CASE successors[u] # {}
        BY <3>2, <3>5, <4>2
      <4>3. ASSUME NEW q \in Requests, pc[q] = "reissue", presented[q] = u
            PROVE  \/ successors'[u] # {}
                   \/ \E p \in Requests : pc'[p] = "reissue" /\ presented'[p] = u
        <5>1. CASE q # r
          BY <3>1, <4>3, <5>1 DEF OthersWait
        <5>2. CASE q = r
          <6>1. Inserts(r) /\ Succeed(r)
            BY <3>1, <4>3, <5>2 DEF Leaves, PassesTheCheck, Revokes, Inserts, Responds
          <6>2. successors'[u] = successors[u] \cup {fresh[r]}
            BY <2>1, <3>2, <4>3, <5>2, <6>1 DEF Succeed, TypeOK
          <6>3. QED
            BY <6>2
        <5>3. QED
          BY <5>1, <5>2
      <4>4. QED
        BY <1>2, <3>6, <4>1, <4>2, <4>3 DEF SessionsSurvive
    <3>7. ASSUME deaths = {}, Responds(r), fresh[r] \notin clients
          PROVE  refreshTokens'[fresh[r]] = "live"
      BY <1>2, <3>7 DEF AnswersAreFresh, Responds
    <3>8. SessionsSurvive'
      <4>1. ASSUME NEW u \in clients', u \notin clients
            PROVE  Responds(r) /\ u = fresh[r]
        BY <3>1, <4>1 DEF Leaves, PassesTheCheck, Revokes, Inserts, Responds, TablesStay
      <4>2. QED
        BY <3>1, <3>6, <3>7, <4>1 DEF SessionsSurvive
    <3>9. QED
      BY <3>4, <3>8
  <2>5. CASE UNCHANGED vars
    BY <1>2, <2>5 DEF vars, AnswersAreFresh, SessionsSurvive
  <2>6. QED
    BY <1>2, <2>2, <2>3, <2>4, StepsOfTheService
<1>3. QED
  BY <1>1, <1>2, AuthInvariant, PTL DEF Spec

\* ---------------------------------------------------- the rate limiter

LEMMA GatesAreFinite ==
  ASSUME NEW H \in SUBSET Gates
  PROVE  IsFiniteSet(H) /\ Cardinality(H) \in Nat
<1>1. IsFiniteSet({"plan"} \cup {"endpoint"})
  BY FS_Singleton, FS_Union
<1>2. Gates = {"plan"} \cup {"endpoint"}
  BY DEF Gates
<1>3. QED
  BY <1>1, <1>2, FS_Subset, FS_CardinalityType

LEMMA RunningIsFinite ==
  ASSUME NEW u \in UserIds
  PROVE  IsFiniteSet(Running(u)) /\ Cardinality(Running(u)) \in Nat
<1>1. IsFiniteSet(RequestSlots \X Gates)
  BY LimiterAssumption, GatesAreFinite, FS_Product
<1>2. Running(u) \subseteq RequestSlots \X Gates
  BY DEF Running
<1>3. QED
  BY <1>1, <1>2, FS_Subset, FS_CardinalityType

LEMMA LesserOfNats ==
  ASSUME NEW a \in Nat, NEW b \in Nat
  PROVE  /\ Lesser(a, b) \in Nat
         /\ Lesser(a, b) <= a /\ Lesser(a, b) <= b
         /\ Lesser(a, b) = a \/ Lesser(a, b) = b
         /\ Minus(a, b) \in Nat
         /\ Minus(a, b) <= a
         /\ b <= a => Minus(a, b) = a - b
BY DEF Lesser, Minus

\* Two instants of one window are less than its length apart.
LEMMA WindowsAreShort ==
  ASSUME NEW n \in Nat, n > 0, NEW a \in Nat, NEW b \in Nat, a \div n = b \div n
  PROVE  b < a + n
OBVIOUS

LEMMA ProductsOfNats == ASSUME NEW a \in Nat, NEW b \in Nat PROVE a * b \in Nat
OBVIOUS

\* The bucket a call finds or opens, what it counts, and what it leaves.
LEMMA BucketsAreBuckets ==
  ASSUME LimiterTypeOK, NEW u \in UserIds, NEW weight \in Nat
  PROVE  /\ \A i \in Windows : Key(i) \in Nat
         /\ Existing(u) \in Bucket
         /\ \A i \in Windows : Counted(u, i, weight) \in Nat
         /\ Refilled(u) \in Nat
         /\ Charged(u, weight) \in Bucket
<1> DEFINE b == Existing(u)
<1>0. /\ clock \in Nat /\ buckets[u] \in Bucket \cup {NoBucket}
      /\ \A i \in Windows : Limit[u][i] \in Nat /\ Length[i] \in Nat \ {0}
      /\ Refill[u] \in Nat /\ FreeTokens \in Nat
  BY LimiterAssumption DEF LimiterTypeOK
<1>1. \A i \in Windows : Key(i) \in Nat
  BY <1>0 DEF Key
<1>2. NewBucket \in Bucket
  BY <1>0, <1>1 DEF NewBucket, Bucket
<1>3. b \in Bucket
  BY <1>0, <1>2 DEF Existing
<1>4. \A i \in Windows : Counted(u, i, weight) \in Nat
  <2>1. ASSUME NEW i \in Windows PROVE Counted(u, i, weight) \in Nat
    <3>1. (IF b.key[i] = Key(i) THEN b.count[i] ELSE 0) + weight \in Nat
      BY <1>3 DEF Bucket
    <3>2. Limit[u][i] + 1 \in Nat
      BY <1>0
    <3>3. QED
      BY <3>1, <3>2, LesserOfNats, Zenon DEF Counted
  <2>2. QED
    BY <2>1
<1>5. Refilled(u) \in Nat
  <2>1. Minus(clock, b.lastRefillTime) \in Nat /\ b.tokens \in Nat
    BY <1>0, <1>3, LesserOfNats DEF Bucket
  <2>2. Limit[u][1] \in Nat
    BY <1>0 DEF Windows
  <2>3. Refill[u] * Minus(clock, b.lastRefillTime) \in Nat
    BY <1>0, <2>1, ProductsOfNats, Zenon
  <2>4. b.tokens + Refill[u] * Minus(clock, b.lastRefillTime) \in Nat
    BY <2>1, <2>3
  <2>5. QED
    BY <2>2, <2>4, LesserOfNats DEF Refilled
<1>6. Charged(u, weight) \in Bucket
  <2>1. Allowed(u, weight) => Refilled(u) - weight \in Nat
    BY <1>5 DEF Allowed
  <2>2. b.concurrentCount \in Nat /\ b.concurrentCount + 1 \in Nat
        /\ \A i \in Windows : b.key[i] \in Nat /\ b.count[i] \in Nat
    BY <1>3 DEF Bucket
  <2>3. QED
    BY <1>0, <1>1, <1>4, <1>5, <2>1, <2>2 DEF Charged, Bucket
<1>7. QED
  BY <1>1, <1>3, <1>4, <1>5, <1>6

IdleHoldsNothing == \A r \in RequestSlots : status[r] = "idle" => held[r] = {}

\* Until a count is forgotten, the counter is what is running and within the plan.
CountIsExact ==
  \A u \in UserIds : ~leaked[u] =>
    /\ buckets[u] = NoBucket => Running(u) = {}
    /\ buckets[u] # NoBucket => buckets[u].concurrentCount = Cardinality(Running(u))
    /\ Cardinality(Running(u)) <= MaxConcurrent[u]

\* What the current window has let in is in the bucket's count of that window, and the
\* bucket was last used in it.
AdmittedIsCounted ==
  \A u \in UserIds, i \in Windows : admitted[u][i] # 0 =>
    /\ buckets[u] # NoBucket
    /\ buckets[u].key[i] = Key(i)
    /\ buckets[u].lastRefillTime \div Length[i] = Key(i)
    /\ admitted[u][i] <= buckets[u].count[i]
    /\ admitted[u][i] <= Limit[u][i]

LimiterStrength ==
  LimiterTypeOK /\ IdleHoldsNothing /\ CountIsOwed /\ CountIsExact /\ AdmittedIsCounted

\* A step that concerns the request r leaves what other users run alone.
LEMMA OthersGoOnRunning ==
  ASSUME NEW r \in RequestSlots, NEW u \in UserIds, u # UserOf[r],
         \A q \in RequestSlots \ {r} : status'[q] = status[q] /\ held'[q] = held[q]
  PROVE  Running(u)' = Running(u)
<1>1. \A x \in RequestSlots \X Gates : UserOf[x[1]] = u =>
        status'[x[1]] = status[x[1]] /\ held'[x[1]] = held[x[1]]
  OBVIOUS
<1>2. QED
  BY <1>1 DEF Running

LEMMA AdmissionsRun ==
  ASSUME LimiterTypeOK, NEW r \in RequestSlots, NEW gate \in Gates,
         gate \notin held[r],
         status[r] \in {"open", "refused"} \/ held[r] = {},
         status' = [status EXCEPT ![r] = "open"],
         held' = [held EXCEPT ![r] = @ \cup {gate}]
  PROVE  LET u == UserOf[r]
         IN  Cardinality(Running(u)') = Cardinality(Running(u)) + 1
<1> DEFINE u == UserOf[r]
<1>1. u \in UserIds
  BY LimiterAssumption
<1>2. <<r, gate>> \notin Running(u)
  BY DEF Running
<1>3. Running(u)' = Running(u) \cup {<<r, gate>>}
  <2>1. \A x \in RequestSlots \X Gates : x[1] # r =>
          status'[x[1]] = status[x[1]] /\ held'[x[1]] = held[x[1]]
    BY DEF LimiterTypeOK
  <2>2. status'[r] = "open" /\ held'[r] = held[r] \cup {gate}
    BY DEF LimiterTypeOK
  <2>3. ASSUME NEW x \in RequestSlots \X Gates
        PROVE  x \in Running(u)' <=> x \in Running(u) \/ x = <<r, gate>>
    <3>1. CASE x[1] # r
      BY <2>1, <3>1 DEF Running
    <3>2. CASE x[1] = r
      <4>1. x \in Running(u)' <=> x[2] \in held[r] \/ x[2] = gate
        BY <2>2, <3>2 DEF Running
      <4>2. x \in Running(u) <=> x[2] \in held[r]
        BY <3>2 DEF Running
      <4>3. x = <<r, gate>> <=> x[2] = gate
        BY <3>2
      <4>4. QED
        BY <4>1, <4>2, <4>3
    <3>3. QED
      BY <3>1, <3>2
  <2>4. Running(u)' \subseteq RequestSlots \X Gates
        /\ Running(u) \subseteq RequestSlots \X Gates /\ <<r, gate>> \in RequestSlots \X Gates
    BY DEF Running
  <2>5. QED
    BY <2>3, <2>4
<1>4. QED
  BY <1>1, <1>2, <1>3, RunningIsFinite, FS_AddElement

\* An answer takes all that its request holds.
LEMMA AnswersStopRunning ==
  ASSUME LimiterTypeOK, NEW r \in RequestSlots,
         \A q \in RequestSlots \ {r} : status'[q] = status[q] /\ held'[q] = held[q],
         status'[r] \notin {"open", "refused"}
  PROVE  LET u == UserOf[r]
         IN  /\ status[r] \in {"open", "refused"} =>
                  /\ Cardinality(Running(u)') = Cardinality(Running(u)) - Cardinality(held[r])
                  /\ Cardinality(held[r]) <= Cardinality(Running(u))
             /\ status[r] \notin {"open", "refused"} => Running(u)' = Running(u)
             /\ Running(u)' \subseteq Running(u)
<1> DEFINE u == UserOf[r]
           mine == {r} \X held[r]
<1>1. u \in UserIds /\ held[r] \in SUBSET Gates
  BY LimiterAssumption DEF LimiterTypeOK
<1>2. \A x \in RequestSlots \X Gates :
        x \in Running(u)' <=> x \in Running(u) /\ x[1] # r
  <2>1. \A x \in RequestSlots \X Gates : x[1] # r =>
          status'[x[1]] = status[x[1]] /\ held'[x[1]] = held[x[1]]
    OBVIOUS
  <2>2. QED
    BY <2>1 DEF Running
<1>3. Running(u)' \subseteq Running(u) /\ Running(u) \subseteq RequestSlots \X Gates
  BY <1>2 DEF Running
<1>4. ASSUME status[r] \notin {"open", "refused"}
      PROVE  Running(u)' = Running(u)
  <2>1. \A x \in Running(u) : x[1] # r
    BY <1>4 DEF Running
  <2>2. QED
    BY <1>2, <1>3, <2>1
<1>5. ASSUME status[r] \in {"open", "refused"}
      PROVE  /\ Cardinality(Running(u)') = Cardinality(Running(u)) - Cardinality(held[r])
             /\ Cardinality(held[r]) <= Cardinality(Running(u))
  <2>1. mine \subseteq Running(u)
    BY <1>1, <1>5 DEF Running
  <2>2. Running(u)' = Running(u) \ mine
    <3>1. ASSUME NEW x \in Running(u) PROVE x \in mine <=> x[1] = r
      <4>1. PICK q \in RequestSlots, g \in Gates : x = <<q, g>> /\ g \in held[q]
        BY <1>3 DEF Running
      <4>2. QED
        BY <4>1
    <3>2. QED
      BY <1>2, <1>3, <3>1
  <2>3. Running(u) \cap mine = mine
    BY <2>1
  <2>4. Cardinality(mine) = Cardinality(held[r])
    <3>1. IsFiniteSet({r}) /\ Cardinality({r}) = 1
      BY FS_Singleton
    <3>2. IsFiniteSet(held[r]) /\ Cardinality(held[r]) \in Nat
      BY <1>1, GatesAreFinite
    <3>3. Cardinality(mine) = Cardinality({r}) * Cardinality(held[r])
      BY <3>1, <3>2, FS_Product, Zenon
    <3>4. QED
      BY <3>1, <3>2, <3>3
  <2>5. Cardinality(Running(u) \ mine) = Cardinality(Running(u)) - Cardinality(mine)
    <3>1. Cardinality(Running(u) \ mine)
            = Cardinality(Running(u)) - Cardinality(Running(u) \cap mine)
      BY <1>1, RunningIsFinite, FS_Difference, Zenon
    <3>2. QED
      BY <2>3, <3>1
  <2>6. Cardinality(mine) <= Cardinality(Running(u))
    BY <1>1, <2>1, RunningIsFinite, FS_Subset
  <2>7. QED
    BY <2>2, <2>4, <2>5, <2>6
<1>6. QED
  BY <1>3, <1>4, <1>5

\* decrementConcurrent changes the counter of the request's user and nothing else.
LEMMA DecrementsOnlyCount ==
  ASSUME LimiterTypeOK, NEW r \in RequestSlots, buckets' = Decremented(r)
  PROVE  /\ buckets' \in [UserIds -> Bucket \cup {NoBucket}]
         /\ \A u \in UserIds :
              /\ buckets'[u] = NoBucket <=> buckets[u] = NoBucket
              /\ buckets[u] # NoBucket =>
                   /\ buckets'[u].key = buckets[u].key
                   /\ buckets'[u].count = buckets[u].count
                   /\ buckets'[u].lastRefillTime = buckets[u].lastRefillTime
                   /\ buckets'[u].concurrentCount =
                        IF u = UserOf[r]
                          THEN Minus(buckets[u].concurrentCount, Cardinality(held[r]))
                          ELSE buckets[u].concurrentCount
<1> DEFINE w == UserOf[r]
<1>1. /\ w \in UserIds
      /\ held[r] \in SUBSET Gates
      /\ buckets \in [UserIds -> Bucket \cup {NoBucket}]
  BY LimiterAssumption DEF LimiterTypeOK
<1>2. CASE buckets[w] = NoBucket
  BY <1>1, <1>2 DEF Decremented
<1>3. CASE buckets[w] # NoBucket
  <2> DEFINE k == Minus(buckets[w].concurrentCount, Cardinality(held[r]))
             b == [buckets[w] EXCEPT !.concurrentCount = k]
  <2>1. buckets[w] \in Bucket
    BY <1>1, <1>3
  <2>2. k \in Nat
    <3>1. Cardinality(held[r]) \in Nat /\ buckets[w].concurrentCount \in Nat
      BY <1>1, <2>1, GatesAreFinite DEF Bucket
    <3>2. QED
      BY <3>1, LesserOfNats
  <2>3. buckets' = [buckets EXCEPT ![w] = b]
    BY <1>3 DEF Decremented
  <2>4. /\ b \in Bucket
        /\ b.key = buckets[w].key /\ b.count = buckets[w].count
        /\ b.lastRefillTime = buckets[w].lastRefillTime
        /\ b.concurrentCount = k
    BY <2>1, <2>2 DEF Bucket
  <2>5. b # NoBucket
    BY <2>4, BucketAssumption
  <2> HIDE DEF b, k
  <2>6. /\ buckets' \in [UserIds -> Bucket \cup {NoBucket}]
        /\ buckets'[w] = b
        /\ \A u \in UserIds \ {w} : buckets'[u] = buckets[u]
    BY <1>1, <2>3, <2>4
  <2>7. QED
    BY <1>3, <2>4, <2>5, <2>6 DEF k
<1>4. QED
  BY <1>2, <1>3

\* A call counts itself in every window it reaches, and never takes a count back.
LEMMA ChargesCount ==
  ASSUME LimiterTypeOK, AdmittedIsCounted, NEW u \in UserIds, NEW weight \in Nat
  PROVE  LET b == Charged(u, weight)
         IN  /\ b \in Bucket
             /\ b.lastRefillTime = clock
             /\ b.concurrentCount =
                  IF Allowed(u, weight) THEN Existing(u).concurrentCount + 1
                  ELSE Existing(u).concurrentCount
             /\ \A i \in Windows : admitted[u][i] # 0 =>
                  b.key[i] = Key(i) /\ admitted[u][i] <= b.count[i]
             /\ Allowed(u, weight) => \A i \in Windows :
                  /\ b.key[i] = Key(i)
                  /\ admitted[u][i] + weight <= b.count[i]
                  /\ b.count[i] <= Limit[u][i]
<1> DEFINE b == Charged(u, weight)
           e == Existing(u)
<1>1. b \in Bucket /\ e \in Bucket /\ \A i \in Windows : Key(i) \in Nat
  BY BucketsAreBuckets
<1>2. /\ b.lastRefillTime = clock
      /\ b.concurrentCount = IF Allowed(u, weight) THEN e.concurrentCount + 1
                             ELSE e.concurrentCount
      /\ \A i \in Windows : b.key[i] = IF Reached(u, i, weight) THEN Key(i) ELSE e.key[i]
      /\ \A i \in Windows :
           b.count[i] = IF Reached(u, i, weight) THEN Counted(u, i, weight) ELSE e.count[i]
  BY DEF Charged
<1>3. \A i \in Windows :
        /\ admitted[u][i] \in Nat /\ Limit[u][i] \in Nat /\ e.count[i] \in Nat
        /\ Counted(u, i, weight) =
             Lesser(Limit[u][i] + 1, (IF e.key[i] = Key(i) THEN e.count[i] ELSE 0) + weight)
  BY <1>1, LimiterAssumption DEF LimiterTypeOK, Counted, Bucket
<1>4. \A i \in Windows : admitted[u][i] # 0 =>
        /\ e.key[i] = Key(i)
        /\ admitted[u][i] <= e.count[i]
        /\ admitted[u][i] <= Limit[u][i]
  BY DEF AdmittedIsCounted, Existing
<1>5. ASSUME NEW i \in Windows, admitted[u][i] # 0
      PROVE  b.key[i] = Key(i) /\ admitted[u][i] <= b.count[i]
  <2>1. admitted[u][i] <= Counted(u, i, weight)
    BY <1>3, <1>4, <1>5 DEF Lesser
  <2>2. QED
    BY <1>2, <1>4, <1>5, <2>1
<1>6. ASSUME Allowed(u, weight), NEW i \in Windows
      PROVE  /\ b.key[i] = Key(i)
             /\ admitted[u][i] + weight <= b.count[i]
             /\ b.count[i] <= Limit[u][i]
  <2>1. Reached(u, i, weight)
    BY <1>6 DEF Allowed, Reached
  <2>2. ~ (Counted(u, i, weight) > Limit[u][i])
    BY <1>6 DEF Allowed, Over
  <2>3. /\ Counted(u, i, weight) <= Limit[u][i]
        /\ admitted[u][i] + weight <= Counted(u, i, weight)
    BY <1>3, <1>4, <2>2 DEF Lesser
  <2>4. QED
    BY <1>2, <2>1, <2>3
<1>7. QED
  BY <1>1, <1>2, <1>5, <1>6

LEMMA AdmissionsKeepTheStrength ==
  ASSUME LimiterStrength, NEW r \in RequestSlots, NEW gate \in Gates, NEW weight \in Nat,
         Admit(r, gate, weight), gate \notin held[r],
         status[r] \in {"open", "refused"} \/ held[r] = {}
  PROVE  LimiterStrength'
<1> DEFINE u == UserOf[r]
           b == Charged(u, weight)
<1>1. /\ u \in UserIds
      /\ LimiterTypeOK /\ IdleHoldsNothing /\ CountIsOwed /\ CountIsExact /\ AdmittedIsCounted
  BY LimiterAssumption DEF LimiterStrength
<1>2. /\ ~Crowded(u) /\ Allowed(u, weight)
      /\ buckets' = [buckets EXCEPT ![u] = b]
      /\ status' = [status EXCEPT ![r] = "open"]
      /\ held' = [held EXCEPT ![r] = @ \cup {gate}]
      /\ admitted' = [admitted EXCEPT ![u] = [i \in Windows |-> @[i] + weight]]
      /\ clock' = clock /\ leaked' = leaked
  BY DEF Admit
<1>3. b \in Bucket /\ b # NoBucket
  BY <1>1, ChargesCount, BucketAssumption
<1> HIDE DEF b
<1>4. /\ buckets' \in [UserIds -> Bucket \cup {NoBucket}]
      /\ buckets'[u] = b
      /\ \A v \in UserIds \ {u} : buckets'[v] = buckets[v] /\ Running(v)' = Running(v)
  <2>1. \A q \in RequestSlots \ {r} : status'[q] = status[q] /\ held'[q] = held[q]
    BY <1>1, <1>2 DEF LimiterTypeOK
  <2>2. QED
    BY <1>1, <1>2, <1>3, <2>1, OthersGoOnRunning DEF LimiterTypeOK
<1>5. /\ Existing(u).concurrentCount \in Nat /\ MaxConcurrent[u] \in Nat
      /\ Existing(u).concurrentCount < MaxConcurrent[u]
      /\ b.concurrentCount = Existing(u).concurrentCount + 1
  <2>1. Existing(u).concurrentCount \in Nat
    BY <1>1, BucketsAreBuckets DEF Bucket
  <2>2. b.concurrentCount = Existing(u).concurrentCount + 1
    BY <1>1, <1>2, ChargesCount DEF b
  <2>3. QED
    BY <1>1, <1>2, <2>1, <2>2, LimiterAssumption DEF Crowded
<1>6. /\ Cardinality(Running(u)') = Cardinality(Running(u)) + 1
      /\ Cardinality(Running(u)) \in Nat
  BY <1>1, <1>2, AdmissionsRun, RunningIsFinite
<1>7. LimiterTypeOK'
  <2>1. admitted' \in [UserIds -> [Windows -> Nat]]
    BY <1>1, <1>2 DEF LimiterTypeOK
  <2>2. status' \in [RequestSlots -> {"idle", "open", "refused", "finished"}]
        /\ held' \in [RequestSlots -> SUBSET Gates]
    BY <1>1, <1>2 DEF LimiterTypeOK
  <2>3. QED
    BY <1>1, <1>2, <1>4, <2>1, <2>2 DEF LimiterTypeOK
<1>8. IdleHoldsNothing'
  BY <1>1, <1>2 DEF IdleHoldsNothing, LimiterTypeOK
<1>9. CountIsOwed'
  <2>1. Existing(u).concurrentCount <= Cardinality(Running(u))
    BY <1>1, <1>6 DEF CountIsOwed, Existing, NewBucket
  <2>2. b.concurrentCount <= Cardinality(Running(u)')
    BY <1>5, <1>6, <2>1
  <2>3. QED
    BY <1>1, <1>4, <2>2 DEF CountIsOwed
<1>10. CountIsExact'
  <2>1. ~leaked[u] => Existing(u).concurrentCount = Cardinality(Running(u))
    BY <1>1, FS_EmptySet DEF CountIsExact, Existing, NewBucket
  <2>2. ~leaked[u] => /\ b.concurrentCount = Cardinality(Running(u)')
                      /\ Cardinality(Running(u)') <= MaxConcurrent[u]
    BY <1>5, <1>6, <2>1
  <2>3. QED
    BY <1>1, <1>2, <1>3, <1>4, <2>2 DEF CountIsExact
<1>11. AdmittedIsCounted'
  <2>1. ASSUME NEW i \in Windows
        PROVE  /\ b.key[i] = Key(i)' /\ b.lastRefillTime \div Length[i] = Key(i)'
               /\ admitted'[u][i] <= b.count[i] /\ admitted'[u][i] <= Limit[u][i]
    <3>1. /\ b.key[i] = Key(i) /\ b.lastRefillTime = clock
          /\ admitted[u][i] + weight <= b.count[i] /\ b.count[i] <= Limit[u][i]
      BY <1>1, <1>2, ChargesCount DEF b
    <3>2. admitted'[u][i] = admitted[u][i] + weight
      BY <1>1, <1>2 DEF LimiterTypeOK
    <3>3. admitted[u][i] \in Nat /\ b.count[i] \in Nat /\ Limit[u][i] \in Nat
      BY <1>1, <1>3, LimiterAssumption DEF LimiterTypeOK, Bucket
    <3>4. QED
      BY <1>2, <3>1, <3>2, <3>3 DEF Key
  <2>2. ASSUME NEW v \in UserIds, v # u
        PROVE  admitted'[v] = admitted[v]
    BY <1>1, <1>2, <2>2 DEF LimiterTypeOK
  <2>3. QED
    BY <1>1, <1>2, <1>3, <1>4, <2>1, <2>2 DEF AdmittedIsCounted, Key
<1>12. QED
  BY <1>7, <1>8, <1>9, <1>10, <1>11 DEF LimiterStrength

LEMMA RefusalsKeepTheStrength ==
  ASSUME LimiterStrength, NEW r \in RequestSlots, NEW weight \in Nat,
         NEW next \in {"idle", "refused"}, Refuse(r, weight, next),
         \/ status[r] = "idle" /\ next = "idle"
         \/ status[r] = "open" /\ next = "refused"
  PROVE  LimiterStrength'
<1> DEFINE u == UserOf[r]
           b == IF Crowded(u) THEN Existing(u) ELSE Charged(u, weight)
<1>1. /\ u \in UserIds
      /\ LimiterTypeOK /\ IdleHoldsNothing /\ CountIsOwed /\ CountIsExact /\ AdmittedIsCounted
  BY LimiterAssumption DEF LimiterStrength
<1>2. /\ Crowded(u) \/ ~Allowed(u, weight)
      /\ buckets' = [buckets EXCEPT ![u] = b]
      /\ status' = [status EXCEPT ![r] = next]
      /\ clock' = clock /\ held' = held /\ admitted' = admitted /\ leaked' = leaked
  BY DEF Refuse
<1>3. /\ b \in Bucket /\ b # NoBucket
      /\ b.concurrentCount = Existing(u).concurrentCount
  BY <1>1, <1>2, ChargesCount, BucketsAreBuckets, BucketAssumption
<1>4. \A i \in Windows : admitted[u][i] # 0 =>
        /\ b.key[i] = Key(i)
        /\ b.lastRefillTime \div Length[i] = Key(i)
        /\ admitted[u][i] <= b.count[i]
        /\ admitted[u][i] <= Limit[u][i]
  <2>1. CASE Crowded(u)
    BY <1>1, <2>1 DEF AdmittedIsCounted, Existing
  <2>2. CASE ~Crowded(u)
    BY <1>1, <2>2, ChargesCount DEF AdmittedIsCounted, Key
  <2>3. QED
    BY <2>1, <2>2
<1> HIDE DEF b
<1>5. /\ buckets' \in [UserIds -> Bucket \cup {NoBucket}]
      /\ buckets'[u] = b
      /\ \A v \in UserIds \ {u} : buckets'[v] = buckets[v]
  BY <1>1, <1>2, <1>3 DEF LimiterTypeOK
<1>6. \A v \in UserIds : Running(v)' = Running(v)
  <2>1. \A q \in RequestSlots :
          status'[q] \in {"open", "refused"} <=> status[q] \in {"open", "refused"}
    BY <1>1, <1>2 DEF LimiterTypeOK
  <2>2. QED
    BY <1>2, <2>1 DEF Running
<1>7. LimiterTypeOK'
  BY <1>1, <1>2, <1>5 DEF LimiterTypeOK
<1>8. IdleHoldsNothing'
  BY <1>1, <1>2 DEF IdleHoldsNothing, LimiterTypeOK
<1>9. CountIsOwed'
  <2>1. Existing(u).concurrentCount <= Cardinality(Running(u))
    BY <1>1, RunningIsFinite DEF CountIsOwed, Existing, NewBucket
  <2>2. QED
    BY <1>1, <1>3, <1>5, <1>6, <2>1 DEF CountIsOwed
<1>10. CountIsExact'
  <2>1. ~leaked[u] => Existing(u).concurrentCount = Cardinality(Running(u))
    BY <1>1, FS_EmptySet DEF CountIsExact, Existing, NewBucket
  <2>2. QED
    BY <1>1, <1>2, <1>3, <1>5, <1>6, <2>1 DEF CountIsExact
<1>11. AdmittedIsCounted'
  BY <1>1, <1>2, <1>3, <1>4, <1>5 DEF AdmittedIsCounted, Key
<1>12. QED
  BY <1>7, <1>8, <1>9, <1>10, <1>11 DEF LimiterStrength

\* 'finish' and 'close': the first gives back what the request holds; the second gives
\* it back again, which is where the count is lost.
LEMMA AnswersKeepTheStrength ==
  ASSUME LimiterStrength, NEW r \in RequestSlots, Finish(r) \/ Close(r)
  PROVE  LimiterStrength'
<1> DEFINE u == UserOf[r]
           k == Cardinality(held[r])
           serving == status[r] \in {"open", "refused"}
<1>1. /\ u \in UserIds
      /\ LimiterTypeOK /\ IdleHoldsNothing /\ CountIsOwed /\ CountIsExact /\ AdmittedIsCounted
  BY LimiterAssumption DEF LimiterStrength
<1>2. /\ buckets' = Decremented(r)
      /\ status' = [status EXCEPT ![r] = IF Close(r) THEN "idle" ELSE "finished"]
      /\ held' = IF Close(r) THEN [held EXCEPT ![r] = {}] ELSE held
      /\ clock' = clock /\ admitted' = admitted
      /\ \/ leaked' = leaked /\ serving
         \/ /\ leaked' = [leaked EXCEPT ![u] =
                            @ \/ (status[r] = "finished" /\ Running(u) # {})]
            /\ status[r] # "idle"
  BY DEF Finish, Close
<1>3. /\ status'[r] \notin {"open", "refused"}
      /\ \A q \in RequestSlots \ {r} : status'[q] = status[q] /\ held'[q] = held[q]
  BY <1>1, <1>2 DEF LimiterTypeOK
<1>4. k \in Nat /\ \A v \in UserIds : Cardinality(Running(v)) \in Nat
  BY <1>1, GatesAreFinite, RunningIsFinite DEF LimiterTypeOK
<1>5. /\ serving => /\ Cardinality(Running(u)') = Cardinality(Running(u)) - k
                    /\ k <= Cardinality(Running(u))
      /\ ~serving => Running(u)' = Running(u)
      /\ Running(u)' \subseteq Running(u)
      /\ \A v \in UserIds \ {u} : Running(v)' = Running(v)
  BY <1>1, <1>3, AnswersStopRunning, OthersGoOnRunning
<1>6. /\ buckets' \in [UserIds -> Bucket \cup {NoBucket}]
      /\ \A v \in UserIds :
           /\ buckets'[v] = NoBucket <=> buckets[v] = NoBucket
           /\ buckets[v] # NoBucket =>
                /\ buckets'[v].key = buckets[v].key
                /\ buckets'[v].count = buckets[v].count
                /\ buckets'[v].lastRefillTime = buckets[v].lastRefillTime
                /\ buckets'[v].concurrentCount =
                     IF v = u THEN Minus(buckets[v].concurrentCount, k)
                     ELSE buckets[v].concurrentCount
  BY <1>1, <1>2, DecrementsOnlyCount
<1>7. buckets[u] # NoBucket => buckets[u].concurrentCount \in Nat
  BY <1>1 DEF LimiterTypeOK, Bucket
<1>8. LimiterTypeOK'
  <2>1. leaked' \in [UserIds -> BOOLEAN]
    BY <1>1, <1>2 DEF LimiterTypeOK
  <2>2. QED
    BY <1>1, <1>2, <1>6, <2>1 DEF LimiterTypeOK
<1>9. IdleHoldsNothing'
  BY <1>1, <1>2 DEF IdleHoldsNothing, LimiterTypeOK
<1> HIDE DEF k, serving
<1>10. CountIsOwed'
  <2>1. buckets[u] # NoBucket =>
          Minus(buckets[u].concurrentCount, k) <= Cardinality(Running(u)')
    BY <1>1, <1>4, <1>5, <1>7 DEF CountIsOwed, Minus
  <2>2. QED
    BY <1>1, <1>5, <1>6, <2>1 DEF CountIsOwed
<1>11. CountIsExact'
  <2>1. ASSUME ~leaked'[u]
        PROVE  /\ buckets[u] = NoBucket => Running(u)' = {}
               /\ buckets[u] # NoBucket =>
                    Minus(buckets[u].concurrentCount, k) = Cardinality(Running(u)')
               /\ Cardinality(Running(u)') <= MaxConcurrent[u]
    <3>1. ~leaked[u] /\ (serving \/ Running(u) = {})
      BY <1>1, <1>2, <2>1 DEF LimiterTypeOK, serving
    <3>2. /\ buckets[u] = NoBucket => Running(u) = {}
          /\ buckets[u] # NoBucket => buckets[u].concurrentCount = Cardinality(Running(u))
          /\ Cardinality(Running(u)) <= MaxConcurrent[u]
          /\ MaxConcurrent[u] \in Nat
      BY <1>1, <3>1, LimiterAssumption DEF CountIsExact
    <3>3. CASE serving
      <4>1. /\ Cardinality(Running(u)') = Cardinality(Running(u)) - k
            /\ k <= Cardinality(Running(u))
            /\ Cardinality(Running(u)) \in Nat /\ k \in Nat
        BY <1>1, <1>4, <1>5, <3>3
      <4>2. Minus(Cardinality(Running(u)), k) = Cardinality(Running(u)')
        BY <4>1 DEF Minus
      <4>3. buckets[u] = NoBucket => Running(u)' = {}
        BY <1>5, <3>2
      <4>4. QED
        BY <3>2, <4>1, <4>2, <4>3
    <3>4. CASE ~serving
      <4>1. Running(u)' = {} /\ Running(u) = {} /\ Cardinality(Running(u)) = 0
        BY <1>5, <3>1, <3>4, FS_EmptySet
      <4>2. Minus(0, k) = 0
        BY <1>4 DEF Minus
      <4>3. QED
        BY <3>2, <4>1, <4>2
    <3>5. QED
      BY <3>3, <3>4
  <2>2. \A v \in UserIds \ {u} : leaked'[v] = leaked[v]
    BY <1>1, <1>2 DEF LimiterTypeOK
  <2>3. QED
    BY <1>1, <1>5, <1>6, <2>1, <2>2 DEF CountIsExact
<1>12. AdmittedIsCounted'
  BY <1>1, <1>2, <1>6 DEF AdmittedIsCounted, Key
<1>13. QED
  BY <1>8, <1>9, <1>10, <1>11, <1>12 DEF LimiterStrength

LEMMA ResetsKeepTheStrength ==
  ASSUME LimiterStrength, NEW u \in UserIds, ResetLimits(u)
  PROVE  LimiterStrength'
<1>1. LimiterTypeOK /\ IdleHoldsNothing /\ CountIsOwed /\ CountIsExact /\ AdmittedIsCounted
  BY DEF LimiterStrength
<1>2. \A v \in UserIds : Running(v)' = Running(v)
  BY DEF ResetLimits, Running
<1>3. LimiterTypeOK' /\ IdleHoldsNothing'
  BY <1>1 DEF ResetLimits, LimiterTypeOK, IdleHoldsNothing
<1>4. CountIsOwed'
  BY <1>1, <1>2 DEF ResetLimits, LimiterTypeOK, CountIsOwed
<1>5. CountIsExact'
  <2>1. ~leaked'[u] => Running(u) = {} /\ ~leaked[u]
    BY <1>1 DEF ResetLimits, LimiterTypeOK
  <2>2. buckets'[u] = NoBucket
        /\ \A v \in UserIds \ {u} : buckets'[v] = buckets[v] /\ leaked'[v] = leaked[v]
    BY <1>1 DEF ResetLimits, LimiterTypeOK
  <2>3. QED
    BY <1>1, <1>2, <2>1, <2>2 DEF CountIsExact
<1>6. AdmittedIsCounted'
  <2>1. /\ \A i \in Windows : admitted'[u][i] = 0
        /\ \A v \in UserIds \ {u} : buckets'[v] = buckets[v] /\ admitted'[v] = admitted[v]
        /\ clock' = clock
    BY <1>1 DEF ResetLimits, LimiterTypeOK
  <2>2. QED
    BY <1>1, <2>1 DEF AdmittedIsCounted, Key
<1>7. QED
  BY <1>3, <1>4, <1>5, <1>6 DEF LimiterStrength

\* A bucket the sweep drops has nothing running, and its last use lies a whole window
\* back in every window: nothing admitted is forgotten with it.
LEMMA CleanupsKeepTheStrength ==
  ASSUME LimiterStrength, Cleanup
  PROVE  LimiterStrength'
<1>1. LimiterTypeOK /\ IdleHoldsNothing /\ CountIsOwed /\ CountIsExact /\ AdmittedIsCounted
  BY DEF LimiterStrength
<1>2. /\ \A v \in UserIds : Running(v)' = Running(v)
      /\ clock' = clock /\ admitted' = admitted /\ leaked' = leaked
  BY DEF Cleanup, Running
<1>3. /\ buckets' \in [UserIds -> Bucket \cup {NoBucket}]
      /\ \A u \in UserIds : buckets'[u] # buckets[u] =>
           /\ buckets[u] # NoBucket /\ buckets'[u] = NoBucket
           /\ clock > buckets[u].lastRefillTime + Length[3]
           /\ buckets[u].concurrentCount = 0
  BY <1>1 DEF Cleanup, LimiterTypeOK
<1>4. LimiterTypeOK' /\ IdleHoldsNothing'
  BY <1>1, <1>3 DEF Cleanup, LimiterTypeOK, IdleHoldsNothing
<1>5. CountIsOwed'
  BY <1>1, <1>2, <1>3 DEF CountIsOwed
<1>6. CountIsExact'
  <2>1. \A u \in UserIds : buckets'[u] # buckets[u] /\ ~leaked[u] => Running(u) = {}
    BY <1>1, <1>3, RunningIsFinite, FS_EmptySet DEF CountIsExact
  <2>2. QED
    BY <1>1, <1>2, <1>3, <2>1 DEF CountIsExact
<1>7. AdmittedIsCounted'
  <2>1. ASSUME NEW u \in UserIds, NEW i \in Windows, admitted[u][i] # 0
        PROVE  buckets'[u] = buckets[u]
    <3>1. buckets[u] # NoBucket /\ buckets[u].lastRefillTime \div Length[i] = clock \div Length[i]
      BY <1>1, <2>1 DEF AdmittedIsCounted, Key
    <3>2. /\ buckets[u].lastRefillTime \in Nat /\ clock \in Nat
          /\ Length[i] \in Nat /\ Length[i] > 0 /\ Length[3] \in Nat /\ Length[i] <= Length[3]
      BY <1>1, <3>1, LimiterAssumption DEF LimiterTypeOK, Bucket, Windows
    <3>3. clock < buckets[u].lastRefillTime + Length[i]
      BY <3>1, <3>2, WindowsAreShort
    <3>4. QED
      BY <1>3, <3>2, <3>3
  <2>2. QED
    BY <1>1, <1>2, <2>1 DEF AdmittedIsCounted, Key
<1>8. QED
  BY <1>4, <1>5, <1>6, <1>7 DEF LimiterStrength

LEMMA TimeKeepsTheStrength ==
  ASSUME LimiterStrength, TimePasses
  PROVE  LimiterStrength'
<1>1. LimiterTypeOK /\ IdleHoldsNothing /\ CountIsOwed /\ CountIsExact /\ AdmittedIsCounted
  BY DEF LimiterStrength
<1>2. UNCHANGED <<buckets, status, held, leaked>> /\ \A v \in UserIds : Running(v)' = Running(v)
  BY DEF TimePasses, Running
<1>3. /\ clock' \in 0 .. MaxClock
      /\ \A u \in UserIds, i \in Windows :
           admitted'[u][i] # 0 => Key(i)' = Key(i) /\ admitted'[u][i] = admitted[u][i]
      /\ admitted' \in [UserIds -> [Windows -> Nat]]
  BY <1>1, LimiterAssumption DEF TimePasses, LimiterTypeOK
<1>4. LimiterTypeOK' /\ IdleHoldsNothing'
  BY <1>1, <1>2, <1>3 DEF LimiterTypeOK, IdleHoldsNothing
<1>5. CountIsOwed' /\ CountIsExact'
  BY <1>1, <1>2 DEF CountIsOwed, CountIsExact
<1>6. AdmittedIsCounted'
  BY <1>1, <1>2, <1>3 DEF AdmittedIsCounted
<1>7. QED
  BY <1>4, <1>5, <1>6 DEF LimiterStrength

LEMMA LimiterStrengthHolds == LimiterSpec => []LimiterStrength
<1>1. LimiterInit => LimiterStrength
  <2> SUFFICES ASSUME LimiterInit PROVE LimiterStrength
    OBVIOUS
  <2>1. LimiterTypeOK /\ IdleHoldsNothing
    BY LimiterAssumption DEF LimiterInit, LimiterTypeOK, IdleHoldsNothing
  <2>2. \A u \in UserIds : Running(u) = {}
    BY DEF LimiterInit, Running
  <2>3. CountIsOwed
    BY DEF LimiterInit, CountIsOwed
  <2>4. CountIsExact
    <3>1. \A u \in UserIds : Cardinality(Running(u)) = 0 /\ MaxConcurrent[u] \in Nat
      BY <2>2, FS_EmptySet, LimiterAssumption
    <3>2. \A u \in UserIds : buckets[u] = NoBucket
      BY DEF LimiterInit
    <3>3. QED
      BY <2>2, <3>1, <3>2 DEF CountIsExact
  <2>5. AdmittedIsCounted
    BY DEF LimiterInit, AdmittedIsCounted
  <2>6. QED
    BY <2>1, <2>3, <2>4, <2>5 DEF LimiterStrength
<1>2. LimiterStrength /\ [LimiterNext]_limiterVars => LimiterStrength'
  <2> SUFFICES ASSUME LimiterStrength, [LimiterNext]_limiterVars PROVE LimiterStrength'
    OBVIOUS
  <2>1. ASSUME NEW r \in RequestSlots, PassPlan(r) PROVE LimiterStrength'
    <3>1. status[r] = "idle" /\ held[r] = {} /\ "plan" \in Gates /\ 1 \in Nat
      BY <2>1 DEF PassPlan, LimiterStrength, IdleHoldsNothing, Gates
    <3>2. Admit(r, "plan", 1) \/ Refuse(r, 1, "idle")
      BY <2>1 DEF PassPlan
    <3>3. QED
      BY <3>1, <3>2, AdmissionsKeepTheStrength, RefusalsKeepTheStrength
  <2>2. ASSUME NEW r \in RequestSlots, Finish(r) \/ Close(r) PROVE LimiterStrength'
    BY <2>2, AnswersKeepTheStrength
  <2>3. ASSUME NEW r \in RequestSlots, NEW weight \in Weights, PassEndpoint(r, weight)
        PROVE  LimiterStrength'
    <3>1. /\ status[r] = "open" /\ "endpoint" \notin held[r]
          /\ "endpoint" \in Gates /\ weight \in Nat
      BY <2>3, LimiterAssumption DEF PassEndpoint, Gates
    <3>2. Admit(r, "endpoint", weight) \/ Refuse(r, weight, "refused")
      BY <2>3 DEF PassEndpoint
    <3>3. QED
      BY <3>1, <3>2, AdmissionsKeepTheStrength, RefusalsKeepTheStrength
  <2>4. ASSUME NEW u \in UserIds, ResetLimits(u) PROVE LimiterStrength'
    BY <2>4, ResetsKeepTheStrength
  <2>5. CASE Cleanup
    BY <2>5, CleanupsKeepTheStrength
  <2>6. CASE TimePasses
    BY <2>6, TimeKeepsTheStrength
  <2>7. CASE UNCHANGED limiterVars
    <3>1. UNCHANGED <<clock, buckets, status, held, admitted, leaked>>
      BY <2>7 DEF limiterVars
    <3>2. \A u \in UserIds : Running(u)' = Running(u)
      BY <3>1 DEF Running
    <3>3. \A i \in Windows : Key(i)' = Key(i)
      BY <3>1 DEF Key
    <3>4. LimiterTypeOK' /\ IdleHoldsNothing'
      BY <3>1 DEF LimiterStrength, LimiterTypeOK, IdleHoldsNothing
    <3>5. CountIsOwed' /\ CountIsExact'
      BY <3>1, <3>2 DEF LimiterStrength, CountIsOwed, CountIsExact
    <3>6. AdmittedIsCounted'
      BY <3>1, <3>3 DEF LimiterStrength, AdmittedIsCounted
    <3>7. QED
      BY <3>4, <3>5, <3>6 DEF LimiterStrength
  <2>8. QED
    BY <2>1, <2>2, <2>3, <2>4, <2>5, <2>6, <2>7 DEF LimiterNext
<1>3. QED
  BY <1>1, <1>2, PTL DEF LimiterSpec

\* The limiter's counter is a natural number that never exceeds the admissions whose
\* responses are not over: whatever order 'finish', 'close', refusals at the second gate,
\* resets and sweeps come in, every count has a response that takes it back.
THEOREM LimiterInvariant == LimiterSpec => []LimiterIInv
<1>1. LimiterStrength => LimiterIInv
  BY DEF LimiterStrength, LimiterIInv
<1>2. QED
  BY <1>1, LimiterStrengthHolds, PTL

\* No minute, hour or day of a plan lets in more than its limit, though the sweep drops
\* buckets: only an administrator's reset opens a window again.
THEOREM WindowsNeverOverflow == LimiterSpec => []WindowsHold
<1>1. LimiterStrength => WindowsHold
  <2> SUFFICES ASSUME LimiterStrength, NEW u \in UserIds, NEW i \in Windows
               PROVE  admitted[u][i] <= Limit[u][i]
    BY DEF WindowsHold
  <2>1. admitted[u][i] \in Nat /\ Limit[u][i] \in Nat
    BY LimiterAssumption DEF LimiterStrength, LimiterTypeOK
  <2>2. QED
    BY <2>1 DEF LimiterStrength, AdmittedIsCounted
<1>2. QED
  BY <1>1, LimiterStrengthHolds, PTL

\* Until a late 'close' or a reset forgets a request, a user never has more admissions
\* running than the plan's concurrency.
THEOREM ConcurrencyIsKept == LimiterSpec => []ConcurrencyHoldsAtFirst
<1>1. LimiterStrength => ConcurrencyHoldsAtFirst
  BY DEF LimiterStrength, CountIsExact, ConcurrencyHoldsAtFirst
<1>2. QED
  BY <1>1, LimiterStrengthHolds, PTL

\* ------------------------------------------------------- the webhooks

\* A handler of the registry changes both maps and no send.
LEMMA RegistryStepsKeepTheMaps ==
  ASSUME WebhookIInv, NEW h \in Hooks,
         \/ UnregisterWebhook(h)
         \/ \E asked \in SUBSET Events \ {{}} : RegisterWebhook(h, asked)
         \/ \E active \in BOOLEAN : SetWebhookActive(h, active)
  PROVE  WebhookIInv'
<1>1. WebhookTypeOK /\ MapsAgree /\ ReceiptsAreAttempts
  BY DEF WebhookIInv
<1>2. UNCHANGED <<called, send, attempt, received, axiosLoaded, crashes>>
  BY DEF UnregisterWebhook, RegisterWebhook, SetWebhookActive, sendVars
<1>3. ReceiptsAreAttempts'
  BY <1>1, <1>2 DEF ReceiptsAreAttempts
<1>4. ASSUME UnregisterWebhook(h) PROVE WebhookTypeOK' /\ MapsAgree'
  <2>1. WebhookTypeOK'
    BY <1>1, <1>2, <1>4 DEF UnregisterWebhook, WebhookTypeOK
  <2>2. MapsAgree'
    BY <1>1, <1>4 DEF UnregisterWebhook, MapsAgree, Registered, WebhookTypeOK
  <2>3. QED
    BY <2>1, <2>2
<1>5. ASSUME NEW asked \in SUBSET Events, RegisterWebhook(h, asked)
      PROVE  WebhookTypeOK' /\ MapsAgree'
  <2>1. WebhookTypeOK'
    BY <1>1, <1>2, <1>5 DEF RegisterWebhook, WebhookTypeOK
  <2>2. MapsAgree'
    BY <1>1, <1>5 DEF RegisterWebhook, MapsAgree, Registered, WebhookTypeOK
  <2>3. QED
    BY <2>1, <2>2
<1>6. ASSUME NEW active \in BOOLEAN, SetWebhookActive(h, active)
      PROVE  WebhookTypeOK' /\ MapsAgree'
  BY <1>1, <1>2, <1>6 DEF SetWebhookActive, WebhookTypeOK, MapsAgree, Registered
<1>7. QED
  BY <1>3, <1>4, <1>5, <1>6 DEF WebhookIInv

\* A dispatch starts sends that nothing was received of.
LEMMA DispatchesKeepTheReceipts ==
  ASSUME WebhookIInv, NEW d \in Dispatches, NEW e \in Events, DispatchEvent(d, e)
  PROVE  WebhookIInv'
<1>1. WebhookTypeOK /\ MapsAgree /\ ReceiptsAreAttempts
  BY DEF WebhookIInv
<1>2. WebhookTypeOK'
  BY <1>1, WebhookAssumption DEF DispatchEvent, registryVars, WebhookTypeOK
<1>3. MapsAgree'
  BY <1>1 DEF DispatchEvent, registryVars, MapsAgree, Registered
<1>4. ReceiptsAreAttempts'
  <2> SUFFICES ASSUME NEW s \in Dispatches \X Hooks
               PROVE  /\ \A k \in received'[s] :
                           k < attempt'[s] \/ (k = attempt'[s] /\ send'[s] # "posting")
                      /\ send'[s] = "posting" => attempt'[s] > 0
                      /\ send'[s] = "waiting" => attempt'[s] < MaxRetries
                      /\ send'[s] = "delivered" => attempt'[s] \in received'[s]
                      /\ send'[s] = "none" => attempt'[s] = 0
                      /\ s[1] \notin called' => send'[s] = "none"
                      /\ send'[s] = "skipped" \/ (send'[s] = "posting" /\ ~axiosLoaded') =>
                           attempt'[s] = 1 /\ received'[s] = {}
                      /\ send'[s] = "waiting" => axiosLoaded'
    BY DEF ReceiptsAreAttempts
  <2>1. CASE s[1] = d /\ s[2] \in WebhooksForEvent(e)
    <3>1. send[s] = "none" /\ attempt[s] = 0
      BY <1>1, <2>1 DEF DispatchEvent, ReceiptsAreAttempts
    <3>2. received[s] = {}
      BY <1>1, <3>1 DEF ReceiptsAreAttempts, WebhookTypeOK
    <3>3. /\ send'[s] = "posting" /\ attempt'[s] = 1 /\ received'[s] = {}
          /\ s[1] \in called'
      BY <2>1, <3>2 DEF DispatchEvent
    <3>4. QED
      BY <3>3
  <2>2. CASE ~(s[1] = d /\ s[2] \in WebhooksForEvent(e))
    <3>1. send'[s] = send[s] /\ attempt'[s] = attempt[s] /\ received'[s] = received[s]
          /\ called \subseteq called' /\ axiosLoaded' = axiosLoaded
      BY <2>2 DEF DispatchEvent
    <3>2. QED
      BY <1>1, <3>1 DEF ReceiptsAreAttempts
  <2>3. QED
    BY <2>1, <2>2
<1>5. QED
  BY <1>2, <1>3, <1>4 DEF WebhookIInv

LEMMA SendsKeepTheReceipts ==
  ASSUME WebhookIInv, NEW s \in Dispatches \X Hooks, Post(s) \/ Retry(s)
  PROVE  WebhookIInv'
<1>1. WebhookTypeOK /\ MapsAgree /\ ReceiptsAreAttempts
  BY DEF WebhookIInv
<1>2. UNCHANGED <<webhooks, events, subscribers, called, axiosLoaded, crashes>>
  BY DEF Post, SkipPost, PostAnswered, PostFails, Retry, registryVars
<1>3. MapsAgree'
  BY <1>1, <1>2 DEF MapsAgree, Registered
<1>4. attempt[s] \in 0 .. MaxRetries /\ MaxRetries \in Nat
  BY <1>1, WebhookAssumption DEF WebhookTypeOK
<1>5. /\ \A t \in (Dispatches \X Hooks) \ {s} :
           send'[t] = send[t] /\ attempt'[t] = attempt[t] /\ received'[t] = received[t]
      /\ s[1] \in called
  BY <1>1 DEF Post, SkipPost, PostAnswered, PostFails, Retry, WebhookTypeOK, ReceiptsAreAttempts
<1>6. ASSUME Post(s) PROVE WebhookTypeOK' /\ ReceiptsAreAttempts'
  <2>1. /\ send[s] = "posting" /\ attempt[s] > 0 /\ attempt' = attempt
        /\ received'[s] \in {received[s], received[s] \cup {attempt[s]}}
        /\ send'[s] \in {"delivered", "waiting", "failed", "skipped"}
        /\ send'[s] = "waiting" => attempt[s] < MaxRetries /\ axiosLoaded
        /\ send'[s] = "skipped" => attempt[s] = 1 /\ received'[s] = {}
        /\ send'[s] = "delivered" => attempt[s] \in received'[s]
    <3>1. /\ send[s] = "posting" => attempt[s] > 0
          /\ send[s] = "posting" /\ ~axiosLoaded => attempt[s] = 1 /\ received[s] = {}
      BY <1>1 DEF ReceiptsAreAttempts
    <3>2. CASE SkipPost(s)
      BY <1>1, <3>1, <3>2 DEF SkipPost, WebhookTypeOK
    <3>3. CASE PostAnswered(s)
      BY <1>1, <3>1, <3>3 DEF PostAnswered, WebhookTypeOK
    <3>4. CASE PostFails(s)
      BY <1>1, <3>1, <3>4 DEF PostFails, WebhookTypeOK
    <3>5. QED
      BY <1>6, <3>2, <3>3, <3>4 DEF Post
  <2>2. attempt[s] \in 1 .. MaxRetries
    BY <1>4, <2>1
  <2>3. WebhookTypeOK'
    <3>1. CASE SkipPost(s) \/ PostAnswered(s)
      BY <1>1, <1>2, <2>2, <3>1 DEF SkipPost, PostAnswered, WebhookTypeOK
    <3>2. CASE PostFails(s)
      BY <1>1, <1>2, <2>2, <3>2 DEF PostFails, WebhookTypeOK
    <3>3. QED
      BY <1>6, <3>1, <3>2 DEF Post
  <2>4. \A k \in received'[s] : k < attempt[s] \/ k = attempt[s]
    BY <1>1, <2>1 DEF ReceiptsAreAttempts
  <2>5. ReceiptsAreAttempts'
    BY <1>1, <1>2, <1>5, <2>1, <2>4 DEF ReceiptsAreAttempts
  <2>6. QED
    BY <2>3, <2>5
<1>7. ASSUME Retry(s) PROVE WebhookTypeOK' /\ ReceiptsAreAttempts'
  <2>1. /\ send[s] = "waiting" /\ attempt[s] < MaxRetries /\ axiosLoaded
        /\ send'[s] = "posting" /\ attempt'[s] = attempt[s] + 1 /\ received' = received
    BY <1>1, <1>7 DEF Retry, ReceiptsAreAttempts, WebhookTypeOK
  <2>2. attempt[s] + 1 \in 0 .. MaxRetries
    BY <1>4, <2>1
  <2>3. WebhookTypeOK'
    BY <1>1, <1>2, <1>7, <2>2 DEF Retry, WebhookTypeOK
  <2>4. \A k \in received[s] : k \in Nat /\ k < attempt[s] + 1
    BY <1>1, <1>4 DEF ReceiptsAreAttempts, WebhookTypeOK
  <2>5. ReceiptsAreAttempts'
    BY <1>1, <1>2, <1>4, <1>5, <2>1, <2>4 DEF ReceiptsAreAttempts
  <2>6. QED
    BY <2>3, <2>5
<1>8. QED
  BY <1>3, <1>6, <1>7 DEF WebhookIInv

LEMMA GatewayCrashesKeepTheReceipts ==
  ASSUME WebhookIInv, GatewayCrash
  PROVE  WebhookIInv'
<1>1. WebhookTypeOK /\ MapsAgree /\ ReceiptsAreAttempts
  BY DEF WebhookIInv
<1>2. WebhookTypeOK'
  BY <1>1, WebhookAssumption DEF GatewayCrash, WebhookTypeOK
<1>3. MapsAgree'
  BY <1>1 DEF GatewayCrash, WebhookTypeOK, MapsAgree, Registered
<1>4. ReceiptsAreAttempts'
  BY <1>1 DEF GatewayCrash, ReceiptsAreAttempts
<1>5. QED
  BY <1>2, <1>3, <1>4 DEF WebhookIInv

\* The registry's two maps agree after any sequence of registrations, removals,
\* (de)activations, dispatches and crashes; an endpoint receives an event again only by a
\* later attempt of the same send, what counts as delivered was received, and without axios
\* nothing is sent or retried.
THEOREM WebhookInvariant == WebhookSpec => []WebhookIInv
<1>1. WebhookInit => WebhookIInv
  BY WebhookAssumption
     DEF WebhookInit, WebhookIInv, WebhookTypeOK, MapsAgree, Registered, ReceiptsAreAttempts
<1>2. WebhookIInv /\ [WebhookNext]_webhookVars => WebhookIInv'
  <2> SUFFICES ASSUME WebhookIInv, [WebhookNext]_webhookVars PROVE WebhookIInv'
    OBVIOUS
  <2>1. ASSUME NEW h \in Hooks,
               \/ UnregisterWebhook(h)
               \/ \E asked \in SUBSET Events \ {{}} : RegisterWebhook(h, asked)
               \/ \E active \in BOOLEAN : SetWebhookActive(h, active)
        PROVE  WebhookIInv'
    BY <2>1, RegistryStepsKeepTheMaps
  <2>2. ASSUME NEW d \in Dispatches, NEW e \in Events, DispatchEvent(d, e)
        PROVE  WebhookIInv'
    BY <2>2, DispatchesKeepTheReceipts
  <2>3. ASSUME NEW d \in Dispatches, NEW h \in Hooks, TestWebhook(d, h)
        PROVE  WebhookIInv'
    BY <2>3, DispatchesKeepTheReceipts, WebhookAssumption DEF TestWebhook
  <2>4. ASSUME NEW s \in Dispatches \X Hooks, Post(s) \/ Retry(s)
        PROVE  WebhookIInv'
    BY <2>4, SendsKeepTheReceipts
  <2>5. CASE GatewayCrash
    BY <2>5, GatewayCrashesKeepTheReceipts
  <2>6. CASE UNCHANGED webhookVars
    BY <2>6 DEF webhookVars, WebhookIInv, WebhookTypeOK, MapsAgree, Registered,
                ReceiptsAreAttempts
  <2>7. QED
    BY <2>1, <2>2, <2>3, <2>4, <2>5, <2>6 DEF WebhookNext
<1>3. QED
  BY <1>1, <1>2, PTL DEF WebhookSpec
=============================================================================
