----------------------------- MODULE AuthService ----------------------------
(***************************************************************************)
(* services/auth: register, login and refresh of auth.controller, one      *)
(* action per await, over the tables User and RefreshToken.                *)
(*                                                                         *)
(* A refresh token is a JWT of its user and of the second it was signed    *)
(* in: two of one user and one second are the same string, which the       *)
(* unique index on RefreshToken.token refuses.  login and refresh have no  *)
(* catch, and Express 4 does not await its handlers: whatever they throw   *)
(* is an unhandled rejection that ends the process and the requests in it. *)
(***************************************************************************)
EXTENDS Naturals

CONSTANTS
  Users,
  Requests,     \* the requests that can be in flight together
  NoToken,
  Lifetime,     \* seconds a refresh token is valid
  MaxTime,      \* bound: the last second
  MaxFaults     \* bound: failed database calls and crashes

Seconds == 0 .. MaxTime
Tokens == Users \X Seconds

ASSUME AuthAssumption ==
  /\ NoToken \notin Tokens
  /\ Lifetime \in Nat \ {0}
  /\ MaxTime \in Nat
  /\ MaxFaults \in Nat

VARIABLES
  now,
  users,           \* table User: who has registered
  refreshTokens,   \* table RefreshToken: "none", "live" or "revoked"
  pc, subject,     \* where each request is, and whose it is
  presented,       \* the token a refresh was called with
  fresh,           \* the token it has signed
  clients,         \* the refresh tokens clients have been given
  successors,      \* history: the tokens issued in exchange for each token
  deaths,          \* history: what the process has died of
  faults

tableVars == <<users, refreshTokens>>
requestVars == <<pc, subject, presented, fresh>>
historyVars == <<clients, successors>>
vars == <<now, users, refreshTokens, pc, subject, presented, fresh, clients, successors,
          deaths, faults>>

Awaits == {"hash", "create", "find", "compare", "issue", "check", "revoke", "reissue", "respond"}

TypeOK ==
  /\ now \in Seconds
  /\ users \in SUBSET Users
  /\ refreshTokens \in [Tokens -> {"none", "live", "revoked"}]
  /\ pc \in [Requests -> Awaits \cup {"idle"}]
  /\ subject \in [Requests -> Users]
  /\ presented \in [Requests -> Tokens \cup {NoToken}]
  /\ fresh \in [Requests -> Tokens \cup {NoToken}]
  /\ clients \in SUBSET Tokens
  /\ successors \in [Tokens -> SUBSET Tokens]
  /\ deaths \in SUBSET {"collision", "expired", "database", "crash"}
  /\ faults \in 0 .. MaxFaults

Init ==
  /\ now = 0
  /\ users = {}
  /\ refreshTokens = [t \in Tokens |-> "none"]
  /\ pc = [r \in Requests |-> "idle"]
  /\ subject \in [Requests -> Users]
  /\ presented = [r \in Requests |-> NoToken]
  /\ fresh = [r \in Requests |-> NoToken]
  /\ clients = {}
  /\ successors = [t \in Tokens |-> {}]
  /\ deaths = {}
  /\ faults = 0

Step(r, from, to) ==
  /\ pc[r] = from
  /\ pc' = [pc EXCEPT ![r] = to]

\* An answer without a token, or the end of one with it.
Answer(r) ==
  /\ pc' = [pc EXCEPT ![r] = "idle"]
  /\ presented' = [presented EXCEPT ![r] = NoToken]
  /\ fresh' = [fresh EXCEPT ![r] = NoToken]
  /\ UNCHANGED subject

\* The process dies with every request in it; its orchestrator starts it again.
Die(cause) ==
  /\ pc' = [r \in Requests |-> "idle"]
  /\ presented' = [r \in Requests |-> NoToken]
  /\ fresh' = [r \in Requests |-> NoToken]
  /\ deaths' = deaths \cup {cause}
  /\ UNCHANGED <<subject, tableVars, historyVars>>

Arrive(r, u, entry) ==
  /\ Step(r, "idle", entry)
  /\ subject' = [subject EXCEPT ![r] = u]

\* -------------------------------------------------------- POST /register

Register(r, u) ==
  /\ Arrive(r, u, "hash")
  /\ UNCHANGED <<now, tableVars, presented, fresh, historyVars, deaths, faults>>

HashPassword(r) ==
  /\ Step(r, "hash", "create")
  /\ UNCHANGED <<now, tableVars, subject, presented, fresh, historyVars, deaths, faults>>

\* 201, or 409 from the unique index on the email.
CreateUser(r) ==
  /\ pc[r] = "create"
  /\ users' = users \cup {subject[r]}
  /\ Answer(r)
  /\ UNCHANGED <<now, refreshTokens, historyVars, deaths, faults>>

\* ----------------------------------------------------------- POST /login

Login(r, u) ==
  /\ Arrive(r, u, "find")
  /\ UNCHANGED <<now, tableVars, presented, fresh, historyVars, deaths, faults>>

FindUser(r) ==
  /\ pc[r] = "find"
  /\ \/ /\ subject[r] \in users
        /\ Step(r, "find", "compare")
        /\ UNCHANGED <<subject, presented, fresh>>
     \/ subject[r] \notin users /\ Answer(r)
  /\ UNCHANGED <<now, tableVars, historyVars, deaths, faults>>

\* An answer that does not wait for the row.
AnswerBeforeIssue(r) ==
  /\ Step(r, "compare", "respond")
  /\ fresh' = [fresh EXCEPT ![r] = <<subject[r], now>>]
  /\ UNCHANGED <<now, tableVars, subject, presented, historyVars, deaths, faults>>

\* A wrong password, or both tokens signed at once.
ComparePassword(r) ==
  /\ pc[r] = "compare"
  /\ \/ Answer(r)
     \/ /\ Step(r, "compare", "issue")
        /\ fresh' = [fresh EXCEPT ![r] = <<subject[r], now>>]
        /\ UNCHANGED <<subject, presented>>
  /\ UNCHANGED <<now, tableVars, historyVars, deaths, faults>>

\* The insert of issueRefreshToken, if no row has the token yet.
Insert(r, from) ==
  /\ Step(r, from, "respond")
  /\ refreshTokens[fresh[r]] = "none"
  /\ refreshTokens' = [refreshTokens EXCEPT ![fresh[r]] = "live"]
  /\ UNCHANGED <<users, subject, presented, fresh, clients, deaths>>

Collide(r, from) ==
  /\ pc[r] = from
  /\ refreshTokens[fresh[r]] # "none"
  /\ Die("collision")

IssueRefreshToken(r) ==
  /\ \/ Insert(r, "issue") /\ UNCHANGED successors
     \/ Collide(r, "issue")
  /\ UNCHANGED <<now, faults>>

\* --------------------------------------------------------- POST /refresh

Refresh(r, t) ==
  /\ t \in clients
  /\ Arrive(r, t[1], "check")
  /\ presented' = [presented EXCEPT ![r] = t]
  /\ UNCHANGED <<now, tableVars, fresh, historyVars, deaths, faults>>

Expired(t) == now >= t[2] + Lifetime

\* A look-up by the token alone.
FindAnyToken(r) ==
  /\ \/ /\ Step(r, "check", "revoke")
        /\ ~Expired(presented[r])
        /\ UNCHANGED <<tableVars, subject, presented, fresh, historyVars, deaths>>
     \/ /\ pc[r] = "check"
        /\ Expired(presented[r])
        /\ Die("expired")
  /\ UNCHANGED <<now, faults>>

\* isRefreshTokenValid and verifyRefreshToken: 401 for a revoked token; for an expired
\* one verify throws.
CheckToken(r) ==
  /\ \/ /\ Step(r, "check", "revoke")
        /\ refreshTokens[presented[r]] = "live"
        /\ ~Expired(presented[r])
        /\ UNCHANGED <<tableVars, subject, presented, fresh, historyVars, deaths>>
     \/ /\ pc[r] = "check"
        /\ refreshTokens[presented[r]] = "live"
        /\ Expired(presented[r])
        /\ Die("expired")
     \/ /\ pc[r] = "check"
        /\ refreshTokens[presented[r]] # "live"
        /\ Answer(r)
        /\ UNCHANGED <<tableVars, historyVars, deaths>>
  /\ UNCHANGED <<now, faults>>

\* revokeRefreshToken; the new tokens are signed when it is done.
RevokeToken(r) ==
  /\ Step(r, "revoke", "reissue")
  /\ refreshTokens' = [refreshTokens EXCEPT ![presented[r]] = "revoked"]
  /\ fresh' = [fresh EXCEPT ![r] = <<subject[r], now>>]
  /\ UNCHANGED <<now, users, subject, presented, historyVars, deaths, faults>>

Succeed(r) ==
  successors' = [successors EXCEPT ![presented[r]] = @ \cup {fresh[r]}]

\* A duplicate answered with an error instead of the exception.
ReissueOrRefuse(r) ==
  /\ \/ Insert(r, "reissue") /\ Succeed(r)
     \/ /\ pc[r] = "reissue"
        /\ refreshTokens[fresh[r]] # "none"
        /\ Answer(r)
        /\ UNCHANGED <<tableVars, historyVars, deaths>>
  /\ UNCHANGED <<now, faults>>

Reissue(r) ==
  /\ \/ Insert(r, "reissue") /\ Succeed(r)
     \/ Collide(r, "reissue")
  /\ UNCHANGED <<now, faults>>

\* ------------------------------------------------------------ the service

\* res.json with both tokens.
Respond(r) ==
  /\ pc[r] = "respond"
  /\ clients' = clients \cup {fresh[r]}
  /\ Answer(r)
  /\ UNCHANGED <<now, tableVars, successors, deaths, faults>>

Handle(r) ==
  \/ HashPassword(r) \/ CreateUser(r)
  \/ FindUser(r) \/ ComparePassword(r) \/ IssueRefreshToken(r)
  \/ CheckToken(r) \/ RevokeToken(r) \/ Reissue(r)
  \/ Respond(r)

\* A database call rejects with no effect: register answers 500, the others throw.
DatabaseFails(r) ==
  /\ faults < MaxFaults
  /\ faults' = faults + 1
  /\ \/ /\ pc[r] = "create"
        /\ Answer(r)
        /\ UNCHANGED <<tableVars, historyVars, deaths>>
     \/ pc[r] \in {"find", "issue", "check", "revoke", "reissue"} /\ Die("database")
  /\ UNCHANGED now

Crash ==
  /\ faults < MaxFaults
  /\ faults' = faults + 1
  /\ Die("crash")
  /\ UNCHANGED now

Tick ==
  /\ now < MaxTime
  /\ now' = now + 1
  /\ UNCHANGED <<tableVars, requestVars, historyVars, deaths, faults>>

Next ==
  \/ \E r \in Requests, u \in Users : Register(r, u) \/ Login(r, u)
  \/ \E r \in Requests, t \in Tokens : Refresh(r, t)
  \/ \E r \in Requests : Handle(r) \/ DatabaseFails(r)
  \/ Crash
  \/ Tick

Spec == Init /\ [][Next]_vars
-----------------------------------------------------------------------------
\* Nobody is given a refresh token the table does not hold, whatever died in between.
GivenTokensAreStored ==
  /\ \A t \in clients : refreshTokens[t] # "none"
  /\ \A r \in Requests : pc[r] = "respond" =>
       fresh[r] \in Tokens /\ refreshTokens[fresh[r]] # "none"

\* A token that was exchanged is revoked for good, and what it was exchanged for is a
\* row of the same user and another token.
ExchangedTokensAreRevoked ==
  \A t \in Tokens : \A s \in successors[t] :
    /\ refreshTokens[t] = "revoked"
    /\ refreshTokens[s] # "none"
    /\ s # t
    /\ s[1] = t[1]

\* What a request carries when it gets to each await.
RequestsAreConsistent ==
  \A r \in Requests :
    /\ pc[r] \in {"issue", "reissue"} => fresh[r] \in Tokens
    /\ pc[r] \in {"check", "revoke", "reissue"} =>
         presented[r] \in clients /\ presented[r][1] = subject[r]
    /\ pc[r] = "reissue" =>
         refreshTokens[presented[r]] = "revoked" /\ fresh[r][1] = subject[r]

\* No token is ahead of its time, and none was exchanged for one signed earlier.
TokensAreSignedInOrder ==
  /\ \A t \in clients : t[2] <= now
  /\ \A r \in Requests :
       /\ pc[r] \in {"issue", "reissue", "respond"} => fresh[r][2] <= now
       /\ pc[r] = "reissue" => presented[r][2] <= fresh[r][2]
  /\ \A t \in Tokens : \A s \in successors[t] : t[2] <= s[2]

IInv ==
  /\ TypeOK
  /\ GivenTokensAreStored
  /\ ExchangedTokensAreRevoked
  /\ RequestsAreConsistent
  /\ TokensAreSignedInOrder

\* Rotation: one token is exchanged twice only by requests that overlap.  Once it is
\* revoked and no request is past the check, it is spent for good.
Spent(t) ==
  /\ refreshTokens[t] = "revoked"
  /\ \A r \in Requests : pc[r] \in {"revoke", "reissue"} => presented[r] # t
RevokedTokensAreSpent ==
  [][\A t \in Tokens : Spent(t) => Spent(t)' /\ successors'[t] = successors[t]]_vars

\* A client that follows the protocol keeps a way in: its token is live, was exchanged,
\* or is being exchanged.  What breaks this is the death of the process, which two
\* requests of one user in one second are enough to cause.
SessionsSurvive ==
  deaths = {} =>
    \A t \in clients :
      \/ refreshTokens[t] = "live"
      \/ successors[t] # {}
      \/ \E r \in Requests : pc[r] = "reissue" /\ presented[r] = t
=============================================================================
