-------------------------- MODULE AuthSessionProofs --------------------------
(***************************************************************************)
(* The tokens of the server, and the session of the app against them, for  *)
(* any lifetimes, any number of overlapping requests and any bounds.       *)
(***************************************************************************)
EXTENDS AuthSession, TLAPS

-----------------------------------------------------------------------------
(* The server by itself.                                                   *)

LEMMA TokenSets ==
    /\ AccessTokens \subseteq Token /\ RefreshTokens \subseteq Token
    /\ \A t \in AccessTokens : t.type = "access" /\ t # NoToken
    /\ \A t \in RefreshTokens : t.type = "refresh" /\ t # NoToken /\ t.at \in 0 .. MaxTime
    /\ \A t \in Token : t.type = "access" => t \in AccessTokens
    /\ \A t \in Token : t.type = "refresh" => t \in RefreshTokens
    /\ NoToken \notin Token
BY NoTokenAssumption DEF AccessTokens, RefreshTokens, Token

(* Who was exchanged is revoked or doubled, and so is a token two requests *)
(* hold.                                                                   *)
TokensInv ==
  /\ TokensTypeOK
  /\ RotatedOnce
  /\ exchanged \subseteq revoked \union doubled
  /\ \A j \in Requests : exchange[j] \in exchanged => exchange[j] \in doubled
  /\ \A j, k \in Requests :
        j # k /\ exchange[j] # NoToken /\ exchange[j] = exchange[k] => exchange[j] \in doubled

LEMMA TokensInvInit == TokensInit => TokensInv
BY ClockAssumption DEF TokensInit, TokensInv, TokensTypeOK, RotatedOnce

LEMMA TokensInvStep == TokensInv /\ [TokensNext]_serverVars => TokensInv'
<1> SUFFICES ASSUME TokensInv, [TokensNext]_serverVars
             PROVE  TokensInv'
    OBVIOUS
<1> USE DEF TokensInv
<1>1. ASSUME NEW j \in Requests, NEW r \in RefreshTokens, RefreshCheck(j, r)
      PROVE  TokensInv'
  <2>1. /\ exchange' \in [Requests -> RefreshTokens \union {NoToken}]
        /\ \A k \in Requests : exchange'[k] = IF k = j THEN r ELSE exchange[k]
        /\ r \notin revoked /\ r # NoToken
      BY <1>1, TokenSets DEF RefreshCheck, Exchangeable, TokensTypeOK
  <2>2. /\ UNCHANGED <<now, revoked, failures, active, exchanged, again>>
        /\ doubled \subseteq doubled' /\ doubled' \subseteq doubled \union {r}
        /\ \A k \in Requests : exchange[k] = r => r \in doubled'
      BY <1>1 DEF RefreshCheck
  <2>3. TokensTypeOK' /\ RotatedOnce'
      BY <2>1, <2>2 DEF TokensTypeOK, RotatedOnce
  <2>4. \A k \in Requests : exchange'[k] \in exchanged' => exchange'[k] \in doubled'
      BY <2>1, <2>2
  <2> QED BY <2>1, <2>2, <2>3, <2>4
<1>2. ASSUME NEW j \in Requests, RefreshWrite(j)
      PROVE  TokensInv'
  <2> DEFINE r == exchange[j]
  <2>1. /\ r \in RefreshTokens
        /\ exchange' \in [Requests -> RefreshTokens \union {NoToken}]
        /\ \A k \in Requests : exchange'[k] = IF k = j THEN NoToken ELSE exchange[k]
      BY <1>2 DEF RefreshWrite, TokensTypeOK
  <2>2. /\ UNCHANGED <<now, active>>
        /\ exchanged' = exchanged \union {r}
        /\ again' = again \union ({r} \intersect exchanged)
        /\ revoked \subseteq revoked' /\ revoked' \subseteq revoked \union {r}
        /\ doubled \subseteq doubled' /\ doubled' \subseteq doubled \union {r}
        /\ r \in revoked' \union doubled'
        /\ failures' \in 0 .. MaxFailures
      BY <1>2, ClockAssumption DEF RefreshWrite, RefreshRevokes, TokensTypeOK
  <2>3. r \in exchanged => r \in doubled
      BY <1>2
  <2>4. TokensTypeOK' /\ RotatedOnce'
      BY <2>1, <2>2, <2>3, TokenSets DEF TokensTypeOK, RotatedOnce
  <2>5. \A k \in Requests : exchange'[k] \in exchanged' => exchange'[k] \in doubled'
      BY <2>1, <2>2, TokenSets DEF TokensTypeOK
  <2>6. \A i, k \in Requests :
          i # k /\ exchange'[i] # NoToken /\ exchange'[i] = exchange'[k] => exchange'[i] \in doubled'
      BY <2>1, <2>2
  <2> QED BY <2>2, <2>4, <2>5, <2>6
<1>3. ASSUME NEW j \in Requests, RefreshFails(j)
      PROVE  TokensInv'
  <2>1. /\ exchange' \in [Requests -> RefreshTokens \union {NoToken}]
        /\ \A k \in Requests : exchange'[k] = IF k = j THEN NoToken ELSE exchange[k]
      BY <1>3 DEF RefreshFails, TokensTypeOK
  <2> QED BY <1>3, <2>1, TokenSets DEF RefreshFails, TokensTypeOK, RotatedOnce
<1>4. ASSUME NEW t \in Token, Logout(t)
      PROVE  TokensInv'
    BY <1>4 DEF Logout, TokensTypeOK, RotatedOnce
<1>5. CASE DeleteAccount
    BY <1>5 DEF DeleteAccount, TokensTypeOK, RotatedOnce
<1>6. CASE Tick
    BY <1>6, ClockAssumption DEF Tick, TokensTypeOK, RotatedOnce
<1>7. CASE UNCHANGED serverVars
    BY <1>7 DEF serverVars, TokensTypeOK, RotatedOnce
<1> QED BY <1>1, <1>2, <1>3, <1>4, <1>5, <1>6, <1>7 DEF TokensNext

LEMMA TokensInvariant == TokensSpec => []TokensInv
BY TokensInvInit, TokensInvStep, PTL DEF TokensSpec

(***************************************************************************)
(* No refresh token is exchanged twice, whoever calls the server, unless   *)
(* two requests had checked it before either revoked it (service.go        *)
(* RefreshToken).                                                          *)
(***************************************************************************)
THEOREM TokensRotateOnce == TokensSpec => []RotatedOnce
<1>1. TokensInv => RotatedOnce
    BY DEF TokensInv
<1> QED BY <1>1, TokensInvariant, PTL

-----------------------------------------------------------------------------
(***************************************************************************)
(* The app.  First what holds of a request by itself (q is the request, x  *)
(* the refresh token the server holds for it) and between requests.        *)
(***************************************************************************)
Renewing == {"asking", "asked", "denied", "minting", "granted", "saving"}
Refreshes(q) == q.at \in Renewing /\ q.renewing # NoToken

Sensible(q, x) ==
  /\ q.at \in {"asking", "asked", "denied", "minting"} => q.renewing # NoToken
  /\ q.renewing # NoToken => q.at \in Renewing
  /\ q.at \in {"granted", "saving"} /\ q.renewing = NoToken => q.kind = "login"
  /\ q.kind = "login" => q.at \in {"starting", "sent", "granted", "saving"} /\ q.renewing = NoToken
  /\ q.kind = "validate" => q.own # NoToken
  /\ q.at = "storing" => q.own # NoToken
  /\ x # NoToken => (q.at = "minting" /\ q.renewing = x) \/ q.at = "orphaned"

(* No token comes from the future.                                         *)
Past(q, x, t) ==
  /\ x # NoToken => x.at <= t
  /\ q.renewing # NoToken => q.renewing.at <= t
  /\ q.minted <= t

Sense ==
  /\ \A j \in Requests : Sensible(job[j], exchange[j]) /\ Past(job[j], exchange[j], now)
  /\ \A j \in Requests :
       job[j].at = "joined" => job[j].waits \in Requests /\ Refreshes(job[job[j].waits])
  /\ \A j, k \in Requests : job[j].kind = "login" /\ job[k].kind = "login" => j = k
  /\ ongoing # NoRequest => Refreshes(job[ongoing])
  /\ refresh # NoToken => refresh.at <= now
  /\ \A r \in revoked : r.type = "refresh" => r.at <= now

SenseInv == AuthTypeOK /\ Sense

LEMMA JobFields ==
    ASSUME NEW q \in Job
    PROVE  /\ q.at \in Places /\ q.kind \in Kinds /\ q.own \in MaybeAccess
           /\ q.sent \in MaybeAccess /\ q.retried \in BOOLEAN /\ q.renewing \in MaybeRefresh
           /\ q.minted \in 0 .. MaxTime /\ q.waits \in Requests \union {NoRequest}
BY DEF Job

LEMMA SomeJobs ==
    /\ Idle \in Job
    /\ \A kind \in Kinds, own \in MaybeAccess :
         /\ Begun(kind, own) \in Job
         /\ Begun(kind, own).at = "starting" /\ Begun(kind, own).kind = kind
         /\ Begun(kind, own).own = own /\ Begun(kind, own).renewing = NoToken
         /\ Begun(kind, own).sent = NoToken /\ Begun(kind, own).minted = 0
<1>1. Idle \in Job
    BY ClockAssumption DEF Idle, Job, Places, Kinds, MaybeAccess, MaybeRefresh
<1>2. Idle.renewing = NoToken /\ Idle.sent = NoToken /\ Idle.minted = 0
    BY DEF Idle
<1>3. ASSUME NEW kind \in Kinds, NEW own \in MaybeAccess
      PROVE  /\ Begun(kind, own) \in Job
             /\ Begun(kind, own).at = "starting" /\ Begun(kind, own).kind = kind
             /\ Begun(kind, own).own = own /\ Begun(kind, own).renewing = NoToken
             /\ Begun(kind, own).sent = NoToken /\ Begun(kind, own).minted = 0
    BY <1>1, <1>2 DEF Begun, Job, Places
<1> QED BY <1>1, <1>3

LEMMA TriedAgain ==
    ASSUME NEW k \in Requests, job[k] \in Job, NEW token \in MaybeAccess
    PROVE  /\ Again(k, token) \in Job
           /\ Again(k, token).at = "starting" /\ Again(k, token).kind = job[k].kind
           /\ Again(k, token).own = job[k].own /\ Again(k, token).renewing = NoToken
           /\ Again(k, token).sent = token /\ Again(k, token).minted = 0
<1> DEFINE q == Begun(job[k].kind, job[k].own)
<1>1. /\ q \in Job /\ q.at = "starting" /\ q.kind = job[k].kind /\ q.own = job[k].own
      /\ q.renewing = NoToken /\ q.minted = 0
    BY JobFields, SomeJobs
<1>2. Again(k, token) = [q EXCEPT !.sent = token, !.retried = TRUE]
    BY DEF Again
<1> HIDE DEF q
<1> QED BY <1>1, <1>2 DEF Job

(* The token of the pair, as it goes into storage and into a header.       *)
LEMMA MintedTokens ==
    ASSUME NEW q \in Job
    PROVE  /\ AccessOf(q.minted) \in AccessTokens /\ AccessOf(q.minted) \in MaybeAccess
           /\ RefreshOf(q.minted) \in RefreshTokens /\ RefreshOf(q.minted) \in MaybeRefresh
BY JobFields DEF AccessOf, RefreshOf, AccessTokens, RefreshTokens, MaybeAccess, MaybeRefresh

(***************************************************************************)
(* One request moves from job[j] to q.                                     *)
(***************************************************************************)
Moves(j, q) ==
  /\ job' \in [Requests -> Job]
  /\ \A k \in Requests : job'[k] = IF k = j THEN q ELSE job[k]

LEMMA Put ==
    ASSUME job \in [Requests -> Job], NEW j \in Requests, NEW q \in Job,
           job' = [job EXCEPT ![j] = q]
    PROVE  Moves(j, q)
BY DEF Moves

(* Nobody who waits for the request loses it, and logins stay one.         *)
GoesOn(p, q) ==
  /\ Refreshes(p) => Refreshes(q)
  /\ q.kind = "login" => p.kind = "login"

LEMMA MoveKeepsSense ==
    ASSUME SenseInv, NEW j \in Requests, NEW q \in Job, Moves(j, q),
           Sensible(q, exchange'[j]), Past(q, exchange'[j], now),
           GoesOn(job[j], q),
           q.at = "joined" => q.waits \in Requests \ {j} /\ Refreshes(job[q.waits]),
           \A k \in Requests : k # j => exchange'[k] = exchange[k],
           UNCHANGED now,
           ongoing' = ongoing \/ ongoing' = NoRequest \/ (ongoing' = j /\ Refreshes(q)),
           refresh' # NoToken => refresh'.at <= now,
           \A r \in revoked' : r.type = "refresh" => r.at <= now
    PROVE  Sense'
<1> USE DEF SenseInv, Sense, Moves, GoesOn
<1>1. (\A k \in Requests : Sensible(job[k], exchange[k]) /\ Past(job[k], exchange[k], now))'
    OBVIOUS
<1>2. \A k \in Requests : Refreshes(job[k]) => Refreshes(job'[k])
    OBVIOUS
<1>3. (\A k \in Requests :
         job[k].at = "joined" => job[k].waits \in Requests /\ Refreshes(job[job[k].waits]))'
  <2> SUFFICES ASSUME NEW k \in Requests, job'[k].at = "joined"
               PROVE  job'[k].waits \in Requests /\ Refreshes(job'[job'[k].waits])
      OBVIOUS
  <2> QED BY <1>2
<1>4. (\A i, k \in Requests : job[i].kind = "login" /\ job[k].kind = "login" => i = k)'
    OBVIOUS
<1>5. (ongoing # NoRequest => Refreshes(job[ongoing]))'
    BY <1>2 DEF AuthTypeOK
<1> QED BY <1>1, <1>3, <1>4, <1>5

-----------------------------------------------------------------------------
(* What becomes of the request, action by action.                          *)

(* The header of the request, once onRequest has seen it.                  *)
Header(j) == IF access # NoToken THEN access ELSE job[j].sent

Becomes(j, q, at, sent, renewing, minted) ==
  /\ Moves(j, q)
  /\ q.at = at /\ q.sent = sent /\ q.renewing = renewing /\ q.minted = minted
  /\ q.kind = job[j].kind /\ q.own = job[j].own

LEMMA JobMoves ==
    ASSUME AuthTypeOK, NEW j \in Requests
    PROVE  /\ Send(j) =>
               \E q \in Job : Becomes(j, q, "sent", Header(j), job[j].renewing, job[j].minted)
           /\ LoginAnswered(j) =>
               \E q \in Job : Becomes(j, q, "granted", NoToken, job[j].renewing, now)
           /\ Refused(j) =>
               \E q \in Job : Becomes(j, q, "refused", NoToken, job[j].renewing, job[j].minted)
           /\ SessionValid(j) =>
               \E q \in Job : Becomes(j, q, "storing", NoToken, job[j].renewing, job[j].minted)
           /\ ProfileUpdated(j) =>
               \E q \in Job : Becomes(j, q, "profiled", NoToken, job[j].renewing, job[j].minted)
           /\ AskRefresh(j) =>
               \E q \in Job : Becomes(j, q, "asked", access, job[j].renewing, job[j].minted)
           /\ RefreshTaken(j) =>
               \E q \in Job : Becomes(j, q, "minting", NoToken, job[j].renewing, job[j].minted)
           /\ RefreshDenied(j) =>
               \E q \in Job : Becomes(j, q, "denied", NoToken, job[j].renewing, job[j].minted)
           /\ RefreshAnswered(j) =>
               \E q \in Job : Becomes(j, q, "granted", job[j].sent, job[j].renewing, now)
           /\ SaveAccess(j) =>
               \E q \in Job : Becomes(j, q, "saving", job[j].sent, job[j].renewing, job[j].minted)
           /\ ReadRefresh(j) /\ refresh # NoToken =>
               \E q \in Job : Becomes(j, q, "asking", job[j].sent, refresh, job[j].minted)
<1>1. /\ job \in [Requests -> Job] /\ access \in MaybeAccess /\ refresh \in MaybeRefresh
      /\ now \in 0 .. MaxTime /\ NoToken \in MaybeAccess /\ Header(j) \in MaybeAccess
    BY JobFields DEF AuthTypeOK, TokensTypeOK, MaybeAccess, Header
<1>2. ASSUME NEW a \in Places, NEW s \in MaybeAccess, NEW r \in MaybeRefresh, NEW m \in 0 .. MaxTime,
             job' = [job EXCEPT ![j] = [job[j] EXCEPT !.at = a, !.sent = s, !.renewing = r, !.minted = m]]
      PROVE  \E q \in Job : Becomes(j, q, a, s, r, m)
  <2> DEFINE q == [job[j] EXCEPT !.at = a, !.sent = s, !.renewing = r, !.minted = m]
  <2>1. /\ q \in Job /\ q.at = a /\ q.sent = s /\ q.renewing = r /\ q.minted = m
        /\ q.kind = job[j].kind /\ q.own = job[j].own
      BY <1>1 DEF Job
  <2> QED BY <1>1, <1>2, <2>1, Put DEF Becomes
<1>3. ASSUME Send(j)
      PROVE  \E q \in Job : Becomes(j, q, "sent", Header(j), job[j].renewing, job[j].minted)
  <2>1. job' = [job EXCEPT ![j] = [job[j] EXCEPT !.at = "sent", !.sent = Header(j),
                                                 !.renewing = job[j].renewing, !.minted = job[j].minted]]
      BY <1>1, <1>3 DEF Send, Header, Job
  <2> QED BY <1>1, <1>2, <2>1 DEF Places, Job
<1>4. ASSUME LoginAnswered(j)
      PROVE  \E q \in Job : Becomes(j, q, "granted", NoToken, job[j].renewing, now)
  <2>1. job' = [job EXCEPT ![j] = [job[j] EXCEPT !.at = "granted", !.sent = NoToken,
                                                 !.renewing = job[j].renewing, !.minted = now]]
      BY <1>1, <1>4 DEF LoginAnswered, Job
  <2> QED BY <1>1, <1>2, <2>1 DEF Places, Job
<1>5. ASSUME Refused(j)
      PROVE  \E q \in Job : Becomes(j, q, "refused", NoToken, job[j].renewing, job[j].minted)
  <2>1. job' = [job EXCEPT ![j] = [job[j] EXCEPT !.at = "refused", !.sent = NoToken,
                                                 !.renewing = job[j].renewing, !.minted = job[j].minted]]
      BY <1>1, <1>5 DEF Refused, Job
  <2> QED BY <1>1, <1>2, <2>1 DEF Places, Job
<1>6. ASSUME SessionValid(j)
      PROVE  \E q \in Job : Becomes(j, q, "storing", NoToken, job[j].renewing, job[j].minted)
  <2>1. job' = [job EXCEPT ![j] = [job[j] EXCEPT !.at = "storing", !.sent = NoToken,
                                                 !.renewing = job[j].renewing, !.minted = job[j].minted]]
      BY <1>1, <1>6 DEF SessionValid, Job
  <2> QED BY <1>1, <1>2, <2>1 DEF Places, Job
<1>7. ASSUME AskRefresh(j)
      PROVE  \E q \in Job : Becomes(j, q, "asked", access, job[j].renewing, job[j].minted)
  <2>1. job' = [job EXCEPT ![j] = [job[j] EXCEPT !.at = "asked", !.sent = access,
                                                 !.renewing = job[j].renewing, !.minted = job[j].minted]]
      BY <1>1, <1>7 DEF AskRefresh, Job
  <2> QED BY <1>1, <1>2, <2>1 DEF Places, Job
<1>8. ASSUME RefreshTaken(j)
      PROVE  \E q \in Job : Becomes(j, q, "minting", NoToken, job[j].renewing, job[j].minted)
  <2>1. job' = [job EXCEPT ![j] = [job[j] EXCEPT !.at = "minting", !.sent = NoToken,
                                                 !.renewing = job[j].renewing, !.minted = job[j].minted]]
      BY <1>1, <1>8 DEF RefreshTaken, Job
  <2> QED BY <1>1, <1>2, <2>1 DEF Places, Job
<1>9. ASSUME RefreshDenied(j)
      PROVE  \E q \in Job : Becomes(j, q, "denied", NoToken, job[j].renewing, job[j].minted)
  <2>1. job' = [job EXCEPT ![j] = [job[j] EXCEPT !.at = "denied", !.sent = NoToken,
                                                 !.renewing = job[j].renewing, !.minted = job[j].minted]]
      BY <1>1, <1>9 DEF RefreshDenied, Job
  <2> QED BY <1>1, <1>2, <2>1 DEF Places, Job
<1>10. ASSUME RefreshAnswered(j)
      PROVE  \E q \in Job : Becomes(j, q, "granted", job[j].sent, job[j].renewing, now)
  <2>1. job' = [job EXCEPT ![j] = [job[j] EXCEPT !.at = "granted", !.sent = job[j].sent,
                                                 !.renewing = job[j].renewing, !.minted = now]]
      BY <1>1, <1>10 DEF RefreshAnswered, Job
  <2> QED BY <1>1, <1>2, <2>1 DEF Places, Job
<1>11. ASSUME SaveAccess(j)
      PROVE  \E q \in Job : Becomes(j, q, "saving", job[j].sent, job[j].renewing, job[j].minted)
  <2>1. job' = [job EXCEPT ![j] = [job[j] EXCEPT !.at = "saving", !.sent = job[j].sent,
                                                 !.renewing = job[j].renewing, !.minted = job[j].minted]]
      BY <1>1, <1>11 DEF SaveAccess, Job
  <2> QED BY <1>1, <1>2, <2>1 DEF Places, Job
<1>12. ASSUME ReadRefresh(j), refresh # NoToken
      PROVE  \E q \in Job : Becomes(j, q, "asking", job[j].sent, refresh, job[j].minted)
  <2>1. job' = [job EXCEPT ![j] = [job[j] EXCEPT !.at = "asking", !.sent = job[j].sent,
                                                 !.renewing = refresh, !.minted = job[j].minted]]
      BY <1>1, <1>12 DEF ReadRefresh, Job
  <2> QED BY <1>1, <1>2, <2>1 DEF Places, Job
<1>13. ASSUME ProfileUpdated(j)
       PROVE  \E q \in Job : Becomes(j, q, "profiled", NoToken, job[j].renewing, job[j].minted)
  <2>1. job' = [job EXCEPT ![j] = [job[j] EXCEPT !.at = "profiled", !.sent = NoToken,
                                                 !.renewing = job[j].renewing, !.minted = job[j].minted]]
      BY <1>1, <1>13 DEF ProfileUpdated, Job
  <2> QED BY <1>1, <1>2, <2>1 DEF Places, Job
<1> QED BY <1>3, <1>4, <1>5, <1>6, <1>7, <1>8, <1>9, <1>10, <1>11, <1>12, <1>13

LEMMA ReadMoves ==
    ASSUME AuthTypeOK, NEW j \in Requests, TokenRead(j)
    PROVE  \E q \in Job : /\ Moves(j, q) /\ q.at = "storing" /\ q.own = access
                          /\ q.renewing = job[j].renewing /\ q.minted = job[j].minted
                          /\ q.kind = job[j].kind
<1> DEFINE q == [job[j] EXCEPT !.at = "storing", !.own = access]
<1>1. /\ q \in Job /\ q.at = "storing" /\ q.own = access
      /\ q.renewing = job[j].renewing /\ q.minted = job[j].minted /\ q.kind = job[j].kind
    BY DEF AuthTypeOK, Job, Places
<1>2. job' = [job EXCEPT ![j] = q] /\ job \in [Requests -> Job]
    BY DEF TokenRead, AuthTypeOK, Job
<1> QED BY <1>1, <1>2, Put

LEMMA RenewMoves ==
    ASSUME AuthTypeOK, NEW j \in Requests, Renew(j)
    PROVE  \E q \in Job : /\ Moves(j, q) /\ q.at \in {"reading", "joined"}
                          /\ q.at = "joined" => ongoing # NoRequest
                          /\ q.waits = ongoing /\ q.sent = job[j].sent
                          /\ q.renewing = job[j].renewing /\ q.minted = job[j].minted
                          /\ q.kind = job[j].kind /\ q.own = job[j].own
<1> DEFINE q == [job[j] EXCEPT !.at = IF ongoing = NoRequest THEN "reading" ELSE "joined",
                               !.waits = ongoing]
<1>1. /\ q \in Job /\ q.at \in {"reading", "joined"} /\ q.waits = ongoing /\ q.sent = job[j].sent
      /\ (q.at = "joined" => ongoing # NoRequest)
      /\ q.renewing = job[j].renewing /\ q.minted = job[j].minted
      /\ q.kind = job[j].kind /\ q.own = job[j].own
    BY DEF AuthTypeOK, Job, Places
<1>2. job' = [job EXCEPT ![j] = q]
    BY DEF Renew
<1> QED BY <1>1, <1>2, Put DEF AuthTypeOK

-----------------------------------------------------------------------------
(* The server does what Tokens says, whatever the app does.                 *)

LEMMA ServerStep == SenseInv /\ AuthNext => [TokensNext]_serverVars
<1> SUFFICES ASSUME SenseInv, AuthNext PROVE [TokensNext]_serverVars
    OBVIOUS
<1>1. ASSUME NEW j \in Requests, NEW kind \in Kinds, Begin(j, kind)
      PROVE  UNCHANGED serverVars
    BY <1>1 DEF Begin
<1>2. ASSUME NEW j \in Requests, Request(j)
      PROVE  [TokensNext]_serverVars
  <2>1. job[j] \in Job
      BY DEF SenseInv, AuthTypeOK
  <2>2. CASE PasswordChanged(j)
    <3>1. job[j].sent \in Token /\ Logout(job[j].sent)
        BY <2>1, <2>2, TokenSets DEF PasswordChanged, Answered, JWTAuth, Job, MaybeAccess
    <3> QED BY <3>1 DEF TokensNext
  <2>3. CASE RefreshTaken(j)
    <3>1. job[j].renewing \in RefreshTokens /\ RefreshCheck(j, job[j].renewing)
        BY <2>1, <2>3 DEF RefreshTaken, SenseInv, Sense, Sensible, At, Job, MaybeRefresh
    <3> QED BY <3>1 DEF TokensNext
  <2>4. CASE AccountDeleted(j)
      BY <2>4 DEF AccountDeleted, TokensNext
  <2>5. CASE RefreshAnswered(j) \/ RefreshLost(j) \/ Orphaned(j)
      BY <2>5 DEF RefreshAnswered, RefreshLost, Orphaned, TokensNext
  <2>6. CASE \/ Send(j) \/ Refused(j) \/ CallAnswered(j) \/ SessionValid(j) \/ StoreAgain(j)
             \/ ProfileUpdated(j) \/ TokenRead(j) \/ TokenGone(j)
      BY <2>6 DEF Send, Refused, CallAnswered, SessionValid, StoreAgain, ProfileUpdated, TokenRead,
                  TokenGone
  <2>7. CASE LoginAnswered(j) \/ LoginRefused(j) \/ Renew(j) \/ ReadRefresh(j) \/ AskRefresh(j)
      BY <2>7 DEF LoginAnswered, LoginRefused, Renew, ReadRefresh, AskRefresh
  <2>8. CASE \/ RefreshDenied(j) \/ RenewalFails(j) \/ SaveAccess(j) \/ SaveRefresh(j)
             \/ NoAnswer(j) \/ RetryFails(j)
      BY <2>8 DEF RefreshDenied, RenewalFails, SaveAccess, SaveRefresh, NoAnswer, RetryFails
  <2> QED BY <1>2, <2>2, <2>3, <2>4, <2>5, <2>6, <2>7, <2>8 DEF Request
<1>3. CASE UserLogout \/ LogoutSend \/ ClearAccess \/ ClearRefresh \/ Kill
    BY <1>3 DEF UserLogout, LogoutSend, ClearAccess, ClearRefresh, Kill
<1>4. CASE LogoutPosted
  <2>1. CASE JWTAuth(outToken, TRUE) /\ Logout(outToken)
    <3>1. outToken \in Token
        BY <2>1, TokenSets DEF JWTAuth, SenseInv, AuthTypeOK, MaybeAccess
    <3> QED BY <2>1, <3>1 DEF TokensNext
  <2> QED BY <1>4, <2>1 DEF LogoutPosted
<1>5. CASE ClockTick
    BY <1>5 DEF ClockTick, TokensNext
<1> QED BY <1>1, <1>2, <1>3, <1>4, <1>5 DEF AuthNext, LogoutStep

-----------------------------------------------------------------------------
(* Sense is kept, action by action.                                        *)

(* What the blacklist gets is not from the future either.                  *)
LEMMA RevokedPast ==
    ASSUME SenseInv, UNCHANGED now,
           \/ UNCHANGED revoked
           \/ \E t \in AccessTokens : revoked' \subseteq revoked \union {t}
           \/ \E j \in Requests : RefreshWrite(j)
    PROVE  \A r \in revoked' : r.type = "refresh" => r.at <= now
<1>1. CASE UNCHANGED revoked
    BY <1>1 DEF SenseInv, Sense
<1>2. CASE \E t \in AccessTokens : revoked' \subseteq revoked \union {t}
    BY <1>2, TokenSets DEF SenseInv, Sense
<1>3. ASSUME NEW j \in Requests, RefreshWrite(j)
      PROVE  \A r \in revoked' : r.type = "refresh" => r.at <= now
  <2>1. exchange[j] # NoToken /\ exchange[j].at <= now
      BY <1>3 DEF RefreshWrite, SenseInv, Sense, Past
  <2>2. revoked' \subseteq revoked \union {exchange[j]}
      BY <1>3 DEF RefreshWrite, RefreshRevokes
  <2> QED BY <2>1, <2>2 DEF SenseInv, Sense
<1> QED BY <1>1, <1>2, <1>3

(* Moves that leave the server, the stored refresh token and the shared    *)
(* future alone.                                                           *)
LEMMA QuietKeepsSense ==
    ASSUME SenseInv, NEW j \in Requests,
           \/ Send(j) \/ LoginAnswered(j) \/ Refused(j) \/ SessionValid(j)
           \/ ProfileUpdated(j) \/ TokenRead(j)
           \/ AskRefresh(j) \/ RefreshDenied(j) \/ SaveAccess(j)
    PROVE  Sense'
<1> DEFINE Fits(q) == /\ Sensible(q, exchange'[j]) /\ Past(q, exchange'[j], now)
                   /\ GoesOn(job[j], q) /\ q.at # "joined"
<1>1. /\ Sensible(job[j], exchange[j]) /\ Past(job[j], exchange[j], now)
      /\ now \in Nat /\ job[j].minted \in Nat
    BY JobFields DEF SenseInv, Sense, AuthTypeOK, TokensTypeOK
<1>2. ASSUME Send(j)
      PROVE  \E q \in Job : Moves(j, q) /\ Fits(q) /\ UNCHANGED <<now, revoked, exchange, ongoing, refresh>>
  <2>1. PICK q \in Job : Becomes(j, q, "sent", Header(j), job[j].renewing, job[j].minted)
      BY <1>2, JobMoves DEF SenseInv
  <2>2. UNCHANGED <<now, revoked, exchange, ongoing, refresh>> /\ At(j, {"starting"})
      BY <1>2 DEF Send, serverVars
  <2>3. Fits(q)
      BY <1>1, <1>2, <2>1, <2>2 DEF Becomes, At, Sensible, Past, GoesOn, Refreshes, Renewing
  <2> QED BY <2>1, <2>2, <2>3 DEF Becomes
<1>3. ASSUME LoginAnswered(j)
      PROVE  \E q \in Job : Moves(j, q) /\ Fits(q) /\ UNCHANGED <<now, revoked, exchange, ongoing, refresh>>
  <2>1. PICK q \in Job : Becomes(j, q, "granted", NoToken, job[j].renewing, now)
      BY <1>3, JobMoves DEF SenseInv
  <2>2. UNCHANGED <<now, revoked, exchange, ongoing, refresh>> /\ At(j, {"sent"})
      BY <1>3 DEF LoginAnswered, serverVars
  <2>3. Fits(q)
      BY <1>1, <1>3, <2>1, <2>2 DEF LoginAnswered, Becomes, At, Sensible, Past, GoesOn, Refreshes,
                                    Renewing
  <2> QED BY <2>1, <2>2, <2>3 DEF Becomes
<1>4. ASSUME Refused(j)
      PROVE  \E q \in Job : Moves(j, q) /\ Fits(q) /\ UNCHANGED <<now, revoked, exchange, ongoing, refresh>>
  <2>1. PICK q \in Job : Becomes(j, q, "refused", NoToken, job[j].renewing, job[j].minted)
      BY <1>4, JobMoves DEF SenseInv
  <2>2. UNCHANGED <<now, revoked, exchange, ongoing, refresh>> /\ At(j, {"sent"})
      BY <1>4 DEF Refused, serverVars
  <2>3. Fits(q)
      BY <1>1, <1>4, <2>1, <2>2 DEF Refused, Becomes, At, Sensible, Past, GoesOn, Refreshes, Renewing
  <2> QED BY <2>1, <2>2, <2>3 DEF Becomes
<1>5. ASSUME SessionValid(j)
      PROVE  \E q \in Job : Moves(j, q) /\ Fits(q) /\ UNCHANGED <<now, revoked, exchange, ongoing, refresh>>
  <2>1. PICK q \in Job : Becomes(j, q, "storing", NoToken, job[j].renewing, job[j].minted)
      BY <1>5, JobMoves DEF SenseInv
  <2>2. UNCHANGED <<now, revoked, exchange, ongoing, refresh>> /\ At(j, {"sent"})
      BY <1>5 DEF SessionValid, Answered, serverVars
  <2>3. Fits(q)
      BY <1>1, <1>5, <2>1, <2>2 DEF SessionValid, Answered, Becomes, At, Sensible, Past, GoesOn,
                                    Refreshes, Renewing
  <2> QED BY <2>1, <2>2, <2>3 DEF Becomes
<1>6. ASSUME AskRefresh(j)
      PROVE  \E q \in Job : Moves(j, q) /\ Fits(q) /\ UNCHANGED <<now, revoked, exchange, ongoing, refresh>>
  <2>1. PICK q \in Job : Becomes(j, q, "asked", access, job[j].renewing, job[j].minted)
      BY <1>6, JobMoves DEF SenseInv
  <2>2. UNCHANGED <<now, revoked, exchange, ongoing, refresh>> /\ At(j, {"asking"})
      BY <1>6 DEF AskRefresh, serverVars
  <2>3. Fits(q)
      BY <1>1, <1>6, <2>1, <2>2 DEF AskRefresh, Becomes, At, Sensible, Past, GoesOn, Refreshes, Renewing
  <2> QED BY <2>1, <2>2, <2>3 DEF Becomes
<1>7. ASSUME RefreshDenied(j)
      PROVE  \E q \in Job : Moves(j, q) /\ Fits(q) /\ UNCHANGED <<now, revoked, exchange, ongoing, refresh>>
  <2>1. PICK q \in Job : Becomes(j, q, "denied", NoToken, job[j].renewing, job[j].minted)
      BY <1>7, JobMoves DEF SenseInv
  <2>2. UNCHANGED <<now, revoked, exchange, ongoing, refresh>> /\ At(j, {"asked"})
      BY <1>7 DEF RefreshDenied, serverVars
  <2>3. Fits(q)
      BY <1>1, <1>7, <2>1, <2>2 DEF RefreshDenied, Becomes, At, Sensible, Past, GoesOn, Refreshes,
                                    Renewing
  <2> QED BY <2>1, <2>2, <2>3 DEF Becomes
<1>8. ASSUME SaveAccess(j)
      PROVE  \E q \in Job : Moves(j, q) /\ Fits(q) /\ UNCHANGED <<now, revoked, exchange, ongoing, refresh>>
  <2>1. PICK q \in Job : Becomes(j, q, "saving", job[j].sent, job[j].renewing, job[j].minted)
      BY <1>8, JobMoves DEF SenseInv
  <2>2. UNCHANGED <<now, revoked, exchange, ongoing, refresh>> /\ At(j, {"granted"})
      BY <1>8 DEF SaveAccess, serverVars
  <2>3. Fits(q)
      BY <1>1, <1>8, <2>1, <2>2 DEF SaveAccess, Becomes, At, Sensible, Past, GoesOn, Refreshes, Renewing
  <2> QED BY <2>1, <2>2, <2>3 DEF Becomes
<1>9. ASSUME ProfileUpdated(j)
      PROVE  \E q \in Job : Moves(j, q) /\ Fits(q) /\ UNCHANGED <<now, revoked, exchange, ongoing, refresh>>
  <2>1. PICK q \in Job : Becomes(j, q, "profiled", NoToken, job[j].renewing, job[j].minted)
      BY <1>9, JobMoves DEF SenseInv
  <2>2. UNCHANGED <<now, revoked, exchange, ongoing, refresh>> /\ At(j, {"sent"})
      BY <1>9 DEF ProfileUpdated, Answered, serverVars
  <2>3. Fits(q)
      BY <1>1, <1>9, <2>1, <2>2 DEF ProfileUpdated, Answered, Becomes, At, Sensible, Past, GoesOn,
                                    Refreshes, Renewing
  <2> QED BY <2>1, <2>2, <2>3 DEF Becomes
<1>10. ASSUME TokenRead(j)
       PROVE  \E q \in Job : Moves(j, q) /\ Fits(q) /\ UNCHANGED <<now, revoked, exchange, ongoing, refresh>>
  <2>1. PICK q \in Job : /\ Moves(j, q) /\ q.at = "storing" /\ q.own = access
                         /\ q.renewing = job[j].renewing /\ q.minted = job[j].minted
                         /\ q.kind = job[j].kind
      BY <1>10, ReadMoves DEF SenseInv
  <2>2. /\ UNCHANGED <<now, revoked, exchange, ongoing, refresh>>
        /\ job[j].at = "profiled" /\ access # NoToken
      BY <1>10 DEF TokenRead, At, serverVars
  <2>3. Fits(q)
      BY <1>1, <2>1, <2>2 DEF Sensible, Past, GoesOn, Refreshes, Renewing
  <2> QED BY <2>1, <2>2, <2>3
<1>11. PICK q \in Job : Moves(j, q) /\ Fits(q) /\ UNCHANGED <<now, revoked, exchange, ongoing, refresh>>
    BY <1>2, <1>3, <1>4, <1>5, <1>6, <1>7, <1>8, <1>9, <1>10
<1>12. /\ \A r \in revoked' : r.type = "refresh" => r.at <= now
       /\ refresh' # NoToken => refresh'.at <= now
    BY <1>11 DEF SenseInv, Sense
<1> QED BY <1>11, <1>12, MoveKeepsSense

LEMMA BeginKeepsSense ==
    ASSUME SenseInv, NEW j \in Requests, NEW kind \in Kinds, Begin(j, kind)
    PROVE  Sense'
<1> DEFINE own == IF kind = "validate" THEN access ELSE NoToken
<1> DEFINE q == Begun(kind, own)
<1>1. own \in MaybeAccess /\ (kind = "validate" => own # NoToken)
    BY DEF SenseInv, AuthTypeOK, MaybeAccess, Begin, MayBegin
<1>2. /\ q \in Job /\ q.at = "starting" /\ q.kind = kind /\ q.own = own
      /\ q.renewing = NoToken /\ q.minted = 0
    BY <1>1, SomeJobs
<1>3. UNCHANGED <<now, revoked, exchange, ongoing, refresh>> /\ job[j].at = "idle"
    BY DEF Begin, At, serverVars
<1>4. Moves(j, q)
    BY <1>2, Put DEF SenseInv, AuthTypeOK, Begin
<1> HIDE DEF q, own
<1>5. Sensible(job[j], exchange[j]) /\ now \in Nat
    BY DEF SenseInv, Sense, AuthTypeOK, TokensTypeOK
<1>6. Sensible(q, exchange[j]) /\ Past(q, exchange[j], now) /\ ~Refreshes(job[j]) /\ q.at # "joined"
    BY <1>1, <1>2, <1>3, <1>5 DEF Sensible, Past, Refreshes, Renewing
<1>7. CASE kind # "login"
    BY <1>2, <1>3, <1>4, <1>6, <1>7, MoveKeepsSense DEF GoesOn, SenseInv, Sense
<1>8. CASE kind = "login"
  <2>1. \A k \in Requests : job[k].kind # "login"
      BY <1>8 DEF Begin, MayBegin
  <2>2. /\ (\A k \in Requests : Sensible(job[k], exchange[k]) /\ Past(job[k], exchange[k], now))'
        /\ (\A i, k \in Requests : job[i].kind = "login" /\ job[k].kind = "login" => i = k)'
      BY <1>3, <1>4, <1>6, <2>1 DEF Moves, SenseInv, Sense
  <2>3. \A k \in Requests : Refreshes(job[k]) => Refreshes(job'[k])
      BY <1>4, <1>6 DEF Moves
  <2>4. (\A k \in Requests :
           job[k].at = "joined" => job[k].waits \in Requests /\ Refreshes(job[job[k].waits]))'
    <3> SUFFICES ASSUME NEW k \in Requests, job'[k].at = "joined"
                 PROVE  job'[k].waits \in Requests /\ Refreshes(job'[job'[k].waits])
        OBVIOUS
    <3> QED BY <1>4, <1>6, <2>3 DEF Moves, SenseInv, Sense
  <2>5. (ongoing # NoRequest => Refreshes(job[ongoing]))'
      BY <1>3, <2>3 DEF SenseInv, Sense, AuthTypeOK
  <2> QED BY <1>3, <2>2, <2>4, <2>5 DEF SenseInv, Sense
<1> QED BY <1>7, <1>8

(* A request that comes to its end, and nobody waits for it.               *)
LEMMA EndKeepsSense ==
    ASSUME SenseInv, NEW j \in Requests, Moves(j, Idle), ~Refreshes(job[j]),
           exchange'[j] = NoToken,
           \A k \in Requests : k # j => exchange'[k] = exchange[k],
           UNCHANGED <<now, ongoing>>,
           refresh' # NoToken => refresh'.at <= now,
           \A r \in revoked' : r.type = "refresh" => r.at <= now
    PROVE  Sense'
<1>1. Idle \in Job /\ now \in Nat
    BY SomeJobs DEF SenseInv, AuthTypeOK, TokensTypeOK
<1>2. Idle.at = "idle" /\ Idle.kind = "call" /\ Idle.renewing = NoToken /\ Idle.minted = 0
    BY DEF Idle
<1>3. Sensible(Idle, exchange'[j]) /\ Past(Idle, exchange'[j], now) /\ GoesOn(job[j], Idle)
    BY <1>1, <1>2 DEF Sensible, Past, GoesOn, Renewing
<1> QED BY <1>1, <1>2, <1>3, MoveKeepsSense

ReadsNone(j) == ReadRefresh(j) /\ refresh = NoToken
SavesLogin(j) == SaveRefresh(j) /\ job[j].renewing = NoToken

LEMMA EndsKeepSense ==
    ASSUME SenseInv, NEW j \in Requests,
           \/ NoAnswer(j) \/ RetryFails(j) \/ TokenGone(j)
           \/ LoginRefused(j) \/ CallAnswered(j) \/ PasswordChanged(j)
           \/ AccountDeleted(j) \/ StoreAgain(j) \/ Orphaned(j)
           \/ ReadsNone(j)
           \/ SavesLogin(j)
    PROVE  Sense'
<1>1. job[j] \in Job /\ Idle \in Job /\ job \in [Requests -> Job]
    BY SomeJobs DEF SenseInv, AuthTypeOK
<1>2. Sensible(job[j], exchange[j]) /\ Past(job[j], exchange[j], now)
    BY DEF SenseInv, Sense
<1>3. Moves(j, Idle)
  <2>1. job' = [job EXCEPT ![j] = Idle]
      BY DEF NoAnswer, RetryFails, TokenGone, LoginRefused, CallAnswered, PasswordChanged,
             AccountDeleted, StoreAgain,
             Orphaned, ReadsNone, ReadRefresh, SavesLogin, SaveRefresh, Ends
  <2> QED BY <1>1, <2>1, Put
<1>4. ~Refreshes(job[j])
    BY <1>2 DEF NoAnswer, RetryFails, TokenGone, LoginRefused, CallAnswered, PasswordChanged,
                AccountDeleted, StoreAgain,
                Orphaned, ReadsNone, ReadRefresh, SavesLogin, SaveRefresh, Answered, At, Refreshes,
                Renewing
<1>5. CASE Orphaned(j)
  <2>1. exchange \in [Requests -> MaybeRefresh]
      BY DEF SenseInv, AuthTypeOK, TokensTypeOK, MaybeRefresh
  <2>2. /\ UNCHANGED <<now, ongoing, refresh>>
        /\ exchange' = [exchange EXCEPT ![j] = NoToken]
        /\ UNCHANGED revoked \/ RefreshWrite(j)
      BY <1>5 DEF Orphaned, RefreshWrite, RefreshFails
  <2>3. \A r \in revoked' : r.type = "refresh" => r.at <= now
      BY <2>2, RevokedPast
  <2> QED BY <1>3, <1>4, <2>1, <2>2, <2>3, EndKeepsSense DEF SenseInv, Sense
<1>6. CASE PasswordChanged(j)
  <2>1. UNCHANGED <<now, exchange, ongoing, refresh>> /\ job[j].sent \in AccessTokens
      BY <1>1, <1>6, TokenSets DEF PasswordChanged, Answered, JWTAuth, Logout, Job, MaybeAccess
  <2>2. revoked' \subseteq revoked \union {job[j].sent}
      BY <1>6 DEF PasswordChanged, Logout
  <2>3. \A r \in revoked' : r.type = "refresh" => r.at <= now
      BY <2>1, <2>2, RevokedPast
  <2>4. exchange[j] = NoToken
      BY <1>2, <1>6 DEF PasswordChanged, Answered, At, Sensible
  <2> QED BY <1>3, <1>4, <2>1, <2>3, <2>4, EndKeepsSense DEF SenseInv, Sense
<1>7. CASE SavesLogin(j)
  <2>1. /\ UNCHANGED <<now, exchange, revoked>> /\ refresh' = RefreshOf(job[j].minted)
        /\ job[j].at = "saving"
      BY <1>7 DEF SavesLogin, SaveRefresh, serverVars, At
  <2>2. UNCHANGED ongoing
      BY <1>7 DEF SavesLogin, SaveRefresh
  <2>3. exchange[j] = NoToken /\ refresh'.at <= now
      BY <1>2, <2>1 DEF Sensible, Past, RefreshOf
  <2> QED BY <1>3, <1>4, <2>1, <2>2, <2>3, EndKeepsSense DEF SenseInv, Sense
<1>8. CASE \/ NoAnswer(j) \/ RetryFails(j) \/ TokenGone(j)
           \/ LoginRefused(j) \/ CallAnswered(j) \/ AccountDeleted(j)
           \/ StoreAgain(j) \/ ReadsNone(j)
  <2>1. UNCHANGED <<now, exchange, ongoing, refresh, revoked>>
      BY <1>8 DEF NoAnswer, RetryFails, TokenGone, LoginRefused, CallAnswered, AccountDeleted,
                  DeleteAccount,
                  StoreAgain, ReadsNone, ReadRefresh, serverVars
  <2>2. exchange[j] = NoToken
      BY <1>2, <1>8 DEF NoAnswer, RetryFails, TokenGone, LoginRefused, CallAnswered,
                        AccountDeleted, StoreAgain,
                        ReadsNone, ReadRefresh, Answered, At, Sensible
  <2> QED BY <1>3, <1>4, <2>1, <2>2, EndKeepsSense DEF SenseInv, Sense
<1>9. \/ Orphaned(j) \/ PasswordChanged(j) \/ SavesLogin(j)
      \/ \/ NoAnswer(j) \/ RetryFails(j) \/ TokenGone(j)
         \/ LoginRefused(j) \/ CallAnswered(j) \/ AccountDeleted(j)
         \/ StoreAgain(j)\/ ReadsNone(j)
    OBVIOUS
<1> QED BY <1>5, <1>6, <1>7, <1>8, <1>9

(* The moves of a refresh that do more than move.                          *)
ReadsSome(j) == ReadRefresh(j) /\ refresh # NoToken

LEMMA RefreshMovesKeepSense ==
    ASSUME SenseInv, NEW j \in Requests,
           \/ Renew(j) \/ ReadsSome(j) \/ RefreshTaken(j) \/ RefreshAnswered(j)
    PROVE  Sense'
<1>1. /\ Sensible(job[j], exchange[j]) /\ Past(job[j], exchange[j], now)
      /\ now \in Nat /\ job[j].minted \in Nat
      /\ exchange \in [Requests -> MaybeRefresh]
    BY JobFields DEF SenseInv, Sense, AuthTypeOK, TokensTypeOK, MaybeRefresh
<1>2. CASE Renew(j)
  <2>1. PICK q \in Job : /\ Moves(j, q) /\ q.at \in {"reading", "joined"}
                         /\ q.at = "joined" => ongoing # NoRequest
                         /\ q.waits = ongoing /\ q.sent = job[j].sent
                         /\ q.renewing = job[j].renewing /\ q.minted = job[j].minted
                         /\ q.kind = job[j].kind /\ q.own = job[j].own
      BY <1>2, RenewMoves DEF SenseInv
  <2>2. UNCHANGED <<now, revoked, exchange, ongoing, refresh>> /\ job[j].at = "refused"
      BY <1>2 DEF Renew, At, serverVars
  <2>3. /\ Sensible(q, exchange'[j]) /\ Past(q, exchange'[j], now)
        /\ ~Refreshes(job[j]) /\ q.kind = job[j].kind
      BY <1>1, <2>1, <2>2 DEF Sensible, Past, Refreshes, Renewing
  <2>4. q.at = "joined" => q.waits \in Requests \ {j} /\ Refreshes(job[q.waits])
      BY <2>1, <2>3 DEF SenseInv, Sense, AuthTypeOK
  <2> QED BY <2>1, <2>2, <2>3, <2>4, MoveKeepsSense DEF GoesOn, SenseInv, Sense
<1>3. CASE ReadsSome(j)
  <2>1. PICK q \in Job : Becomes(j, q, "asking", job[j].sent, refresh, job[j].minted)
      BY <1>3, JobMoves DEF SenseInv, ReadsSome
  <2>2. /\ UNCHANGED <<now, revoked, exchange, refresh>> /\ ongoing' = j /\ job[j].at = "reading"
        /\ refresh # NoToken /\ refresh.at <= now
      BY <1>3 DEF ReadsSome, ReadRefresh, At, serverVars, SenseInv, Sense
  <2>3. /\ Sensible(q, exchange'[j]) /\ Past(q, exchange'[j], now) /\ Refreshes(q)
        /\ q.kind = job[j].kind /\ q.at # "joined"
      BY <1>1, <2>1, <2>2 DEF Becomes, Sensible, Past, Refreshes, Renewing
  <2> QED BY <2>1, <2>2, <2>3, MoveKeepsSense DEF Becomes, GoesOn, SenseInv, Sense
<1>4. CASE RefreshTaken(j)
  <2>1. PICK q \in Job : Becomes(j, q, "minting", NoToken, job[j].renewing, job[j].minted)
      BY <1>4, JobMoves DEF SenseInv
  <2>2. /\ UNCHANGED <<now, revoked, ongoing, refresh>> /\ job[j].at = "asked"
        /\ exchange' = [exchange EXCEPT ![j] = job[j].renewing]
      BY <1>4 DEF RefreshTaken, RefreshCheck, At
  <2>3. exchange'[j] = job[j].renewing /\ \A k \in Requests : k # j => exchange'[k] = exchange[k]
      BY <1>1, <2>2
  <2>4. /\ Sensible(q, exchange'[j]) /\ Past(q, exchange'[j], now) /\ Refreshes(q)
        /\ q.kind = job[j].kind /\ q.at # "joined"
      BY <1>1, <2>1, <2>2, <2>3 DEF Becomes, Sensible, Past, Refreshes, Renewing
  <2> QED BY <2>1, <2>2, <2>3, <2>4, MoveKeepsSense DEF Becomes, GoesOn, SenseInv, Sense
<1>5. CASE RefreshAnswered(j)
  <2>1. PICK q \in Job : Becomes(j, q, "granted", job[j].sent, job[j].renewing, now)
      BY <1>5, JobMoves DEF SenseInv
  <2>2. /\ UNCHANGED <<now, ongoing, refresh>> /\ job[j].at = "minting" /\ RefreshWrite(j)
        /\ exchange' = [exchange EXCEPT ![j] = NoToken]
      BY <1>5 DEF RefreshAnswered, RefreshWrite, At
  <2>3. exchange'[j] = NoToken /\ \A k \in Requests : k # j => exchange'[k] = exchange[k]
      BY <1>1, <2>2
  <2>4. /\ Sensible(q, exchange'[j]) /\ Past(q, exchange'[j], now) /\ Refreshes(q)
        /\ q.kind = job[j].kind /\ q.at # "joined"
      BY <1>1, <2>1, <2>2, <2>3 DEF Becomes, Sensible, Past, Refreshes, Renewing
  <2>5. \A r \in revoked' : r.type = "refresh" => r.at <= now
      BY <2>2, RevokedPast
  <2> QED BY <2>1, <2>2, <2>3, <2>4, <2>5, MoveKeepsSense DEF Becomes, GoesOn, SenseInv, Sense
<1> QED BY <1>2, <1>3, <1>4, <1>5

(* The end of a refresh: those who share it go on, as f says.              *)
LEMMA ReleaseKeepsSense ==
    ASSUME SenseInv, NEW j \in Requests, NEW f \in [Requests -> Job],
           Refreshes(job[j]),
           \A k \in Requests : job'[k] = IF k \in Sharers(j) THEN f[k] ELSE job[k],
           \A k \in Requests : /\ f[k].at \in {"idle", "starting"} /\ f[k].kind \in {"call", job[k].kind}
                               /\ f[k].own = job[k].own \/ f[k].kind = "call"
                               /\ f[k].renewing = NoToken /\ f[k].minted = 0,
           ongoing' = NoRequest, UNCHANGED now,
           exchange'[j] = NoToken,
           \A k \in Requests : k # j => exchange'[k] = exchange[k],
           refresh' # NoToken => refresh'.at <= now,
           \A r \in revoked' : r.type = "refresh" => r.at <= now
    PROVE  Sense'
<1>1. /\ \A k \in Requests : job[k] \in Job
      /\ \A k \in Requests : Sensible(job[k], exchange[k]) /\ Past(job[k], exchange[k], now)
      /\ now \in Nat
    BY DEF SenseInv, Sense, AuthTypeOK, TokensTypeOK
<1>2. /\ j \in Sharers(j)
      /\ \A k \in Sharers(j) : k = j \/ (job[k].at = "joined" /\ job[k].waits = j)
      /\ \A k \in Requests : job[k].at = "joined" /\ job[k].waits = j => k \in Sharers(j)
      /\ Sharers(j) \subseteq Requests
    BY DEF Sharers, At
<1>3. \A k \in Sharers(j) : job[k].kind # "login"
    BY <1>1, <1>2 DEF Sensible, Refreshes
<1>4. \A k \in Sharers(j) : exchange'[k] = NoToken
    BY <1>1, <1>2 DEF Sensible
<1>5. ASSUME NEW k \in Requests
      PROVE  Sensible(job'[k], exchange'[k]) /\ Past(job'[k], exchange'[k], now)
  <2>1. CASE k \in Sharers(j)
    <3>1. job'[k] = f[k] /\ exchange'[k] = NoToken /\ f[k].kind # "login"
        BY <1>3, <1>4, <2>1
    <3>2. f[k].kind = "validate" => f[k].own # NoToken
        BY <1>1 DEF Sensible
    <3> QED BY <1>1, <3>1, <3>2 DEF Sensible, Past, Renewing
  <2>2. CASE k \notin Sharers(j)
    <3>1. job'[k] = job[k] /\ exchange'[k] = exchange[k]
        BY <1>2, <2>2
    <3> QED BY <1>1, <3>1
  <2> QED BY <2>1, <2>2
<1>6. ASSUME NEW k \in Requests, job'[k].at = "joined"
      PROVE  job'[k].waits \in Requests /\ Refreshes(job'[job'[k].waits])
  <2>1. k \notin Sharers(j) /\ job'[k] = job[k]
      BY <1>6
  <2>2. job[k].waits \in Requests /\ job[k].waits # j /\ Refreshes(job[job[k].waits])
      BY <1>2, <1>6, <2>1 DEF SenseInv, Sense
  <2>3. job[k].waits \notin Sharers(j)
      BY <1>2, <2>2 DEF Refreshes, Renewing
  <2> QED BY <2>1, <2>2, <2>3
<1>7. \A i, k \in Requests : job'[i].kind = "login" /\ job'[k].kind = "login" => i = k
    BY <1>3 DEF SenseInv, Sense
<1> QED BY <1>5, <1>6, <1>7 DEF Sense

SavesPair(j) == SaveRefresh(j) /\ job[j].renewing # NoToken

LEMMA ReleasesKeepSense ==
    ASSUME SenseInv, NEW j \in Requests,
           RenewalFails(j) \/ RefreshLost(j) \/ SavesPair(j)
    PROVE  Sense'
<1>1. /\ \A k \in Requests : job[k] \in Job
      /\ Sensible(job[j], exchange[j]) /\ Past(job[j], exchange[j], now)
      /\ exchange \in [Requests -> MaybeRefresh]
    BY DEF SenseInv, Sense, AuthTypeOK, TokensTypeOK, MaybeRefresh
<1>2. Refreshes(job[j])
    BY <1>1 DEF RenewalFails, RefreshLost, SavesPair, SaveRefresh, At, Sensible, Refreshes, Renewing
<1>3. CASE RenewalFails(j) \/ RefreshLost(j)
  <2> DEFINE f == [k \in Requests |-> Idle]
  <2>1. /\ f \in [Requests -> Job]
        /\ \A k \in Requests : f[k].at = "idle" /\ f[k].kind = "call" /\ f[k].renewing = NoToken
                               /\ f[k].minted = 0
      BY SomeJobs DEF Idle
  <2>2. /\ \A k \in Requests : job'[k] = IF k \in Sharers(j) THEN f[k] ELSE job[k]
        /\ ongoing' = NoRequest
      BY <1>3 DEF RenewalFails, RefreshLost, GivesUp
  <2>3. UNCHANGED <<now, refresh>>
      BY <1>3 DEF RenewalFails, RefreshLost, RefreshWrite, RefreshFails, serverVars
  <2>4. exchange'[j] = NoToken /\ \A k \in Requests : k # j => exchange'[k] = exchange[k]
    <3>1. CASE RenewalFails(j)
        BY <1>1, <3>1 DEF RenewalFails, serverVars, At, Sensible
    <3>2. CASE RefreshLost(j)
        BY <1>1, <3>2 DEF RefreshLost, RefreshWrite, RefreshFails
    <3> QED BY <1>3, <3>1, <3>2
  <2>5. \A r \in revoked' : r.type = "refresh" => r.at <= now
    <3>1. UNCHANGED revoked \/ RefreshWrite(j)
        BY <1>3 DEF RenewalFails, RefreshLost, RefreshFails, serverVars
    <3> QED BY <2>3, <3>1, RevokedPast
  <2>6. refresh' # NoToken => refresh'.at <= now
      BY <2>3 DEF SenseInv, Sense
  <2> HIDE DEF f
  <2> QED BY <1>2, <2>1, <2>2, <2>3, <2>4, <2>5, <2>6, ReleaseKeepsSense
<1>4. CASE SavesPair(j)
  <2> DEFINE f == [k \in Requests |-> Again(k, AccessOf(job[j].minted))]
  <2>1. /\ f \in [Requests -> Job]
        /\ \A k \in Requests : /\ f[k].at = "starting" /\ f[k].kind = job[k].kind
                               /\ f[k].own = job[k].own
                               /\ f[k].renewing = NoToken /\ f[k].minted = 0
    <3>1. (\A k \in Requests : job[k] \in Job) /\ AccessOf(job[j].minted) \in MaybeAccess
        BY <1>1, MintedTokens
    <3> QED BY <3>1, TriedAgain
  <2>2. /\ \A k \in Requests : job'[k] = IF k \in Sharers(j) THEN f[k] ELSE job[k]
        /\ ongoing' = NoRequest
        /\ UNCHANGED <<now, exchange, revoked>> /\ refresh' = RefreshOf(job[j].minted)
        /\ job[j].at = "saving"
      BY <1>4 DEF SavesPair, SaveRefresh, serverVars, At
  <2> HIDE DEF f
  <2>3. refresh' # NoToken => refresh'.at <= now
      BY <1>1, <2>2 DEF Past, RefreshOf
  <2>4. exchange'[j] = NoToken /\ \A k \in Requests : k # j => exchange'[k] = exchange[k]
      BY <1>1, <2>2 DEF Sensible
  <2>5. \A r \in revoked' : r.type = "refresh" => r.at <= now
      BY <2>2 DEF SenseInv, Sense
  <2> QED BY <1>2, <2>1, <2>2, <2>3, <2>4, <2>5, ReleaseKeepsSense
<1> QED BY <1>3, <1>4

(* The logout, the clock and a kill.                                       *)
LEMMA OthersKeepSense ==
    ASSUME SenseInv,
           UserLogout \/ LogoutStep \/ Kill \/ ClockTick \/ UNCHANGED vars
    PROVE  Sense'
<1>1. CASE UserLogout \/ LogoutSend \/ ClearAccess \/ UNCHANGED vars
    BY <1>1 DEF UserLogout, LogoutSend, ClearAccess, vars, appVars, serverVars, SenseInv, Sense
<1>2. CASE ClearRefresh
    BY <1>2 DEF ClearRefresh, serverVars, SenseInv, Sense
<1>3. CASE LogoutPosted
  <2>1. UNCHANGED <<now, exchange, refresh, job, ongoing>>
      BY <1>3 DEF LogoutPosted, Logout, serverVars
  <2>2. UNCHANGED revoked \/ \E t \in AccessTokens : revoked' \subseteq revoked \union {t}
    <3>1. CASE JWTAuth(outToken, TRUE) /\ Logout(outToken)
      <4>1. outToken \in AccessTokens
          BY <3>1 DEF JWTAuth, SenseInv, AuthTypeOK, MaybeAccess
      <4> QED BY <3>1, <4>1 DEF Logout
    <3> QED BY <1>3, <3>1 DEF LogoutPosted, serverVars
  <2>3. \A r \in revoked' : r.type = "refresh" => r.at <= now
      BY <2>1, <2>2, RevokedPast
  <2> QED BY <2>1, <2>3 DEF SenseInv, Sense
<1>4. CASE Kill
  <2>1. /\ UNCHANGED <<now, exchange, refresh, revoked>> /\ ongoing' = NoRequest
        /\ \A k \in Requests :
             job'[k] = IF job[k].at \in {"minting", "orphaned"} THEN [Idle EXCEPT !.at = "orphaned"]
                       ELSE Idle
      BY <1>4 DEF Kill, At, serverVars
  <2>2. \A k \in Requests : /\ job'[k].at = IF job[k].at \in {"minting", "orphaned"} THEN "orphaned"
                                            ELSE "idle"
                            /\ job'[k].kind = "call" /\ job'[k].renewing = NoToken
                            /\ job'[k].minted = 0
      BY <2>1 DEF Idle
  <2>3. ASSUME NEW k \in Requests
        PROVE  Sensible(job'[k], exchange'[k]) /\ Past(job'[k], exchange'[k], now')
      BY <2>1, <2>2 DEF SenseInv, Sense, Sensible, Past, AuthTypeOK, TokensTypeOK, Renewing
  <2> QED BY <2>1, <2>2, <2>3 DEF SenseInv, Sense
<1>5. CASE ClockTick
  <2>1. UNCHANGED <<exchange, refresh, revoked, job, ongoing>> /\ now' = now + 1 /\ now \in Nat
      BY <1>5 DEF ClockTick, Tick, appVars, SenseInv, AuthTypeOK, TokensTypeOK
  <2>2. \A x, y \in Nat : x <= y => x <= y + 1
      OBVIOUS
  <2>3. /\ \A k \in Requests : exchange[k] # NoToken => exchange[k].at \in Nat
        /\ \A k \in Requests : job[k].renewing # NoToken => job[k].renewing.at \in Nat
        /\ \A k \in Requests : job[k].minted \in Nat
        /\ refresh # NoToken => refresh.at \in Nat
        /\ \A r \in revoked : r.at \in Nat
      BY JobFields, TokenSets, ClockAssumption
         DEF SenseInv, AuthTypeOK, TokensTypeOK, MaybeRefresh, RefreshTokens, Token
  <2>4. ASSUME NEW k \in Requests
        PROVE  Sensible(job'[k], exchange'[k]) /\ Past(job'[k], exchange'[k], now')
      BY <2>1, <2>2, <2>3 DEF SenseInv, Sense, Past
  <2>5. refresh' # NoToken => refresh'.at <= now'
      BY <2>1, <2>2, <2>3 DEF SenseInv, Sense
  <2>6. \A r \in revoked' : r.type = "refresh" => r.at <= now'
      BY <2>1, <2>2, <2>3 DEF SenseInv, Sense
  <2> QED BY <2>1, <2>4, <2>5, <2>6 DEF SenseInv, Sense
<1> QED BY <1>1, <1>2, <1>3, <1>4, <1>5 DEF LogoutStep

LEMMA SenseStep == SenseInv /\ [AuthNext]_vars => Sense'
<1> SUFFICES ASSUME SenseInv, [AuthNext]_vars PROVE Sense'
    OBVIOUS
<1>1. ASSUME NEW j \in Requests, NEW kind \in Kinds, Begin(j, kind)
      PROVE  Sense'
    BY <1>1, BeginKeepsSense
<1>2. ASSUME NEW j \in Requests, Request(j)
      PROVE  Sense'
  <2>1. CASE \/ Send(j) \/ LoginAnswered(j) \/ Refused(j) \/ SessionValid(j)
             \/ ProfileUpdated(j) \/ TokenRead(j)
             \/ AskRefresh(j) \/ RefreshDenied(j) \/ SaveAccess(j)
      BY <2>1, QuietKeepsSense
  <2>2. CASE \/ NoAnswer(j) \/ RetryFails(j) \/ TokenGone(j)
             \/ LoginRefused(j) \/ CallAnswered(j) \/ PasswordChanged(j)
             \/ AccountDeleted(j) \/ StoreAgain(j) \/ Orphaned(j)
             \/ ReadsNone(j) \/ SavesLogin(j)
      BY <2>2, EndsKeepSense
  <2>3. CASE Renew(j) \/ ReadsSome(j) \/ RefreshTaken(j) \/ RefreshAnswered(j)
      BY <2>3, RefreshMovesKeepSense
  <2>4. CASE RenewalFails(j) \/ RefreshLost(j) \/ SavesPair(j)
      BY <2>4, ReleasesKeepSense
  <2>5. /\ ReadRefresh(j) => ReadsNone(j) \/ ReadsSome(j)
        /\ SaveRefresh(j) => SavesLogin(j) \/ SavesPair(j)
      BY DEF ReadsNone, ReadsSome, SavesLogin, SavesPair
  <2> QED BY <1>2, <2>1, <2>2, <2>3, <2>4, <2>5 DEF Request
<1>3. CASE UserLogout \/ LogoutStep \/ Kill \/ ClockTick \/ UNCHANGED vars
    BY <1>3, OthersKeepSense
<1> QED BY <1>1, <1>2, <1>3 DEF AuthNext

-----------------------------------------------------------------------------
(* Types.                                                                  *)

LEMMA JobsTyped == SenseInv /\ [AuthNext]_vars => job' \in [Requests -> Job]
<1> SUFFICES ASSUME SenseInv, [AuthNext]_vars PROVE job' \in [Requests -> Job]
    OBVIOUS
<1>1. job \in [Requests -> Job] /\ Idle \in Job /\ AuthTypeOK
    BY SomeJobs DEF SenseInv, AuthTypeOK
<1>2. ASSUME NEW j \in Requests, NEW kind \in Kinds, Begin(j, kind)
      PROVE  job' \in [Requests -> Job]
  <2>1. access \in MaybeAccess /\ NoToken \in MaybeAccess
      BY <1>1 DEF AuthTypeOK, MaybeAccess
  <2>2. Begun(kind, IF kind = "validate" THEN access ELSE NoToken) \in Job
      BY <2>1, SomeJobs
  <2> QED BY <1>1, <1>2, <2>2 DEF Begin
<1>3. ASSUME NEW j \in Requests, Request(j)
      PROVE  job' \in [Requests -> Job]
  <2>1. CASE \/ Send(j) \/ LoginAnswered(j) \/ Refused(j) \/ SessionValid(j) \/ AskRefresh(j)
             \/ RefreshTaken(j) \/ RefreshDenied(j) \/ RefreshAnswered(j) \/ SaveAccess(j)
             \/ ProfileUpdated(j) \/ ReadsSome(j)
    <3>1. \E q \in Job : Moves(j, q)
        BY <1>1, <2>1, JobMoves DEF Becomes, ReadsSome
    <3> QED BY <3>1 DEF Moves
  <2>2. CASE Renew(j) \/ TokenRead(j)
      BY <1>1, <2>2, RenewMoves, ReadMoves DEF Moves
  <2>3. CASE \/ NoAnswer(j) \/ RetryFails(j) \/ TokenGone(j)
             \/ LoginRefused(j) \/ CallAnswered(j) \/ PasswordChanged(j)
             \/ AccountDeleted(j) \/ StoreAgain(j) \/ Orphaned(j)
             \/ ReadsNone(j) \/ SavesLogin(j)
    <3>1. job' = [job EXCEPT ![j] = Idle]
        BY <2>3 DEF NoAnswer, RetryFails, TokenGone, LoginRefused, CallAnswered, PasswordChanged,
                    AccountDeleted,
                    StoreAgain, Orphaned, ReadsNone, ReadRefresh, SavesLogin, SaveRefresh, Ends
    <3> QED BY <1>1, <3>1
  <2>4. CASE RenewalFails(j) \/ RefreshLost(j)
      BY <1>1, <2>4 DEF RenewalFails, RefreshLost, GivesUp
  <2>5. CASE SavesPair(j)
    <3>1. (\A k \in Requests : job[k] \in Job) /\ AccessOf(job[j].minted) \in MaybeAccess
        BY <1>1, MintedTokens
    <3>2. \A k \in Requests : Again(k, AccessOf(job[j].minted)) \in Job
        BY <3>1, TriedAgain
    <3> QED BY <1>1, <2>5, <3>2 DEF SavesPair, SaveRefresh
  <2>6. /\ ReadRefresh(j) => ReadsNone(j) \/ ReadsSome(j)
        /\ SaveRefresh(j) => SavesLogin(j) \/ SavesPair(j)
      BY DEF ReadsNone, ReadsSome, SavesLogin, SavesPair
  <2> QED BY <1>3, <2>1, <2>2, <2>3, <2>4, <2>5, <2>6 DEF Request
<1>4. CASE Kill
  <2>1. [Idle EXCEPT !.at = "orphaned"] \in Job
      BY <1>1 DEF Job, Places
  <2> QED BY <1>1, <1>4, <2>1 DEF Kill
<1>5. CASE UserLogout \/ LogoutStep \/ ClockTick \/ UNCHANGED vars
    BY <1>1, <1>5 DEF UserLogout, LogoutStep, LogoutSend, LogoutPosted, ClearAccess, ClearRefresh,
                      ClockTick, appVars, vars
<1> QED BY <1>2, <1>3, <1>4, <1>5 DEF AuthNext

(* Everything of the app but its requests.                                 *)
AppTyped ==
  /\ access \in MaybeAccess /\ refresh \in MaybeRefresh /\ outToken \in MaybeAccess
  /\ signedIn \in BOOLEAN /\ left \in BOOLEAN /\ upset \in BOOLEAN
  /\ ongoing \in Requests \union {NoRequest}
  /\ begun \in 0 .. MaxBegun
  /\ out \in {"no", "going", "posted", "clearing", "cleared"}

LEMMA AppIsTyped == SenseInv /\ [AuthNext]_vars => AppTyped'
<1> SUFFICES ASSUME SenseInv, [AuthNext]_vars PROVE AppTyped'
    OBVIOUS
<1>1. AppTyped /\ \A j \in Requests : job[j] \in Job
    BY DEF SenseInv, AuthTypeOK, AppTyped
<1>2. ASSUME NEW j \in Requests, NEW kind \in Kinds, Begin(j, kind)
      PROVE  AppTyped'
    BY <1>1, <1>2, BegunAssumption DEF Begin, AppTyped
<1>3. ASSUME NEW j \in Requests, Request(j)
      PROVE  AppTyped'
  <2>1. /\ AccessOf(job[j].minted) \in MaybeAccess /\ RefreshOf(job[j].minted) \in MaybeRefresh
        /\ job[j].own \in MaybeAccess
      BY <1>1, JobFields, MintedTokens
  <2>2. CASE \/ Send(j) \/ LoginAnswered(j) \/ Refused(j) \/ SessionValid(j) \/ AskRefresh(j)
             \/ RefreshTaken(j) \/ RefreshDenied(j) \/ ProfileUpdated(j) \/ TokenRead(j)
      BY <1>1, <2>2 DEF ProfileUpdated, TokenRead, Send, LoginAnswered, Refused, SessionValid,
                        AskRefresh, RefreshTaken,
                        RefreshDenied, AppTyped
  <2>3. CASE RefreshAnswered(j) \/ SaveAccess(j) \/ ReadRefresh(j) \/ Renew(j)
      BY <1>1, <2>1, <2>3 DEF RefreshAnswered, SaveAccess, ReadRefresh, Renew, StartsLogout, AppTyped
  <2>4. CASE \/ NoAnswer(j) \/ RetryFails(j) \/ TokenGone(j)
             \/ LoginRefused(j) \/ CallAnswered(j) \/ PasswordChanged(j)
             \/ AccountDeleted(j) \/ StoreAgain(j) \/ Orphaned(j)
      BY <1>1, <2>1, <2>4
         DEF NoAnswer, RetryFails, TokenGone, LoginRefused, CallAnswered, PasswordChanged,
             AccountDeleted, StoreAgain,
             Orphaned, StartsLogout, AppTyped
  <2>5. CASE RenewalFails(j) \/ RefreshLost(j) \/ SaveRefresh(j)
      BY <1>1, <2>1, <2>5 DEF RenewalFails, RefreshLost, SaveRefresh, GivesUp, StartsLogout, AppTyped
  <2> QED BY <1>3, <2>2, <2>3, <2>4, <2>5 DEF Request
<1>4. CASE UserLogout \/ LogoutStep \/ Kill \/ ClockTick \/ UNCHANGED vars
    BY <1>1, <1>4 DEF UserLogout, LogoutStep, LogoutSend, LogoutPosted, ClearAccess, ClearRefresh,
                      Kill, ClockTick, appVars, vars, AppTyped, MaybeAccess, MaybeRefresh
<1> QED BY <1>2, <1>3, <1>4 DEF AuthNext

-----------------------------------------------------------------------------
SessionInv == TokensInv /\ SenseInv

LEMMA SessionInvInit == AuthInit => SessionInv
<1> SUFFICES ASSUME AuthInit PROVE SessionInv
    OBVIOUS
<1>1. TokensInv
    BY TokensInvInit DEF AuthInit
<1>2. AuthTypeOK
  <2>1. TokensTypeOK
      BY <1>1 DEF TokensInv
  <2>2. job \in [Requests -> Job]
      BY SomeJobs DEF AuthInit
  <2>3. 0 \in 0 .. MaxBegun
      BY BegunAssumption
  <2> QED BY <2>1, <2>2, <2>3 DEF AuthInit, AuthTypeOK, MaybeAccess, MaybeRefresh
<1>3. \A j \in Requests : /\ job[j].at = "idle" /\ job[j].kind = "call" /\ job[j].renewing = NoToken
                          /\ job[j].minted = 0 /\ exchange[j] = NoToken
    BY DEF AuthInit, TokensInit, Idle
<1>4. Sense
    BY <1>3 DEF AuthInit, TokensInit, Sense, Sensible, Past, Renewing
<1> QED BY <1>1, <1>2, <1>4 DEF SessionInv, SenseInv

LEMMA SessionInvStep == SessionInv /\ [AuthNext]_vars => SessionInv'
<1> SUFFICES ASSUME SessionInv, [AuthNext]_vars PROVE SessionInv'
    OBVIOUS
<1>1. [TokensNext]_serverVars
    BY ServerStep DEF SessionInv, vars
<1>2. TokensInv'
    BY <1>1, TokensInvStep DEF SessionInv
<1>3. Sense' /\ job' \in [Requests -> Job] /\ AppTyped'
    BY SenseStep, JobsTyped, AppIsTyped DEF SessionInv
<1> QED BY <1>2, <1>3 DEF SessionInv, SenseInv, AuthTypeOK, AppTyped, TokensInv

LEMMA SessionInvariant == AuthSpec => []SessionInv
BY SessionInvInit, SessionInvStep, PTL DEF AuthSpec

(***************************************************************************)
(* The app and the server together do what the server alone may do:        *)
(* whatever the interceptor, refreshToken() and logout() overlap, the      *)
(* tokens are handed out, exchanged and revoked as Tokens says.            *)
(***************************************************************************)
THEOREM AppUsesTokens == AuthSpec => TokensSpec
<1>1. AuthInit => TokensInit
    BY DEF AuthInit
<1>2. SessionInv /\ [AuthNext]_vars => [TokensNext]_serverVars
    BY ServerStep DEF SessionInv, vars
<1> QED BY <1>1, <1>2, SessionInvariant, PTL DEF AuthSpec, TokensSpec

(***************************************************************************)
(* The variables have their types.                                         *)
(***************************************************************************)
THEOREM SessionIsTyped == AuthSpec => []AuthTypeOK
<1>1. SessionInv => AuthTypeOK
    BY DEF SessionInv, SenseInv
<1> QED BY <1>1, SessionInvariant, PTL

(***************************************************************************)
(* A refresh token is exchanged once (RefreshToken, service.go), for any   *)
(* number of requests of the app.                                          *)
(***************************************************************************)
THEOREM SessionRotatesOnce == AuthSpec => []RotatedOnce
BY AppUsesTokens, TokensRotateOnce, PTL

(***************************************************************************)
(* Whoever awaits the shared future of refreshToken() awaits a refresh     *)
(* that is going on (auth_service.dart).                                   *)
(***************************************************************************)
THEOREM SharersStayServed == AuthSpec => []SharersAreServed
<1>1. SessionInv => SharersAreServed
  <2> SUFFICES ASSUME SessionInv, NEW j \in Requests, job[j].at = "joined"
               PROVE  /\ job[j].waits \in Requests \ {j}
                      /\ job[job[j].waits].at \in Renewing
      BY DEF SharersAreServed, At, Renewing
  <2>1. job[j].waits \in Requests /\ Refreshes(job[job[j].waits])
      BY DEF SessionInv, SenseInv, Sense
  <2> QED BY <2>1 DEF Refreshes, Renewing
<1> QED BY <1>1, SessionInvariant, PTL

-----------------------------------------------------------------------------
(***************************************************************************)
(* What holds as long as nothing disturbed the session: at most one        *)
(* request holds a refresh token for exchange, the stored one.             *)
(***************************************************************************)
Holds(q) == q.renewing # NoToken /\ q.at # "denied"
Gets(q) == q.at \in {"granted", "saving"}
LoginSaving == \E j \in Requests : job[j].kind = "login" /\ job[j].at = "saving"

CalmRequest(q, x) ==
  /\ x # NoToken => q.at = "minting"
  /\ Holds(q) => q.renewing = refresh
  /\ q.at = "saving" => out # "cleared" /\ access # NoToken /\ (q.kind = "login" => refresh = NoToken)
  /\ q.at = "storing" => access # NoToken
  /\ q.at \in {"starting", "sent"} /\ q.kind = "validate" /\ q.sent # NoToken => access # NoToken
  /\ q.kind = "login" /\ q.at # "saving" => ~signedIn
  /\ Gets(q) => RefreshOf(q.minted) \notin revoked

CalmStorage ==
  /\ RefreshOf(now) \notin revoked
  /\ access = NoToken /\ refresh # NoToken => out = "cleared"
  /\ access # NoToken /\ refresh = NoToken => LoginSaving
  /\ out = "cleared" => access = NoToken
  /\ ~signedIn \/ left => refresh = NoToken
  /\ signedIn /\ out # "cleared" => access # NoToken
  /\ refresh \in revoked => \E j \in Requests : Holds(job[j]) /\ Gets(job[j])

Calm ==
  /\ \A j \in Requests : CalmRequest(job[j], exchange[j])
  /\ \A j, k \in Requests : Holds(job[j]) /\ Holds(job[k]) => j = k
  /\ CalmStorage

CalmInv == SessionInv /\ (~upset => Calm)

(* What Sense says of requests that hold a refresh token or a pair.        *)
LEMMA HoldersSense ==
    ASSUME SessionInv
    PROVE  /\ \A k \in Requests : job[k] \in Job /\ Sensible(job[k], exchange[k])
           /\ \A k \in Requests : Holds(job[k]) => k \in Underway /\ job[k].kind # "login"
           /\ \A k \in Requests : Gets(job[k]) => k \in Unstored /\ (Holds(job[k]) \/ job[k].kind = "login")
           /\ \A k \in Requests : job[k].at \in {"minting", "granted", "saving"} => k \in Unstored
           /\ Unstored \subseteq Underway
           /\ \A i, k \in Requests : job[i].kind = "login" /\ job[k].kind = "login" => i = k
           /\ refresh \in MaybeRefresh /\ access \in MaybeAccess /\ now \in 0 .. MaxTime
           /\ exchange \in [Requests -> MaybeRefresh]
<1>1. /\ \A k \in Requests : job[k] \in Job /\ Sensible(job[k], exchange[k])
      /\ \A i, k \in Requests : job[i].kind = "login" /\ job[k].kind = "login" => i = k
      /\ refresh \in MaybeRefresh /\ access \in MaybeAccess /\ now \in 0 .. MaxTime
      /\ exchange \in [Requests -> MaybeRefresh]
    BY DEF SessionInv, SenseInv, Sense, AuthTypeOK, TokensTypeOK, MaybeRefresh
<1>2. \A k \in Requests : Holds(job[k]) => k \in Underway /\ job[k].kind # "login"
    BY <1>1 DEF Holds, Sensible, Renewing, Underway, At
<1>3. \A k \in Requests : Gets(job[k]) => k \in Unstored /\ (Holds(job[k]) \/ job[k].kind = "login")
    BY <1>1 DEF Holds, Gets, Sensible, Unstored, At
<1>4. \A k \in Requests : job[k].at \in {"minting", "granted", "saving"} => k \in Unstored
    BY DEF Unstored, At
<1>5. Unstored \subseteq Underway
    BY DEF Unstored, Underway, At
<1> QED BY <1>1, <1>2, <1>3, <1>4, <1>5

(***************************************************************************)
(* One request moves, and what is stored stays as it is but for a token    *)
(* stored anew, and a user notified.                                       *)
(***************************************************************************)
SameStorage ==
  /\ UNCHANGED <<now, refresh, left>>
  /\ access' = NoToken <=> access = NoToken
  /\ signedIn' = signedIn \/ (signedIn' /\ access # NoToken)
  /\ out' = "cleared" <=> out = "cleared"
  /\ \A r \in RefreshTokens : r \in revoked' <=> r \in revoked

LEMMA MoveKeepsCalm ==
    ASSUME SessionInv, SessionInv', Calm, NEW j \in Requests, NEW q \in Job, Moves(j, q), SameStorage,
           \A k \in Requests : k # j => exchange'[k] = exchange[k],
           exchange'[j] # NoToken => q.at = "minting",
           Holds(q) => q.renewing = refresh /\ \A k \in Requests : Holds(job[k]) => k = j,
           ~Gets(job[j]), q.at # "saving",
           Gets(q) => RefreshOf(q.minted) \notin revoked,
           q.at = "storing" => access # NoToken,
           q.at \in {"starting", "sent"} /\ q.kind = "validate" /\ q.sent # NoToken => access # NoToken,
           q.kind = "login" => job[j].kind = "login" \/ ~signedIn,
           q.kind = "login" => UNCHANGED signedIn
    PROVE  Calm'
<1> USE DEF Moves
<1>1. /\ \A k \in Requests : job[k] \in Job
      /\ \A i, k \in Requests : job[i].kind = "login" /\ job[k].kind = "login" => i = k
      /\ refresh \in MaybeRefresh /\ now \in 0 .. MaxTime
    BY HoldersSense
<1>2. \A m \in 0 .. MaxTime : RefreshOf(m) \in revoked' <=> RefreshOf(m) \in revoked
  <2>1. \A m \in 0 .. MaxTime : RefreshOf(m) \in RefreshTokens
      BY DEF RefreshOf, RefreshTokens
  <2> QED BY <2>1 DEF SameStorage
<1>3. \A k \in Requests : job[k].minted \in 0 .. MaxTime
    BY <1>1, JobFields
<1>4. access # NoToken /\ refresh = NoToken =>
        \E i \in Requests : i # j /\ job[i].kind = "login" /\ job[i].at = "saving"
    BY DEF Calm, CalmStorage, LoginSaving, Gets
<1>5. signedIn' # signedIn => \A k \in Requests : k # j /\ job[k].kind = "login" => job[k].at = "saving"
  <2> SUFFICES ASSUME signedIn' # signedIn, NEW k \in Requests, k # j, job[k].kind = "login"
               PROVE  job[k].at = "saving"
      OBVIOUS
  <2>1. signedIn \in BOOLEAN
      BY DEF SessionInv, SenseInv, AuthTypeOK
  <2>2. signedIn' /\ access # NoToken /\ ~signedIn
      BY <2>1 DEF SameStorage
  <2>3. refresh = NoToken
      BY <2>2 DEF Calm, CalmStorage
  <2> QED BY <1>1, <1>4, <2>2, <2>3
<1>6. ASSUME NEW k \in Requests
      PROVE  CalmRequest(job[k], exchange[k])'
  <2>1. CASE k = j
    <3>1. job'[k] = q /\ q.minted \in 0 .. MaxTime
        BY <2>1, JobFields
    <3>2. q.kind = "login" => ~signedIn'
      <4>1. job[j].kind = "login" => ~signedIn
          BY DEF Calm, CalmRequest, Gets
      <4> QED BY <4>1
    <3> QED BY <1>2, <2>1, <3>1, <3>2 DEF CalmRequest, SameStorage
  <2>2. CASE k # j
    <3>1. job'[k] = job[k] /\ exchange'[k] = exchange[k] /\ CalmRequest(job[k], exchange[k])
        BY <2>2 DEF Calm
    <3>2. job[k].kind = "login" /\ job[k].at # "saving" => ~signedIn'
      <4>1. CASE signedIn' # signedIn
          BY <1>5, <2>2, <4>1
      <4>2. CASE signedIn' = signedIn
          BY <3>1, <4>2 DEF CalmRequest
      <4> QED BY <4>1, <4>2
    <3> QED BY <1>2, <1>3, <3>1, <3>2 DEF CalmRequest, SameStorage
  <2> QED BY <2>1, <2>2
<1>7. (\A i, k \in Requests : Holds(job[i]) /\ Holds(job[k]) => i = k)'
    BY DEF Calm
<1>8. CalmStorage'
  <2>1. (refresh \in revoked)' => (\E i \in Requests : Holds(job[i]) /\ Gets(job[i]))'
    <3>1. NoToken \notin revoked'
        BY NoTokenAssumption DEF SessionInv, SenseInv, AuthTypeOK, TokensTypeOK
    <3> QED BY <1>1, <3>1 DEF Calm, CalmStorage, SameStorage, MaybeRefresh
  <2>2. (access # NoToken /\ refresh = NoToken => LoginSaving)'
      BY <1>4 DEF SameStorage, LoginSaving
  <2>3. (RefreshOf(now) \notin revoked)'
      BY <1>1, <1>2 DEF SameStorage, Calm, CalmStorage
  <2>4. (/\ access = NoToken /\ refresh # NoToken => out = "cleared"
         /\ out = "cleared" => access = NoToken
         /\ ~signedIn \/ left => refresh = NoToken
         /\ signedIn /\ out # "cleared" => access # NoToken)'
      BY DEF SameStorage, Calm, CalmStorage
  <2> QED BY <2>1, <2>2, <2>3, <2>4 DEF CalmStorage
<1> QED BY <1>6, <1>7, <1>8 DEF Calm

(* The moves that keep what is stored.                                     *)
LEMMA QuietStorage ==
    ASSUME SessionInv, UNCHANGED <<serverVars, access, refresh, signedIn, left, out>>
    PROVE  SameStorage
BY DEF SameStorage, serverVars, SessionInv, SenseInv, AuthTypeOK

LEMMA BeginKeepsCalm ==
    ASSUME SessionInv, SessionInv', Calm, NEW j \in Requests, NEW kind \in Kinds, Begin(j, kind)
    PROVE  Calm'
<1> DEFINE own == IF kind = "validate" THEN access ELSE NoToken
<1> DEFINE q == Begun(kind, own)
<1>1. own \in MaybeAccess
    BY DEF SessionInv, SenseInv, AuthTypeOK, MaybeAccess
<1>2. /\ q \in Job /\ q.at = "starting" /\ q.kind = kind /\ q.renewing = NoToken
      /\ q.sent = NoToken
    BY <1>1, SomeJobs
<1>3. Moves(j, q)
    BY <1>2, Put DEF SessionInv, SenseInv, AuthTypeOK, Begin
<1> HIDE DEF q, own
<1>4. SameStorage /\ UNCHANGED <<exchange, signedIn>> /\ job[j].at = "idle"
    BY QuietStorage DEF Begin, At, serverVars
<1>5. kind = "login" => ~signedIn
    BY DEF Begin, MayBegin
<1>6. exchange[j] = NoToken
    BY <1>4, HoldersSense DEF Sensible
<1>7. ~Holds(q) /\ ~Gets(q) /\ ~Gets(job[j])
    BY <1>2, <1>4 DEF Holds, Gets
<1> QED BY <1>2, <1>3, <1>4, <1>5, <1>6, <1>7, MoveKeepsCalm

LEMMA MovesKeepCalm ==
    ASSUME SessionInv, SessionInv', Calm, NEW j \in Requests,
           \/ Send(j) \/ LoginAnswered(j) \/ Refused(j) \/ SessionValid(j)
           \/ ProfileUpdated(j) \/ TokenRead(j) \/ AskRefresh(j) \/ RefreshDenied(j)
    PROVE  Calm'
<1>1. /\ job[j] \in Job /\ Sensible(job[j], exchange[j]) /\ CalmRequest(job[j], exchange[j])
      /\ \A k \in Requests : Holds(job[j]) /\ Holds(job[k]) => k = j
      /\ RefreshOf(now) \notin revoked /\ AuthTypeOK
    BY HoldersSense DEF Calm, CalmStorage, SessionInv, SenseInv
<1>2. SameStorage /\ UNCHANGED <<exchange, signedIn>>
  <2>1. UNCHANGED <<serverVars, access, refresh, signedIn, left, out>>
      BY DEF Send, LoginAnswered, Refused, SessionValid, ProfileUpdated, TokenRead, AskRefresh,
             RefreshDenied
  <2> QED BY <2>1, QuietStorage DEF serverVars
<1> DEFINE Fits(q) ==
      /\ Moves(j, q) /\ q.kind = job[j].kind /\ ~Gets(job[j]) /\ q.at # "saving"
      /\ exchange[j] = NoToken
      /\ Holds(q) => Holds(job[j]) /\ q.renewing = job[j].renewing
      /\ Gets(q) => RefreshOf(q.minted) \notin revoked
      /\ q.at = "storing" => access # NoToken
      /\ q.at \in {"starting", "sent"} /\ q.kind = "validate" /\ q.sent # NoToken => access # NoToken
<1>3. CASE Send(j)
  <2>1. PICK q \in Job : Becomes(j, q, "sent", Header(j), job[j].renewing, job[j].minted)
      BY <1>1, <1>3, JobMoves
  <2>2. Fits(q)
      BY <1>1, <1>3, <2>1 DEF Becomes, Send, Header, At, Sensible, CalmRequest, Renewing, Holds, Gets
  <2> QED BY <1>1, <1>2, <2>2, MoveKeepsCalm DEF CalmRequest
<1>4. CASE LoginAnswered(j)
  <2>1. PICK q \in Job : Becomes(j, q, "granted", NoToken, job[j].renewing, now)
      BY <1>1, <1>4, JobMoves
  <2>2. Fits(q)
      BY <1>1, <1>4, <2>1 DEF Becomes, LoginAnswered, At, Sensible, Renewing, Holds, Gets
  <2> QED BY <1>1, <1>2, <2>2, MoveKeepsCalm DEF CalmRequest
<1>5. CASE Refused(j)
  <2>1. PICK q \in Job : Becomes(j, q, "refused", NoToken, job[j].renewing, job[j].minted)
      BY <1>1, <1>5, JobMoves
  <2>2. Fits(q)
      BY <1>1, <1>5, <2>1 DEF Becomes, Refused, At, Sensible, Renewing, Holds, Gets
  <2> QED BY <1>1, <1>2, <2>2, MoveKeepsCalm DEF CalmRequest
<1>6. CASE SessionValid(j)
  <2>1. PICK q \in Job : Becomes(j, q, "storing", NoToken, job[j].renewing, job[j].minted)
      BY <1>1, <1>6, JobMoves
  <2>2. job[j].at = "sent" /\ job[j].kind = "validate" /\ job[j].sent # NoToken
      BY <1>6 DEF SessionValid, Answered, At, JWTAuth
  <2>3. access # NoToken
      BY <1>1, <2>2 DEF CalmRequest
  <2>4. Fits(q)
      BY <1>1, <2>1, <2>2, <2>3 DEF Becomes, Sensible, Renewing, Holds, Gets
  <2> QED BY <1>1, <1>2, <2>4, MoveKeepsCalm DEF CalmRequest
<1>7. CASE AskRefresh(j)
  <2>1. PICK q \in Job : Becomes(j, q, "asked", access, job[j].renewing, job[j].minted)
      BY <1>1, <1>7, JobMoves
  <2>2. Fits(q)
      BY <1>1, <1>7, <2>1 DEF Becomes, AskRefresh, At, Sensible, Renewing, Holds, Gets
  <2> QED BY <1>1, <1>2, <2>2, MoveKeepsCalm DEF CalmRequest
<1>8. CASE RefreshDenied(j)
  <2>1. PICK q \in Job : Becomes(j, q, "denied", NoToken, job[j].renewing, job[j].minted)
      BY <1>1, <1>8, JobMoves
  <2>2. Fits(q)
      BY <1>1, <1>8, <2>1 DEF Becomes, RefreshDenied, At, Sensible, Renewing, Holds, Gets
  <2> QED BY <1>1, <1>2, <2>2, MoveKeepsCalm DEF CalmRequest
<1>9. CASE ProfileUpdated(j)
  <2>1. PICK q \in Job : Becomes(j, q, "profiled", NoToken, job[j].renewing, job[j].minted)
      BY <1>1, <1>9, JobMoves
  <2>2. Fits(q)
      BY <1>1, <1>9, <2>1 DEF Becomes, ProfileUpdated, Answered, At, Sensible, Renewing, Holds, Gets
  <2> QED BY <1>1, <1>2, <2>2, MoveKeepsCalm DEF CalmRequest
<1>10. CASE TokenRead(j)
  <2>1. PICK q \in Job : /\ Moves(j, q) /\ q.at = "storing" /\ q.own = access
                         /\ q.renewing = job[j].renewing /\ q.minted = job[j].minted
                         /\ q.kind = job[j].kind
      BY <1>1, <1>10, ReadMoves
  <2>2. Fits(q)
      BY <1>1, <1>10, <2>1 DEF TokenRead, At, Sensible, Renewing, Holds, Gets
  <2> QED BY <1>1, <1>2, <2>2, MoveKeepsCalm DEF CalmRequest
<1> QED BY <1>3, <1>4, <1>5, <1>6, <1>7, <1>8, <1>9, <1>10

LEMMA EndsKeepCalm ==
    ASSUME SessionInv, SessionInv', Calm, ~upset', NEW j \in Requests,
           \/ NoAnswer(j) \/ RetryFails(j) \/ TokenGone(j)
           \/ LoginRefused(j) \/ CallAnswered(j) \/ PasswordChanged(j)
           \/ AccountDeleted(j) \/ StoreAgain(j) \/ ReadsNone(j)
    PROVE  Calm'
<1>1. /\ job[j] \in Job /\ Sensible(job[j], exchange[j]) /\ CalmRequest(job[j], exchange[j])
      /\ job \in [Requests -> Job] /\ signedIn \in BOOLEAN /\ Idle \in Job
    BY HoldersSense, SomeJobs DEF Calm, SessionInv, SenseInv, AuthTypeOK
<1>2. Idle.at = "idle" /\ Idle.renewing = NoToken /\ Idle.kind = "call"
    BY DEF Idle
<1>3. Moves(j, Idle)
  <2>1. job' = [job EXCEPT ![j] = Idle]
      BY DEF NoAnswer, RetryFails, TokenGone, LoginRefused, CallAnswered, PasswordChanged,
             AccountDeleted, StoreAgain,
             ReadsNone, ReadRefresh, Ends
  <2> QED BY <1>1, <2>1, Put
<1>4. exchange[j] = NoToken /\ ~Gets(job[j])
    BY <1>1 DEF NoAnswer, RetryFails, TokenGone, LoginRefused, CallAnswered, PasswordChanged,
                AccountDeleted, StoreAgain,
                ReadsNone, ReadRefresh, Answered, At, Sensible, Gets
<1>5. SameStorage /\ UNCHANGED exchange
  <2>1. CASE \/ LoginRefused(j) \/ CallAnswered(j) \/ AccountDeleted(j) \/ ReadsNone(j)
             \/ RetryFails(j) \/ TokenGone(j)
      BY <1>1, <2>1
         DEF RetryFails, TokenGone, LoginRefused, CallAnswered, AccountDeleted, DeleteAccount,
             ReadsNone, ReadRefresh,
             StartsLogout, SameStorage, serverVars
  <2>2. CASE NoAnswer(j)
      BY <1>1, <2>2 DEF NoAnswer, SameStorage, serverVars
  <2>3. CASE StoreAgain(j)
    <3>1. access # NoToken /\ job[j].own # NoToken
        BY <1>1, <2>3 DEF StoreAgain, At, CalmRequest, Sensible
    <3> QED BY <1>1, <2>3, <3>1 DEF StoreAgain, SameStorage, serverVars
  <2>4. CASE PasswordChanged(j)
    <3>1. job[j].sent \in AccessTokens
        BY <1>1, <2>4, JobFields DEF PasswordChanged, Answered, JWTAuth, MaybeAccess
    <3>2. \A r \in RefreshTokens : r # job[j].sent
        BY <3>1, TokenSets
    <3>3. /\ UNCHANGED <<now, exchange, access, refresh, left, signedIn>>
          /\ out' = "cleared" <=> out = "cleared"
          /\ revoked' = revoked \/ revoked' = revoked \union {job[j].sent}
        BY <2>4 DEF PasswordChanged, Logout, StartsLogout
    <3> QED BY <1>1, <3>2, <3>3 DEF SameStorage
  <2> QED BY <2>1, <2>2, <2>3, <2>4
<1>6. ~Holds(Idle) /\ ~Gets(Idle)
    BY <1>2 DEF Holds, Gets
<1> QED BY <1>1, <1>2, <1>3, <1>4, <1>5, <1>6, MoveKeepsCalm

LEMMA RefreshMovesKeepCalm ==
    ASSUME SessionInv, SessionInv', Calm, ~upset', NEW j \in Requests,
           Renew(j) \/ ReadsSome(j) \/ RefreshTaken(j)
    PROVE  Calm'
<1>1. /\ job[j] \in Job /\ Sensible(job[j], exchange[j]) /\ CalmRequest(job[j], exchange[j])
      /\ \A k \in Requests : Holds(job[j]) /\ Holds(job[k]) => k = j
      /\ exchange \in [Requests -> MaybeRefresh] /\ AuthTypeOK
    BY HoldersSense DEF Calm, CalmStorage, SessionInv, SenseInv
<1>2. CASE Renew(j)
  <2>1. PICK q \in Job : /\ Moves(j, q) /\ q.at \in {"reading", "joined"}
                         /\ q.at = "joined" => ongoing # NoRequest
                         /\ q.waits = ongoing /\ q.sent = job[j].sent
                         /\ q.renewing = job[j].renewing /\ q.minted = job[j].minted
                         /\ q.kind = job[j].kind /\ q.own = job[j].own
      BY <1>1, <1>2, RenewMoves
  <2>2. SameStorage /\ UNCHANGED <<exchange, signedIn>> /\ job[j].at = "refused"
      BY <1>2, QuietStorage DEF Renew, At, serverVars
  <2>3. exchange[j] = NoToken /\ ~Gets(job[j]) /\ ~Gets(q) /\ ~Holds(q) /\ q.kind # "login"
      BY <1>1, <2>1, <2>2 DEF Sensible, Gets, Holds, Renewing
  <2> QED BY <2>1, <2>2, <2>3, MoveKeepsCalm
<1>3. CASE ReadsSome(j)
  <2>1. PICK q \in Job : Becomes(j, q, "asking", job[j].sent, refresh, job[j].minted)
      BY <1>1, <1>3, JobMoves DEF ReadsSome
  <2>2. SameStorage /\ UNCHANGED <<exchange, signedIn>> /\ job[j].at = "reading" /\ ~Shares(j)
    <3>1. UNCHANGED <<serverVars, access, refresh, signedIn, left, out>>
        BY <1>3 DEF ReadsSome, ReadRefresh
    <3> QED BY <1>3, <3>1, QuietStorage DEF ReadsSome, ReadRefresh, At, serverVars
  <2>3. ASSUME NEW k \in Requests, Holds(job[k])
        PROVE  k = j
    <3>1. k \in Underway /\ job[k].renewing = refresh
        BY <2>3, HoldersSense DEF Calm, CalmRequest
    <3> QED BY <2>2, <3>1 DEF Shares
  <2>4. /\ exchange[j] = NoToken /\ ~Gets(job[j]) /\ ~Gets(q) /\ q.kind = job[j].kind /\ q.at = "asking"
        /\ q.renewing = refresh /\ Moves(j, q) /\ q.kind # "login"
      BY <1>1, <2>1, <2>2 DEF Becomes, Sensible, Gets
  <2> QED BY <2>2, <2>3, <2>4, MoveKeepsCalm
<1>4. CASE RefreshTaken(j)
  <2>1. PICK q \in Job : Becomes(j, q, "minting", NoToken, job[j].renewing, job[j].minted)
      BY <1>1, <1>4, JobMoves
  <2>2. /\ UNCHANGED <<now, revoked, access, refresh, signedIn, left, out>> /\ job[j].at = "asked"
        /\ exchange' = [exchange EXCEPT ![j] = job[j].renewing]
      BY <1>4 DEF RefreshTaken, RefreshCheck, At
  <2>3. /\ \A k \in Requests : k # j => exchange'[k] = exchange[k]
        /\ SameStorage
      BY <1>1, <2>2 DEF SameStorage, AuthTypeOK
  <2>4. /\ ~Gets(job[j]) /\ ~Gets(q) /\ q.kind # "login" /\ Holds(job[j])
        /\ q.renewing = refresh /\ q.at = "minting" /\ Moves(j, q)
      BY <1>1, <2>1, <2>2 DEF Becomes, Sensible, Gets, Holds, CalmRequest
  <2> QED BY <1>1, <2>2, <2>3, <2>4, MoveKeepsCalm
<1> QED BY <1>2, <1>3, <1>4

(* The pair arrives: nobody else holds a refresh token or a pair.          *)
LEMMA AnswerKeepsCalm ==
    ASSUME SessionInv, SessionInv', Calm, ~upset', NEW j \in Requests, RefreshAnswered(j)
    PROVE  Calm'
<1>1. /\ \A k \in Requests : /\ job[k] \in Job /\ Sensible(job[k], exchange[k])
                             /\ CalmRequest(job[k], exchange[k])
      /\ \A i, k \in Requests : Holds(job[i]) /\ Holds(job[k]) => i = k
      /\ exchange \in [Requests -> MaybeRefresh] /\ CalmStorage /\ AuthTypeOK
    BY HoldersSense DEF Calm, SessionInv, SenseInv
<1>2. PICK q \in Job : Becomes(j, q, "granted", job[j].sent, job[j].renewing, now)
    BY <1>1, JobMoves
<1>3. /\ UNCHANGED <<now, access, refresh, signedIn, left, out>> /\ job[j].at = "minting"
      /\ exchange' = [exchange EXCEPT ![j] = NoToken] /\ RefreshOf(now) \notin revoked'
      /\ exchange[j] # NoToken /\ revoked' \subseteq revoked \union {exchange[j]}
    BY DEF RefreshAnswered, RefreshWrite, RefreshRevokes, At
<1>4. Holds(job[j]) /\ exchange[j] = refresh /\ job[j].renewing = refresh /\ refresh # NoToken
    BY <1>1, <1>3 DEF Sensible, Holds, CalmRequest
<1>5. \A k \in Requests : ~Gets(job[k])
  <2> SUFFICES ASSUME NEW k \in Requests, Gets(job[k]) PROVE FALSE
      OBVIOUS
  <2>1. ~Holds(job[k])
      BY <1>1, <1>3, <1>4 DEF Gets
  <2>2. job[k].kind = "login"
      BY <2>1, HoldersSense
  <2>3. refresh = NoToken
      BY <1>1, <2>2 DEF Gets, CalmRequest, CalmStorage
  <2> QED BY <1>4, <2>3
<1>6. /\ job'[j] = q /\ q.at = "granted" /\ q.renewing = refresh /\ q.minted = now
      /\ q.kind = job[j].kind /\ exchange'[j] = NoToken
      /\ \A k \in Requests : k # j => job'[k] = job[k] /\ exchange'[k] = exchange[k]
    BY <1>1, <1>2, <1>3, <1>4 DEF Becomes, Moves
<1>7. Holds(job'[j]) /\ job[j].kind # "login"
    BY <1>1, <1>3, <1>4, <1>6 DEF Holds, Sensible
<1>8. ASSUME NEW k \in Requests
      PROVE  CalmRequest(job[k], exchange[k])'
  <2>1. CASE k = j
      BY <1>3, <1>6, <1>7, <2>1 DEF CalmRequest
  <2>2. CASE k # j
      BY <1>1, <1>3, <1>5, <1>6, <2>2 DEF CalmRequest
  <2> QED BY <2>1, <2>2
<1>9. (\A i, k \in Requests : Holds(job[i]) /\ Holds(job[k]) => i = k)'
    BY <1>1, <1>4, <1>6
<1>10. ~LoginSaving
    BY <1>5 DEF LoginSaving, Gets
<1>11. CalmStorage'
    BY <1>1, <1>3, <1>4, <1>6, <1>7, <1>10 DEF CalmStorage, Gets
<1> QED BY <1>8, <1>9, <1>11 DEF Calm

LEMMA SaveAccessKeepsCalm ==
    ASSUME SessionInv, SessionInv', Calm, ~upset', NEW j \in Requests, SaveAccess(j)
    PROVE  Calm'
<1>1. /\ \A k \in Requests : /\ job[k] \in Job /\ Sensible(job[k], exchange[k])
                             /\ CalmRequest(job[k], exchange[k])
      /\ \A i, k \in Requests : Holds(job[i]) /\ Holds(job[k]) => i = k
      /\ \A i, k \in Requests : job[i].kind = "login" /\ job[k].kind = "login" => i = k
      /\ CalmStorage /\ AuthTypeOK
    BY HoldersSense DEF Calm, SessionInv, SenseInv
<1>2. PICK q \in Job : Becomes(j, q, "saving", job[j].sent, job[j].renewing, job[j].minted)
    BY <1>1, JobMoves
<1>3. /\ UNCHANGED <<now, revoked, exchange, refresh, signedIn, left, out>> /\ job[j].at = "granted"
      /\ out # "cleared" /\ access' = AccessOf(job[j].minted)
    BY DEF SaveAccess, serverVars, At
<1>4. access' # NoToken
  <2>1. AccessOf(job[j].minted) \in AccessTokens
      BY <1>1, JobFields DEF AccessOf, AccessTokens
  <2> QED BY <1>3, <2>1, TokenSets
<1>5. /\ job'[j] = q /\ q.at = "saving" /\ q.renewing = job[j].renewing /\ q.minted = job[j].minted
      /\ q.kind = job[j].kind
      /\ \A k \in Requests : k # j => job'[k] = job[k]
    BY <1>2 DEF Becomes, Moves
<1>6. (Holds(job'[j]) <=> Holds(job[j])) /\ Gets(job[j]) /\ Gets(job'[j])
    BY <1>3, <1>5 DEF Holds, Gets
<1>7. job[j].kind = "login" => refresh = NoToken
    BY <1>1, <1>3 DEF CalmRequest, CalmStorage
<1>8. job[j].kind # "login" => Holds(job[j]) /\ refresh # NoToken
  <2>1. job[j].kind # "login" => Holds(job[j])
      BY <1>6, HoldersSense
  <2> QED BY <1>1, <2>1 DEF CalmRequest, Holds
<1>9. ASSUME NEW k \in Requests
      PROVE  CalmRequest(job[k], exchange[k])'
  <2>1. CASE k = j
    <3>1. exchange[j] = NoToken
        BY <1>1, <1>3 DEF Sensible
    <3> QED BY <1>1, <1>3, <1>4, <1>5, <1>6, <1>7, <2>1, <3>1 DEF CalmRequest, Holds
  <2>2. CASE k # j
      BY <1>1, <1>3, <1>4, <1>5, <2>2 DEF CalmRequest
  <2> QED BY <2>1, <2>2
<1>10. (\A i, k \in Requests : Holds(job[i]) /\ Holds(job[k]) => i = k)'
    BY <1>1, <1>5, <1>6
<1>11. CalmStorage'
  <2>1. refresh = NoToken => job'[j].kind = "login" /\ job'[j].at = "saving"
      BY <1>5, <1>8
  <2>2. (refresh \in revoked)' => (\E i \in Requests : Holds(job[i]) /\ Gets(job[i]))'
      BY <1>1, <1>3, <1>5, <1>6 DEF CalmStorage
  <2> QED BY <1>1, <1>3, <1>4, <2>1, <2>2 DEF CalmStorage, LoginSaving
<1> QED BY <1>9, <1>10, <1>11 DEF Calm

(* The refresh token is stored: nobody holds what it replaces.             *)
LEMMA SaveRefreshKeepsCalm ==
    ASSUME SessionInv, SessionInv', Calm, NEW j \in Requests, SaveRefresh(j)
    PROVE  Calm'
<1>1. /\ \A k \in Requests : /\ job[k] \in Job /\ Sensible(job[k], exchange[k])
                             /\ CalmRequest(job[k], exchange[k])
      /\ \A i, k \in Requests : Holds(job[i]) /\ Holds(job[k]) => i = k
      /\ \A i, k \in Requests : job[i].kind = "login" /\ job[k].kind = "login" => i = k
      /\ CalmStorage /\ job \in [Requests -> Job]
    BY HoldersSense DEF Calm, SessionInv, SenseInv, AuthTypeOK
<1>2. /\ UNCHANGED <<now, revoked, exchange, access, out>> /\ job[j].at = "saving"
      /\ refresh' = RefreshOf(job[j].minted) /\ signedIn' = TRUE
    BY DEF SaveRefresh, serverVars, At
<1>3. /\ RefreshOf(job[j].minted) \notin revoked /\ out # "cleared" /\ access # NoToken
      /\ exchange[j] = NoToken
    BY <1>1, <1>2 DEF CalmRequest, Gets, Sensible
<1>4. refresh' # NoToken
  <2>1. RefreshOf(job[j].minted) \in RefreshTokens
      BY <1>1, JobFields DEF RefreshOf, RefreshTokens
  <2> QED BY <1>2, <2>1, TokenSets
<1>5. \A k \in Requests : k # j => ~Holds(job[k])
  <2>1. CASE job[j].renewing = NoToken
    <3>1. refresh = NoToken
        BY <1>1, <1>2, <2>1 DEF CalmRequest, Sensible
    <3> QED BY <1>1, <3>1 DEF CalmRequest, Holds
  <2>2. CASE job[j].renewing # NoToken
    <3>1. Holds(job[j])
        BY <1>2, <2>2 DEF Holds
    <3> QED BY <1>1, <3>1
  <2> QED BY <2>1, <2>2
<1>6. \A k \in Requests : k # j => job[k].kind # "login"
  <2>1. CASE job[j].renewing = NoToken
    <3>1. job[j].kind = "login"
        BY <1>1, <1>2, <2>1 DEF Sensible
    <3> QED BY <1>1, <3>1
  <2>2. CASE job[j].renewing # NoToken
    <3>1. refresh # NoToken
        BY <1>1, <1>2, <2>2 DEF CalmRequest, Holds
    <3> QED BY <1>1, <3>1 DEF CalmRequest, CalmStorage
  <2> QED BY <2>1, <2>2
<1>7. \A k \in Requests : k # j => ~Gets(job[k])
    BY <1>5, <1>6, HoldersSense
<1>8. \A k \in Requests :
        \/ k # j /\ job'[k] = job[k]
        \/ /\ job'[k].at \in {"idle", "starting"} /\ job'[k].renewing = NoToken
           /\ job'[k].kind # "login" /\ exchange[k] = NoToken
  <2>1. CASE job[j].renewing = NoToken
    <3>1. job' = [job EXCEPT ![j] = Idle]
        BY <2>1 DEF SaveRefresh, Ends
    <3> QED BY <1>1, <1>3, <3>1 DEF Idle
  <2>2. CASE job[j].renewing # NoToken
    <3>1. \A k \in Requests : job'[k] = IF k \in Sharers(j) THEN Again(k, AccessOf(job[j].minted)) ELSE job[k]
        BY <2>2 DEF SaveRefresh
    <3>2. \A k \in Sharers(j) : job[k].kind # "login" /\ exchange[k] = NoToken
        BY <1>1, <1>2, <1>3, <2>2 DEF Sharers, At, Sensible
    <3>3. \A k \in Requests : LET q == Again(k, AccessOf(job[j].minted))
                              IN  q.at = "starting" /\ q.renewing = NoToken /\ q.kind = job[k].kind
        BY <1>1, MintedTokens, TriedAgain
    <3>4. j \in Sharers(j)
        BY DEF Sharers
    <3> QED BY <3>1, <3>2, <3>3, <3>4
  <2> QED BY <2>1, <2>2
<1>9. \A k \in Requests : ~Holds(job'[k]) /\ ~Gets(job'[k]) /\ job'[k].kind # "login"
    BY <1>5, <1>6, <1>7, <1>8 DEF Holds, Gets
<1>10. ASSUME NEW k \in Requests
       PROVE  CalmRequest(job[k], exchange[k])'
  <2>1. CASE k # j /\ job'[k] = job[k]
      BY <1>1, <1>2, <1>9, <2>1 DEF CalmRequest, Gets
  <2>2. CASE job'[k].at \in {"idle", "starting"} /\ exchange[k] = NoToken
      BY <1>2, <1>3, <1>9, <2>2 DEF CalmRequest, Gets
  <2> QED BY <1>8, <2>1, <2>2
<1>11. left' => left /\ refresh # NoToken
  <2>1. CASE job[j].renewing = NoToken
      BY <2>1 DEF SaveRefresh
  <2>2. CASE job[j].renewing # NoToken
      BY <1>1, <1>2, <2>2 DEF SaveRefresh, CalmRequest, Holds
  <2> QED BY <2>1, <2>2
<1>12. CalmStorage'
    BY <1>1, <1>2, <1>3, <1>4, <1>11 DEF CalmStorage
<1> QED BY <1>9, <1>10, <1>12 DEF Calm

(* A refresh that fails: those who share it end with it.                   *)
LEMMA FailureKeepsCalm ==
    ASSUME SessionInv, SessionInv', Calm, ~upset', NEW j \in Requests,
           RenewalFails(j) \/ RefreshLost(j)
    PROVE  Calm'
<1>1. /\ \A k \in Requests : /\ job[k] \in Job /\ Sensible(job[k], exchange[k])
                             /\ CalmRequest(job[k], exchange[k])
      /\ \A i, k \in Requests : Holds(job[i]) /\ Holds(job[k]) => i = k
      /\ CalmStorage /\ exchange \in [Requests -> MaybeRefresh]
    BY HoldersSense DEF Calm
<1>2. /\ UNCHANGED <<now, revoked, access, refresh, signedIn, left>>
      /\ out' = "cleared" <=> out = "cleared"
      /\ job[j].at \in {"asking", "asked", "denied", "minting"}
      /\ \A k \in Requests : job'[k] = IF k \in Sharers(j) THEN Idle ELSE job[k]
    BY DEF RenewalFails, RefreshLost, RefreshFails, GivesUp, StartsLogout, At, serverVars
<1>3. exchange'[j] = NoToken /\ \A k \in Requests : k # j => exchange'[k] = exchange[k]
  <2>1. CASE RenewalFails(j)
      BY <1>1, <2>1 DEF RenewalFails, serverVars, At, Sensible
  <2>2. CASE RefreshLost(j)
      BY <1>1, <2>2 DEF RefreshLost, RefreshFails
  <2> QED BY <2>1, <2>2
<1>4. \A k \in Sharers(j) : ~Gets(job[k])
    BY <1>2 DEF Sharers, At, Gets
<1>5. j \in Sharers(j) /\ \A k \in Sharers(j) : exchange'[k] = NoToken
    BY <1>1, <1>3 DEF Sharers, At, Sensible
<1>6. /\ Idle.at = "idle" /\ Idle.kind = "call" /\ Idle.renewing = NoToken
      /\ ~Holds(Idle) /\ ~Gets(Idle)
    BY DEF Idle, Holds, Gets
<1>7. ASSUME NEW k \in Requests
      PROVE  CalmRequest(job[k], exchange[k])'
  <2>1. CASE k \in Sharers(j)
      BY <1>2, <1>5, <1>6, <2>1 DEF CalmRequest
  <2>2. CASE k \notin Sharers(j)
    <3>1. job'[k] = job[k] /\ exchange'[k] = exchange[k] /\ CalmRequest(job[k], exchange[k])
        BY <1>1, <1>2, <1>3, <1>5, <2>2
    <3> QED BY <1>2, <3>1 DEF CalmRequest
  <2> QED BY <2>1, <2>2
<1>8. (\A i, k \in Requests : Holds(job[i]) /\ Holds(job[k]) => i = k)'
    BY <1>1, <1>2, <1>6
<1>9. \A k \in Requests : Gets(job[k]) => job'[k] = job[k]
    BY <1>2, <1>4
<1>10. CalmStorage'
  <2>1. LoginSaving => LoginSaving'
      BY <1>9 DEF LoginSaving, Gets
  <2>2. (refresh \in revoked)' => (\E i \in Requests : Holds(job[i]) /\ Gets(job[i]))'
      BY <1>1, <1>2, <1>9 DEF CalmStorage
  <2> QED BY <1>1, <1>2, <2>1, <2>2 DEF CalmStorage
<1> QED BY <1>7, <1>8, <1>10 DEF Calm

LEMMA LogoutKeepsCalm ==
    ASSUME SessionInv, SessionInv', Calm, ~upset',
           UserLogout \/ LogoutStep \/ UNCHANGED vars
    PROVE  Calm'
<1>1. /\ \A k \in Requests : /\ job[k] \in Job /\ Sensible(job[k], exchange[k])
                             /\ CalmRequest(job[k], exchange[k])
      /\ \A k \in Requests : Holds(job[k]) => k \in Underway
      /\ \A k \in Requests : Gets(job[k]) => k \in Underway
      /\ now \in 0 .. MaxTime /\ refresh \in MaybeRefresh
    BY HoldersSense DEF Calm
<1>2. CASE UserLogout \/ LogoutSend \/ UNCHANGED vars
  <2>1. /\ UNCHANGED <<now, revoked, exchange, access, refresh, signedIn, job, left>>
        /\ out' = "cleared" <=> out = "cleared"
      BY <1>2 DEF UserLogout, LogoutSend, vars, appVars, serverVars
  <2> QED BY <2>1 DEF Calm, CalmRequest, CalmStorage, LoginSaving
<1>3. CASE LogoutPosted
  <2>1. /\ UNCHANGED <<now, exchange, access, refresh, signedIn, job, left>>
        /\ out' # "cleared" /\ out # "cleared"
      BY <1>3 DEF LogoutPosted, Logout, serverVars
  <2>2. revoked' = revoked \/ \E t \in AccessTokens : revoked' = revoked \union {t}
    <3>1. CASE JWTAuth(outToken, TRUE) /\ Logout(outToken)
      <4>1. outToken \in AccessTokens
          BY <3>1 DEF JWTAuth, SessionInv, SenseInv, AuthTypeOK, MaybeAccess
      <4> QED BY <3>1, <4>1 DEF Logout
    <3> QED BY <1>3, <3>1 DEF LogoutPosted, serverVars
  <2>3. \A r \in MaybeRefresh : r \in revoked' => r \in revoked
    <3>1. NoToken \notin revoked'
        BY NoTokenAssumption DEF SessionInv, SenseInv, AuthTypeOK, TokensTypeOK
    <3> QED BY <2>2, <3>1, TokenSets DEF MaybeRefresh
  <2>4. \A m \in 0 .. MaxTime : RefreshOf(m) \in MaybeRefresh
      BY DEF RefreshOf, RefreshTokens, MaybeRefresh
  <2>5. \A k \in Requests : job[k].minted \in 0 .. MaxTime
      BY <1>1, JobFields
  <2>6. ASSUME NEW k \in Requests
        PROVE  CalmRequest(job[k], exchange[k])'
      BY <1>1, <2>1, <2>3, <2>4, <2>5 DEF CalmRequest
  <2>7. CalmStorage'
      BY <1>1, <2>1, <2>3, <2>4 DEF Calm, CalmStorage, LoginSaving
  <2> QED BY <2>1, <2>6, <2>7 DEF Calm
<1>4. CASE ClearAccess
  <2>1. /\ UNCHANGED <<now, revoked, exchange, refresh, signedIn, job, left>>
        /\ access' = NoToken /\ out' = "cleared" /\ Underway = {}
      BY <1>4 DEF ClearAccess, serverVars
  <2>2. \A k \in Requests : ~Gets(job[k]) /\ job[k].at # "storing"
                            /\ ~(/\ job[k].at \in {"starting", "sent"} /\ job[k].kind = "validate"
                                 /\ job[k].sent # NoToken)
      BY <1>1, <2>1 DEF Underway, At
  <2>3. ASSUME NEW k \in Requests
        PROVE  CalmRequest(job[k], exchange[k])'
      BY <1>1, <2>1, <2>2 DEF CalmRequest, Gets
  <2>4. CalmStorage'
      BY <2>1 DEF Calm, CalmStorage
  <2> QED BY <2>1, <2>3, <2>4 DEF Calm
<1>5. CASE ClearRefresh
  <2>1. /\ UNCHANGED <<now, revoked, exchange, access, job>> /\ access = NoToken
        /\ refresh' = NoToken /\ signedIn' = FALSE /\ left' = TRUE /\ out' = "no" /\ Underway = {}
      BY <1>5 DEF ClearRefresh, serverVars, Calm, CalmStorage
  <2>2. \A k \in Requests : ~Gets(job[k]) /\ ~Holds(job[k])
      BY <1>1, <2>1
  <2>3. ASSUME NEW k \in Requests
        PROVE  CalmRequest(job[k], exchange[k])'
      BY <1>1, <2>1, <2>2 DEF CalmRequest, Gets
  <2>4. NoToken \notin revoked
      BY NoTokenAssumption DEF SessionInv, SenseInv, AuthTypeOK, TokensTypeOK
  <2>5. CalmStorage'
      BY <2>1, <2>4 DEF Calm, CalmStorage
  <2> QED BY <2>1, <2>2, <2>3, <2>5 DEF Calm
<1> QED BY <1>2, <1>3, <1>4, <1>5 DEF LogoutStep

LEMMA KillKeepsCalm ==
    ASSUME SessionInv, SessionInv', Calm, ~upset', Kill
    PROVE  Calm'
<1>1. /\ \A k \in Requests : Sensible(job[k], exchange[k]) /\ CalmRequest(job[k], exchange[k])
      /\ \A k \in Requests : Gets(job[k]) => k \in Unstored
      /\ \A k \in Requests : job[k].at \in {"minting", "granted", "saving"} => k \in Unstored
    BY HoldersSense DEF Calm
<1>2. /\ UNCHANGED <<now, revoked, exchange, access, refresh, left>>
      /\ signedIn' = (access # NoToken) /\ out' = "no" /\ out # "cleared" /\ Unstored = {}
      /\ \A k \in Requests : job'[k] = [Idle EXCEPT !.at = "orphaned"] \/ job'[k] = Idle
    BY DEF Kill, serverVars
<1>3. \A k \in Requests : /\ job'[k].at \in {"idle", "orphaned"} /\ job'[k].renewing = NoToken
                          /\ job'[k].kind = "call"
    BY <1>2 DEF Idle
<1>4. \A k \in Requests : exchange[k] = NoToken /\ ~Gets(job[k]) /\ job[k].at # "saving"
    BY <1>1, <1>2 DEF CalmRequest
<1>5. ASSUME NEW k \in Requests
      PROVE  CalmRequest(job[k], exchange[k])'
    BY <1>2, <1>3, <1>4 DEF CalmRequest, Holds, Gets
<1>6. \A k \in Requests : ~Holds(job'[k])
    BY <1>3 DEF Holds
<1>7. CalmStorage'
    BY <1>2, <1>4 DEF Calm, CalmStorage, LoginSaving
<1> QED BY <1>5, <1>6, <1>7 DEF Calm

LEMMA TickKeepsCalm ==
    ASSUME SessionInv, SessionInv', Calm, ClockTick
    PROVE  Calm'
<1>1. /\ UNCHANGED <<revoked, exchange, access, refresh, signedIn, out, left, job>>
      /\ now' = now + 1 /\ now \in Nat
    BY DEF ClockTick, Tick, appVars, SessionInv, SenseInv, AuthTypeOK, TokensTypeOK
<1>2. RefreshOf(now') \notin revoked'
  <2>1. RefreshOf(now').type = "refresh" /\ RefreshOf(now').at = now + 1
      BY <1>1 DEF RefreshOf
  <2>2. ~(now + 1 <= now)
      BY <1>1
  <2> QED BY <1>1, <2>1, <2>2 DEF SessionInv, SenseInv, Sense
<1> QED BY <1>1, <1>2 DEF Calm, CalmRequest, CalmStorage, LoginSaving

LEMMA UpsetStays == [AuthNext]_vars /\ SessionInv /\ ~upset' => ~upset
<1> SUFFICES ASSUME [AuthNext]_vars, SessionInv, ~upset' PROVE ~upset
    OBVIOUS
<1>1. upset \in BOOLEAN
    BY DEF SessionInv, SenseInv, AuthTypeOK
<1>2. ASSUME NEW j \in Requests, Request(j) PROVE ~upset
  <2>1. CASE \/ Send(j) \/ Refused(j) \/ CallAnswered(j) \/ PasswordChanged(j) \/ AccountDeleted(j)
             \/ SessionValid(j) \/ StoreAgain(j) \/ LoginAnswered(j) \/ LoginRefused(j) \/ Renew(j)
             \/ ProfileUpdated(j) \/ TokenRead(j) \/ RetryFails(j)
      BY <2>1 DEF ProfileUpdated, TokenRead, RetryFails, Send, Refused, CallAnswered,
                  PasswordChanged, AccountDeleted, SessionValid,
                  StoreAgain, LoginAnswered, LoginRefused, Renew
  <2>2. CASE \/ AskRefresh(j) \/ RefreshTaken(j) \/ RefreshDenied(j) \/ RenewalFails(j)
             \/ SaveRefresh(j) \/ NoAnswer(j) \/ Orphaned(j)
      BY <2>2 DEF AskRefresh, RefreshTaken, RefreshDenied, RenewalFails, SaveRefresh, NoAnswer, Orphaned
  <2>3. CASE ReadRefresh(j) \/ RefreshAnswered(j) \/ RefreshLost(j) \/ SaveAccess(j) \/ TokenGone(j)
      BY <2>3 DEF TokenGone, ReadRefresh, RefreshAnswered, RefreshLost, SaveAccess
  <2> QED BY <1>2, <2>1, <2>2, <2>3 DEF Request
<1>3. CASE UserLogout \/ LogoutStep \/ Kill \/ ClockTick \/ UNCHANGED vars
    BY <1>3 DEF UserLogout, LogoutStep, LogoutSend, LogoutPosted, ClearAccess, ClearRefresh, Kill,
                ClockTick, vars, appVars
<1>4. ASSUME NEW j \in Requests, NEW kind \in Kinds, Begin(j, kind) PROVE ~upset
    BY <1>4 DEF Begin
<1> QED BY <1>2, <1>3, <1>4 DEF AuthNext

LEMMA CalmStep == CalmInv /\ [AuthNext]_vars => CalmInv'
<1> SUFFICES ASSUME CalmInv, [AuthNext]_vars PROVE CalmInv'
    OBVIOUS
<1>1. SessionInv /\ SessionInv'
    BY SessionInvStep DEF CalmInv
<1> SUFFICES ASSUME ~upset' PROVE Calm'
    BY <1>1 DEF CalmInv
<1>2. Calm
    BY <1>1, UpsetStays DEF CalmInv
<1>3. ASSUME NEW j \in Requests, NEW kind \in Kinds, Begin(j, kind)
      PROVE  Calm'
    BY <1>1, <1>2, <1>3, BeginKeepsCalm
<1>4. ASSUME NEW j \in Requests, Request(j)
      PROVE  Calm'
  <2>1. CASE \/ Send(j) \/ LoginAnswered(j) \/ Refused(j) \/ SessionValid(j)
             \/ ProfileUpdated(j) \/ TokenRead(j) \/ AskRefresh(j) \/ RefreshDenied(j)
      BY <1>1, <1>2, <2>1, MovesKeepCalm
  <2>2. CASE \/ NoAnswer(j) \/ RetryFails(j) \/ TokenGone(j)
             \/ LoginRefused(j) \/ CallAnswered(j) \/ PasswordChanged(j)
             \/ AccountDeleted(j) \/ StoreAgain(j) \/ ReadsNone(j)
      BY <1>1, <1>2, <2>2, EndsKeepCalm
  <2>3. CASE Renew(j) \/ ReadsSome(j) \/ RefreshTaken(j)
      BY <1>1, <1>2, <2>3, RefreshMovesKeepCalm
  <2>4. CASE RefreshAnswered(j)
      BY <1>1, <1>2, <2>4, AnswerKeepsCalm
  <2>5. CASE SaveAccess(j)
      BY <1>1, <1>2, <2>5, SaveAccessKeepsCalm
  <2>6. CASE SaveRefresh(j)
      BY <1>1, <1>2, <2>6, SaveRefreshKeepsCalm
  <2>7. CASE RenewalFails(j) \/ RefreshLost(j)
      BY <1>1, <1>2, <2>7, FailureKeepsCalm
  <2>8. ~Orphaned(j)
    <3>1. job[j].at = "orphaned" => exchange[j] = NoToken
        BY <1>2 DEF Calm, CalmRequest
    <3> QED BY <3>1 DEF Orphaned, At, RefreshWrite, RefreshFails
  <2>9. ReadRefresh(j) => ReadsNone(j) \/ ReadsSome(j)
      BY DEF ReadsNone, ReadsSome
  <2> QED BY <1>4, <2>1, <2>2, <2>3, <2>4, <2>5, <2>6, <2>7, <2>8, <2>9 DEF Request
<1>5. CASE UserLogout \/ LogoutStep \/ UNCHANGED vars
    BY <1>1, <1>2, <1>5, LogoutKeepsCalm
<1>6. CASE Kill
    BY <1>1, <1>2, <1>6, KillKeepsCalm
<1>7. CASE ClockTick
    BY <1>1, <1>2, <1>7, TickKeepsCalm
<1> QED BY <1>3, <1>4, <1>5, <1>6, <1>7 DEF AuthNext

LEMMA CalmInit == AuthInit => CalmInv
<1> SUFFICES ASSUME AuthInit PROVE Calm
    BY SessionInvInit DEF CalmInv
<1>1. \A j \in Requests : /\ job[j].at = "idle" /\ job[j].kind = "call" /\ job[j].renewing = NoToken
                          /\ exchange[j] = NoToken
    BY DEF AuthInit, TokensInit, Idle
<1> QED BY <1>1 DEF AuthInit, TokensInit, Calm, CalmRequest, CalmStorage, Holds, Gets

LEMMA CalmInvariant == AuthSpec => []CalmInv
BY CalmInit, CalmStep, PTL DEF AuthSpec

(***************************************************************************)
(* The session the app keeps is one the server goes on with, for any       *)
(* number of overlapping requests and any lifetimes, unless one of the     *)
(* disturbances in `upset' has happened (AuthService, AuthInterceptor and  *)
(* AuthSessionRepository against RefreshToken and Logout of the server).   *)
(***************************************************************************)
THEOREM SessionKeepsGood == AuthSpec => []SessionStaysGood
<1>1. CalmInv => SessionStaysGood
  <2> SUFFICES ASSUME CalmInv, ~upset, out = "no", Underway = {}
               PROVE  /\ (access = NoToken) <=> (refresh = NoToken)
                      /\ refresh \notin revoked
                      /\ signedIn => access # NoToken
                      /\ left => access = NoToken
      BY DEF SessionStaysGood
  <2>1. SessionInv /\ CalmStorage
      BY DEF CalmInv, Calm
  <2>2. \A j \in Requests : ~Gets(job[j])
      BY <2>1, HoldersSense
  <2>3. ~LoginSaving /\ refresh \notin revoked
      BY <2>1, <2>2 DEF CalmStorage, LoginSaving, Gets
  <2> QED BY <2>1, <2>3 DEF CalmStorage
<1> QED BY <1>1, CalmInvariant, PTL
=============================================================================
