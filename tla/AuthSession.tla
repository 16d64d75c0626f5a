---------------------------- MODULE AuthSession ----------------------------
(***************************************************************************)
(* The session of the app, against the tokens of the server: AuthService,  *)
(* AuthInterceptor and AuthSessionRepository of one device.                *)
(*                                                                         *)
(* Requests of the app overlap at every await: the token is read and the   *)
(* request sent; an answer 401 leads to a refresh, which several requests  *)
(* may share; the pair it brings is stored one token after the other; the  *)
(* request is tried again.  A logout runs beside them, and the app may be  *)
(* killed at any point.  Every request carries the access token that is    *)
(* stored - requests to public operations too, since nothing sets          *)
(* requiresAuth; one that is tried again keeps the token its refresh       *)
(* brought when none is stored any more.                                   *)
(***************************************************************************)
EXTENDS Tokens

CONSTANTS NoRequest,    \* nobody's refresh
          MaxBegun      \* bound: requests the screens begin

ASSUME NoRequestAssumption == NoRequest \notin Requests
ASSUME BegunAssumption == MaxBegun \in Nat

VARIABLES
  access, refresh,   \* SecureStorage: the two tokens, or NoToken
  signedIn,          \* whether the last user notified is one
  ongoing,           \* _ongoingRefreshFuture: the request that set it, or NoRequest
  job,               \* job[j]: where the app is with request j
  out,               \* where the one logout is; "no" is not _isLoggingOut
  outToken,          \* the token its request carries
  begun,             \* how many requests the screens have begun
  left,              \* history: a logout has ended, and no login since
  upset              \* history: a disturbance no code of the app makes good

appVars == <<access, refresh, signedIn, ongoing, job, out, outToken, begun, left, upset>>
vars == <<serverVars, appVars>>

\* "password" changes the password, "remove" deletes the account, "validate"
\* is validateSession, "call" any other operation that asks for a token,
\* updateProfile among them.
Kinds == {"call", "password", "remove", "validate", "login"}

Places == {"idle", "starting", "sent", "refused", "joined", "reading", "asking",
           "asked", "denied", "minting", "granted", "saving", "profiled", "storing",
           "orphaned"}

MaybeAccess == AccessTokens \union {NoToken}
MaybeRefresh == RefreshTokens \union {NoToken}

Job == [at : Places,
        kind : Kinds,
        own : MaybeAccess,     \* the token read, to be stored again
        sent : MaybeAccess,    \* the token in the header
        retried : BOOLEAN,     \* tried again, from onError
        renewing : MaybeRefresh, \* the refresh token in the body
        minted : 0 .. MaxTime, \* the second of the pair received
        waits : Requests \union {NoRequest}]   \* whose refresh it waits for

Idle == [at |-> "idle", kind |-> "call", own |-> NoToken, sent |-> NoToken,
         retried |-> FALSE, renewing |-> NoToken, minted |-> 0, waits |-> NoRequest]

Begun(kind, own) == [Idle EXCEPT !.at = "starting", !.kind = kind, !.own = own]

\* Tried again, with the token the refresh brought in its header.
Again(j, token) ==
  [Begun(job[j].kind, job[j].own) EXCEPT !.sent = token, !.retried = TRUE]

\* The pair minted in second s.
AccessOf(s) == [type |-> "access", at |-> s]
RefreshOf(s) == [type |-> "refresh", at |-> s]

At(j, places) == job[j].at \in places

\* Requests that hold something they may still store; a validation stores the
\* token it read if the one in its header is answered.
Underway == {j \in Requests :
               \/ At(j, {"asking", "asked", "minting", "granted", "saving", "storing"})
               \/ At(j, {"starting", "sent"}) /\ job[j].kind = "validate" /\ job[j].sent # NoToken}

\* Requests for which the server mints a pair, or has, that is not stored.
Unstored == {j \in Requests : At(j, {"minting", "granted", "saving"})}

\* logout() from wherever it is called: ignored while one runs.
StartsLogout == out' = (IF out = "no" THEN "going" ELSE out)

Ends(j) == job' = [job EXCEPT ![j] = Idle]

AuthInit ==
  /\ TokensInit
  /\ access = NoToken /\ refresh = NoToken
  /\ signedIn = FALSE
  /\ ongoing = NoRequest
  /\ job = [j \in Requests |-> Idle]
  /\ out = "no" /\ outToken = NoToken
  /\ begun = 0
  /\ left = TRUE
  /\ upset = FALSE

(***************************************************************************)
(* Requests of the screens.                                                *)
(***************************************************************************)
\* The login screen waits for the login it has begun.
MayBegin(kind) ==
  CASE kind = "login" -> ~signedIn /\ \A j \in Requests : job[j].kind # "login"
    [] kind = "validate" -> access # NoToken
    [] OTHER -> signedIn

Begin(j, kind) ==
  /\ At(j, {"idle"})
  /\ MayBegin(kind)
  /\ begun < MaxBegun /\ begun' = begun + 1
  /\ job' = [job EXCEPT ![j] = Begun(kind, IF kind = "validate" THEN access ELSE NoToken)]
  /\ UNCHANGED <<serverVars, access, refresh, signedIn, ongoing, out, outToken, left, upset>>

\* AuthInterceptor.onRequest: a header is overwritten if a token is stored.
Send(j) ==
  /\ At(j, {"starting"})
  /\ job' = [job EXCEPT ![j].at = "sent",
                        ![j].sent = IF access # NoToken THEN access ELSE @]
  /\ UNCHANGED <<serverVars, access, refresh, signedIn, ongoing, out, outToken, begun, left, upset>>

\* No answer, or a status that is not 401: validateSession falls back to the
\* stored profile, everybody else reports an error.
NoAnswer(j) ==
  /\ At(j, {"starting", "sent"}) /\ ~job[j].retried
  /\ Ends(j)
  /\ signedIn' = IF job[j].kind = "validate" /\ access # NoToken THEN TRUE ELSE signedIn
  /\ UNCHANGED <<serverVars, access, refresh, ongoing, out, outToken, begun, left, upset>>

\* The same of a request tried again: onError catches it, logs out and passes
\* the first 401 on, at which validateSession logs out too.
RetryFails(j) ==
  /\ At(j, {"starting", "sent"}) /\ job[j].retried
  /\ Ends(j)
  /\ StartsLogout
  /\ UNCHANGED <<serverVars, access, refresh, signedIn, ongoing, outToken, begun, left, upset>>

\* A login that is refused, by its password or by the middleware.
LoginRefused(j) ==
  /\ At(j, {"sent"}) /\ job[j].kind = "login"
  /\ Ends(j)
  /\ StartsLogout
  /\ UNCHANGED <<serverVars, access, refresh, signedIn, ongoing, outToken, begun, left, upset>>

\* Login mints a pair; is_active is not looked at.
LoginAnswered(j) ==
  /\ At(j, {"sent"}) /\ job[j].kind = "login"
  /\ JWTAuth(job[j].sent, FALSE)
  /\ job' = [job EXCEPT ![j].at = "granted", ![j].sent = NoToken, ![j].minted = now]
  /\ UNCHANGED <<serverVars, access, refresh, signedIn, ongoing, out, outToken, begun, left, upset>>

\* 401, from the middleware; a wrong old password is answered so too.
Refused(j) ==
  /\ At(j, {"sent"}) /\ job[j].kind # "login"
  /\ ~JWTAuth(job[j].sent, TRUE) \/ job[j].kind = "password"
  /\ job' = [job EXCEPT ![j].at = "refused", ![j].sent = NoToken]
  /\ UNCHANGED <<serverVars, access, refresh, signedIn, ongoing, out, outToken, begun, left, upset>>

Answered(j, kind) ==
  /\ At(j, {"sent"}) /\ job[j].kind = kind
  /\ JWTAuth(job[j].sent, TRUE)

CallAnswered(j) ==
  /\ Answered(j, "call")
  /\ Ends(j)
  /\ UNCHANGED <<serverVars, access, refresh, signedIn, ongoing, out, outToken, begun, left, upset>>

\* ChangePassword revokes the token it was called with; the app keeps it, and
\* logs out if a request tried again has its answer lost.
PasswordChanged(j) ==
  /\ Answered(j, "password")
  /\ Logout(job[j].sent)
  /\ Ends(j)
  /\ UNCHANGED out \/ (job[j].retried /\ StartsLogout)
  /\ UNCHANGED <<access, refresh, signedIn, ongoing, outToken, begun, left, upset>>

\* The account is deleted, and the app logs out if the answer reaches it, or
\* if a request tried again has it lost.
AccountDeleted(j) ==
  /\ Answered(j, "remove")
  /\ DeleteAccount
  /\ Ends(j)
  /\ StartsLogout \/ (~job[j].retried /\ UNCHANGED out)
  /\ UNCHANGED <<access, refresh, signedIn, ongoing, outToken, begun, left, upset>>

SessionValid(j) ==
  /\ Answered(j, "validate")
  /\ job' = [job EXCEPT ![j].at = "storing", ![j].sent = NoToken]
  /\ UNCHANGED <<serverVars, access, refresh, signedIn, ongoing, out, outToken, begun, left, upset>>

\* A call that was one of updateProfile.
ProfileUpdated(j) ==
  /\ Answered(j, "call")
  /\ job' = [job EXCEPT ![j].at = "profiled", ![j].sent = NoToken]
  /\ UNCHANGED <<serverVars, access, refresh, signedIn, ongoing, out, outToken, begun, left, upset>>

\* updateProfile reads the stored profile, then the token it is stored with.
TokenRead(j) ==
  /\ At(j, {"profiled"}) /\ access # NoToken
  /\ job' = [job EXCEPT ![j].at = "storing", ![j].own = access]
  /\ UNCHANGED <<serverVars, access, refresh, signedIn, ongoing, out, outToken, begun, left, upset>>

\* ... or, when a logout has deleted that token meanwhile, stores nothing, but
\* notifies the user if it still found the profile.
TokenGone(j) ==
  /\ At(j, {"profiled"}) /\ access = NoToken
  /\ Ends(j)
  /\ \/ UNCHANGED <<signedIn, upset>>
     \/ signedIn' = TRUE /\ upset' = TRUE
  /\ UNCHANGED <<serverVars, access, refresh, ongoing, out, outToken, begun, left>>

\* validateSession stores the token it read at its start, updateProfile the one
\* it read at its end.
StoreAgain(j) ==
  /\ At(j, {"storing"})
  /\ access' = job[j].own
  /\ signedIn' = TRUE
  /\ Ends(j)
  /\ UNCHANGED <<serverVars, refresh, ongoing, out, outToken, begun, left, upset>>

(***************************************************************************)
(* AuthInterceptor.onError and refreshToken().                             *)
(***************************************************************************)
\* A refresh under way is joined; otherwise the refresh token is read, which
\* is awaited before the future is set.
Renew(j) ==
  /\ At(j, {"refused"})
  /\ job' = [job EXCEPT ![j] = [@ EXCEPT !.at = IF ongoing = NoRequest THEN "reading" ELSE "joined",
                                         !.waits = ongoing]]
  /\ UNCHANGED <<serverVars, access, refresh, signedIn, ongoing, out, outToken, begun, left, upset>>

\* The refresh of j has come to its end, in success or not: those who share
\* it go on with its result, and the future is cleared, whoever set it.
Sharers(j) == {j} \union {k \in Requests : At(k, {"joined"}) /\ job[k].waits = j}

\* Leaving those who share it waiting:
GivesUpAlone(j) ==
  /\ Ends(j)
  /\ ongoing' = NoRequest
  /\ StartsLogout

\* ... and with the completer completed on every path.
GivesUp(j) ==
  /\ job' = [k \in Requests |-> IF k \in Sharers(j) THEN Idle ELSE job[k]]
  /\ ongoing' = NoRequest
  /\ StartsLogout

\* Two refreshes hold one refresh token: both read it before either set the
\* future.
Shares(j) == \E k \in Requests \ {j} : k \in Underway /\ job[k].renewing = refresh

ReadRefresh(j) ==
  /\ At(j, {"reading"})
  /\ IF refresh = NoToken
     THEN /\ Ends(j)
          /\ StartsLogout
          /\ UNCHANGED <<ongoing, upset>>
     ELSE /\ job' = [job EXCEPT ![j].at = "asking", ![j].renewing = refresh]
          /\ ongoing' = j
          /\ upset' = (upset \/ Shares(j))
          /\ UNCHANGED out
  /\ UNCHANGED <<serverVars, access, refresh, signedIn, outToken, begun, left>>

AskRefresh(j) ==
  /\ At(j, {"asking"})
  /\ job' = [job EXCEPT ![j].at = "asked", ![j].sent = access]
  /\ UNCHANGED <<serverVars, access, refresh, signedIn, ongoing, out, outToken, begun, left, upset>>

\* The request passes the middleware and the checks of RefreshToken.
RefreshTaken(j) ==
  /\ At(j, {"asked"})
  /\ JWTAuth(job[j].sent, FALSE)
  /\ RefreshCheck(j, job[j].renewing)
  /\ job' = [job EXCEPT ![j].at = "minting", ![j].sent = NoToken]
  /\ UNCHANGED <<access, refresh, signedIn, ongoing, out, outToken, begun, left, upset>>

\* 401: by the middleware, by RefreshToken, or because the blacklist cannot
\* be asked.
RefreshDenied(j) ==
  /\ At(j, {"asked"})
  /\ \/ ~JWTAuth(job[j].sent, FALSE)
     \/ ~Exchangeable(job[j].renewing)
     \/ MaxFailures > 0
  /\ job' = [job EXCEPT ![j].at = "denied", ![j].sent = NoToken]
  /\ UNCHANGED <<serverVars, access, refresh, signedIn, ongoing, out, outToken, begun, left, upset>>

\* Every failure ends in a logout, one of the network too.
RenewalFails(j) ==
  /\ At(j, {"asking", "asked", "denied"})
  /\ GivesUp(j)
  /\ UNCHANGED <<serverVars, access, refresh, signedIn, outToken, begun, left, upset>>

RefreshAnswered(j) ==
  /\ At(j, {"minting"})
  /\ RefreshWrite(j)
  /\ job' = [job EXCEPT ![j].at = "granted", ![j].minted = now]
  /\ upset' = (upset \/ RefreshOf(now) \in revoked')
  /\ UNCHANGED <<access, refresh, signedIn, ongoing, out, outToken, begun, left>>

\* The token has been exchanged and the app does not learn of it, or the
\* server fails before.
RefreshLost(j) ==
  /\ At(j, {"minting"})
  /\ \/ RefreshWrite(j) /\ upset' = TRUE
     \/ RefreshFails(j) /\ UNCHANGED upset
  /\ GivesUp(j)
  /\ UNCHANGED <<access, refresh, signedIn, outToken, begun, left>>

SaveAccess(j) ==
  /\ At(j, {"granted"})
  /\ access' = AccessOf(job[j].minted)
  /\ job' = [job EXCEPT ![j].at = "saving"]
  /\ upset' = (upset \/ out = "cleared")
  /\ UNCHANGED <<serverVars, refresh, signedIn, ongoing, out, outToken, begun, left>>

\* saveSession has come to its end: a login is done, a refresh lets its
\* requests go again.
SaveRefresh(j) ==
  /\ At(j, {"saving"})
  /\ refresh' = RefreshOf(job[j].minted)
  /\ signedIn' = TRUE
  /\ IF job[j].renewing = NoToken
     THEN /\ Ends(j)
          /\ left' = FALSE
          /\ UNCHANGED ongoing
     ELSE /\ job' = [k \in Requests |-> IF k \in Sharers(j) THEN Again(k, AccessOf(job[j].minted)) ELSE job[k]]
          /\ ongoing' = NoRequest
          /\ UNCHANGED left
  /\ UNCHANGED <<serverVars, access, out, outToken, begun, upset>>

(***************************************************************************)
(* logout().                                                               *)
(***************************************************************************)
UserLogout ==
  /\ signedIn /\ out = "no"
  /\ out' = "going"
  /\ UNCHANGED <<serverVars, access, refresh, signedIn, ongoing, job, outToken, begun, left, upset>>

LogoutSend ==
  /\ out = "going"
  /\ out' = IF access = NoToken THEN "clearing" ELSE "posted"
  /\ outToken' = access
  /\ UNCHANGED <<serverVars, access, refresh, signedIn, ongoing, job, begun, left, upset>>

\* The server revokes the access token; an error is only logged.
LogoutPosted ==
  /\ out = "posted"
  /\ \/ JWTAuth(outToken, TRUE) /\ Logout(outToken)
     \/ UNCHANGED serverVars
  /\ out' = "clearing" /\ outToken' = NoToken
  /\ UNCHANGED <<access, refresh, signedIn, ongoing, job, begun, left, upset>>

\* clearAll deletes one key after the other.
ClearAccess ==
  /\ out = "clearing"
  /\ access' = NoToken
  /\ out' = "cleared"
  /\ upset' = (upset \/ Underway # {})
  /\ UNCHANGED <<serverVars, refresh, signedIn, ongoing, job, outToken, begun, left>>

\* Keeping the refresh token:
ClearAccessOnly ==
  /\ out = "cleared"
  /\ signedIn' = FALSE
  /\ left' = TRUE
  /\ out' = "no"
  /\ upset' = (upset \/ Underway # {})
  /\ UNCHANGED <<serverVars, access, refresh, ongoing, job, outToken, begun>>

\* ... and as clearAll goes on.
ClearRefresh ==
  /\ out = "cleared"
  /\ refresh' = NoToken
  /\ signedIn' = FALSE
  /\ left' = TRUE
  /\ out' = "no"
  /\ upset' = (upset \/ Underway # {})
  /\ UNCHANGED <<serverVars, access, ongoing, job, outToken, begun>>

(***************************************************************************)
(* The app is killed and started again; a request at the server goes on.   *)
(***************************************************************************)
Kill ==
  /\ job' = [j \in Requests |->
               IF At(j, {"minting", "orphaned"}) THEN [Idle EXCEPT !.at = "orphaned"] ELSE Idle]
  /\ ongoing' = NoRequest
  /\ out' = "no" /\ outToken' = NoToken
  /\ signedIn' = (access # NoToken)
  /\ upset' = (upset \/ Unstored # {} \/ out = "cleared")
  /\ UNCHANGED <<serverVars, access, refresh, begun, left>>

Orphaned(j) ==
  /\ At(j, {"orphaned"})
  /\ RefreshWrite(j) \/ RefreshFails(j)
  /\ Ends(j)
  /\ UNCHANGED <<access, refresh, signedIn, ongoing, out, outToken, begun, left, upset>>

ClockTick == Tick /\ UNCHANGED appVars

Request(j) ==
  \/ Send(j) \/ Refused(j) \/ CallAnswered(j) \/ PasswordChanged(j) \/ AccountDeleted(j)
  \/ SessionValid(j) \/ ProfileUpdated(j) \/ TokenRead(j) \/ TokenGone(j) \/ StoreAgain(j)
  \/ LoginAnswered(j) \/ LoginRefused(j)
  \/ Renew(j) \/ ReadRefresh(j) \/ AskRefresh(j) \/ RefreshTaken(j) \/ RefreshDenied(j)
  \/ RenewalFails(j) \/ RefreshAnswered(j) \/ RefreshLost(j)
  \/ SaveAccess(j) \/ SaveRefresh(j) \/ NoAnswer(j) \/ RetryFails(j) \/ Orphaned(j)

LogoutStep == LogoutSend \/ LogoutPosted \/ ClearAccess \/ ClearRefresh

AuthNext ==
  \/ \E j \in Requests, kind \in Kinds : Begin(j, kind)
  \/ \E j \in Requests : Request(j)
  \/ UserLogout \/ LogoutStep \/ Kill \/ ClockTick

AuthSpec == AuthInit /\ [][AuthNext]_vars

-----------------------------------------------------------------------------
AuthTypeOK ==
  /\ TokensTypeOK
  /\ access \in MaybeAccess /\ refresh \in MaybeRefresh /\ outToken \in MaybeAccess
  /\ signedIn \in BOOLEAN /\ left \in BOOLEAN /\ upset \in BOOLEAN
  /\ ongoing \in Requests \union {NoRequest}
  /\ begun \in 0 .. MaxBegun
  /\ job \in [Requests -> Job]
  /\ out \in {"no", "going", "posted", "clearing", "cleared"}

(***************************************************************************)
(* What the app keeps is a session the server can go on with, whatever     *)
(* overlaps: both tokens or none, a refresh token that was not exchanged,  *)
(* somebody shown as signed in only with tokens stored, and nothing stored *)
(* after a logout.  The disturbances in `upset' are the only ways to lose  *)
(* this: an answer of a refresh that was lost, a kill between the writes   *)
(* of a session, a logout that overlaps a save, a validation - one about   *)
(* to be tried again too, whose header holds the new token - or an update  *)
(* of the profile, two refreshes with one refresh token, and two refresh   *)
(* tokens minted within one second.                                        *)
(***************************************************************************)
SessionStaysGood ==
  (~upset /\ out = "no" /\ Underway = {}) =>
     /\ (access = NoToken) <=> (refresh = NoToken)
     /\ refresh \notin revoked
     /\ signedIn => access # NoToken
     /\ left => access = NoToken

(***************************************************************************)
(* Whoever shares a refresh is served: the request whose future it awaits  *)
(* is still refreshing, although a second refresh may have replaced that   *)
(* future in _ongoingRefreshFuture and the first may have cleared the      *)
(* second's.                                                               *)
(***************************************************************************)
SharersAreServed ==
  \A j \in Requests :
    At(j, {"joined"}) =>
       /\ job[j].waits \in Requests \ {j}
       /\ At(job[j].waits, {"asking", "asked", "denied", "minting", "granted", "saving"})

(***************************************************************************)
(* A refresh is answered 401 only for its refresh token, and a pair is     *)
(* what a good one gets: docs/api/CONTRACT.md asks for no other token on   *)
(* /auth/refresh.                                                          *)
(***************************************************************************)
GoodRefreshIsTaken ==
  \A j \in Requests : At(j, {"denied"}) => ~Exchangeable(job[j].renewing)
=============================================================================
