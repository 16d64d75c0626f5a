------------------------------- MODULE Tokens -------------------------------
(***************************************************************************)
(* The tokens of one user at the server: GenerateToken and ParseToken,     *)
(* the middleware JWTAuth, the blacklist, and the operations of            *)
(* internal/auth/service.go that hand out, exchange and revoke tokens.     *)
(*                                                                         *)
(* A JWT carries its times in whole seconds and nothing that is unique, so *)
(* a token is its type and the second it was minted in: two tokens of one  *)
(* type minted within a second are one string.  RefreshToken checks the    *)
(* blacklist in one call and writes it in another; it is two actions.      *)
(***************************************************************************)
EXTENDS Naturals

CONSTANTS Requests,    \* requests that may be under way at once
          NoToken,     \* no token: no Authorization header, nothing stored
          MaxTime,     \* bound: the clock stops here
          AccessTTL, RefreshTTL,   \* lifetimes in seconds
          MaxFailures  \* bound: revocations the blacklist fails to store

ASSUME ClockAssumption == /\ MaxTime \in Nat
                          /\ AccessTTL \in Nat
                          /\ RefreshTTL \in Nat
                          /\ MaxFailures \in Nat

VARIABLES
  now,        \* the clock of the server, in seconds
  revoked,    \* the blacklist; an entry lasts as long as its token
  failures,   \* how many revocations failed
  active,     \* users.is_active
  exchange,   \* exchange[j]: the refresh token request j has checked, or NoToken
  exchanged,  \* history: refresh tokens exchanged for a new pair
  again,      \* history: those exchanged more than once
  doubled     \* history: refresh tokens checked while another request held
              \* them, or whose revocation failed

serverVars == <<now, revoked, failures, active, exchange, exchanged, again, doubled>>

Token == [type : {"access", "refresh"}, at : 0 .. MaxTime]
AccessTokens == [type : {"access"}, at : 0 .. MaxTime]
RefreshTokens == [type : {"refresh"}, at : 0 .. MaxTime]

ASSUME NoTokenAssumption == NoToken \notin Token

GenerateToken(type) == [type |-> type, at |-> now]

TTL(type) == IF type = "access" THEN AccessTTL ELSE RefreshTTL

\* ParseToken: the signature holds, and the token has not expired.
ParseToken(t) == now < t.at + TTL(t.type)

\* A header that is verified without the blacklist:
VerifiedUnlessExpired(t) == t.type = "access" /\ ParseToken(t)

\* ... and as the middleware verifies it.  Any header is verified; without one
\* only public operations go on.
Verified(t) == t.type = "access" /\ ParseToken(t) /\ t \notin revoked

JWTAuth(t, required) == IF t = NoToken THEN ~required ELSE Verified(t)

(***************************************************************************)
(* RefreshToken, up to the check of the blacklist and of the account.      *)
(***************************************************************************)
\* Without asking the blacklist:
ExchangeableUnlessExpired(r) == r.type = "refresh" /\ ParseToken(r) /\ active

\* ... and as the code checks.
Exchangeable(r) == r.type = "refresh" /\ ParseToken(r) /\ r \notin revoked /\ active

RefreshCheck(j, r) ==
  /\ Exchangeable(r)
  /\ exchange[j] = NoToken
  /\ exchange' = [exchange EXCEPT ![j] = r]
  /\ doubled' = IF \E k \in Requests : exchange[k] = r THEN doubled \union {r} ELSE doubled
  /\ UNCHANGED <<now, revoked, failures, active, exchanged, again>>

\* The new pair is minted and the old token revoked; a failure is only logged.
RefreshRevokes(r) == revoked \union {r}

RefreshWrite(j) ==
  LET r == exchange[j]
  IN  /\ r # NoToken
      /\ \/ revoked' = RefreshRevokes(r) /\ UNCHANGED <<failures, doubled>>
         \/ /\ failures < MaxFailures /\ failures' = failures + 1
            /\ doubled' = doubled \union {r}
            /\ UNCHANGED revoked
      /\ exchanged' = exchanged \union {r}
      /\ again' = again \union ({r} \intersect exchanged)
      /\ exchange' = [exchange EXCEPT ![j] = NoToken]
      /\ UNCHANGED <<now, active>>

\* The handler gives up between the two: a database error, or the request is
\* cancelled.
RefreshFails(j) ==
  /\ exchange[j] # NoToken
  /\ exchange' = [exchange EXCEPT ![j] = NoToken]
  /\ UNCHANGED <<now, revoked, failures, active, exchanged, again, doubled>>

(***************************************************************************)
(* Logout, of POST /auth/logout and of ChangePassword.                     *)
(***************************************************************************)
Logout(t) ==
  /\ revoked' = IF ParseToken(t) THEN revoked \union {t} ELSE revoked
  /\ UNCHANGED <<now, failures, active, exchange, exchanged, again, doubled>>

DeleteAccount ==
  /\ active' = FALSE
  /\ UNCHANGED <<now, revoked, failures, exchange, exchanged, again, doubled>>

Tick ==
  /\ now < MaxTime
  /\ now' = now + 1
  /\ UNCHANGED <<revoked, failures, active, exchange, exchanged, again, doubled>>

TokensInit ==
  /\ now = 0
  /\ revoked = {}
  /\ failures = 0
  /\ active = TRUE
  /\ exchange = [j \in Requests |-> NoToken]
  /\ exchanged = {}
  /\ again = {}
  /\ doubled = {}

TokensNext ==
  \/ \E j \in Requests, r \in RefreshTokens : RefreshCheck(j, r)
  \/ \E j \in Requests : RefreshWrite(j) \/ RefreshFails(j)
  \/ \E t \in Token : Logout(t)
  \/ DeleteAccount
  \/ Tick

TokensSpec == TokensInit /\ [][TokensNext]_serverVars

TokensTypeOK ==
  /\ now \in 0 .. MaxTime
  /\ revoked \subseteq Token
  /\ failures \in 0 .. MaxFailures
  /\ active \in BOOLEAN
  /\ exchange \in [Requests -> RefreshTokens \union {NoToken}]
  /\ exchanged \subseteq RefreshTokens
  /\ again \subseteq RefreshTokens
  /\ doubled \subseteq RefreshTokens

(***************************************************************************)
(* A refresh token is exchanged for a new pair at most once, which is what *)
(* revoking it is for - except a token that two requests had checked       *)
(* before either revoked it, or whose revocation failed.                   *)
(***************************************************************************)
RotatedOnce == again \subseteq doubled
=============================================================================
