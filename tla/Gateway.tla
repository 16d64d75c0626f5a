------------------------------ MODULE Gateway ------------------------------
(***************************************************************************)
(* The HTTP interface of the server: what a request goes through from the  *)
(* router to the service.  The generated wrapper of an operation binds the *)
(* parameters of the path, marks the request as one that needs a token,    *)
(* binds the query and hands over to the middleware JWTAuth; the handler   *)
(* makes its own checks and calls one operation of a service.  Each of     *)
(* these is a step; the first check that fails answers.                    *)
(*                                                                         *)
(* The wrappers are generated from openapi.yaml and the handlers written   *)
(* by hand: a table for each resource says which steps each has, in order. *)
(* Of the services only what they do to tokens is here.                    *)
(***************************************************************************)
EXTENDS Tokens, Sequences

CONSTANT Calls  \* requests the server works on at the same time

VARIABLE call   \* call[c]: the steps request c has before it, or its answer

gateVars == <<serverVars, call>>

Public == <<>>
Scope == <<"scope">>
Path == <<"path">>
Query == <<"query">>

(***************************************************************************)
(* The wrappers (ServerInterfaceWrapper), by resource.                     *)
(***************************************************************************)
AccountRoutes ==
  ({"LoginUser"} \X {Public}) \union
  ({"ChangePassword", "LogoutUser", "DeleteCurrentUser", "GetCurrentUser",
    "UpdateCurrentUser"} \X {Scope})

CodeRoutes ==
  ({"RefreshToken", "RegisterUser", "ResendVerificationCode", "VerifyEmail"} \X {Public}) \union
  ({"ClearRateLimit"} \X {Path})

FavoriteRoutes ==
  ({"AddFavorite", "BatchUpdateFavorites"} \X {Scope}) \union
  ({"ListFavorites"} \X {Scope \o Query}) \union
  ({"RemoveFavorite"} \X {Path \o Scope \o Query})

GearLibraryRoutes ==
  ({"CreateGearLibraryItem", "ReplaceAllGearLibraryItems"} \X {Scope}) \union
  ({"ListGearLibrary"} \X {Scope \o Query}) \union
  ({"DeleteGearLibraryItem", "GetGearLibraryItem", "UpdateGearLibraryItem"} \X {Path \o Scope})

GearSetRoutes ==
  ({"CreateGearSet"} \X {Scope}) \union
  ({"ListGearSets"} \X {Scope \o Query}) \union
  ({"GetGearSet"} \X {Path \o Scope \o Query}) \union
  ({"DeleteGearSet", "UpdateGearSet"} \X {Path \o Scope})

EventListRoutes ==
  ({"GetGroupEvents"} \X {Query}) \union
  ({"PostGroupEvents"} \X {Scope})

ApplicationRoutes ==
  ({"GetGroupEventsMy"} \X {Scope \o Query}) \union
  ({"DeleteGroupEventsApplicationsAppId", "PatchGroupEventsApplicationsAppId",
    "DeleteGroupEventsCommentsCommentId"} \X {Path \o Scope})

\* With the scope of its neighbours on the one operation that has none:
EventRoutesAllScoped ==
  {"GetGroupEventsId", "DeleteGroupEventsId", "PatchGroupEventsId",
   "GetGroupEventsIdApplications", "PostGroupEventsIdApply"} \X {Path \o Scope}

\* ... and as the code is generated.
EventRoutes ==
  ({"GetGroupEventsId"} \X {Path}) \union
  ({"DeleteGroupEventsId", "PatchGroupEventsId", "GetGroupEventsIdApplications",
    "PostGroupEventsIdApply"} \X {Path \o Scope})

EventPartRoutes ==
  ({"GetGroupEventsIdComments"} \X {Path}) \union
  ({"PostGroupEventsIdComments", "PostGroupEventsIdLike", "PatchGroupEventsIdTripLink",
    "PostGroupEventsIdTripSnapshot"} \X {Path \o Scope})

SystemRoutes ==
  ({"GetHealth"} \X {Public}) \union
  ({"UploadLogs"} \X {Scope})

MealLibraryRoutes ==
  ({"CreateMealLibraryItem", "ReplaceAllMealLibraryItems"} \X {Scope}) \union
  ({"ListMealLibrary"} \X {Scope \o Query}) \union
  ({"DeleteMealLibraryItem", "GetMealLibraryItem", "UpdateMealLibraryItem"} \X {Path \o Scope})

FlagRoutes ==
  ({"GetFlags", "UpdateFlag"} \X {Public}) \union
  ({"Heartbeat"} \X {Scope})

TripRoutes ==
  ({"CreateTrip"} \X {Scope}) \union
  ({"ListTrips"} \X {Scope \o Query}) \union
  ({"DeleteTrip", "GetTrip", "UpdateTrip"} \X {Path \o Scope})

TripGearRoutes ==
  ({"ListTripGearItems", "AddTripGearItem", "ReplaceAllTripGear"} \X {Path \o Scope}) \union
  ({"DeleteTripGearItem", "UpdateTripGearItem"} \X {Path \o Path \o Scope})

ItineraryRoutes ==
  ({"ListItinerary", "AddItineraryItem"} \X {Path \o Scope}) \union
  ({"DeleteItineraryItem", "UpdateItineraryItem"} \X {Path \o Path \o Scope})

MealDayRoutes ==
  ({"ListTripMealPlanDays", "AddTripMealPlanDay"} \X {Path \o Scope}) \union
  ({"DeleteTripMealPlanDay", "UpdateTripMealPlanDay"} \X {Path \o Path \o Scope})

TripMealRoutes ==
  ({"ListTripMealItems", "AddTripMealItem", "ReplaceAllTripMeals"} \X {Path \o Scope}) \union
  ({"DeleteTripMealItem", "UpdateTripMealItem"} \X {Path \o Path \o Scope})

MemberRoutes ==
  ({"ListTripMembers", "AddTripMember"} \X {Path \o Scope}) \union
  ({"RemoveTripMember"} \X {Path \o Path \o Scope})

MessageRoutes ==
  ({"ListTripMessages"} \X {Path \o Scope \o Query}) \union
  ({"AddTripMessage"} \X {Path \o Scope}) \union
  ({"DeleteTripMessage", "UpdateTripMessage"} \X {Path \o Path \o Scope})

PollRoutes ==
  ({"ListTripPolls"} \X {Path \o Scope \o Query}) \union
  ({"CreateTripPoll"} \X {Path \o Scope}) \union
  ({"DeleteTripPoll"} \X {Path \o Path \o Scope})

OptionRoutes ==
  ({"GetTripPoll", "AddPollOption"} \X {Path \o Path \o Scope}) \union
  ({"VotePollOption"} \X {Path \o Path \o Path \o Scope})

UserRoutes ==
  ({"TransferTripOwnership", "GetUserById"} \X {Path \o Scope}) \union
  ({"SearchUserByEmail"} \X {Scope \o Query})

WeatherRoutes ==
  ({"GetHikingWeather"} \X {Public}) \union
  ({"GetHikingWeatherByLocation"} \X {Path})

Routes == UNION {AccountRoutes, CodeRoutes, FavoriteRoutes, GearLibraryRoutes, GearSetRoutes,
                 EventListRoutes, ApplicationRoutes, EventRoutes, EventPartRoutes, SystemRoutes,
                 MealLibraryRoutes, FlagRoutes, TripRoutes, TripGearRoutes, ItineraryRoutes,
                 MealDayRoutes, TripMealRoutes, MemberRoutes, MessageRoutes, PollRoutes,
                 OptionRoutes, UserRoutes, WeatherRoutes}

(***************************************************************************)
(* The checks of the handlers before they call a service, by file.         *)
(***************************************************************************)
Nothing == <<>>
User == <<"user">>
UserBody == <<"user", "body">>
UserPage == <<"user", "page">>

AccountHandlers ==
  ({"RegisterUser", "LoginUser", "RefreshToken", "VerifyEmail",
    "ResendVerificationCode"} \X {<<"body">>}) \union
  ({"GetCurrentUser", "DeleteCurrentUser"} \X {User}) \union
  ({"UpdateCurrentUser", "ChangePassword"} \X {UserBody})

SessionHandlers ==
  ({"SearchUserByEmail"} \X {<<"user", "email">>}) \union
  ({"GetUserById"} \X {User}) \union
  ({"LogoutUser"} \X {<<"bearer">>}) \union
  ({"ClearRateLimit"} \X {<<"email">>})

FavoriteHandlers ==
  ({"ListFavorites"} \X {UserPage}) \union
  ({"AddFavorite", "BatchUpdateFavorites"} \X {UserBody}) \union
  ({"RemoveFavorite"} \X {User})

FlagHandlers ==
  ({"GetFlags"} \X {Nothing}) \union
  ({"UpdateFlag"} \X {<<"body", "user">>})

\* ListGearSets asks for the user only where my_uploaded is set.
GearSetHandlers ==
  ({"ListGearSets"} \X {<<"page", "mine">>}) \union
  ({"GetGearSet"} \X {Nothing}) \union
  ({"CreateGearSet", "UpdateGearSet"} \X {UserBody}) \union
  ({"DeleteGearSet"} \X {User})

EventHandlers ==
  ({"GetGroupEvents"} \X {<<"page">>}) \union
  ({"GetGroupEventsId"} \X {Nothing}) \union
  ({"PostGroupEvents", "PatchGroupEventsId"} \X {UserBody}) \union
  ({"DeleteGroupEventsId"} \X {User})

ApplicationHandlers ==
  ({"PostGroupEventsIdApply", "PatchGroupEventsApplicationsAppId",
    "PostGroupEventsIdComments"} \X {UserBody}) \union
  ({"GetGroupEventsIdApplications", "DeleteGroupEventsApplicationsAppId",
    "DeleteGroupEventsCommentsCommentId"} \X {User}) \union
  ({"GetGroupEventsIdComments"} \X {Nothing})

EventLinkHandlers ==
  ({"PatchGroupEventsIdTripLink"} \X {UserBody}) \union
  ({"PostGroupEventsIdLike", "PostGroupEventsIdTripSnapshot"} \X {User}) \union
  ({"GetGroupEventsMy"} \X {UserPage})

HeartbeatHandlers == {"Heartbeat"} \X {UserBody}

MessageHandlers ==
  ({"ListTripMessages"} \X {UserPage}) \union
  ({"AddTripMessage", "UpdateTripMessage"} \X {UserBody}) \union
  ({"DeleteTripMessage"} \X {User})

PollHandlers ==
  ({"ListTripPolls"} \X {UserPage}) \union
  ({"CreateTripPoll", "AddPollOption"} \X {UserBody}) \union
  ({"GetTripPoll", "DeleteTripPoll", "VotePollOption"} \X {User})

GearLibraryHandlers ==
  ({"ListGearLibrary"} \X {UserPage}) \union
  ({"CreateGearLibraryItem", "UpdateGearLibraryItem", "ReplaceAllGearLibraryItems"} \X {UserBody}) \union
  ({"GetGearLibraryItem", "DeleteGearLibraryItem"} \X {User})

MealLibraryHandlers ==
  ({"ListMealLibrary"} \X {UserPage}) \union
  ({"CreateMealLibraryItem", "UpdateMealLibraryItem", "ReplaceAllMealLibraryItems"} \X {UserBody}) \union
  ({"GetMealLibraryItem", "DeleteMealLibraryItem"} \X {User})

LogHandlers == {"UploadLogs"} \X {<<"body">>}

TripHandlers ==
  ({"ListTrips"} \X {UserPage}) \union
  ({"CreateTrip", "UpdateTrip", "TransferTripOwnership"} \X {UserBody}) \union
  ({"GetTrip", "DeleteTrip"} \X {User})

MemberHandlers ==
  ({"AddTripMember", "AddItineraryItem", "UpdateItineraryItem"} \X {UserBody}) \union
  ({"ListTripMembers", "RemoveTripMember", "ListItinerary", "DeleteItineraryItem"} \X {User})

MealDayHandlers ==
  ({"AddTripMealPlanDay", "UpdateTripMealPlanDay"} \X {UserBody}) \union
  ({"ListTripMealPlanDays", "DeleteTripMealPlanDay"} \X {User})

TripGearHandlers ==
  ({"AddTripGearItem", "UpdateTripGearItem", "ReplaceAllTripGear"} \X {UserBody}) \union
  ({"ListTripGearItems", "DeleteTripGearItem"} \X {User})

TripMealHandlers ==
  ({"AddTripMealItem", "UpdateTripMealItem", "ReplaceAllTripMeals"} \X {UserBody}) \union
  ({"ListTripMealItems", "DeleteTripMealItem"} \X {User})

WeatherHandlers == {"GetHikingWeather", "GetHikingWeatherByLocation"} \X {Nothing}

HealthHandlers == {"GetHealth"} \X {Nothing}

Handlers == UNION {AccountHandlers, SessionHandlers, FavoriteHandlers, FlagHandlers,
                   GearSetHandlers, EventHandlers, ApplicationHandlers, EventLinkHandlers,
                   HeartbeatHandlers, MessageHandlers, PollHandlers, GearLibraryHandlers,
                   MealLibraryHandlers, LogHandlers, TripHandlers, MemberHandlers,
                   MealDayHandlers, TripGearHandlers, TripMealHandlers, WeatherHandlers,
                   HealthHandlers}

Operations == {row[1] : row \in Routes}

\* Every operation has one wrapper and one handler.
ASSUME TablesAgree ==
  /\ {row[1] : row \in Handlers} = Operations
  /\ \A table \in {Routes, Handlers} : \A r \in table, s \in table : r[1] = s[1] => r = s

StepsIn(table, op) == (CHOOSE row \in table : row[1] = op)[2]

Pipeline ==
  [op \in Operations |-> StepsIn(Routes, op) \o <<"jwt">> \o StepsIn(Handlers, op) \o <<"service">>]

\* Parameters, bodies and pages are bound from what the request carries.
Bound == {"path", "query", "body", "page", "email"}

Steps == Bound \union {"scope", "jwt", "user", "mine", "bearer", "service"}

(***************************************************************************)
(* What openapi.yaml promises: the operations without a security entry.    *)
(***************************************************************************)
OpenOperations ==
  {"LoginUser", "RefreshToken", "RegisterUser", "ResendVerificationCode", "VerifyEmail",
   "ClearRateLimit", "GetGroupEvents", "GetGroupEventsId", "GetGroupEventsIdComments",
   "GetHealth", "GetFlags", "UpdateFlag", "GetHikingWeather", "GetHikingWeatherByLocation"}

Has(rest, step) == \E i \in 1 .. Len(rest) : rest[i] = step

\* Every request comes to the service last, if it comes through.
ASSUME PipelinesEnd ==
  \A op \in Operations :
      LET p == Pipeline[op]
      IN  p \in Seq(Steps) /\ p # <<>> /\ \A i \in 1 .. Len(p) : p[i] = "service" <=> i = Len(p)

ScopesFirst(rest) ==
  \E i \in 1 .. Len(rest), j \in 1 .. Len(rest) : i < j /\ rest[i] = "scope" /\ rest[j] = "jwt"

\* An operation that is not open asks for its user, or needs a token.
ASSUME ClosedOperationsAsk ==
  \A op \in Operations \ OpenOperations : Has(Pipeline[op], "user") \/ ScopesFirst(Pipeline[op])

(***************************************************************************)
(* A request.                                                              *)
(***************************************************************************)
Answers == {"served", "400", "401", "503", "500"}

Call == [op : Operations,
         rest : Seq(Steps),     \* the steps before it
         token : AccessTokens \union {NoToken},
         scoped : BOOLEAN,      \* BearerAuthScopes is in the context
         user : BOOLEAN,        \* UserIDKey is in the context
         late : BOOLEAN,        \* history: the token was of no use when it arrived
         answer : Answers \union {"none", "read"}]

CallIdle == [op |-> "GetHealth", rest |-> <<>>, token |-> NoToken, scoped |-> FALSE,
             user |-> FALSE, late |-> FALSE, answer |-> "read"]

Running(c) == call[c].answer = "none"
AtStep(c, step) == Running(c) /\ Head(call[c].rest) = step

Unusable(t) == t # NoToken /\ (t \in revoked \/ ~ParseToken(t))

Arrive(c, op, t) ==
  /\ call[c] = CallIdle
  /\ t # NoToken => t.at <= now
  /\ call' = [call EXCEPT ![c] = [op |-> op, rest |-> Pipeline[op], token |-> t, scoped |-> FALSE,
                                  user |-> FALSE, late |-> Unusable(t), answer |-> "none"]]
  /\ UNCHANGED serverVars

Moved(c, rest, scoped, user, answer) ==
  call' = [call EXCEPT ![c] = [op |-> @.op, rest |-> rest, token |-> @.token, scoped |-> scoped,
                               user |-> user, late |-> @.late, answer |-> answer]]

\* The step is done, and has put this into the context.
StepDone(c, scoped, user) == Moved(c, Tail(call[c].rest), scoped, user, "none")
Advance(c) == StepDone(c, call[c].scoped, call[c].user)

Answer(c, status) == Moved(c, <<>>, call[c].scoped, call[c].user, status)

\* Whether they bind, the request decides.
Bind(c) ==
  /\ \E step \in Bound : AtStep(c, step)
  /\ Advance(c) \/ Answer(c, "400")
  /\ UNCHANGED serverVars

SetScopes(c) ==
  /\ AtStep(c, "scope")
  /\ StepDone(c, TRUE, call[c].user)
  /\ UNCHANGED serverVars

\* JWTAuth; when the blacklist cannot be asked, the answer is 503.
Authenticate(c) ==
  /\ AtStep(c, "jwt")
  /\ IF JWTAuth(call[c].token, call[c].scoped)
     THEN StepDone(c, call[c].scoped, call[c].token # NoToken)
     ELSE Answer(c, "401")
  /\ UNCHANGED serverVars

BlacklistFails(c) ==
  /\ AtStep(c, "jwt")
  /\ call[c].token # NoToken /\ ParseToken(call[c].token)
  /\ Answer(c, "503")
  /\ UNCHANGED serverVars

\* GetUserIDFromContext, and the header LogoutUser reads again.
AskUser(c) ==
  /\ \/ AtStep(c, "user") /\ IF call[c].user THEN Advance(c) ELSE Answer(c, "401")
     \/ AtStep(c, "mine") /\ (Advance(c) \/ (~call[c].user /\ Answer(c, "401")))
     \/ AtStep(c, "bearer") /\ IF call[c].token # NoToken THEN Advance(c) ELSE Answer(c, "401")
  /\ UNCHANGED serverVars

\* The operation of the service, which may succeed or answer an error.
Serve(c) ==
  /\ AtStep(c, "service")
  /\ Answer(c, "served")
  /\ \/ call[c].op \in {"LogoutUser", "ChangePassword"} /\ Logout(call[c].token)
     \/ call[c].op = "DeleteCurrentUser" /\ DeleteAccount
     \/ call[c].op # "LogoutUser" /\ UNCHANGED serverVars

\* The time for the request runs out, or its handler panics.
Abandon(c) ==
  /\ Running(c)
  /\ Answer(c, "500")
  /\ UNCHANGED serverVars

\* The client has the answer.
Deliver(c) ==
  /\ call[c].answer \in Answers
  /\ call' = [call EXCEPT ![c] = CallIdle]
  /\ UNCHANGED serverVars

\* Other requests of the user, and the clock.
Elsewhere ==
  /\ DeleteAccount \/ Tick \/ \E t \in AccessTokens : t.at <= now /\ Logout(t)
  /\ UNCHANGED call

GateInit == TokensInit /\ call = [c \in Calls |-> CallIdle]

Handling(c) ==
  \/ Bind(c) \/ SetScopes(c) \/ Authenticate(c) \/ BlacklistFails(c)
  \/ AskUser(c) \/ Serve(c) \/ Abandon(c) \/ Deliver(c)

GateNext ==
  \/ \E c \in Calls, op \in Operations, t \in AccessTokens \union {NoToken} : Arrive(c, op, t)
  \/ \E c \in Calls : Handling(c)
  \/ Elsewhere

GateSpec == GateInit /\ [][GateNext]_gateVars

GateTypeOK == TokensTypeOK /\ call \in [Calls -> Call]

(***************************************************************************)
(* A request reaches the service of an operation that is not open only as  *)
(* its user, with a token that was neither revoked nor expired when it     *)
(* came - whatever is revoked, expires or fails while it is on its way.    *)
(***************************************************************************)
ServedAreKnown ==
  \A c \in Calls : AtStep(c, "service") =>
      IF call[c].op \in OpenOperations
      THEN call[c].user => ~call[c].late
      ELSE call[c].user /\ ~call[c].late

(***************************************************************************)
(* Nobody without a token is told to sign in by an open operation, other   *)
(* than UpdateFlag, whose handler wants to know who changes the flag.      *)
(***************************************************************************)
OpenToEverybody ==
  \A c \in Calls :
      call[c].op \in OpenOperations \ {"UpdateFlag"} /\ call[c].token = NoToken =>
          call[c].answer # "401"
=============================================================================
