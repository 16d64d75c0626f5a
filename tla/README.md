# SummitMate in TLA+

SummitMate is a hiking companion: a Flutter app (`src/app`) that works offline
and a Go API (`src/backend`) over PostgreSQL. This directory models the parts of
it in which several actors change the same state, checks them with TLC on small
instances and proves the main invariants with TLAPS.

Contents: [inventory](#1-inventory), [modules](#2-modules-and-what-they-stand-for),
[runs](#3-runs-and-bounds), [fairness and restrictions](#4-fairness-and-restrictions-of-the-surroundings),
[what the code does not keep](#5-what-the-documents-say-and-the-code-does-not-keep),
[proofs](#6-proofs), [what is left out](#7-not-modelled), [plan](#8-plan).

## 1. Inventory

| Component | State | Operations | Meets |
|---|---|---|---|
| Trips: ownership (`internal/trip`) | `trips`, `trip_members` | create, delete, invite, add, remove, leave, transfer, edit | group events, polls, messages (through `access_policy.go`) |
| Trips: what they are made of (same package) | fields and day names of `trips`, meal days, meals, itinerary | edit with or without a version, link days, replace meals | ownership: deletion cascades |
| Group events (`internal/groupevent`) | `group_events`, applications | create, update, delete, apply, cancel, decide, link to a trip | trips: every admission and removal goes through the trip service, inside the event's transaction |
| Likes and comments (same package) | likes, comments, two counters | toggle, add, delete | events, by cascade |
| Polls (`internal/interaction`) | polls, options, votes | create, delete, add option, vote | trips, for access |
| Messages (same package) | one table | add, edit, delete | trips, for access |
| Background mail (`pkg/email`) | a channel, goroutines | submit, send, shutdown | handlers of `internal/auth`; `internal/app` |
| Authentication (`internal/auth`, `middleware`, `pkg/cache`) | users, token blacklist, codes and counters in a cache | register, verify, log in and out, refresh, change password | mail, flags; the session of the app |
| Flags (`internal/flag`) | table and in-memory copy | read, set | authentication |
| Gear sets (`internal/gearset`) | header with totals, items, meals | create, update, delete | nothing |
| Libraries and gear of trips (`internal/library`, `internal/trip`) | three lists, references between them | add, change, remove, upload as a whole | each other, by reference |
| Heartbeats (`internal/heartbeat`) | counts of a user | raise | nothing |
| HTTP interface (`api/gen.go`, the `handler.go` files) | the context of a request | 94 operations: bind, authenticate, decode, call | every service |
| Synchronisation (`app/lib/infrastructure/services`) | local tables with `syncStatus` | the user's writes; push, pull, merge in cycles | the API, other devices |
| Session of the app (`auth_service.dart`, `auth_interceptor.dart`) | two stored tokens, a shared refresh | send, refresh, retry, validate, update the profile, log in and out | authentication |
| Weather import, favourites, logs | one table each | one statement per request | nothing |
| Screens | none of their own | | |

What is hard in it:

* **Check, then write.** A service reads rows outside its transaction, decides,
  and writes later at READ COMMITTED. Nothing is locked in between, so the trip
  may have changed hands, the event its link, the application its status.
* **Two services in one transaction.** An event's decision admits to a trip or
  removes from it; the trip service checks its own rules in the middle.
* **Cascades.** Deleting a trip removes members and clears links, deleting an event or
  a poll removes its applications, votes, comments; concurrent inserts refer to
  what is being deleted.
* **Awaits.** The app's cycle sends a row, waits, and marks it; the user edits
  meanwhile. Requests fail, answers get lost after the server has stored the
  row, the app is killed.
* **A shutdown with a timeout** closes a channel that handlers may still use.
* **Tokens expire, are revoked and exchanged** while requests that carry them are
  on their way, answers of an exchange get lost, and several requests of the app
  meet an expired token at once.
* **Memory beside the database.** Counters, codes and flags live in caches with
  entries that expire, a janitor that deletes by key what it saw expired, and
  locks that not every operation takes.
* **Uploads replace whole lists** with ids the client has chosen.

What makes each component correct is stated with it below; every hazard is
listed with its source line and its properties in `PROJECT.json`.

## 2. Modules and what they stand for

`MC*.tla` only add symmetry sets for TLC, where symmetry is sound: not for
liveness. `PROJECT.json` maps every definition
to its lines. Definitions that carry a mistake on purpose (`HandOverHalf`,
`KeepVotes`, ... next to the right one, "and with ...") are plausible bugs: each
property is checked to fail when the mistake replaces the right definition.

### TripMembers, TripOwnership

`owner` is `trips.user_id`, `role` is `trip_members.role_code`. Every operation
of `trip/service.go` on them is a `...Check` action, which stands for loading
the trip and the access checks, and a `...Write` action, which stands for the
statement or transaction that follows. `req` keeps what the request has read.
AddMember and InviteMemberByEmail are the same two steps; BatchAddMembers and
BatchRemoveMembers are `WithMembers` and `WithoutMembers` on sets, used by
GroupEvents. A check that fails answers with an error and is no step. `GiveUp`
is a request that ends without writing. A database rule the code relies on
(foreign key, ON CONFLICT DO NOTHING, cascade) is a helper with the migration's
line.

`everOwner` and `raced` are history variables: who has owned a trip, and the
trips something was written to after the reading the check relied on had become
untrue.

`TripOwnership` is the abstract promise about one trip: it has an owner, a crew
and guides, the owner is always on it, and operations are atomic. `TripMembers`
implements it trip by trip (`Promise(t)`, `KeepsPromise`), with `crew` = the
users with a member row and `guides` = those with role guide, up to the first
write to that trip on a stale reading. Requests may overlap: a check whose
reading still holds at its write amounts to an atomic operation.

### GroupEvents

Extends `TripMembers`: the trips, their requests and both variables of roles are
shared. A request to the event service has three steps:

1. `...Read`: the reads and checks outside the transaction;
2. `...Begin`: the first statement of the transaction up to the last check of
   the trip service, on the trip as it is then (the service's own
   `RequireOwner`, `MayRemove`); the set of members to remove and to admit is
   fixed here;
3. `...Commit`: the writes become visible together, or `Abandon`.

`RowFree` and the guard of `DeleteEventCommit` are the row locks the statements
take. `DeleteLinkedTrip` joins the deletion of a trip with ON DELETE SET NULL.
`UpdateEvent` is one step because what it checks (the host) never changes. A
decision carries any status, `OtherStatuses` standing for the strings the code does
not know: the handler decodes the body and validates nothing (`groupevent/handler.go:289`),
and the service writes what it gets and admits or removes only for two of them.

### EventCounters

Likes, comments, `like_count`, `comment_count`. A check step, then the write of
the row and the counter in one step: the statement that writes the row locks it,
and the counter is changed by `SET like_count = like_count - 1`, which locks the
event's row.

### PollVoting

A vote is modelled statement by statement (`VoteCount`, `VoteClear`,
`VoteInsert` or `VoteRemove`), because what the DELETE of a single-choice vote
sees decides. `req.seen` are the rows this DELETE took; a row somebody else
deleted first is taken out of it, as PostgreSQL does when the lock is released.
The other operations are a check of something that only a deletion changes, and
one statement, so they are one step.

### MailPool

The channel as a sequence of bounded length, the workers, a handler per mail,
and the main goroutine's way through a shutdown: `Signal`, `ServerStops` or
`ServerForced`, `CloseChannel`, `Exit`. A submit to the closed channel panics,
as in Go. `forced` is history: whether the wait for the handlers was cut short.

### ItemSync

One table of the device (`local`), the table of the server (`remote`), a cycle
of the engine (`sync`) and an operation of the user between its read and its
write (`form`). Dart switches at awaits only, so the steps are the code from one
await to the next:

| Code | Actions |
|---|---|
| `add`, `update`/`toggleCheckIn`, `delete` of the repository | `Add`; `Open`, `EditWrite`, `DeleteWrite` |
| `pushPending` | `PushStart`; per item `SendCreate`/`SendUpdate`/`SendDelete`/`SendFails`/`SendNothing`, then `Receive` |
| `_pullScope` | `Fetch`/`FetchFails`, `Sweep`, `RemoveSwept`, `EndSweep`, `MergeRead`, `MergeWrite` |
| `runSyncCycle` | the order of these, `EndCycle` |
| process killed | `Kill` |
| other devices, time | `RemoteWrite`, `RemoteDelete`, `Wait` |

A row is its status, its content and its time. A content is named by the time it
was written at, which is unique. `Send...` happens on the server; whether the
answer arrives is chosen there (`answered`), so an item may have been stored and
still end in `error`. `stored` is history: the contents the server has had.

### TripPlan

A trip without its members: `trip` has the day names, for each column the version
that set it, and the version (`updated_at`); `day`, `meal` and `item` are rows
with the trip they belong to, the linked day name and the meal day. `UpdateTrip`
is three steps: `UpdateTripCheck` loads the row, `UpdateTripWrite` is the UPDATE
with its condition on `updated_at` (`VersionHolds`) and takes the row lock,
`UpdateTripCommit` unlinks days and commits. All columns are written, those the
request does not set as they were loaded (`Written`); the requested day names are
assigned afterwards and stay in memory (`NamesWritten`), while the meal days are
unlinked by the requested ones (`Unlinked`). Meal days are a check and a write;
single statements are one step; `ReplaceMealsDelete` and `ReplaceMealsInsert` are
the two statements of a replaced list.

### Services and its parts

`Services` puts together modules that share neither state nor requests; the
variable `part` says which of them a behaviour is of, since interleaving them
would show nothing more. Each is a specification of its own:

| Module | Code | State | Steps worth knowing |
|---|---|---|---|
| GearSets | `internal/gearset` | `set`: owner, and the items the totals are over; `rowOf`: the set of a row | an update loads, writes the header (and holds it), deletes the rows it sees and inserts its own |
| GearLists | `internal/library`, `trip/service_gear.go` | `ownerOf`, `reference` | an upload is `ReplaceDelete` (what the statement sees and nobody has taken) and `ReplaceInsert` (which the primary keys can refuse, and `created_by` does for a library: `NameCreator`); the cascades of references |
| Heartbeats | `internal/heartbeat` | `viewStats` | read, which can fail and then passes for no row; upsert of the greater counts |
| Gateway | `api/gen.go`, every `handler.go`, `jwt_auth.go` | `call`: what a request has before it | two tables, `Routes` for the generated wrappers and `Handlers` for the code written by hand, give each operation its sequence of steps; `Bind`, `SetScopes`, `Authenticate`, `AskUser`, `Serve` take them one by one |
| RateLimits | `pkg/cache/memory.go`, the limits of `auth/service.go` | `count`, `running` windows, the lock | `IncrementLoad` and `IncrementStore` under the lock; `DeleteCounter` and the janitor without it |
| Registration | `auth/service.go` | `account`, `code` in the cache, `visit` | one step per call of database and cache: the code is set before the account exists and mailed after (`MailCode`), or its mail is dropped (`DropMail`) |
| FlagCache | `internal/flag` | `row`, `copy`, `loading` | `SetRow` and `SetCopy`; `LoadRead` and `LoadStore` under the lock |

Of the services behind it, `Gateway` has only what they do to tokens; other
requests of the same user are `Elsewhere`. `openapi.yaml` comes in as
`OpenOperations`, the operations it gives no security: the properties and two
facts about the tables (`ClosedOperationsAsk`, `TablesAgree`), which TLC evaluates,
compare the code with it.

### Tokens, AuthSession

`Tokens` is the server: minting, `ParseToken`, `JWTAuth`, the blacklist,
`RefreshCheck` and `RefreshWrite` (two calls, with reads between them), `Logout`,
the deletion of the account. A JWT has its times in seconds and nothing unique,
so a token is its type and its second. `Gateway` and `AuthSession` extend it.

`AuthSession` adds one device. `access` and `refresh` are the two keys of the
secure storage, each written by its own await; `job` is where the app is with a
request; `ongoing` is `_ongoingRefreshFuture`, which is set after an await and
cleared by whoever ends; `out` is the one log-out that runs.

| Code | Actions |
|---|---|
| `AuthInterceptor.onRequest`, the answer | `Begin`, `Send`; `CallAnswered`, `PasswordChanged`, `AccountDeleted`, `LoginAnswered`, `Refused`, `NoAnswer`; of a request tried again `RetryFails` |
| `onError`, `refreshToken` | `Renew` (join or read), `ReadRefresh`, `AskRefresh`, `RefreshTaken`/`RefreshDenied`, `RefreshAnswered`/`RefreshLost`, `RenewalFails` |
| `saveSession` | `SaveAccess`, `SaveRefresh` |
| `validateSession` | `SessionValid`, `StoreAgain` |
| `updateProfile` | `ProfileUpdated`, `TokenRead` or `TokenGone`, `StoreAgain` |
| `logout`, `clearAll` | `UserLogout`, `LogoutSend`, `LogoutPosted`, `ClearAccess`, `ClearRefresh` |
| process killed | `Kill`; what the server has begun goes on as `Orphaned` |

A request that is tried again (`Again`) has the new token in its header already, and
`Send` overwrites it only with a token that is stored: after a log-out it still goes
out with the new one, and a validation is answered and stores what it read.

The app with the server implements `TokensSpec`, the server with any clients
(`AppUsesTokens`).

### History variables

`everOwner`, `raced`, `stored`, `forced` above; `fresh` (Heartbeats: the read did
not fail and nobody has stored counts since), `passed` and `strayed` (RateLimits: attempts let
through in a window; counters the janitor has deleted after they were renewed),
`sent`, `dropped`, `misled` and `crossed` (Registration: the code mailed last; one
issued since whose mail was dropped; a late delete has hit a newer code; a code was set over one not mailed yet, or by an overtaken
registration), `tangled` (FlagCache: flags set by two requests at once or by one
that failed half way), `late` (Gateway: the token was of no use on arrival),
`exchanged`, `again`, `doubled` (Tokens: refresh tokens exchanged, exchanged
twice, and checked by two requests or not revoked), `left` and `upset`
(AuthSession: a log-out has ended; a disturbance no code makes good). No
guard reads them.

## 3. Runs and bounds

Each run finishes within four minutes (2 workers). The one run that fails is that
of section 5.

| Run | Bounds | Shows |
|---|---|---|
| TripMembers | 3 users, 1 trip, 2 requests | `NoMembersWithoutTrip`, `EditorsHaveOwned`, `OwnerLeads`; `KeepsPromise`: the refinement of `TripOwnership` |
| GroupPairs | 2 users, 1 trip, 1 event, 1 trip request and 2 event requests of which two run at a time, `MaxApps` 1, no status the code does not know | the trip invariants under composition (`TripsStaySound`), `ReferencesExist`, `OwnersDecide` |
| GroupSerial | 3 users, 2 trips, 1 event request, `MaxApps` 2, one status the code does not know | `ApprovalAdmits`, `LosingApprovalRevokes`, `RelinkMovesEverybody` |
| SyncCalm | 1 local id, 2 server ids, `MaxClock` 4, tolerance 1 | `SyncedWasStored`, `NoDoubles`, `PullKeepsEdits` |
| SyncSettles | 1 local id, 1 server id, `MaxClock` 3 | `Settles`; deadlock is checked |
| CounterUsers | 3 users, 2 comments, 3 requests, `MaxDrift` 2 | `CommentsCounted`, `LikesCounted` |
| PollPatient | 2 users, 2 polls, 3 options, 2 requests | `VotesHaveOptions`, `OneChoice` |
| MailEnds | 4 mails, 2 workers, room for 2 | `AcceptedIsSomewhere`, `ExitsDrained`, `LateSubmitsOnlyForced`; `MailsAreTried`, `ShutdownEnds` |
| PlanRaces | 1 trip, 2 meal days, 1 meal, 1 item, the day name D1, 2 columns, 2 requests, `MaxVersion` 3 | `LinksHaveNames`, `PlanBelongs`, `GuardedEditsRevertNothing` |
| Services, sets | 2 sets of 2 users, 3 items, 1 meal, 2 requests | `SetsAreWhole` |
| Services, lists | 1 user, 2 trips, 2 entries of each gear list, 1 meal, 2 uploads | `ReferencesAreListed`, `EntriesKeepOwners` |
| Services, beats | 1 user, 2 screens, counts to 2, 2 heartbeats | `CountsGrow` |
| Services, requests | all 94 operations, 1 request, tokens of 2 seconds | `ServedAreKnown`, `OpenToEverybody` |
| Services, limits | 2 counters, limit 2, 2 attempts | `AttemptsAreBounded` |
| Services, codes | 1 address, 3 codes, 2 requests | `SentCodeCounts` |
| Services, flags | 2 flags, 2 settings | `CopyAgrees` |
| SessionKept | 2 requests of the app, 3 begun in all, `MaxTime` 1, one failed revocation | `RotatedOnce`, `SessionStaysGood`, `SharersAreServed` |

The bounds and why they do:

* Users. Two are a host or owner and another; three add the target of a second
  transfer.
* Requests. Two requests are what a race needs; CounterUsers takes three, so
  that the third can come between the check and the write of both others.
  Where a component has proofs (section 6), its invariants hold for any number.
* `MaxApps` bounds the applications ever inserted. GroupSerial has two: two
  users approved at once, or one who applies again after a rejection.
  With requests that overlap one application is affordable; its properties speak
  of an application, a user and a trip at a time, and applications meet only in
  the list that DeleteEvent and UpdateTripLink read.
* Mails. Four are one for each worker and each place of the channel; a mail is
  refused already when the channel is full before a worker has taken one, so
  three submits at once meet a full channel.
* `MaxClock` bounds the writes and waits of people in a behaviour of ItemSync.
  Four suffice for create, push, edit there, edit here; with tolerance 1 times
  can be equal, within and beyond the tolerance.
* One request in Gateway: requests meet only in the blacklist, and `Elsewhere`
  revokes and deletes under the one that is followed.
* `MaxTime` 1 gives two seconds, an access token lasts one and a refresh token
  outlives it: tokens minted in one second and in different ones, expired access
  tokens with a refresh token that is good. `MaxBegun` 3 lets a request meet two
  others that overlap it.
* `MaxVersion` 3 is two edits of a trip after its creation, so that each of two
  requests can write after the other.
* Three codes: one for a registration, one for a resend, one more for the race of
  either with another.
* `MaxDrift` bounds how far below zero the like counter is followed, by refusing
  another toggle beyond it.
* Type invariants that are proved are left out of the runs, but for those of
  GroupEvents and ItemSync. Every inductive invariant of section 6 was checked by
  TLC on small instances before it was proved.
* Trips, events, polls and comments have ids that are never used twice, as the
  UUIDs of the database; a behaviour may therefore end when all are used, which
  is why most runs have `CHECK_DEADLOCK FALSE`. MailPool ends with the process.

## 4. Fairness and restrictions of the surroundings

* `FairSpec` of MailPool: workers go on (a mail has a timeout) and main goes on
  (so does `Server.Shutdown`). Nothing forces requests to arrive or a signal to
  come. `ShutdownEnds` and `MailsAreTried` hold under it. Weak fairness is
  enough because nothing disables a step of a worker but the worker.
* `FairSyncSpec` of ItemSync: a cycle goes on, and the timer of
  `reconfigureAutoSync` starts another. A device on which automatic
  synchronisation is switched off, or which stays offline, is outside it.
  `Settles` also assumes that from some time on requests are answered and the
  app is not killed (`<>[][Answered]_vars`); before that anything may happen.
  That everything settles includes the case of section 5 in which a row in
  error is marked synced without having been sent: `Settles` says the cycle
  comes to rest, `SyncedWasStored` says whether rest means stored.

Some properties hold only if the surroundings behave. The restriction is part of
the specification the run checks, or of the property, and what happens without it
is in section 5:

| Where | Restriction | Needed for |
|---|---|---|
| `OwnerLeads`, `KeepsPromise` (TripMembers) | trips to which nothing was written on a stale reading (`raced`) | themselves; the other invariants hold without |
| `SerialSpec` (GroupEvents) | one request at a time | `ApprovalAdmits`, `LosingApprovalRevokes`, `RelinkMovesEverybody` |
| `PairSpec` (GroupEvents) | at most two requests at a time | nothing: it keeps the run small; the theorems are of `GroupSpec`, any number of requests |
| `LosingApprovalRevokes` (GroupEvents) | approvals that end by cancellation, rejection or the deletion of the event, not by a status the code does not know | itself |
| `PatientSpec` (EventCounters, PollVoting) | a user waits for the answer to a toggle or a vote before the next | `LikesCounted`, `OneChoice` |
| `CalmSpec` (ItemSync) | the user's operation and the cycle never hold the same row (`Apart`); requests are answered and the app is not killed (`Answered`) | `SyncedWasStored`, `NoDoubles`, `PullKeepsEdits` |
| `LateSubmitsOnlyForced` (MailPool) | the handlers return within the shutdown timeout | itself |
| `GuardedEditsRevertNothing` (TripPlan) | edits that state the version they saw | itself |
| `CountsGrow` (Heartbeats) | heartbeats that read the counts, without an error, and during which the user had no other (`fresh`) | itself |
| `AttemptsAreBounded` (RateLimits) | counters the janitor has not deleted after a renewal (`strayed`) | itself |
| `SentCodeCounts` (Registration) | about the code issued last, which is the one mailed last unless a later mail was dropped (`LastIssued`); no code set over one not mailed yet, none by an overtaken registration (`crossed`), no late delete (`misled`) | itself |
| `CopyAgrees` (FlagCache) | flags not set by two requests at once, nor by one that failed half way, since the last load (`tangled`) | itself |
| `RotatedOnce` (Tokens) | refresh tokens only one request had checked before the revocation, which did not fail (`doubled`) | itself |
| `SessionStaysGood` (AuthSession) | the disturbances of `upset`: the answer of an exchange is lost, the app is killed between two writes or while a pair is not stored, a log-out overlaps a save, a validation (one about to be tried again too) or an update of the profile, two refreshes hold one token, a token is minted in the second of a revoked one | itself |
| `OpenToEverybody` (Gateway) | all but `UpdateFlag`, whose handler asks for the user | itself |

## 5. What the documents say and the code does not keep

The run `RefreshDenied` fails, and its counterexample is a legal behaviour:
`POST /auth/refresh` asks for no token (`CONTRACT.md:35`), but nothing in the app sets
`requiresAuth` to false, so the interceptor puts the stored access token on it
(`auth_interceptor.dart:28`). The access token is expired - that is why the app
refreshes - and `JWTAuth` answers 401 to any token that does not verify, on public
operations too (`jwt_auth.go:69`). The app then logs out with a refresh token that is
good for 14 days (`AUTH.md:74`). Only an access token that verifies, or none, lets a
refresh through.

Further behaviours that the models have, and because of which the restrictions of
section 4 are there or a property is not stated more strongly; no run is kept for
them.

Trips and events:

* Two overlapping transfers by one owner leave two leaders, one of whom does not own
  the trip (`trip/service.go:653`; `PERMISSIONS.md:26` has the leader own it).
* `RequireRole` looks the owner up among the members like everybody; an owner who
  applied to his own event loses his row when the event is deleted, and may no longer
  edit (`PERMISSIONS.md:31`, `access_policy.go:30`).
* `UpdateTrip` never stores the day names a request asks for, and unlinks the meal
  days of those that would be gone (`trip/service.go:204`).
* An edit without a version puts back every column it does not set as it was loaded.
* A meal day of another trip is not refused for a meal; a day that is linked between
  the check and the statement of its deletion is deleted.
* Overlapping votes of one user in a single-choice poll both stay
  (`poll_repository.go:333`).
* Two un-likes of one user overlap: one row is removed and `like_count` goes down
  by two, below zero even (`groupevent/repository.go:557`; `SCHEMA.md:723` has the
  application keep the counter).
* A user with a rejected application applies again, and the old one is approved:
  the unique key that `groupevent/service.go:193` and `SCHEMA.md:1056` speak of is
  not in the schema.
* `UpdateEvent` without a link takes the event off its trip and leaves the
  applicants on it; linking an event for the first time admits nobody who was
  approved before; an application approved between DeleteEvent's list and its
  commit leaves its user on the trip (`PERMISSIONS.md:171`, `:182`).
* A decision takes any string for its status: the handler passes on what it decoded
  (`groupevent/handler.go:289`), `Valid()` of the generated type is called by nobody
  (`gen.go:242`), and the service stores it (`groupevent/service.go:308`). An approved
  application set to `pending` ends the approval and leaves the applicant on the trip
  (`PERMISSIONS.md:182`), and its cancellation afterwards does not remove him either.

The app's synchronisation and the mail:

* A push that fails leaves a row in error, which the next cycle skips and marks
  synced, and a later pull overwrites (`itinerary_sync_adapter.dart:49`;
  `SYNC.md:73` has it retried).
* The user edits a row while it is being pushed: the answer marks the edit synced
  (`base_sync_adapter.dart:109`; `SYNC.md:67`).
* A row deleted on the server stays on a device that has it synced
  (`base_sync_adapter.dart:152`; `SYNC.md:96`).
* An older edit is pushed over a newer row of the server, because the push comes
  before the pull compares (`sync_engine.dart:80`; `SYNC.md:94`).
* A shutdown that runs into its timeout closes the pool while handlers may still
  submit (`app.go:129`; `worker_pool.go:65`).

Sessions, caches and lists:

* A wrong old password is answered 401 like an expired token: the app refreshes and
  tries again, until two refreshes fall into one second or the refresh fails, and it
  logs out.
* A refresh in the second its token was minted in hands out the same string and
  revokes it. `Login` does not look at `is_active`. `validateSession` writes back the
  access token it read at its start. `ChangePassword` revokes the access token the app
  goes on using. A refresh that fails in the network logs out.
* A request that is tried again keeps the new token in its header
  (`auth_interceptor.dart:89`). A validation tried again after a log-out is answered 200
  and writes an access token back, without a refresh token (`auth_service.dart:289`).
  One that fails the second time, in the network say, logs out
  (`auth_interceptor.dart:100`).
* An update of the profile that overlaps a log-out writes an access token back, or
  shows the user signed in with no token (`auth_service.dart:428`).
* `Login` counts every attempt, successful ones too, where `auth/service.go:43` speaks
  of failed ones. The janitor can delete a counter or a code that was renewed after
  it saw it expired.
* A registration that finds its address taken by an overlapping one has replaced the
  code of the other: the mailed code is invalid until a resend.
* A resend replaces the code, and when its mail is dropped it only logs that and
  answers success (`auth/service.go:326`): the code mailed before is invalid, and the
  user has no other until he asks again.
* Two overlapping settings of one flag can reach the copy in the other order, wrong
  until the next load. A flag that is no row gets only into the copy.
* `POST /logs` is listed without a token (`CONTRACT.md`), and its wrapper asks for one;
  `UpdateFlag` has no security entry, and its handler answers 401 without a user.
* Two overlapping heartbeats of one user can lower a count, and so does one whose read
  fails: any error passes for "no record", and what was reported is stored
  (`heartbeat/service.go:28`).
* Only an empty upload of a library succeeds. Any other leaves `created_by` empty
  (`library/mapper.go:40`, `:101`; `library/service.go:56`), which the UUID NOT NULL
  column refuses, so the whole upload is rolled back.
* Two overlapping uploads of one trip's gear can leave the union of both. An update of a gear set that was
  deleted meanwhile answers success if it has no rows.

## 6. Proofs

`*Proofs.tla` prove, for every value of the constants under their assumptions,
what the pass runs show for small ones. Each follows the same argument: an
inductive invariant, shown by TLC first, holds initially, is kept by every action
(one lemma or step per action, one step per conjunct the action can disturb) and
implies the properties.

| Module | Theorems | Inductive invariant, and why it is needed |
|---|---|---|
| GroupEventsProofs, trips | `TripTypeInvariant`, `DeletedTripsHaveNoMembers`, `EditRightsComeFromOwning`, `OwnerIsTheLeader`, `ServiceKeepsPromise` | `TripInv` adds `RequestsJustified` (what a request established when it checked: a removal is not of the owner seen, a transfer is by someone who owned the trip and found its target) and `OwnersRecorded`. Without the first a write could do anything. For the refinement, `OwnerLeads` gives that the former owner has a row to keep |
| GroupEventsProofs, events with trips | `GroupTypeInvariant`, `TripsStaySoundUnderEvents`, `NoDanglingReference`, `OwnersDecideMembership`; `ApprovalBringsMembership`, `RevocationEndsMembership`, `RelinkTakesEverybody` | `GroupInv` is `TripCore` (`TripInv` without `OwnerLeads`: an event can take the owner's row away), the references, and `WritesJustified`: whoever lets a running transaction admit or evict others has owned the trip in question. It has to hold of the transaction from its read on, since the trip may change owner before it writes. `SerialInv` adds what holds of a request that runs alone: event and application are as it read them (`ReadingFresh`), an id is one application's (`AppsNumbered`), and the sets it will admit and evict are exactly what the tables ask for (`WritesComplete`), none too few |
| EventCountersProofs | `CountersAreTyped`, `CommentCountIsExact`, `LikeCountIsNeverHigh`, `LikeCountIsExact` | `CounterInv` adds that rows belong to existing events and comments have authors; `PatientInv` adds that an un-like under way still has its like, which fails when the user has another toggle under way |
| PollVotingProofs | `PollsAreTyped`, `VotesAreForOptions`, `SingleChoiceHolds` | `PollInv` adds that ids are given once and options belong to one poll; `PatientInv` adds `OthersSeen`: the DELETE of a running vote has seen every other vote of its user |
| MailPoolProofs | `PoolIsTyped`, `NothingAcceptedIsLost`, `ShutdownDrains`, `LateSubmitsAfterTimeout` | `MailInv` adds that a mail is in the channel once and with one worker, that workers return only from a closed, empty channel, and that no handler is left when the server stopped in time |
| TripPlanProofs | `PlanIsTyped`, `LinksStayValid`, `NothingOutlivesItsTrip`, `GuardedEditsLoseNothing` | `PlanInv` adds `EditsLoaded` (an edit whose version still holds has loaded the row as it is, so what it writes back is what is there), `EditsExclude` (an UPDATE not yet committed holds the row) and `LinksLoaded` (a link about to be written is to a name its trip still has: no step takes a name away, because the requested names are never stored) |
| ServicesProofs, tables and requests | `ServicesAreTyped`, `SetsStayWhole`, `ReferencesStayListed`, `UploadsTakeNothingOver`, `HeartbeatsRaise`, `OnlyKnownAreServed` | One invariant for each part, kept by its own steps and untouched by the others. `SetsInv`: the rows of an update are those its header counts, and a header being written is held. `ListsInv`: what an upload has seen is its owner's. `BeatsInv`: a heartbeat nobody overtook and whose read did not fail has the current counts. `RequestsInv`: the service comes last, no token becomes good again, and a request to a closed operation is its user's or still has the question before it |
| ServicesProofs, what is kept in memory | `WindowsHoldTheLimit`, `MailedCodesVerify`, `CopiesAgree` | `LimitsInv`: who is about to store a counter has the lock, and what was let through is counted in the window or in what has been loaded. `CodesInv`: the account was seen before a code of it is compared; what was mailed or dropped belongs to an account that exists; unless they cross, one request at a time issues a code. `FlagsInv`: whoever sets a flag has written its row, and what a load has read is still so for the flags nobody sets |
| ServicesProofs, open operations | `OpenOperationsAreOpen` | `FreeAsksNobody`: nothing that is still before a request to an open operation asks for a user, its route never put the scopes on it, and without a token it is not answered 401. That the route and the handler of an open operation hold no such step follows from the definitions of the two tables |
| ItemSyncProofs | `SyncTypeInvariant`; `SyncedMeansStored`, `ItemsAreNotDoubled`, `PullKeepsTheEdits` | `SyncInv`, of every behaviour: what is at work is an item, and no version is of the future. `CalmInv` adds, for calm surroundings: what cycle and user hold is the row as it is (`HeldIsHere`); ids are given once and only an item to be created has one of the device (`IdsInUse`); only an item that is gone ends in error (`ErrorsAreGone`); an answer on its way says what the server did (`AnswersAreTrue`); what was fetched the server has had, and what was not fetched is gone (`FetchedIsKnown`); a version is of one item, and of two ids only while the answer to its creation is on its way (`OneItemEach`). Without the last, the insertion of a fetched row could double one that waits for its id |
| AuthSessionProofs | `TokensRotateOnce`, `AppUsesTokens`, `SessionIsTyped`, `SessionRotatesOnce`, `SharersStayServed`, `SessionKeepsGood` | `TokensInv` (server): what was exchanged is revoked or doubled, and a token two requests hold is doubled. `SenseInv` (app): where a request can be, given what it holds; the shared refresh is one that is under way; no token is from the future. `CalmInv`: until something is upset at most one request holds a refresh token for exchange, it is the stored one, a validation with a token in its header has one stored, and each partial state of the two keys has its reason |

`AppUsesTokens` is a refinement: the steps of the app with the server are steps of
`TokensSpec` or leave the server alone, so `SessionRotatesOnce` follows from
`TokensRotateOnce`, whatever the clients are.

The assumptions, all evaluated by TLC on the runs, are of three kinds:

* Null values are no data: `NobodyIsNoUser`, `NobodyWrites`, `NoneIsNoMail`,
  `NullsAreNoData`, `AbsentIsNoSet`, `NoEntryIsNoData`, `NobodyAssumption`,
  `AbsenceAssumption`, `NoFlagAssumption`, `NoTokenAssumption`,
  `NoRequestAssumption`, `NoTripIsNoTrip`. Of the same kind are `IdsDiffer` and
  `IdsAreNoWords` of ItemSync: `temp_` ids are no UUIDs, and neither is the word
  that stands for an answer.
* Numbers and sets are what they are used as: `CountedSetsAreFinite`,
  `DriftIsBounded`, `OwnerIsMember`, `ChannelIsBuffered`, `FieldSetsAreFields`,
  `VersionIsBounded`, `CountIsBounded`, `MaxAppsIsCount`, `ToleranceIsTime`,
  `MaxClockIsTime`, `LimitAssumption`, `ClockAssumption`,
  `BegunAssumption`. `ThereAreWorkers` is the configuration's: `SMTP_WORKER_COUNT`
  is not checked by the code, and a pool without workers would exit with mails in
  its channel.
* Facts about the two tables of Gateway, which are no parameters: `TablesAgree`,
  `PipelinesEnd`, `ClosedOperationsAsk`. TLC computes them from the tables, which
  is their proof. `OnlyKnownAreServed` uses the last two, `OpenOperationsAreOpen`
  the first.

Of the properties under a restriction, `LikeCountIsExact` and `SingleChoiceHolds`
are theorems of `PatientSpec`; `LikeCountIsNeverHigh`, `CommentCountIsExact` and
`VotesAreForOptions` hold of the unrestricted `Spec`. The three theorems on
approval, revocation and links are of `SerialSpec`, for any set of statuses, and
`RevocationEndsMembership` is about cancellation, rejection and deletion; those of
the synchronisation but `SyncTypeInvariant` are of `CalmSpec`; section 5 says what
happens otherwise. Where the restriction is a history variable, it is part of the
property, and the theorem is of the unrestricted specification.

Every safety invariant and action property of the passing runs is a theorem.
Only model-checked, because out of the prover's reach: liveness under fairness
(`MailsAreTried`, `ShutdownEnds`, `Settles`), ENABLED, and induction over data; no
module has a RECURSIVE operator. `GoodRefreshIsTaken` is the property that fails.

## 7. Not modelled

* `UpdateTripSnapshot`: a copy of the trip for display, which nothing decides by.
* `max_members`, `max_option_limit` and the deadline of a poll: stored, read by
  no code.
* The content of itinerary items, meals and entries of the libraries: replaced as a
  whole by a statement, decided by nowhere. Visibility and download key of a gear
  set, and what a reader sees between the statements of an update.
* The Redis variants of cache and blacklist, chosen by configuration: a service
  whose commands are atomic. There the limits let a request through when Redis
  does not answer.
* Messages, favourites, logs, weather: one statement per request behind an access
  check, or one keyed upsert per forecast. Their routes are in Gateway.
* The exchange of a refresh token is in Tokens and AuthSession; in Gateway it is an
  operation like others.
* In the app's session: registration, which stores what a log-in stores; the offline log-in, which changes no token; liveness of a request,
  which would need an assumption about the network at every step.
* `clearByTripId` and `saveAll` of the itinerary repository: no caller outside
  tests.
* `isCheckedIn` apart from the rest of an item: the model pushes the whole content.
* The other adapters of the synchronisation: that of gear repeats the one of items,
  that of trips is in the plan.
* Screens, widgets and the state they show.

## 8. Plan

In the order of what matters most; all but 8 are done.

1. TripMembers with TripOwnership: ownership and roles are what every other
   service asks. Proofs of the invariants.
2. GroupEvents: the composition with trips.
3. ItemSync: the offline-first cycle.
4. EventCounters, PollVoting, MailPool, each with proofs.
5. TripPlan: optimistic lock, day names, linked meal days, with proofs.
6. Tokens and AuthSession: rotation and revocation of refresh tokens with the
   shared refresh of the app, with proofs.
7. Services: gear, heartbeats, the way of a request, limits, codes, flags, with
   proofs.
8. Adapters of trips and items in one cycle of the engine: temporary trip ids under
   items, `getCloudTrips` over pending edits. An abstract store of items that
   ItemSync implements in calm surroundings.
9. Proofs: `ReferencesExist` and the trip invariants in the composition of
   GroupEvents with any number of requests, what its requests do when alone, the
   calm invariants of ItemSync, the open operations of Gateway.
