# A verification project for the dating service

This directory models the Go service of this repository (HTTP handlers, services, repositories over
PostgreSQL and Redis) in TLA+. TLC checks the modules on small instances; TLAPS proves the most
important properties for every value of the constants.

## 1. Inventory

| Component | State | Operations | Where it is hard | What makes it correct |
|---|---|---|---|---|
| Swipes and matches (`swipe_service.go`, `swipe_repository.go`) | tables `swipe`, `match` | `Swipe` -> `SaveSwipeAndMatch` | four statements of a READ COMMITTED transaction interleave with other requests; row waits; timestamps fixed at BEGIN; an answer of COMMIT that is lost | no invented match, no match missed without overlap, no deadlock, eligible authors and targets |
| Sessions and tokens (`auth_service.go`, `session_repository.go`, `auth_handler.go`, `middleware/auth.go`, `token.go`) | Redis hash + index per session; cookies of the browser; access tokens (stateless) | login, refresh, logout, authorize | each request is several Redis commands; resent commands; keys that expire between commands; answers out of order; a crash of Redis that loses a second of writes | a refresh token is exchanged once but for crashes, a login has one live session but for crashes, logout ends the session, revoked access is bounded |
| Registration (`user_repository.go`, `auth_service.go`) | tables `"user"`, `profile` | register, log in | registrations of one mailbox overlap; an answer of COMMIT is lost; the session may fail to open after the user was committed | one account per mailbox, nobody in another's account, everybody gets an answer |
| Profiles and photos (`profile_repository.go`, `profile_service.go`, `model/profile.go`) | tables `profile`, `profile_version`, `profile_tag`, `photo` | patch, add, delete, reorder | row lock, statement snapshots, stamps of transactions that waited, positions 1..6 | dense positions, no lost patch, the last photo of a complete profile stays |
| Search filter (`filter_repository.go`, `filter_service.go`) | table `search_filter` | get, set | writes without the profile's lock; limits written in Go and in SQL | completeness as `DeletePhoto` saw it, accepted filters fit the table |
| Photo files (`storage/photo.go`, `profile_service.go`) | files on disk | save, delete | no transaction common to files and rows | every row has its file; orphans only after failures |
| Feed (`profile_repository.go`, `profile_service.go`) | none of its own | next page by cursor | profiles change between pages | no repetition, no omission, SQL condition = `Missing` |
| Personality test (`psychotest_*.go`) and compatibility (`compatibility_service.go`) | tables `profile_psycho`, `user_answer` | submit, read own result, compare on a page of the feed | attempts overlap and are repeated; floating-point scores, boundaries, ties; the viewer's vector is older than the page | revisions without gap or collision, attempts not mixed, scores in range, the type the answers express |
| Validation (`validate.go`, `dto/*.go`) | none | checks of questionnaires, filters, dates | the same limits in Go and in CHECK constraints; 29 February; midnight between two computations of one age | accepted requests fit the tables, adults only, shown ages are those asked for |
| CORS, logging, recovery, configuration, migrations | none | wiring | - | table tests of the repository |

Interactions: the `Auth` middleware stands before every protected handler and reads nothing but the
access token; swipes read the author's profile in a transaction of their own and look the target
up in theirs; login reports `Missing` of the profile; the feed reads profiles, photos, filters, swipes
and results of the personality test; `DeletePhoto` reads the filter. PostgreSQL rows and their locks are the only state shared by
requests, Redis the only state shared by the requests of a session, and the browser's cookies connect
the answer of one request with the next one.

## 2. Modules

| Module | What it is |
|---|---|
| `SwipeLedger` | what saving a swipe promises: one step that replaces the decision and may create a match |
| `SwipeMatch` | the service and the transaction, one action per statement; implements `SwipeLedger` |
| `SwipeMatchProofs` | the inductive invariant and the theorems about `SwipeMatch` |
| `MCSwipeMatch` | symmetry for TLC |
| `SessionLedger` | what the store of sessions promises: opened by a login or in exchange for one that was spent, each ended in one step |
| `Sessions` | refresh sessions, access tokens and browsers, one action per Redis command; implements `SessionLedger` |
| `SessionsProofs` | the inductive invariant and the theorems about `Sessions` |
| `MCSessions` | symmetry and a bound for TLC |
| `ProfileFields` | the fields of a questionnaire, patches and how they apply |
| `ProfileLedger` | what the profile repository promises: one step per change on fields, gallery and filter |
| `ProfileStore` | the transactions on a profile, its photos and its filter; implements `ProfileLedger` |
| `ProfileStoreProofs` | lemmas about positions and galleries, the inductive invariant and the theorems about `ProfileStore` |
| `MCProfileStore` | symmetry for TLC |
| `Feed` | pages of the feed, and a viewer who scrolls through them |
| `PhotoFiles` | files of photos beside their rows |
| `MCFeed`, `MCPhotoFiles` | values of constants, symmetry for TLC |
| `FeedProofs` | the inductive invariant and the theorems about `Feed` |
| `PhotoFilesProofs` | the inductive invariant and the theorems about `PhotoFiles` |
| `Personality` | the arithmetic of the personality test: answers, scores, types, compatibility |
| `PsychoTest` | attempts at the test, reads of the result and pages that compare results |
| `PsychoTestProofs` | lemmas about scores, types and compatibility, the inductive invariant and the theorems about `PsychoTest` |
| `MCPsychoTest` | answers to submit |
| `Accounts` | registration and login, with people who try again |
| `AccountsProofs` | the inductive invariant and the theorems about `Accounts` |
| `Validation` | the checks of the API, the constraints of the tables, and the calendar |
| `Onboarding` | a questionnaire and a filter on their way through the checks to a card of the feed, day by day |
| `OnboardingProofs` | lemmas about ages and texts, the inductive invariant and the theorems about `Onboarding` |
| `MCAccounts`, `MCOnboarding` | values of constants |

### SwipeMatch

A request slot `r` is a goroutine. `pc[r]` is the next statement; `input[r]` the author, target and
action; `tx[r]` what its transaction knows (`started` is CURRENT_TIMESTAMP, `counter` whether the
SELECT saw the counter-like, `made` whether the INSERT wrote the match). `swipe` and `match` are the
*committed* rows, which is all READ COMMITTED lets others see; uncommitted rows are read off `pc`
(`HoldsSwipe`, `HoldsMatch`), and a writer of the same row waits for them. `profile[u]` is the life
cycle of the profile as far as swipes see it.

| Action | Code |
|---|---|
| `Receive` | `SwipeHandler.Swipe`, the self-swipe check |
| `LoadAuthor` | `GetByUserIDCurrentProfile` and `Missing` in `SwipeService.Swipe` |
| `Begin`, `FindTarget`, `InsertSwipe` | `BeginTx`, `SELECT id FROM profile`, `INSERT INTO swipe ... ON CONFLICT DO UPDATE` and the table's CHECK of its dates |
| `FindCounter`, `InsertMatch` | the snapshot and the insertion of the one statement `INSERT INTO match ... SELECT ... ON CONFLICT DO NOTHING`; two actions because the insertion may wait for another transaction long after the snapshot |
| `Commit`, `Fail` | `tx.Commit` (its answer may be lost), and every error path, which ends in `tx.Rollback` |
| `Register`, `CompleteProfile`, `LapseProfile` | what the rest of the system does to profiles |

Assumed: the database clock advances between transactions (two with the same stamp behave like two in
either order); the FOR KEY SHARE locks of foreign keys only delay a swipe while the profile row is locked,
so they are left out; profiles and users are never deleted (no code does it).

### Sessions

A session of the model stands for its id, its refresh token and the access token issued with it:
`openSession` draws them together and the handler sets both cookies together. `session` is what Redis
holds (`Present`: neither key expired), `durable` what its append-only file holds. `jar[c]` is the cookie
of browser `c`. `accessUntil` is the `exp` claim.

| Action | Code |
|---|---|
| `Send` | the browser sends its cookie; the checks for a missing one in `AuthHandler` and the services |
| `GetIndex`, `GetFields` | `GET` and `HGETALL` of `GetByTokenHash`, and the check of `Revoked` and `ExpiresAt` in `Refresh` |
| `RunScript` | the Lua script of `Revoke`; the reply arrives, is lost and the command resent, or is lost for good |
| `CreateSession`, `IssueAccess` | `openSession`: `Create` in MULTI/EXEC, then `Issue` |
| `Authorize` | the `Auth` middleware: signature and expiry of the access token, and nothing else |
| `Fail`, `Return` | error paths; the answer with its `Set-Cookie` headers reaches the browser in any order, or never |
| `Tick`, `Sync`, `CrashRedis` | time; `appendfsync everysec`; a crash that goes back to what was synced |

Operation `login` stands for registration too: both open a session and touch no other. Passwords are not
modelled (a wrong one changes nothing). A copy of `Create` that the client library resends is executed
before any later command of the request, and repeats the same writes. `Sync` may happen at any time and
the file may be arbitrarily old, which covers more than one second of loss. Under the refinement of `SessionLedger` a session
is active while its hash says so, and what a request *owes* is the session it has revoked for a refresh and
not yet replaced (`Owed`); look-ups, lost replies, cookies and access tokens are stutters, and a key expires by the passing of time. A cookie that has expired in the
browser is not sent; the model sends it, and the service answers the same way.

### ProfileStore

One profile is enough: profiles of different users share no row that these transactions write. `versions`, `photo`,
`filter` and `updated` are the committed rows. Every writing method of `ProfileRepo` has the same shape, so a
request goes through the same steps whatever it asks for:

| Action | Code |
|---|---|
| `Receive` | the handlers of `PATCH /profile/me`, `POST`, `DELETE`, `PUT /profile/me/photos`, `PUT /filters/me`, with what they and `validate` let through |
| `Begin` | `BeginTx`, or the single statement of the filter: `CURRENT_TIMESTAMP` is fixed |
| `Lock`, `Load` | `SELECT ... FOR UPDATE` of the profile row, then the SELECTs of `loadProfileByUserID`, whose snapshots are newer than the lock |
| `Write` | the decision in memory (unknown tag, limit of photos, last photo, order) and the statements, with the CHECK of dates on `photo` |
| `Commit` | what the transaction publishes, `touchProfile` included; its answer may be lost |
| `InsertFilter`, `UpdateFilter` | `FilterRepo.Upsert`, which takes no lock on the profile |
| `Fail` | every error path; the deferred `Rollback` |

A transaction's own writes are computed at `Commit` from what it has read and its input: while it holds the row
nobody else can write these rows, and others do not see them before. `PositionsDense` is what allows the UNIQUE
constraint of positions to be left out of the model: it is checked at the end of a statement, and the statements of
one request only ever leave a gap (the DELETE, which the UPDATE then closes). The tags of a version are one optional field, which may be "unknown" to the dictionary; the other
values are abstract. The values of the filter are in `Onboarding`: here only its presence decides completeness, and only its
dates can refuse an upsert.

### Feed

One viewer scrolls; `has[u]`, `traits[u]` are what the profile of `u` consists of, `filter` the viewer's filter. A page takes two
transactions, so `LoadViewer` (`GetByUserIDCurrentProfile` and `Missing` in `GetNextFeed`) and `Query` (the REPEATABLE READ
snapshot of `GetProfilesByCursorAndLimit`, and the loop that drops profiles which miss something) are two actions, and
profiles change between them and between pages. `CompleteInSQL` and `Missing` are written out separately, as they are in the
code. `IsPage` describes `ORDER BY user_id LIMIT limit + 1` and the cursor taken from it without an order of evaluation.
`Open`, `Deliver` and `AskAgain` are the client of the API documentation: it follows `next_cursor`, and asks for
the same page again when an answer is lost. `liked_me`, tags and photos of an item come from the same snapshot and
decide nothing; compatibility is in `PsychoTest`. The age of a profile is part of its `traits`; days go by in `Onboarding`.

### PhotoFiles

`file[k]` is what is on disk under key `k`, `row` the keys table `photo` refers to. One action per system call of `Save` and
`Delete`, and one for the repository call between them, which either takes effect or not and is either reported so or
not. `deleteFile` runs with a context that is never cancelled, so only a failure of the disk or of the process stops it.
The operating system itself does not crash in the model (the code never calls `Sync`).

### Personality and PsychoTest

Doubles are replaced by integers: a score is a whole number of twelfths, a coordinate of a prototype of tenths, and the square of
their difference of 1/3600. Of the 13^5 vectors of scores, 27150 lie at exactly the same distance from two prototypes or more;
there the double that the build rounds to the smaller distance decides, and for 10098 of them it is not the first prototype of the
table. `Nearest` is therefore a set, and `Submit` takes any member of it. Everywhere else the gap between two squared distances is at
least 1/3600, which no rounding of five products bridges.

| Action | Code |
|---|---|
| `Submit` | the handler, `ToModel`, and `SubmitTestAnswers` up to the repository: a refusal, or scores and type |
| `Lock` | `BeginTx` and `SELECT id FROM profile ... FOR UPDATE` |
| `Number`, `Insert` | the one statement `INSERT ... SELECT MAX(revision) + 1`: the snapshot, then the insertion, which may wait for a transaction with the same key |
| `InsertAnswers`, `Commit` | `INSERT INTO user_answer` with its key and CHECKs; the stamp of the profile and `COMMIT`, whose answer may be lost |
| `MyResult`, `Read` | `GET /tests/results/me`: `GetTestResult` |
| `OpenFeed`, `LoadViewer`, `Query` | `GET /feed`: the viewer's vector, then the vectors of the page in a later snapshot, and `CalculateDistance` for each pair |
| `Fail` | every error path, which ends in the deferred `Rollback` |

Every profile has its row from registration on, so the lookup of the profile never fails in the model. Nothing but
`SaveTestResult` writes the two tables, and it fills in all five scores, so the conditions on NULL scores hold of every row.
`Expresses` states, in terms of answers alone, what it means to take a prototype's side in every trait; `TypeFits` compares that with
the type that was stored.

### Accounts

A client is a person with a form: an address in some spelling and a password. `form[c]` does not change but for the spelling
(`Login`), so an account can be compared with the form of whoever registered it. `pending` are the transactions that have
inserted an address and not ended; the next one to insert the same address waits for them.

| Action | Code |
|---|---|
| `Register` | `AuthHandler.Register`: `Normalize`, `Validate`, and `Hash`, which refuses what bcrypt does |
| `InsertUser`, `InsertProfile`, `Commit` | the statements of `CreateUser`; a violated UNIQUE is 409, and the client logs in |
| `LoseCommit` | the answer of `COMMIT` is lost: the account is there, the client is told 500 |
| `OpenSession`, `NotOpened` | `openSession`; if it fails after registration the answer is 201 without cookies |
| `Login`, `FindUser` | `AuthHandler.Login`, with the address in any spelling; `GetUserByEmail` and `Matches` |
| `Fail` | any error or lost answer: the transaction is rolled back and the client sends the request again |

The pattern of addresses is left out: a form whose address does not match it is like one with a weak password. People do not
change their passwords or give up, and the code has no operation that changes or deletes an account.

### Validation and Onboarding

A text is a sequence of kinds of characters, with white space around it counted; a date is a year, a month and a day; a body of a
request is a function on the fields that are there, with `Null` for null. `Valid` and `ValidFilter` are the checks in Go,
`RowFits` and `FilterFits` the CHECK constraints, written out on their own; `Store` and `SetFilter` set `failed` where the first
accept what the second refuse. `OldEnough` adds years to the birth date and normalizes like `AddDate`, `AgeAt` compares
months and days, `SqlAge` borrows days and months like `age()` of PostgreSQL.

| Action | Code |
|---|---|
| `Midnight` | the clock; Go and the database of the service share a date, because the query is given the date of the process |
| `Submit` | `ProfileHandler.Update` and `ToPatch`, on the day the request arrives |
| `Store`, `Abort` | the transaction of `PatchProfile` (its steps are in `ProfileStore`), possibly days later |
| `SetFilter` | `PUT /filters/me`: `ToModel` and the upsert |
| `AskFeed`, `Query`, `Show` | `GetNextFeed`: the date that is passed to the query, the condition on the age, and `AgeAt` with a clock read again for each card |

`Show` happens only up to one midnight after `AskFeed`: `WriteTimeout` (`main.go`, 10 s by `config.go`) cuts off an answer that takes
longer, and two midnights are a day apart. Of a page only one card is followed, and of the conditions of its query only the age,
the one that can change without a write.

## 3. Runs

| Run | Question | Bounds, and why they are enough |
|---|---|---|
| `SwipeMatch` | are matches sound, and complete up to overlap? does the transaction implement the ledger? | 2 users, 3 slots, 3 swipes (`MaxRequests`): two swipes that race, and a third that blocks, replaces or is repeated; a pair has only two swipe rows and one match row |
| `SwipeMatchLive` | does every wait end? | 2 swipes of 2 users: a circular wait needs two rows and two transactions |
| `Sessions` | exchange once, how far a login may fork, logout, who is refused, expiry in the middle of a request, access after revocation, what a crash of Redis may cost; is every command one step of the ledger? | 3 sessions of one login (constraint `OneLogin`): the parent and two children, of which only a crash allows the second, or a chain of two; 2 requests at a time, 1 resend, 1 crash, 3 instants with both lifetimes 1: a command may fall before, at and after the expiry |
| `ProfileStore` | do positions stay dense? are patches lost? who may make a complete profile incomplete? when may a change be refused for its dates? is each transaction one step of the ledger? | 4 requests, 2 at a time: a patch, a photo and a filter complete the profile, and a deletion overlaps the last of them; or uploads, a deletion and a reorder with a second request inside each; 3 photos and a limit of 2, so the third upload meets it |
| `Feed` | is a profile repeated, skipped or dropped? | 3 profiles besides the viewer's, pages of 1, 3 changes: a profile appears, lapses or changes sides before, at and after the cursor, and once more |
| `PhotoFiles` | what can a failure between disk and database leave behind? | 3 keys, 3 requests: an upload, a deletion of it and another upload; failures are not bounded |
| `PsychoTest` | do revisions collide, attempts mix, readers see old results? does the type fit the answers? does every wait end? | 2 users, 2 requests at a time, 3 in all: two attempts that overlap and a reader, or an attempt between the two transactions of a page; answers of a KEEPER, answers halfway to ANCHOR, and five that are refused in five ways |
| `Accounts` | one account per mailbox, who is let in, does everybody get an answer? | 3 clients: two that share a mailbox, in two spellings, with one password or two, and a third; 2 failures: a lost COMMIT and another one in what follows it |
| `Onboarding` | do accepted values fit the tables, are stored birth dates adults', are shown ages those asked for? | birth dates on and around 29 February 2008 and in 2010, days around the end of February 2026 (common) and 2028 (leap), 3 midnights, 2 patches; each field on both sides of its limits |

`MaxRequests`, `MaxTime`, `MaxResends`, `MaxCrashes`, `MaxChanges`, `MaxFailures`, `MaxNights`, `MaxPatches`, the constraint
`OneLogin` and the finite sets are the only bounds; the theorems remove all of them. `CHECK_DEADLOCK FALSE` is there because a bounded number of requests, sessions or
instants lets the system come to rest. Symmetry is over slots, sessions and browsers, which the
specifications never order; user ids are ordered by `match` and are not symmetric. The runs that check
liveness use no symmetry.

Every property has a mutant in `PROJECT.json`: an operator in the module, commented "Mistake", that a
plausible edit of the code would produce, and with which the property fails.

Fairness: `EveryRequestAnswered` (of `SwipeMatch` and of `PsychoTest`) assumes weak fairness of `Proceed(r)`, everything a
request does by itself once it is received: a goroutine is scheduled again, and PostgreSQL wakes a waiter when the row is
released. `EveryoneGetsAnAnswer` assumes the same of each client of `Accounts`, whose steps include sending the request again
after a failure, as people do; the number of failures is bounded, without a fairness assumption on them. Nothing is assumed of
failures, or of new requests arriving.

### Where documentation and code disagree

Each of these runs checks one sentence of the documentation, and TLC finds a behaviour of the code against it.

| Run | The sentence | What happens |
|---|---|---|
| `MutualLikesMatched` | `relations.md:1067`: lock both users, save, look for the counter-like, create the match | two likes that overlap miss each other; both stand and there is no match |
| `LogoutEndsLogin` | `openapi.yaml:190`, `:193`: the current session is ended | a refresh that won the race leaves a live session behind the 204 |
| `LastPhotoStays` | `error.go:27`: the only photo of a complete profile cannot be deleted | the filter that completes the profile is inserted, without the row lock, after `DeletePhoto` found it missing |

Three more sentences hold only with the exception a passing run states exactly: an access token is accepted after its session
was revoked (`openapi.yaml:207`), for less than `AccessTTL` (`StaleAccessBounded`); the call that revoked a session is told otherwise
(`auth_service.go:29`) only when the script was sent twice (`RevokerServedUnlessResent`); an old refresh token is accepted again
(`openapi.yaml:150`) only after a crash of Redis, and once (`ExchangedOnce`).

## 4. Proofs

The eight modules `*Proofs` prove, for any users,
sessions, browsers, pages, files, photos, fields, forms, answers, requests and filters, and any numbers of concurrent requests, resends, crashes, failures and
midnights, every safety property the runs of their modules check, the three refinements included, and some facts that TLC
could only sample: that no wait is circular, that every page exists, that files and histories are never rewritten. Assumptions are those stated in
the modules: user ids are integers (positive in `Feed`, which also needs `Users` finite, a positive `Limit` and `Lacks` among the
parts of a profile), `NoKey` is not a key, sessions and slots are finite sets, `NoSession` is not a session,
forms have an address and a password, bodies of requests are what decoding leaves of JSON (`RequestsDecoded`), submissions hold integers (`SubmissionsTyped`), first days are days of the calendar,
there is a profile to take the test, `Photos` is finite, `null` is not a value of a field, and bounds are natural numbers.

*SwipeMatch.* No property is inductive: the match is inserted on what a transaction remembers. The
invariant `IInv` adds what every transaction in flight knows: that its author was complete and its target existed
when it passed these steps, that `tx[r].started` lies before `clock`, that `counter` implies the
counter-like was once committed, and that a transaction past `FindCounter` whose counter-like was
committed before it began has seen it. `SerialLikesMatch` then follows at `Commit`. `Implements` maps every
`Commit` to `Like` or `Dislike` of the ledger and every other action to a stutter. `WaitsEnd` is the safety half of
`EveryRequestAnswered`: whoever waits waits for one other request only, and that one waits for nobody who waits, so a chain of waits has
at most two links and cannot close. It rests on `MakerInv`: no two transactions that are
about to commit have inserted the match of the same pair.

*Sessions.* `ExchangedOnce` counts the sessions opened from a token; what is inductive is a budget: sessions opened,
plus refreshes that have revoked it and are about to open one, plus one while it is active, never exceed
`1 + crashes`. A refresh moves one unit from the third to the second, opening moves it to the first, and a crash
adds at most one. `ChainInv` is the same idea along a login: its active sessions and the refreshes under way never exceed
`2^crashes`, nor do the sessions the file on disk would bring back (`Spared`), so that a crash, which at worst puts the one beside the
other, doubles the bound and nothing else moves it; with no crash a login has one live session (`ForksAreCrashes`). `PowerOfTwo` derives that
`2^n` is a natural number from the cardinality of a set of subsets, because the provers know nothing of powers.
`LogoutRevokes` and `RevokedInTime`, which says that a session is revoked before its end, are inductive together with `TimeInv`;
`StaleAccessBounded` needs that nobody can revoke a session before its access token has been issued (`SecretInv`). `Implements` is where the budget
is used once more: the session a request opens is new, and the one it opens it for is the one it owes.

*Feed.* `NoRepeats` and `NothingSkipped` both speak of the cursor, so the invariant does: everything shown lies at or before it, with
every steady user (`ShownInv`); everything on the page lies behind it, and no steady user is missing between it and the next
cursor (`PageInv`). Changes of profiles only take users out of `steady`. `PageHolds` is the lemma about `LIMIT limit + 1`: without a
next cursor a page holds all that is left, with one all up to it; it counts, and needs that `Users` is finite. `SameCompleteness`
shows `Missing` and the condition of the SELECT to be the same predicate. `OnePage` shows that `IsPage`, which describes the
answer, is a function: for every set of selected users and every cursor there is one page and one `next_cursor`. It exists by a minimal
counterexample in the size of the set (`FirstExists`: take the last user away), and is unique because two pages of the same
length that are both initial in the same order are equal. `ScrollGoesOn` is the reason why a client that follows `next_cursor` ends: each page
it takes moves its cursor forward, to the last profile of that page, over exactly `Limit` profiles it had not seen (`PagesFull`).

*PhotoFiles.* Before an upload has added its row, every other request that names its key is a deletion that will find no row
(`OwnInv`); `StepInv` says what each step may rely on: the file is whole when the row is added, and the row is gone when the file is
removed, except for a row whose COMMIT was reported as failed. `FilesNeverChange` is an action property: a file that is whole stays so until it
is removed, and only the one upload that drew its key ever writes it, so a reader of a URL sees all of one photo or nothing.

*Accounts.* An account is what its client has filled in, in some spelling (`FormInv`); among those who hold an address in a transaction
and those who have it in the table there is one per address (`AddressInv`), which is the unique index and its waits; `StepInv` says what
each step relies on: past registration the mailbox has an account, and before the cookies it is the right one. `MoveKeepsInv` is the lemma
for the steps that change neither accounts nor forms. `WaitsEnd`: a registration waits for at most one other, of the same mailbox, which
is past its INSERT and waits for nobody; a mailbox stays in `pending` only while its client is still at it.

*Onboarding.* `SqlAgeIsAgeAt` and `OldEnoughIsAge` show that the three ways of counting years agree on every day for every
birth date, the 29th of February included; `AgeGrowsByOne` that a midnight adds at most one. `NameFits`, `WorkFits` and `AppliedFits` lead from
the checks in Go to the constraints of the table. The invariant says that what waits to be stored would still pass its checks today
(`PatchInv`, by `ValidStays`), that the stored row fits its constraints and is an adult's (`RowInv`), that the ends of a stored filter are
ages (`FilterInv`), and that the date of a query is today but for the midnights since (`PageInv`).

*PsychoTest.* `EveryQuestionAnswered` counts: an injection of ten questions into ten is a surjection, so scores lie in 0..12
(`AcceptedScoresValid`). `ExpressedIsNearest` compares the distances coordinate by coordinate: answers on the side of a prototype are
nearer to it than to any other value of a prototype in every trait, and two prototypes differ in one. In the invariant an attempt has the lock
of its profile from `Number` to `Commit`, so the revision it has computed stays the next one (`Writer`), and what there was when a reader
came is still there (`Reader`); every row is what some accepted attempt gives (`RowsComputed`). `SomeTypeIsNearest` shows that `Nearest` has a member for
every vector of scores, so `Submit` never lacks a type to store. `WaitsEnd` needs that a lock is held by
an attempt at work on its profile, never one an error has left behind (`HolderWrites`), and that every SELECT of the next step has
a row to return (`CurrentExists`). `RevisionsCount` is an
action property: rows are only added, and the revision of a new one is the number of rows plus one; the invariant behind it says that the
revisions of a user are in one-to-one correspondence with 1..n, so a maximum and a count are the same number. `ScoresFollowAnswers` leads
from rows to answers: the order in which answers are submitted does not matter, and two attempts stored with the same answers have
the same scores and compatibility 60, its maximum.

*ProfileStore.* One transaction at most is behind the row lock (`Exclusive`), so what it has read is what there is when it commits, but for
a filter that has come since, and then it began before (`SeenCurrent`); a request at `commit` has not been refused for that. `AddedDense`,
`DeletedDense` and `ReorderedDense` are the lemmas about positions; `PatchOnCurrent` and `LapseNeedsRace` follow at `Commit`,
`StaleTimeNeedsOverlap` from `DatesInv`. For the refinement, `EveryPlaceTaken` counts again: as many photos with different positions leave no position
out, so the gallery is the sequence of the photos (`GalleryPlaces`), an upload appends to it (`AddIsAppend`), and a deletion takes one place out
(`DeleteIsRemove`). Two more theorems are what the other modules take from this one: `OnlyPhotosLapse`, that no step empties a required
field or removes a filter, so a complete profile becomes incomplete only by losing its last photo (`LapseProfile` of `SwipeMatch`, the changes
of `Feed`); and `LimitHolds`, that at most `MaxPhotos` photos are stored and a gallery that is not empty has one main photo, the first.

Only model-checked: liveness (`EveryRequestAnswered` of two modules, `EveryoneGetsAnAnswer`) and the counterexample runs. The prover
handles neither fairness nor ENABLED, so of liveness the theorems have what is safety: the three theorems `WaitsEnd` (no
circular wait) and, in `PsychoTest`, that a row a statement looks for is there. Nor can it
instantiate the library's theorems of induction, which take an operator as a parameter; where a proof needs
induction over a finite set or the natural numbers it takes a minimal counterexample from a well-founded order instead
(`LastExists`, `FirstExists`, `LeastNatural`, `LatestExists`). What a fold computes over a text for every text, such as the spaces
`Validation` trims, is only model-checked; its theorems use what the result satisfies.

## 5. Not modelled, and the plan

Next, in this order: a ledger of accounts (one step per account, one account per mailbox) that `Accounts` implements, with the waits
and the violated UNIQUE as stutters; a history of results per user (a sequence to which an attempt appends) that `PsychoTest`
implements, for which `RevisionsCount` is the main lemma; and for `Onboarding` the action property that a stored birth date keeps fitting
its CHECK as days go by.

Left out, and why:

- The pattern of e-mail addresses, the class rules of passwords, the detection of photo formats and the decoding of JSON: single decisions on
  strings with table tests; written in TLA+ they would be the same code again. The modules take them as given, in the sets of
  inputs.
- U+0000 in a text: it passes every check and PostgreSQL refuses it, so the request is answered with 500; the checks do not tell this
  character from others, and neither do the kinds of characters of `Validation`.
- CORS, logging and recovery middleware: each request passes through on its own and nothing is kept between two of them.
- Configuration and start-up: I/O; the server has no graceful shutdown, and the modules stop requests at any step instead.
- Migrations and seed data: the constraints of the tables are modelled where a statement meets them; the scripts do not run beside the
  service.
- Texts: the questionnaire of the test, descriptions of types, messages of errors, URLs of photos.
