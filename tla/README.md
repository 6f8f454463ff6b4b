# Hotel Drogon: specification and proofs

TLA+ modules that model Hotel Drogon (a Drogon/C++ back end over MariaDB and Redis with
a React front end), the TLC configurations that check them on small instances, and
theorems about them checked by TLAPS. Paths here are relative to the repository, so
`src/services/HomesService.cpp` is the C++ service and `frontend/src/` the React program;
`PROJECT.json` writes `src/` in front of them.

## The system

| Component | State it keeps | Operations | What is hard |
|---|---|---|---|
| Homes: layouts and widgets (`HomesService`, `HomesController`) | rows of `phpretro_myhabbo_layouts` with a UNIQUE slot index, `phpretro_myhabbo_homes.version`, `placed` of background items | load, save, add a widget, remove a widget | every request is a chain of callbacks over several statements; saves are transactions with row locks; the other routes are not |
| `TxnSteps` (in `HomesService.cpp`) | the statements of one transaction, `done_`, `aborting_` | advance, abort, commit by dropping the last reference, a 15 s timer | the timer and the database answer on different threads |
| Homes: edit lock | one Redis key per home, `<holder>:<token>`, 120 s | acquire, verify, release | acquire and release are several commands; the key expires between them |
| Home editor (`HomePage.tsx`, `useHomes.ts`) | the cached layout, the edit session, drags under way, messages | drag, save, roll back, add, remove, open and close the editor | the cache is changed before the server agrees, by several requests at once |
| SSO tickets (`UserAccountService`) | `phpretro_sso_tickets` (one row per user), `users.auth_ticket` | issue, void at logout, void by the timer | two tables written in two statements by three actors |
| Account pages (`AccountPage.tsx`, `useAccount.ts`, `pages/account/`) | the query cache, the route, the call under way | sign in, restore, step up, sign out, enter the client | who is signed in is known from answers that may be old |
| Sessions (`SessionManager`, `AuthController`, `SecurityController`) | Redis `session:user:*`, the remember token of a user | create, flag, prove, destroy | read-modify-write of a document another request deletes |
| Accounts and password reset (`UserAccountService`, `AccountController`, `ProfilePage.tsx`, `ForgotPasswordPage.tsx`) | `users` columns, Redis reset keys, forms and their handlers | change motto, figure, address, password; mail, take and use a link | two calls of one form; check, then write; a link taken before it is used |
| Content administration (`ContentService`, `AdminContentController`, `pages/admin/`) | five tables of content, the cached list, a form | list, create, edit, delete | a save under way while the form moves on to another row |
| Housekeeping panel (`AdminLayout.tsx`, `HousekeepingLoginPage.tsx`, `AdminSettingsPage.tsx`) | two sessions, two queries about them, settings | sign in and out, the gate, save settings key by key | answers of another visitor in the cache; one key of several failing |
| Sign-in throttle (`LoginThrottle`) | Redis counters with a window | check, record a failure, clear | check and count are apart; INCR and EXPIRE are apart |
| Client entry, credits (`CreditsController`, `TransactionService`) | none of its own | reads joined by a counter | callbacks on several threads |
| Guilds (`GuildService`) | membership rows | join, leave | upserts |
| Startup (`main.cpp`, `Readiness`) | the ready flag, the schema | a sequential chain, then serve | requests during startup |
| Bans, reports, audit, mail, filters, utilities, worker, public pages | rows written once, or none | one statement, or none | little |

Browsers call the controllers; a controller calls services; a service runs statements
and Redis commands whose callbacks run the rest. Nothing is held between two callbacks
except what the database holds, so any two requests interleave at every statement. In the
browser a page renders cached answers; a mutation's callbacks may run when the page that
sent it, or the session it was sent for, is gone.

What makes each part correct:

- **Homes.** No two widgets on a slot; a save changes all it was asked to change or
  nothing, once, on the version it named; no save overwrites what its author has not
  seen; a client is told what happened; no two requests wait for each other's row locks;
  every request is answered and the version row is given back.
- **Edit lock.** Only its holder's token ends it.
- **Home editor.** It says "Saved" or "Somebody else saved" only of what happened; when
  nothing is under way it shows the home; the moves it sends are not refused as invalid.
- **SSO tickets.** A valid ticket of ours is recorded with a deadline, and is voided after
  it or by a logout; one that was replaced or voided never comes back.
- **Account pages.** No account page is shown to a session that owes the password, under
  another session's answers, or after a sign-out; what waits ends.
- **Account forms.** A reset link writes one password at most; a page says only what is so.
- **Content administration.** A list misses no acknowledged write; a form is saved to the
  row it was filled from; no row breaks the public pages; markup needs high trust.
- **Panel.** The cache of another visitor does not survive a sign-in; every changed key is
  tried and reported; the gate opens or says why it does not.

`PROJECT.json` lists the hazards at their lines.

## The modules

| Module | Part |
|---|---|
| `HomeLayout` | the page of a home and what a save does to it (no state) |
| `HomePage` | the abstract specification of a home |
| `HomesService` | one home at the server, statement by statement, several tabs |
| `HomeEditor` | one tab's editor with its cache, its edit session and the edit lock |
| `Credential` | the abstract specification of what a client holds |
| `SsoTicket` | one user's client ticket |
| `Account` | the account pages of one browser and their sessions |
| `AccountForms` | motto, figure, address, password; the reset link |
| `AdminPages` | what five housekeeping forms send and what becomes of it (no state) |
| `AdminContent` | a housekeeping page over its table |
| `AdminPanel` | sign-in to the panel, its gate, its settings |
| `MC*` | small instances for TLC |
| `*Proofs` | theorems about the module they are named for |

`HomesService` and `HomeEditor` extend `HomeLayout`; each shows that it implements
`HomePage`, and `SsoTicket` that it implements `Credential`. `AdminContent` extends `AdminPages`. The home is looked at from two sides:
`HomesService` splits every request into its statements and leaves the browser at what
it shows; `HomeEditor` splits the browser into its callbacks and takes a write as one
step, which `ServiceRefinesHomePage` justifies.

Several definitions have a variant beside them with a mistake such code could have
(`StepUpForgotten`, `NeverAsked`, `StillLoud`, ...). Nothing uses the variants; the mutants
of `PROJECT.json` put them in to show that the properties notice.

### `HomeLayout`, `HomePage`

`HomeLayout` has validation of a list of placements (`validatePlacements`), the effect of the
statements of a save, the UNIQUE index as the predicate `Clash`, and the list of placements
a drag produces (`placementsForMove` of `useHomes.ts`). `HomePage` has rows, version and
background, which change in whole valid steps: create the version row, save, add, remove.
It does not promise that a key is placed once, because the code does not keep that.

### `HomesService`

- `rows`, `version`, `placed`: what MariaDB has committed; `used`: the ids AUTO_INCREMENT
  has given out;
- `versionOwner` (the row of `phpretro_myhabbo_homes`) and `rowsOwner` (the rows and gaps of
  `phpretro_myhabbo_layouts`, locked by `SELECT ... FOR UPDATE`);
- per tab, its request: `pc` (the next statement), `want`, `row`, `target` (what it asks
  for), `index` and `work` (the transaction's view of the rows), `verdict` (the outcome
  known so far), `settled` (the flag of `saveLayout`), `answer`, and the ghosts `applied` and
  `audited`;
- per tab, the layout it reads and the layout it shows: `reading`, `base`.

A removal is answered and audited as one whatever its DELETE found (1420-1425):
`applied` says whether this request removed the row, `audited` what the audit says.

| Code | Actions (one per statement and the callback after it) |
|---|---|
| `loadLayout` | `StartLoad`, `LoadVersion`, `LoadRows`, `LoadItems` |
| `saveLayout` before its transaction | `StartSave`, `EditLockHeld` / `EditLockRefused`, `CreateVersionRow` |
| `saveLayout`'s statements in the order of `TxnSteps` | `CompareAndSwap`, `SelectRows`, `SelectBackground`, `MirrorRows`, `UnplaceBackground`, `PlaceBackground`, `PlaceWidget`, `UnmirrorRows` |
| its end | `Commit`, `CommitFails`, `Rollback` |
| `addWidget` | `StartAdd`, `LookupKey`, `FindPosition`, `InsertWidget` |
| `removeWidget` | `StartRemove`, `LookupWidget`, `DeleteWidget` |
| error callbacks | `StatementFails`, `LockWaitTimeout` |
| the timer of `TxnSteps::start` | `Watchdog`, `WatchdogRace` |

The writes of a transaction go to `work[t]` and reach `rows` and `placed` at COMMIT. The
compare-and-swap waits for `versionOwner`, the SELECT for `rowsOwner`, an INSERT or DELETE of
a widget for `rowsOwner` too; a wait may end in InnoDB's lock-wait timeout. The controller
answers a conflict, and a save that succeeded, with a fresh load (`Reload`).

Left out: names, contents and privacy of widgets, invisible rows, the catalogue, the id
`addWidget` reads back, and requests refused before any statement. The edit lock is a free
choice between held, refused and, when Redis fails, unavailable (503), which its expiry
makes of it.

### `HomeEditor`

`home` is the home as `HomePage` has it, `lock` the token in the Redis key, `cache` the query of
the layout, `mode` what the route shows, `token` and `said` the page's `lockToken` and what its
messages say of a drag; `saves`, `leases`, `closes`, `change` are the requests under way. `hurried` is
a ghost: something was started before the last thing was over.

| Code | Actions |
|---|---|
| `useHomeLayout` and `GET /api/homes/...` | `ServeLayout`, `LayoutArrives`, `LayoutFails` |
| the buttons and the route (`HomePage.tsx`:501-542, 717-763) | `Edit`, `Cancel`, `Back`, `Leave`, `Return` |
| `acquireEditLock` (SET NX, then GET) and its answer | `TakeLock`, `ReadHolder`, `LeaseGranted`, `LeaseFails` |
| `releaseEditLock` (GET, then DEL); expiry | `CompareToken`, `DeleteKey`; `LockGone` |
| `handleDragEnd`, `useSaveHomeLayout.onMutate` | `DragEnd` |
| `saveLayout` of the server | `VerifyLock`, `Apply`, `Refuse`, `ReadBack` |
| `onSuccess`, `onError` of the hook and of the call | `SaveAnswered`, `SaveConflicts`, `SaveLocked`, `SaveFails` |
| `WidgetPalette`, `WidgetBox` | `StartAdd`, `StartRemove`, `ServeAdd`, `ServeRemove`, `ChangeSettles` |
| another tab of the owner | `OtherSaves` |

The callbacks given to `mutate()` run for the last call of a mounted page alone (`Silenced`);
those of the hook run always. That is React Query's contract, external here.

A call whose answer is lost is over for the page and not for the server: a drag given up
after it was sent goes on as a silent save (`Lost`, then `VerifyLock`, `Apply`), and a widget
change given up before it was served waits as `GivenUp` and may be served at any time later
(stage `late`). Nothing asks for the layout again then.

### `SsoTicket`

`column` is `users.auth_ticket`, `record` the row of `phpretro_sso_tickets` (which ticket, and
whether `voided_at = 0`), `expired` the tickets past their deadline, `session` the ticket the
emulator remembers for its reconnect grace. Each request or run of the timer is at a
statement `pc[p]` with a ticket `mine[p]`.

| Code | Actions |
|---|---|
| `clientEntry` and `generateAuthTicket` | `StartIssue`, `RecordDeadline`, `WriteTicket` |
| `logout` and `voidIssuedAuthTicket` | `StartLogout`, `ReadRecord`, `WriteTombstone`, `MarkVoided` |
| `voidExpiredAuthTickets` (its visit of this user) | `FindExpired`, then as above |
| error callbacks, a stop and a start of the process | `StatementFails`, `Restart` |
| the emulator, other sites (external) | `GameLogin`, `GameRestore`, `OtherSiteWrites` |

The ghost `disturbed` records that an issue overlapped another chain of the same user, was
cut between its two statements, or that a tombstone could not be written: the cases the
code does not cover. The emulator is modelled from what the comments of
`UserAccountService` and the statements of the source say of it.

`Credential` has no tables, statements or emulator: a ticket that was never in use is given
to the client, the ticket held is withdrawn, or tickets are lost by an issue that fails. The
ticket held is, in `SsoTicket`, the one of ours that is in the column or that the emulator
would put back there.

### `Account`

`sessions` are the sessions made (owner, reauthentication flag, alive, made by a restore),
`cookie` and `remember` what the browser holds, `queries` the two cached queries (`me`, `session`)
with the fetch each has under way and the session its request named, `page` the route,
`call` the mutation under way.

| Code | Actions |
|---|---|
| queries: served, answered, failed | `Serve`, `Arrives`, `Fails` |
| expiry of a session | `SessionExpires` |
| the router, a reload, `ClientPage`'s redirect | `Go`, `Load`, `RedirectToStepUp` |
| `LoginPage`, `RememberMeRestore`, `ReauthenticatePage`, the links of `MePage` | `SubmitSignIn`, `StartRestore`, `SubmitPassword`, `LogOut`, `Enter` |
| `AuthController`, `SecurityController`, `CreditsController` | `Login`, `RememberLogin`, `RememberLoginRefused`, `Logout`, `Reauth`, `ClientEntry`, `Refuse` |
| mutation callbacks | `LoginAnswered`, `RestoreAnswered`, `RestoreFails`, `LogoutAnswered`, `LogoutFails`, `ReauthAnswered`, `OnToClient`, `EnterAnswered`, `Reported` |

`ScreenOf` is what a page renders for a cache; mounting a query and cancelling it when the
session is cleared are operators the actions share. A session's record is one step here:
its read-then-write in Redis is not modelled.

### `AccountForms`

| Code | Actions |
|---|---|
| `forgotPassword`, `issuePasswordResetToken`, the key's expiry | `ForgotPassword`, `IssuePasswordResetToken`, `LinkExpires` |
| `ResetPasswordPage` | `OpenLink`, `SubmitReset`, `ResetAnswered`, `ResetLost` |
| `consumePasswordResetToken`: take the key, then UPDATE | `ConsumePasswordResetToken`, `TokenInvalid`, `WriteReset`, `ResetFails` |
| the forms of `ProfilePage` | `Submit`, `Answered`, `Settled`, `CallFails`, `Visit` |
| `AccountController`: `changePassword` checks, then writes | `CheckPassword`, `Write`, `Refuse`, `LateCall` |
| the refetch of `/api/me` after each success | `MeAnswers` |

A call whose answer is lost goes on at the server; of these, changes of address and
password are kept (`late`) and changes of motto and figure are not, as nothing reads them.

### `AdminPages`, `AdminContent`

`AdminPages` has, for news, faq, banners, campaigns and collectibles, what the inputs can
hold, the payload a form is submitted as, what the server refuses, what it stores and what
it lists. Numbers keep their width: an order is cut to 32 bits (`Narrowed`), a time that the
column cannot hold is refused (`Fits`), a time before 1970 is listed as an unsigned number
(`Unsigned`). Numbers of more than 63 bits are left out. `ServeList` answers a SELECT that
fails with an empty list, as the code does, and shows the `NewsLimit` newest articles. `AdminContent` is one of these pages: `list`, `invalid`, `failed`, `fetch` are its query,
`screen`, `editing`, `form` the page, `calls` its mutations, `table` the rows. Ghosts: `version`
(the number of writes), `filled` (the row the form was filled from), `acked` (the newest write
the browser knows of), `overlooked` (see `ListKeepsUp` below).

| Code | Actions |
|---|---|
| the list query | `OpenPage`, `ServeList`, `ListArrives`, `FetchFails` |
| the form | `StartCreate`, `StartEdit`, `Type`, `Cancel`, `LeavePage` |
| the mutations | `Submit`, `Delete`, `ServeCall`, `Acknowledged`, `Failed` |
| somebody else | `OtherOperator` |

### `AdminPanel`

| Code | Actions |
|---|---|
| the route and the links of the gate | `VisitPanel`, `GoToSignIn` |
| `HousekeepingLoginPage.onSubmit` (two calls, then the cache is reset) | `SubmitSignIn`, `AdminLogin`, `AdminStaffLogin`, `SignInFails` |
| `useMe`, `useAdminSession`, `retryAdmin` | `FetchMe`, `QueryAnswers`, `QueryFails` (`UseAdminSession` is shared by the actions that mount it) |
| sign-out: the call, then `queryClient.clear()`; expiry | `SignOut`, `SignedOut`; `SessionExpires` |
| `AdminSettingsPage` and `setSetting` | `LoadSettings`, `LeaveSettings`, `Edit`, `Discard`, `SaveSettings`, `SendSetting`, `SetSetting`, `SettingAnswered` |

`clear()` at a sign-out forgets the answers and leaves fetches under way alive
(`ClearQueries`); the reset of a sign-in cancels them (`ResetQueries`). A settings page that
was left and mounted again knows nothing of the save of its predecessor, which goes on.

## The runs

| Run | Instance and bounds | Shows |
|---|---|---|
| `editor` | `HomesService`, two tabs load and drag what they show, and send saves that are to be refused | `TypeOK`; `NoLostUpdate`: a save the compare-and-swap admits on the version a tab shows overwrites nothing that tab has not seen. `SaveNeverClashes`: no statement of it is refused by the UNIQUE index |
| `refine` | saves, adds and removes; a statement may fail, an answer of a committed write may be lost, the timer may fire and may leave the transaction open; two ids, two columns of one position | `PageWellFormed`, `ImplementsHomePage`; `HoldersNeverWait`: who holds a row lock waits for none; `AnswersTruthful`: what the clients of all three routes are told, and what is audited, is what happened; `SavedAsAsked`; `EndsAnswered`: no request ends without its answer |
| `live` | saves of one widget; statements fail or are never answered, the timer fires and may leave the transaction open | `RequestsAnswered`; `ReleasedOrStranded`: the version row is given back unless the transaction was left open |
| `stranded` | saves of one widget, the timer fires and may leave the transaction open | a violation of `VersionRowReleased`: the comment on the timer (`HomesService.cpp`:117-118) says that the transaction is rolled back and released, the comment on `abort()` (172-187) that rolling back and dropping it does not do that |
| `editing` | `HomeEditor`: two drags of the tab, one edit session, one add or remove, one save of the other tab, three of these together | `TypeOK`, `MessagesTruthful`, `ShownIsTrue`, `MovesAreValid`, `ImplementsHomePage` |
| `sso` | two requests, one run of the timer at a time, two tickets, one mishap | `TypeOK`, `BoundedUnlessDisturbed`, `SignOutLeavesNothing`, `ExpiredIsGone`; `ImplementsCredential`, also when disturbed |
| `account` | one user, two sessions, the credits and sign-out pages beside those the calls lead to | `TypeOK`, `StepUpFirst`, `RestoredStartsFresh`, `SignOutIsFinal`, `WaitingEnds` |
| `forms` | one link in two tabs, two submissions, the profile and password forms, two calls at the server | `TypeOK`, `OneLinkOnePassword`, `ResetPageTruthful`, `NoticesTruthful` |
| `content` | each of the five pages, two ids; two writes on the pages of questions and campaigns, one on the others; numbers of three bits | `TypeOK`, `RowsAreClean`, `ListKeepsUp`, `FormsAimAtTheirRow`, `MarkupNeedsHighTrust` |
| `panel` | a guest and a trusted operator, two settings, one sign-in, one save | `TypeOK`, `NothingSurvivesSignIn`, `EveryKeyIsReported`, `GateOpensOrSays`, `SavesEnd` |
| `one_of_each` | two adds of one widget | a violation: both pass the lookup before either inserts, and the home holds two of it (`docs/homes-layout-api.md`:228) |
| `own_lock` | one tab leaves the editor and opens it again | a violation: the second DELETE of the first session ends the second session (`include/services/HomesService.h`:451) |

Why the bounds are enough. The races of homes are between two requests; a third tab only
waits behind the same two row locks. A profile box and one or two other widgets on two
columns give a swap, a taken slot and a widget below the grid; `refine` keeps columns of one
position, as adds and removes do not look further than the next one. `MaxVersion` bounds the
versions a request may name, and a tab may send as many requests as it likes. In `editing`
two drags are what it takes for a rollback to meet another drag. In `account` the second
session is the one a restore or another sign-in makes; the profile page has the shape of
`me`, and the pages without account data are one. In `content` one row can be open while the
other is deleted or saved; `Half = 4` stands for 2^31 and `NewsLimit = 1` for 20, so that an
order is cut and a news list is full. A failure of a settings key needs one other key. Where the
system may really stop the deadlock check is off: in `refine`, `live` and
`stranded` two transactions left open leave both tabs waiting, in `editing` and `own_lock` the tab may be left for good. Symmetry is used
only in runs without liveness properties: tabs in `HomesService`, links and tabs in
`AccountForms`, ids in `AdminContent`; no definition names one of them.

Some properties have an exception that the code needs; each has a name.

- `BoundedUnlessDisturbed` excludes `disturbed`.
- `ListKeepsUp` excludes `overlooked` (an acknowledgement that finds an older answer on its
  way, when the list was never shown or its page is gone: that answer is not dropped), the
  empty list of a SELECT that failed, and a news list that is full.
- `RowsAreClean` excludes orders of 2^31 and more, which are stored as what is left of them.
- `ShownIsTrue` and `MovesAreValid` exclude `hurried`, the drags started before the last thing
  was over: two drags at once end in a rollback to a layout that is neither the home nor what
  was asked, until the next fetch. They excuse one box, that of a widget whose adding or
  removal was served after the page had given it up (`Unseen`). `MovesAreValid` also excludes
  widgets below the grid (`OffGrid`).
- `SignOutIsFinal` speaks of a sign-out whose page is still there for the answer.
- `WaitingEnds` excuses a visitor who never stops doing things himself (`Visits`), and nobody
  else: redirects without end violate it.
- `ReleasedOrStranded` excludes a transaction that the timer left open.

The mishap `strand` of `refine`, `live` and `stranded` lets the timer leave its transaction
open, the outcome the comment on `abort()` (`HomesService.cpp`:172-187) gives of dropping a
transaction right after `rollback()`, which is what `releaseAbandoned` does (147-148). What
Drogon does there is not in this repository. `refine` shows that safety survives it, `live`
that every request is answered nevertheless, and `stranded` that the lock is not given back.

**Fairness.** `FairSpec` of each module asks only for what a runtime does by itself, and
nothing of visitors, operators or clients.

- `HomesService`: some step of `Progress` of each tab is taken when one stays possible. A
  statement outside a transaction, COMMIT and ROLLBACK are answered in the end (`main.cpp`
  sets an SQL timeout of 10 s, after which the error callback runs) and the timer of the
  event loop fires. Statements inside a transaction may never be answered: the timer is
  there for that case.
- `SsoTicket`: a chain of statements that has started goes on, for the same timeout, and the
  timer keeps looking (`runEvery` in `main.cpp`, also after a restart).
- `Account`: a request is answered or fails (the browser's `fetch`), the effects that send the
  restore and the redirect run once rendered.
- `AdminPanel`: the same for the sign-in calls, each query and the loop over the settings.

### Known deviations

Behaviour the models contain and no run reports as a violation, for want of a document
that says otherwise or because a property excludes it by name. Homes:

- a widget added below a full column cannot be swapped with: the drag is refused with 400
  (`HomesService.cpp`:1329);
- a drag made on the layout of before another tab's change to the set of widgets is refused
  403 or 400 instead of 409, as adds and removes leave the version alone (1420);
- `INSERT IGNORE` before the transaction waits for another save's version row; its timeout
  is answered 503 (1264);
- a removal of a row that another request removed between the lookup and the DELETE is
  answered and audited as a removal (1420);
- a drag before the edit session has been granted sends an empty token;
- two drags of one tab at once: the second meets the first's version and the editor says that
  somebody else saved (`HomePage.tsx`:619);
- such drags, and those next to a widget below the grid, may be refused as invalid, where
  `useHomes.ts`:82 and `docs/homes-layout-api.md`:22-25 say that the server never has to;
- a save or a widget change may be served after its tab was told that it failed; of a widget
  change the tab then learns nothing until the layout is fetched for another reason.

Tickets, accounts, forms:

- two client entries of one user may record one deadline and leave the other ticket
  (`UserAccountService.cpp`:584); the timer may void a ticket issued after it looked (679);
- `LogoutPage` says that the visitor is signed out after a call that failed
  (`LogoutPage.tsx`:56);
- a sign-out whose page is left before the answer drops no cached answer, as the callbacks
  that do are given to the call (`MePage.tsx`:127-138); `useAccount.ts`:149 says that every
  one is dropped after a successful sign-out;
- a password proved while the session query is cached and not watched leads back to the
  step-up page until the query is asked again, contrary to `useAccount.ts`:231-236;
- a client entry whose page is left still issues a ticket and ends the earlier one;
- a remembered sign-in sent twice with one cookie is refused the second time;
- proving the password may be asked for twice (`ClientPage.tsx`:26);
- `changePassword` checks and then writes: it may overwrite a reset made in between;
- the answer to a reset is lost, and the visitor who tries again is told that the link is
  invalid (`ForgotPasswordPage.tsx`:322).

Housekeeping:

- a write is not in the list that the page shows next when its acknowledgement meets the
  first load of the list, or when the SELECT fails and is answered 200 with no rows
  (`ContentService.cpp`:795-798); the comment at `useAdminContent.ts`:44-46 says that a create
  is visible on the next render;
- an order of 2^31 or more is stored as what is left of it in 32 bits, negative ones included
  (`AdminContentController.cpp`:183, 205, 216), while the pages see to it that none is below 1;
- a month before 1970 is accepted for a collectible (`ContentService.cpp`:112), though
  `AdminCollectiblesPage.tsx`:19-22 says a positive one;
- a save of a form made from an old list overwrites what another operator wrote since;
- a banner edited by an operator of lower trust loses its markup;
- settings typed while a save runs are dropped when all its keys succeed;
- a sign-out from the panel leaves fetches under way alive, whose answers then enter the
  cache; the next sign-in drops them.

## The proofs

Each theorem holds for every value of the constants its module's assumption allows.

| Module | Theorems |
|---|---|
| `HomesServiceProofs` | `Invariance`, `TypeCorrect`, `PageStaysWellFormed`, `SavesNeverClash`, `SavesDoWhatTheyWereAsked` (`SavedAsAsked`), `NoSaveOverwritesUnseen` (`NoLostUpdate`), `ClientsAreToldTheTruth` (`AnswersTruthful`), `LocksCannotDeadlock` (`HoldersNeverWait`), `RequestsEndAnswered` (`EndsAnswered`), `ServiceRefinesHomePage` (`ImplementsHomePage`) |
| `HomeEditorProofs` | `TypeCorrect`, `MessagesAreTruthful`, `ShownRowsAreTrue` (`ShownIsTrue`), `MovesAreAccepted` (`MovesAreValid`), `EditorRefinesHomePage` (`ImplementsHomePage`) |
| `SsoTicketProofs` | `Invariance`, `TypeCorrect`, `TicketsAreBounded` (`BoundedUnlessDisturbed`), `LogoutsLeaveNothing` (`SignOutLeavesNothing`), `TicketsRefineCredential` (`ImplementsCredential`) |
| `AccountProofs` | `TypeCorrect`, `ContentAfterStepUp` (`StepUpFirst`), `RestoredSessionsStartFresh`, `SignOutsAreFinal`, `LoadingHasAsked` |
| `AccountFormsProofs` | `TypeCorrect`, `LinksWorkOnce` (`OneLinkOnePassword`), `ResetPagesTellTheTruth`, `SavedMeansSaved` (`NoticesTruthful`) |
| `AdminContentProofs` | `TypeCorrect`, `ListsKeepUp`, `FormsStayWithTheirRow`, `RowsStayClean`, `MarkupIsTrusted` |
| `AdminPanelProofs` | `TypeCorrect`, `AnswersAreOfThisSignIn` (`NothingSurvivesSignIn`), `SavesReportEveryKey`, `PanelHasAsked` |
| `HomeLayoutProofs` | lemmas only |

**Pages of a home.** `HomeLayoutProofs` proves the arithmetic of a save for every set of
ids, every page and every list of placements: an accepted list names distinct widgets of
the page and leaves distinct slots on the grid (`ValidationAccepts`), and each UPDATE of the
sequence mirror, placements, un-mirror meets the UNIQUE index with no row in its way
(`MirrorIsClean`, `PlaceIsClean`, `UnmirrorIsClean`). After n placements a row is either at its
final slot or at its old slot mirrored, and a mirrored position is negative while a final
one is not.

**The service.** None of its properties is inductive: that a commit is right depends on
what the transaction has read and on nobody having changed it since. `IInv` adds for each
tab `LocksHeld` (a transaction past the compare-and-swap owns the version row and its version
is still the one it named; past the SELECT it owns the layout rows), `SavedRows` and
`SavedBackground` (its view is `Written` applied to the *committed* rows and the first `index`
placements), and `Carried` (what it takes from statement to statement is well formed).
`Interference` is the heart of it: a step of another tab changes the rows only when it
holds, or nobody holds, the locks this tab would need to hold. Three more facts, together
`History`, speak of earlier states: `UpToDate` (a layout that was read is of an older version,
or each of its widgets that is still there is where it was, because only a COMMIT moves
widgets and ids are given out once), `Told` (a request has written nothing until its last
statement, and what is left after that is to load the layout of its answer), `Removable`
(the widget a DELETE names is not the profile box and cannot become it). With `StoreSteps`,
which says what a step may do to the committed data, they give `NoLostUpdate`,
`AnswersTruthful`, for all three routes, and the refinement.

That requests cannot deadlock needs who holds what (`Holding`: locks belong to transactions
between their compare-and-swap and their end, and the layout rows to one that has the version
row too). It is not the order of the locks alone: a transaction's first statement waits with
nothing in its hands, the SELECT waits only for a transaction that has the same version row,
which is itself, and the statements of the other routes hold nothing. That a request ends
answered is a fact about the flag `settled` (`Answered`: a request that is settled has an
answer, one that is not has its callback still before it, and an unsettled rollback knows
the refusal it owes).

**The editor.** What the cache shows is always a proper page, since it comes from the
home, from a move on a proper page (`MovedPage`), or from a rollback to one of these
(`CacheInv`, `SavesInv`). The last drag alone may speak, and it knows whether the server
has applied it (`SaveInv`, `SaidInv`). `SeenInv` relates what the browser has to the
home: a layout, cached, on its way or kept for a rollback, is of an older version or has
the rows of the home, except for the drag that is under way; without hurry only the last
drag or the change of a widget can be under way, and a commit makes every layout the
browser has an old one. A change that was lost and served late puts one widget out of
step with every layout at once, and with all of them the same way (`AgreesIn`, `Unseen`,
`Excused`). A drag from such a layout is valid because `MovedPage` exchanges two slots or
takes the next one of a column; that needs room for two placements in one save
(`MaxPlacements >= 2`; `kMaxPlacements` is 64, `include/services/HomesService.h`:260).

**Tickets.** `IInv` says, until something disturbs it, what each chain relies on (`Relies`): an
issue that its deadline is still the recorded one when it writes the ticket; a void that an
open record is the one it read; a void past its tombstone that nothing is left to present.
`Presentable`, the column or what would be restored into it, does not change when the
emulator consumes and restores a ticket. The refinement of `Credential` needs nothing of this:
it holds when disturbed. What it needs is that the tickets being issued are new and differ
from each other (`Distinct`), so that a late `WriteTicket` gives a ticket nobody had, and that
every step that takes the held ticket away leaves something in the column, a tombstone or
a newer ticket, which the emulator does not overwrite.

**Account pages.** The invariant follows the number of a session from the cookie through
requests and answers into the cache (`GoodCache`, `GoodCall`): the number of a session that was
left is nowhere on that way, an answer is never milder than its session, and under a
restored session all of them are its own. `AskedInv` is the safety half of `WaitingEnds`: where
the cache is read, a query has an answer or an error or is being asked for, whatever a reset
or a change of page cancelled. `AskedInv` of `AdminPanelProofs` says it of the panel's gate.

**Forms.** `ResetInv` says who took a link's key (`OneTaker`) and that a page that calls its link
done or expired has a link that is gone; `ProfileInv` says how far the handler of a form has
come and which of its calls have been written.

**Housekeeping.** In `AdminContent` an answer on its way is no older than the list, nor than
what was acknowledged unless it was overlooked (`QueryInv`); the rows of the table are clean
or hold a cut order (`RowsStayClean`); a form that is open for a row was
filled from it, and a call carries the row its form was filled from (`PageInv`, `CallsInv`). In
`AdminPanel` what a query has, and is about to have, was read after the last sign-in
(`QueriesInv`), and each key of a save is to do, saved or failed, and one only (`SaveInv`).

Only model-checked: the liveness properties (`RequestsAnswered`, `ReleasedOrStranded`, `ExpiredIsGone`, `WaitingEnds`,
`GateOpensOrSays`, `SavesEnd`): liveness under fairness and ENABLED are out of the prover's reach.

## Plan

Done: `HomeLayout`, `HomePage`, `HomesService`, `Credential`, `SsoTicket`, `AdminPages`, `AdminContent`, `AdminPanel`,
`Account`, `AccountForms`, `HomeEditor` with the edit lock, their runs and proofs.

Left, in this order:

1. `Sessions`: the session document in Redis with its read-then-write
   (`SessionManager::setReauthRequired` with KEEPTTL), the index of a user's sessions, the
   remember token; refined by the sessions of `Account`.
2. `LoginThrottle`: counters, windows, attempts in flight.
3. Client entry's four joined reads, and the startup chain with requests before it is ready.
4. Guild membership.

## Not modelled

The throttle, startup and guilds are in the plan above. Registration and the list of the
account names of an address add rows or read them. Bans, reports, audit storage, mail,
filters, cryptography, configuration, the worker and the public pages have no state that
two steps could disagree about: each is one statement or none. Widget contents and the
pointer arithmetic of a drag do not change what is stored beyond the slot. The proxy,
scripts and tests are not part of the program. Drogon's connection pool, React Query and
the emulator are external; the hazard of blocking in `newTransaction()` inside a callback is
listed and not modelled, because what Drogon does there is not in this repository.
