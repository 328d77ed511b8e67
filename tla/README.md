# Grocery Genie in TLA+

Grocery Genie scans receipts, sorts their lines into categories, and alerts
when a budget fills up. A FastAPI backend over PostgreSQL (`src/backend/app`),
Celery workers and beat (`app/tasks`), a React Native app (`src/mobile/src`),
and three outside services (an extraction model, Expo push, RevenueCat) make it
up. Sequential code is well covered by its tests. What they hardly reach is what
several transactions, runs, deaths and late messages do together, and, in the
app, answers that come late to screens that were left or changed. That is what
these modules model.

The repository keeps two small specifications of its own under
`src/formal/budget_alerts/`. The modules here are independent of them. They are
written from the Python code and add periods and rollover, category
corrections, preferences, devices that move, a refinement, and proofs.

`PROJECT.json` lists the components, the runs, one mutant for every property,
the lines each definition models, the hazards, the findings and the theorems.

## 1. The system: components, state, interactions

Every API request is one PostgreSQL transaction at READ COMMITTED (`get_db`): it
commits before the response starts and rolls back on any exception. A read takes
no lock unless it says `FOR UPDATE`. A row a transaction has written or locked
is held until the transaction ends. Celery tasks open transactions of their own.
Interaction is through committed rows, row locks, files on disk and calls of
outside services. The in-process event bus only logs.

The app is one thread. Between two steps of a handler (`await`, a callback, a
render) anything else may run, and every call to the server may be answered
late, in another order, or not at all. Its screens share a query cache
(TanStack Query with the default options of `app/_layout.tsx:24`), a session, and
a few stores of their own.

| component | state | operations | what is hard | what makes it correct |
|---|---|---|---|---|
| Budget alerts (`budget_service`) | budgets, `budget_alerts_sent`, notifications, preferences | check thresholds in a request that moves spend, claim an alert | two requests at once each read spend without the other's; claims that roll back; the turn of a period; rollover | each threshold that is reached alerts exactly once, and truthfully |
| Receipts (`receipt_service`) | receipts, lines, item-category mappings | correct, confirm, enter, delete, restore | decisions from unlocked reads; a category correction moves other receipts' spend | spend moved is spend checked |
| Push delivery (`push_tasks`) | `push_status`, tokens | claim, send, record, retry, expire, sweep | runs overlap and die; answers are lost; part of a notification was sent | no device gets a notification twice; every one settles |
| Premium (`premium_service`) | users' Premium columns, `revenuecat_events` | webhook, transfer, refresh | events late, twice, out of order; reads that are old when stored | the rows end as RevenueCat has them; no one keeps what was taken back |
| Scans and photos (`scan_receipt`, `image/storage`) | receipts, files on disk | flush, save files, commit | files are in no transaction | a receipt has its photo, a photo its receipt |
| Purge (`purge_tasks`) | soft-deleted rows | batches with SKIP LOCKED, files then rows | dies between the two; races restore | only what is past restore goes, and it does go |
| Account deletion (`account_service`) | every table of the user, files | list, remove files, delete rows | scans commit in between; deadlock with the purge | nothing is left behind |
| Sign-in and refresh (`auth`, denylist) | token families, Redis denylist and locks | rotate, detect reuse, sign out | the lock expires; answers are lost | one live token per family, unless both happen; no reuse passes |
| Mobile session (`api.ts`, `authStore.ts`) | stored tokens, one refresh in flight, the push token | call, refresh and retry, sign in, out, delete, restart | calls that share one refresh; late answers after sign-out | the phone never replays a rotated token; nobody waits for nothing |
| Mobile capture and queue (`scan.tsx`, `offlineQueue.ts`) | the photo in hand, queued photos with their status, consent | scan, import, queue, upload, retry, ask | lost answers, restarts, an account switch, runs that end as photos are queued | each photo is stored once, for its owner |
| Mobile screens | the query cache, forms, the stack of screens | open, type, save, leave, refetch | changes under way together, callbacks of screens that are gone, reads older than a change | what is saved was typed, what is shown is stored, what is offered is accepted |
| Accounts (`auth`, `users`) | users, links mailed | sign up, verify, reset, change the address | old links, two accounts with one address | a link does what its mail said |
| Waitlist offers | redemptions | match, claim, grant, retry | a grant that timed out took effect | one free year |
| Items (`item_matching_service`) | canonical items, aliases, suggestions | match, merge, split, sweep | lock order, links read before the locks | no question about an item that is gone |
| Prices and price alerts | observations, alert ledger, mutes | observe, compare, claim, mute | ranges and ties at their edges; cooldown against claims | app and server agree; one alert per cooldown |
| Stores, categories | merges of stores, custom categories | merge, unmerge; create, edit, delete | chains of merges; attached while being deleted | groups one deep; no dangling category |
| Weekly summaries | notifications | one per user and day | overlapping beat runs | at most one |
| Extraction, exports, analytics, rate limits, feed | mostly none | data in, data out | little | left out, see section 8 |

## 2. Modules

| module | what it is |
|---|---|
| `BudgetAlerts` | requests that move spend, as concurrent transactions, and the settings changed beside them |
| `PushPromise` | what delivery promises of a notification: the abstract specification |
| `PushDelivery` | delivery runs, Expo, devices; implements `PushPromise` |
| `Premium` | webhooks, transfers and refreshes against RevenueCat |
| `ReceiptPhotos` | scans, edits, purge runs and account deletion over the rows of receipts and the files on disk |
| `Session` | the app's session: calls, the shared refresh, sign-in, sign-out, deletion, the push token; the server's token families |
| `Capture` | the camera, imports, consent, the offline queue and its runs; the server's scans and quota |
| `Queries` | the query cache's entries and the rules of `@tanstack/react-query` the screens rely on |
| `ReceiptScreens`, `ItemScreens`, `AlertScreens`, `BudgetScreens`, `PlanScreens` | the screens of an area over that cache, with the requests they send |
| `Accounts`, `AccountScreens` | the server's accounts, mails and free years; the screens over them |
| `Figures` | what the screens draw of prices and spending, beside what the server computes |
| `MCAreas` | the areas that change what the server keeps of alerts and stores, budgets and categories, the account, and items: side by side |
| `MCScreens` | all the screens, an area at a time |
| `MCBudgetAlerts`, `MCPushDelivery`, `MCPremium`, `MCReceiptPhotos`, `MCSession`, `MCCapture` | the instances TLC checks: initial rows, bounds, symmetry |
| `BudgetAlertsProofs`, `PushDeliveryProofs`, `PremiumProofs`, `ReceiptPhotosProofs`, `SessionProofs`, `CaptureProofs`, `ScreensProofs` | the theorems of section 6 |
| `FoldProofs` | lemmas on folds over finite sets |

`PushDelivery` refines `PushPromise`; `AccountScreens` extends `Accounts`; every
module of screens extends `Queries`. The seven areas share no variable. `MCAreas`
extends four of them (`AlertScreens`, `BudgetScreens`, `AccountScreens`,
`ItemScreens`), and each step of `AreasSpec` is a step of one, or more, of them.
`MCScreens` adds the other three as instances and lets a behaviour stay in one
area; what it does in the four of `MCAreas` is a behaviour of `AreasSpec`. State and actions have the
names of the code (`runSync`'s run is `runs`, `queuePhoto` is `QueuePhoto`); a
handler that awaits is an action for each stretch between two awaits, and its
local variables are fields of a record (`requests`, `calls`, `import`).

## 3. Runs and properties

| run | what | shows |
|---|---|---|
| `BudgetAlerts_apart` | two requests about different receipts, one change of settings or budgets | `NotifiedOnce`, `NoMissedAlertButAtTurn`, `NoFalseAlert` hold |
| `BudgetAlerts_turn` | does the turn of a period miss an alert? | `NoMissedAlert` fails (finding 1) |
| `BudgetAlerts_same` | do two requests about one receipt miss an alert? | `NoMissedAlertButAtTurn` fails (finding 2) |
| `PushDelivery` | two workers, a crash, lost answers, a device that moves | `StatusIsTrue`, `KeepsPromise`, `EverySettles` hold |
| `Premium` | webhooks late, twice and out of order, transfers, refreshes | `Converges`, `OwedAtStamp`, `NewerStands` hold |
| `ReceiptPhotos` | scan, delete or restore, a purge run that dies and its next ones, account deletion | `RestorableHasPhoto`, `FilesHaveRows`, `OnlyExpiredErased`, `PurgedInTheEnd` hold |
| `ReceiptPhotos_kept` | does any photo outlive its account? | `NoPhotoOutlivesAccount` fails (finding 3) |
| `Session` | two accounts on one phone, calls refused at once, two refreshes on the server, a lock that runs out, registrations that overtake each other, a lost answer, sign-out, a restart | `NoSelfReuse`, `OneLiveRefresh`, `RegisteredIsMine`, `NobodyWaitsInVain` hold |
| `Capture` | two photos, two accounts, offline, consent, quota, a restart | `OnlyOwnersReceive`, `NoPhotoTwice`, `PhotoKept`, `OverQuotaOnlyAtOnce`, `QueuedUploads` hold |
| `Capture_queued` | does a photo that is queued go out while the app is open and online? | `UploadsWhenQueued` fails (finding 4) |
| `Screens` | every area, every order of answers, one lost, changes from elsewhere | the eleven properties below hold |
| `Screens_opened` | does Review save the receipt it was opened for? | `SavesTheReceiptOpened` fails (finding 5) |

The eleven of `Screens`: `WhatIsShownIsTrue` (the invalidations suffice, in the areas with
lists; the alert settings write the cache themselves and are `EditsKeepTheRest`),
`SavesOnlyWhatWasTyped` (Review), `LandsOnALiveItem` and `OffersAreAccepted`
(items), `StoreGroupsOneDeep`, `EditsKeepTheRest` (alert settings, categories),
`SavedAsTyped` and `BudgetsHaveCategories` (budgets), `LinksDoWhatTheySay` and
`OneFreeYear` (accounts), `FiguresAgree`.

Each module has one type invariant, `TypeOK`, checked in its passing run;
`ScreensTypeOK` joins those of the areas.

Exceptions are part of a property's statement, never of the model:
`NoMissedAlert*` excepts alerts due to a change that checks nothing (a restored
receipt, a lowered budget: the next request that moves spend of that period
alerts them);
`NoFalseAlert` excepts requests during which such a
change was committed; `Converges` excepts new owners a transfer passed over or
could not read; `RestorableHasPhoto` excepts receipts of an attempted account
deletion, and one restored by a request that read it inside its window and
committed outside it, after a run that had taken the files died;
`FilesHaveRows` excepts scans that failed after writing a file, which nothing
cleans up; `NoSelfReuse` and `NoPhotoTwice` except calls whose answer was lost;
`OneLiveRefresh` families where both an answer to a refresh was lost (`lost`) and
the lock ran out under a refresh past the denylist (`held`), which together do make
two tokens; `RegisteredIsMine` phones with something lost, and an account
whose registration was still unserved as the next account's was sent
(`overtaken`): served last, it has the phone. `OverQuotaOnlyAtOnce` has no
exception: the quota is passed by at most the other scans that were past the
count together with one of the account's (`together`).
`PhotoKept` excepts photos whose failure the user was told of, and uploads another one
displaced (section 5). `EditsKeepTheRest` is about every field of the alert
settings and every muted category, but those are one list, sent and replaced
whole: it excepts the lists that were under way together, and for a list sent for
one category another that the screen did not show as it was set.
`WhatIsShownIsTrue` excepts what the app was not told of,
reads that failed, a first read, or one no screen waits for, that was under way as
the app's own change ended (`Overtaken` and its likes: no invalidation stops or
repeats it, so an old answer stays), a receipt's detail after its deletion from
History, and the offer another session left (`LeftBy`). `FiguresAgree` excepts
the average of a group with as many lines in one unit as in another (`UnitsTie`).
`LandsOnALiveItem`, `OffersAreAccepted` and `SavedAsTyped` are about
a call with no other change under way beside it.

## 4. Bounds

* `BudgetAlerts`: four receipts (to confirm or, in `_apart`, already confirmed; to
  enter; confirmed with the same item; deleted), an overall and a category budget with rollover and one deleted
  budget, two requests, two periods, thresholds 50 and 100, and prices such that
  one receipt reaches half and two the whole. Two requests are what a
  lost sum needs, two periods are what rollover needs. `MaxChanges = 1`.
* `PushDelivery`: two workers, two notifications, one of them for two devices in
  two requests (`EXPO_MAX_BATCH = 1`), one crash, one move. A partly sent
  notification, a run behind a dead one, and a token that leaves are all
  reached.
* `Premium`: two users (a transfer needs two), two deliveries, one refresh,
  three events. An event, its cancellation and what revives it are three.
  It stops when the events have run out and nothing is in hand, hence no
  deadlock check.
* `ReceiptPhotos`: one receipt stored and one to scan, one editing request, a
  window of one day in three, one crash, one attempt to delete the account, and
  one worker whose runs follow each other with batches of two. Runs that overlap
  are in the proofs, which hold for any number of workers. It stops when the
  days and attempts have run out.
* `Session`: two accounts, which are interchangeable (`Symmetry`), four slots for
  calls (a screen's, sign-out, two registrations) of which two are under way at
  once (two that are refused at once share a refresh, two registrations overtake
  each other), two handlers of refresh, two families, three acts of the user, one
  access token that runs out, one fault. The lock of a rotation may run out at any
  time, as often as it is taken; an expiry no refresh is about to ask for changes
  nothing and is left out. A lost answer, the retry of it and a lock that runs
  out under one of the two are reached.
* `Capture`: two accounts and two photos (one under way, one queued), a quota of
  one, two acts of the user beside the flows, one fault. `Continuing` steps are
  not bounded.
* `Screens`: per area three or four acts of the user and one fault (a lost
  answer or a change elsewhere). Four acts open a screen, change, leave and
  change again; areas whose changes interact in pairs (items, alerts) have
  three. Two receipts, three items of which one was bought under two names,
  three stores (a chain of merges needs three), two categories with alerts (one to
switch beside the other), one built-in and one custom
  category (with a second name to give it), two people, two days of claim and retry. `Figures`: at most four
  purchases over five days of two units and two stores, on three days (a trend's
  halves and a tie between units need no more), drawn anew at every purchase and day.
  `Screens_opened` is the receipts area with five acts.

Crashes, moves, changes, events, acts, days and attempts are bounded because they
would otherwise be counted for ever. Where a proof of section 6 covers a property,
it holds beyond every bound; the properties of the screens are checked within theirs.

## 5. Findings

Each is a violation run, with the quoted line in `PROJECT.json`.

1. At the turn of a period a receipt of yesterday's period shrinks what rolls
   over into today's, whose thresholds are not looked at (`check_thresholds`).
2. A price edit that read the receipt before a concurrent confirm committed
   lands on a confirmed receipt and checks nothing (`update_receipt`).
3. A scan that commits while its account is being deleted leaves its photo and
   thumbnail on disk (`delete_account`).
4. A photo queued as a run of uploads ends shares the run that is over, and waits
   for the next foreground or network change (`useSyncQueue`).
5. A scan that was cancelled in Review keeps its session, and Review opened from
   History shows and saves that scan (`review.tsx`).

Met while modelling, seen in the code and in most cases in the models, without a
run of their own:

* A budget of zero alerts at 100 percent although that threshold is off
  (`budget_service.py:1139`, against `:1101-1103`).
* The sweep of stale rows settles rows of a run that is still going, which then
  changes them again (`push_tasks.py:91`). `StatusIsTrue` holds all the same.
* A transfer passes over a new owner whose row is newer, without the read-back
  its docstring promises (`premium_service.py:310`).
* The scanner opens over an upload under way and takes its callbacks, so its
  failure queues nothing (`scan.tsx:143`).
* A second mute or unmute before the first is answered drops the first one's
  callbacks, and its switch stays "saving" (`notification-settings.tsx:79-84`,
  `PriceAlertControls.tsx:85-88`).
* `setCategoryAlerts` sends the whole list of muted categories from the cached
  profile, so two quick taps lose one (`notification-settings.tsx:111-116`), and
  a change made on another device is undone. `FieldsAsSet` excepts both.
* Two rotations of one token both succeed if the answer of one is lost, the phone
  tries again, and one of the two is held between the denylist (`auth.py:293`)
  and the lock (`auth.py:311`) for longer than the lock's 5 s: the family then has
  two tokens alive until one of them is used twice (`token_denylist.py:79-91`).
* `usePushNotifications.ts:87-92` starts a registration at every change of the
  access token and waits for none before it. Whoever signs up, takes "Use a
  different email" and signs up again may have the first account's registration
  served after the second's: the phone then gets the first account's pushes, though
  `database.py:665-666` says "signing in to another account on the same device
  moves it". `RegisteredIsMine` excepts it (`overtaken`).
* A first read that was served before the app's own change, and answered after it,
  stays on screen: an invalidation starts over only what has data or is shown.
* The "Same item?" prompt may open over the screen that came next
  (`postConfirmMatches.ts:34-42`).
* The budget form is filled once, but its Save compares with the newest read: what
  changed elsewhere meanwhile is written back (`budget-settings.tsx:101-120`),
  and a Save against a budget that is gone is refused each time.
* After an export was refused, its error keeps the upgrade prompt up until the
  screen is left, also after a purchase (`export-data.tsx:76`).
* A refetch answered after `setQueryData` overwrites it with the older profile
  (purchase, settings); verifying or changing the address does not refresh the
  waitlist offer; a deletion whose answer was lost says nothing was deleted.
* An edit of a confirmed receipt's date locks no budget for the period it leaves,
  when that is the only one that counts (`receipt_service.py:764` passes the new
  date alone): a request that read its spend before may alert of a sum that is no
  longer there. `NoFalseAlert` excepts it (`MovesAway`).
* A scan or an import does not invalidate History, and confirming a receipt does
  not invalidate the items; History's detail of a receipt deleted there is not
  read again.
* In manual entry, the screen goes back also when the user left it; Cancel during
  a save of the budget form pops another screen; a category's update that ends
  closes whichever editor is open by then (`categories.tsx:125`).
* `auth.py:504` says "Confirmed via the new email.", but the link went to the
  current address (`auth.py:482-483`); the new one was never tried.
* Of a group with as many lines in one unit as in another, the split screen
  averages the unit bought last and the server the one bought first (`split.ts:45`,
  `items/split.tsx:71` against `price_service.py`, `_series`), though `split.ts:30`
  says "averaged like for like as the server does": `ComparesLikeTheServer` excepts
  a tie (`UnitsTie`).
* The means of the items list (`price_service.py`, `averages`) read rows in no
  order, so on a tie between units they may be of another unit than the history's.

## 6. Proofs

TLAPS checks, for every value of the constants their assumptions allow:

| module | theorem | gives |
|---|---|---|
| `BudgetAlertsProofs` | `TypesHold`, `NeverNotifiedTwice`, `NoAlertMissed`, `NoAlertFalse` | `TypeOK`, `NotifiedOnce`, and with `Apart` `NoMissedAlertButAtTurn`, `NoFalseAlert` |
| `PushDeliveryProofs` | `TypesHold`, `StatusNeverLies`, `RunsKeepPromise` | `TypeOK`, `StatusIsTrue`, `KeepsPromise` (the refinement) |
| `PremiumProofs` | `TypesHold`, `StampsOnlyGrow`, `PremiumWasOwed`, `PremiumConverges` | `TypeOK`, `NewerStands`, `OwedAtStamp`, `Converges` |
| `ReceiptPhotosProofs` | `TypesHold`, `NoFileLeftBehind`, `PhotosStay`, `OnlyExpiredAreErased` | `TypeOK`, `FilesHaveRows`, `RestorableHasPhoto`, `OnlyExpiredErased` |
| `SessionProofs` | `TypesHold`, `NeverReplaysItsOwn`, `RotatesInTurn`, `WaitersAreAnswered`, `RegisteredForMe` | `TypeOK`, `NoSelfReuse`, `OneLiveRefresh`, `NobodyWaitsInVain`, `RegisteredIsMine` |
| `CaptureProofs` | `TypesHold`, `OnlyTheirOwn`, `StoredOnceUnlessUnsure`, `NoneIsLost`, `WithinQuotaUnlessAtOnce` | `TypeOK`, `OnlyOwnersReceive`, `NoPhotoTwice`, `PhotoKept`, `OverQuotaOnlyAtOnce` |
| `ScreensProofs` | `GroupsStayOneDeep`, `OneYearAlways`, `LimitsHaveCategories`, `LinksAreTrue`, `EditsKeep`, `OffersHold`, `LandsAlive` | of `AreasSpec`: `StoreGroupsOneDeep`, `OneFreeYear`, `BudgetsHaveCategories`, `LinksDoWhatTheySay`, `EditsKeepTheRest`, `OffersAreAccepted`, `LandsOnALiveItem` |

The arguments:

* **BudgetAlerts.** `TypeOK` needs `Begun` (a request past its beginning has a
  body and the row it read). `NotifiedOnce` needs `Claims`: what a request has
  claimed is in nobody else's claims nor yet in the ledger, and what it will
  notify is what it claimed. The wait in `Alerting` is what keeps claims apart.
  That no alert is missed and none is false needs `Cover`, what a request knows
  at each step unless an unchecked change disturbed it: which receipts it writes
  (`Own`), that outside its dates it adds no spend (`Elsewhere`), which periods it
  looks at (`Planned`), and, from its lock of the budgets to its commit, that its
  breaches are those of its own view of the rows (`Known`). The locks make that
  last through other commits: of two requests at their commit one holds no
  budget, so it has moved no spend that counts (`SkippedDates`, `CommitKnown`).
  `Apart` says the requests are about receipts whose lines share no name;
  without it the property fails, which is finding 2 (`BudgetAlerts_same`), and
  every state of `BudgetAlerts_apart` has it.
  Spend is compared, never computed: its first lemmas show that a sum over finitely
  many receipts, and what rolls over from period to period, are monotone in what
  the receipts add. Both are folds; `FoldProofs` proves, by induction stated with
  sets, that the recursive function behind a fold exists and that what each of
  its steps keeps (a set, or a relation between two folds) its values keep.
* **PushDelivery.** `RunInv` says what a run holds at each step: rows it selected
  are pending, rows it claimed are not, a message still to send was never taken
  by Expo, and of every claimed row that a device may have got the run knows.
  `Apart` says runs hold different rows. `StatusIsTrue` cannot be proved without
  both, and the refinement follows with each step mapped to `Take`, `Push`,
  `HandBack`, `Settle` or a stutter of every notification.
* **Premium.** `LockInv`: transfers in hand hold different users and no stored
  time is ahead of the log. `LogInv`: what the environment's events say of
  what it held. `OwedInv`: what is stored, read, or answered and still in hand
  was owed at its time. A late grant is covered by `Honesty`, what a
  cancellation that kept access implies of the grant before it.
  `Converges` is about a whole history, and needs three invariants of it.
  `ToldInv`: what RevenueCat holds of a user is what the last event about that
  user left. `MarkInv`: every event in the ledger left its mark, a stamp at least
  its own time. `FitsInv`: a row, and any read or answer in hand, that is as late
  as the last event that changed something has the store's expiry; it is active
  too, or still awaits the late grant (`Awaited`). Once all is delivered, the
  stamps are late enough (`MarkInv`), so the rows are right (`FitsInv`).
  TLC found no reachable state of `Premium.cfg` without these three.
* **ReceiptPhotos.** `RunInv` (a run's rows are expired under a cutoff already
  past, held by nobody else, and their files still there are those it has still
  to remove), `EditInv` (an updated row exists and is held by one request),
  `ScanInv` (an uncommitted scan has no row and has the files it wrote),
  `EraseInv` (before the deletion deletes a row, no file of a listed row
  remains). Together with the two file properties they are inductive
  (`PhotosInv`).
* **Session.** `TypeInv` adds to `TypeOK` that every token held anywhere was
  issued, and that a flight of refresh is one. `TokenInv` adds `Rotations` (the
  tokens of a family were rotated in order and once, unless an answer to it was
  lost and a lock ran out under one of its refreshes: without a lost answer no two
  refreshes of one token are past the denylist, and without an expiry the lock
  keeps them apart), `Deliveries` (a pair on its way to the phone
  is known to nobody else) and `Replays` (a refresh the phone does not wait for
  was lost). They are inductive together with `NoSelfReuse`, and give
  `OneLiveRefresh`. `RegisterInv` adds what becomes of a registration: each one still to
  be served is of the account signed in or of one that was overtaken, and the phone is
  registered to one of these, or such a registration is on its way or due.
* **Capture.** `PlaceInv`: a photo is at one place, the page in hand, the import,
  one row, one run's front, or calls nobody waits for. `FateInv` adds who took
  it, what of it is stored, and that an answer is one the server gave; with it
  `NoPhotoTwice` and `PhotoKept` are inductive. `QuotaInv` counts: what
  an account has stored and what it has past the count (`Bound`) is at most the
  quota and `together`. Only a check adds to that, and it records with how many
  others; a scan that is stored leaves the count for the store. The count and the snapshot of a run are recursive functions;
  `SetInduction` is induction over the naturals stated with a set, which
  these provers can use, and each fact about them is a set `SetInduction` fills.
* **The screens.** What they leave in the server's rows, and of the items also what
  is on the screens, an area at a time (`AreasInv`; a step of `AreasSpec` is in each
  area a step of it or none). `GroupsInv`: groups
  are one deep, and a call to merge ends at a store, since a screen offers what a
  read brought. `WantInv`: a call that has yet to be served sends of
  its field, and of every category if it sends the list, what the user wants, unless
  that is excepted; and where none has been made for it that is yet to be served,
  the server holds it. The hook's own
  calls (`UnderWay`) are what two answers out of turn would break. `AccountsInv`:
  `RowsOnce` (an email and an account have one redeemed row) and `Backed` (behind
  a grant is that row, or after a deletion its email alone, until the window for
  claims has closed) give the free year; `Linked` says the mail a live link was sent in
  names the address it is for, and a call of a link is of its kind. `BudgetsInv`:
  a category that is has a name, a limit has its category, and an update sends
  the fields that were typed. The grants are a fold over the rows, whose steps
  each keep the invariant (`FoldProofs`).
* **The item screens.** `ItemsInv` is about all that an answer meets when it comes.
  `CatalogueOK`: every line and name on receipts has an item that is there, an item
  that is there has a line or a name, and an open question is about two of them.
  `RequestsOK`: each call is as it was sent; one made from data that was true, with
  nothing else under way, is still one the server accepts (`FairOK`: this is
  `OffersAreAccepted`), and an answer to such a call names an item that is there
  (`LandsOK`). `HereOK` and `StackOK`: while a call's screen is still there, it is
  on top, over the detail or the list it was opened from; `PromptOK`: the prompt on
  top asks about the item its screen was opened for. `DraftsOK`: no line is in two
  drafts. `CacheOK`: what a read of an item brought has a line or a name, so that an
  item that is gone is never shown from a true entry. An answer takes the user back
  only from its own screen, to a detail that `RequestsOK` says is still there: that
  is `LandsAlive`.

Assumptions are those named `...Assumption` in the modules: sizes are naturals,
batches are not empty, initial rows have their type, sentinels are not data,
100 is among the thresholds (`settings`), and two requests about one receipt
are about one that exists; for the screens, there is a person and a category
name, names and ids are none of the model's own words, and the items begun with
are numbered from one, each with a line, and asked about in pairs.

## 7. Model-checked only, and fairness

Liveness is beyond the provers and rests on TLC: `EverySettles`,
`PurgedInTheEnd` and `QueuedUploads`. So do the properties of
what the screens show: `WhatIsShownIsTrue` (of every cache entry and every call
that will invalidate it) and `FiguresAgree` (the figures fold and sort purchases
day by day: what they compute is induction over data), the type invariant
`ScreensTypeOK` of the seven areas, and of their saves `SavesOnlyWhatWasTyped`
(of a module that is not in `AreasSpec`) and `SavedAsTyped`.

Two exceptions in the properties of the item screens were found with larger
bounds. A draft of a split keeps a line that a refetch took from the item:
`canSaveSplit` still counts it (split.ts:71), and the server refuses the save; so
`OffersAreAccepted` is about drafts of the item's own lines (five items, four acts).
A prompt opened, from stale data, for an item that is gone is still over that item's
screen when its answer comes; so `LandsOnALiveItem` is about prompts that go to an
item that is there (six acts).

* `PushDelivery!FairSpec`: weak fairness of each worker's step (beat starts a run
  every minute, a run that has not died goes on) and of `Age` (time passes).
  Crashes are not fair. Their bound says that runs do not die for ever.
* `ReceiptPhotos!FairSpec`: weak fairness of each purge worker (beat, daily), of
  requests, scans and the deletion under way (each ends or fails), and of the
  days; strong fairness of the deletion's row locks, which PostgreSQL queues.
  Nobody has to scan, edit or delete an account.
* `Capture!FairSpec`: weak fairness of what goes on by itself on the phone and the
  server (an upload under way, a run, an effect, an answer), and of the app being
  left and opened again: the code relies on the foreground for a retry, and
  finding 4 is what happens while the app just stays open.
* `NobodyWaitsInVain` says "in vain" without fairness: a call that waits has a
  refresh under way. The screens have no fairness, and only safety is asked.

## 8. Not modelled, and the plan

Left for later, in the order of what they would show:

1. `ItemLocks`: the lock order and the retry of `lock_line_items` against merges;
   deadlock freedom, and no line linked to an item that is gone.
2. `BudgetLifecycle`: two first budgets at once, revival against the purge of
   budgets, moves of the start day under claims already made.
3. Price alerts: the claim with its cooldown, and two confirms at once.
4. Weekly summaries with overlapping beats.
5. Totals of a receipt under two edits, and the deadlock of two category
   corrections, which PostgreSQL resolves by failing one.

Further theorems: the saves of the screens (`SavedAsTyped`, `SavesOnlyWhatWasTyped`)
and what they show (`WhatIsShownIsTrue`).

Left out for good: the extraction model and the parsing of its answers, image
conversion and the pixels of a frame, embeddings, the rows of an export,
analytics (append-only), rate limiting and the key cache (library
configuration), lockout and password rules, the in-process events (log
handlers), migrations, style, layout and wording of the screens, and the design
prototypes under `src/design`.
