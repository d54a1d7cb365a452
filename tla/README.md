# A verification of the load board

`lboard` is a Flutter app for a freight market. Brokers post loads, carriers bid
on them, a broker accepts a bid, and the chosen carrier confirms or declines the
load. Its state lives in Dart objects (the providers) in front of an SQLite
database on the device. On Windows a small C++ program hosts the Flutter engine
in a window. This directory holds TLA+ models of that code, the TLC
configurations that check them and theorems proved with TLAPS. File references
below are relative to `src/lib/` unless they start with `src/`.

Dart runs one event at a time. Two user actions never race inside a statement,
but every `await` is a place where another handler, a database answer or a
network answer can run, and the code after it goes on with what it read before.
The Windows host has the same trouble in another form: Windows calls the window
procedure back from inside the host's own calls. Almost everything hard in this
program is of that kind, and the tests under `src/test` reach none of it: they
cover the data classes, the database upgrade, distances and the FMCSA clients,
one call at a time.

## Inventory

| Component | State | Operations | How it interacts | What is hard |
|---|---|---|---|---|
| `LoadProvider` (`providers/load_provider.dart`) | `_loads`, `_distanceCache` | `fetchLoads`, `calculateDistance`, `addLoad`, `addBid`, `updateBidStatus`, `confirmLoad`, `declineLoad`, `deleteLoad`, matching, filters | calls the database and the network, is called by every board, notifies them | an index or a post kept across an await; a fetch that replaces the list in the middle of another operation |
| `LoadPost`, `LoadPostQuote` (`models/load_post.dart`) | a load, its bids as a shared `List` | `toMap`, `fromMap`, `fromString`, `copyWith` | rows to objects and back | `''.split(';')`, `null` meaning "keep" in `copyWith` |
| `DatabaseHelper` (`core/core/database/database_helper.dart`) | tables `loads`, `users`, `brokers`, `messages`, version 15 | insert (replace), query, `updateLoadBids`, update, delete, `onUpgrade` | serial execution of calls, answers through futures | whole-row updates, a partial column write that drops information, upgrades that add a column twice |
| Boards (`widgets/broker_received_bids_board.dart`, `widgets/carrier_bid_responses_board.dart`, `widgets/enhanced_*_board.dart`, `bid_screen.dart`, `load_details_screen.dart`) | which buttons are drawn | the handlers behind the buttons, dialogs | call `LoadProvider`, then `fetchLoads` | guards evaluated when a button was drawn; dialogs that stay open; double taps |
| Posting and login (`login_screen.dart`, `post_load_screen.dart`, `widgets/posting_management_dialog.dart`, `main.dart`) | form fields, session | login and its fetch, posting, bulk deletion, seeds | as above | deletions nobody waits for, seeds that replace rows at every start |
| Accounts (`providers/auth_provider.dart`, `core/services/auth_service.dart`, `login_screen.dart`, `enhanced_register_screen.dart`, `screens/profile_edit_screen.dart`) | the user in session, in the provider and again in the service | login, register, save the profile, logout | table `users` | check, await, insert with replace; an answer after a logout or another login |
| Windows host (`src/windows/runner/*.cpp`) | window handle, child view, class registration, engine controller, count of windows | start, window messages, destruction | Windows and the engine call it back | `Destroy` entered from the message its own `DestroyWindow` sends; a start that fails halfway; the first frame before its callback |
| Two-factor screen | expected code | send, resend, verify | none: no route opens it | nothing that can be reached |
| Invoices and OCR (`providers/invoice_provider.dart`, `services/google_ocr_service.dart`) | `_invoices` | create, upload of a proof of delivery, OCR verdict, payment | none: `main()` does not provide `InvoiceProvider`, so its screens throw | nothing that can be reached |
| SAFER web and FMCSA (`providers/safer_web_provider.dart`, `services/*safer*`, `services/fmcsa_verification_service.dart`) | snapshot cache, loading and error flags | fetch, fetch many, clear | web API | answers after a clear, one flag for two fetches |
| Notifications | a list in memory | add, read | told by the negotiation | ids that repeat within a millisecond |
| Chat (`services/chat_service.dart`) | table `messages` | send, read | through a `PlatformDatabaseService` nothing initialises: every call throws | nothing that can be reached |
| Distance service (`core/services/distance_service.dart`) | none | a route with attempts, pauses and an estimate in the end | directions API; called by `calculateDistance` and one screen | bounded time, lookups that overlap and fill in one object |
| Platform database, Sembast, theme | which database, a settings store | init, delegation, one setting | all of the above | nothing: `main()` waits for the init before it shows a screen |
| Search as you type (`widgets/debounced_search_bar.dart`) | last text, results | debounced search | none: no screen mounts it | nothing that can be reached |
| Analytics, tabs, themes, screens | derived | filters, layout | read the providers | nothing that outlives a frame |

What makes each correct, in a sentence: the load board loses and invents no
load, bid or confirmation and shows what the table holds; an account belongs to
one registration and a session to somebody who proved who they are; a distance
is found or given up in bounded time and belongs to its load; a snapshot shown
is one that was asked for and not cleared; every upgrade leaves a table the app
can write; the host uses the window and the engine only while they exist and
leaves nothing behind.

`PROJECT.json` lists the hazards one by one with the line where each bites.

## What is modelled

### `LoadBoard`

The load board from the buttons to the rows. One action is the code between two
awaits.

| State | Code |
|---|---|
| `mem` | `LoadProvider._loads`: a sequence of posts (id, status, chosen carrier, two flags, and which `List` object holds the bids) |
| `lists` | the contents of those `List` objects. Every `copyWith` of a post shares the list of its original; a fetch makes new ones, named by the number of the operation that fetched. 0 is the constructor's `const []` |
| `cache` | the keys of `_distanceCache` |
| `tasks` | the `calculateDistance` calls of a fetch that wait for the network or for the write of the distance, with the post each captured |
| `ops`, `started` | the handlers in flight: kind, where they are suspended, load, bidder, index found before the await |
| `user`, `boot` | the session; how far `main()` has come with the seeds |
| `db` | table `loads`, in rowid order (an insert that replaces moves the row to the end) |
| `queue`, `replies` | database calls made and not executed, executed and not resumed. Both are first in, first out, as sqflite runs the calls of one connection |
| `faults`, `restarts` | failed calls and kills so far (bounded) |

Handlers: `Login`, `Logout`, `Refresh`, `OpenDetails`, `PostLoad`, `PostReturn`,
`DeleteLoads` (the Delete button, and the posting management dialog after a
login), `PlaceBid`, `BidByName`, `Respond`, `OpenDialog`/`CancelDialog`/`Submit`
(confirm and decline). Continuations after an await: `LoginAnswered`,
`LoadsRead`, `DistanceSaved`, `LoadInserted`, `LoadDeleted`, `BidsWritten`,
`LoadWritten`, and `RouteFound`/`RouteMissing` for the network. Environment:
`InsertTestLoad` (start of the app), `DbExecute`, `DbFail`, `Restart`.

Choices worth knowing when reading it:

* `await db.init()` on an initialised service completes without leaving the
  current event turn for another handler; it is not a step.
* A guard on a button is evaluated on what the board last drew. A board redraws
  when the provider notifies, so the buttons of a bid stay until
  `updateBidStatus` has ended (`Actionable`), and those of an answer while it is
  being written (`OpenDialog`). A double tap is such a case.
* One device, one session at a time: carrier and broker log in and out of the
  same app, as the code has no server. A single `Broker` plays every poster.
* The Edit button of the board leads to an empty posting form (the argument it
  passes is never read), so editing is `PostLoad`.
* Amounts, addresses and texts are abstracted. `Addressed` are the loads with
  two addresses, `Located` those the geocoder finds.
* The dialog in which the broker types the amount of a counter-offer
  (`broker_received_bids_board.dart:110-154`) is not a step: `Respond` starts when
  it is submitted, on a bid that still has its buttons.
* A lookup is one step here, from the start to a text; `RouteLookup` is the
  detail.
* `LoadProvider.updateLoad` and `removeLoad` change memory only and no screen
  reaches them; they are left out. Matching and the filters read the list and
  change nothing the properties see; they are planned as operators of their own.
* `AddBid` on the `const []` of a load posted since the last fetch throws before
  it changes anything: its guard asks for a list.
* "done" is the step of a handler whose effect was reported to the user,
  "aborted" of one that was cancelled, threw or was killed.

### `LoadLifecycle`

The abstract specification: a load is absent, available, awaiting a carrier,
confirmed by it or declined by it, and five moves (plus the reset of a test
load) are all that happens to it. `LoadBoard!RefinesLifecycle` maps the rows of
the table to these stages.

### `LoadBoardProofs`, `LoadBoardOverlapProofs`, `LoadBoardSerialProofs`

Theorems about `LoadBoard`, below: in the first, for every use of the board, its
types, its flags and what the list shows; in the second which bids the table
keeps, whom a confirmed load names and that a reported confirmation stays, while
handlers overlap; and in the third what list and table have to do with each other
when they do not. `MCLoadBoard` holds the values TLC uses for the constants.

### `SnapshotCache`, `SnapshotCacheProofs`

`SaferWebProvider` and the search screen in front of it. The one await that lets
others run is the web service's, so a fetch is two actions and a batch, which
asks for one identifier after another, one action per answer.

| State | Code |
|---|---|
| `snapshotCache`, `loadingStates`, `errorStates` | the maps of the same names, as the sets of identifiers with a snapshot, a spinner, an error |
| `calls`, `started`, `clears` | the calls suspended on the service; bounds |
| `history`, `results`, `searching` | `_searchHistory`, `_currentResults`, `_isSearching` of the search screen |

| Action | Code |
|---|---|
| `FetchSnapshot`, `PerformSearch`, `FetchMultiple` | a call up to the await, cache hits and invalid identifiers included |
| `Answered`, `BatchAnswered`, `BatchDone` | what runs after it, for a snapshot, its absence or an error |
| `Clear` | `clearCache`, `clearAllCache` |
| `ClearHistory`, `LeaveSearch` | the search screen's Clear button and its `dispose` |

`fetchMultipleSnapshots` and the clears are public operations of the provider
that few screens use; they are modelled because a fetch that overlaps them is
where the flags could go wrong. There is no liveness property: `http.get` has no
timeout, so the code itself does not promise an answer.

### `Schema`, `SchemaProofs`

The file `load_board.db`: `onCreate`, and `onUpgrade` with one action per
`ALTER TABLE`. `Statements` lists them in their order, with the version each is
for and what its failure does: end the upgrade, skip the rest of a shared `try`,
or nothing.

| State | Code |
|---|---|
| `file` | the version and the columns of `loads` and `users` on the device, or no file |
| `phase` | where `main()` is: not started, in `onCreate`, in `onUpgrade`, past `runApp`, or ended by an exception before it |
| `next`, `txn` | the statement to run and the columns inside the transaction |

Columns no upgrade adds are one value, `"original"`, which a file found is taken to
have. `isCarrierPost` is one of them: `onCreate` has it and `LoadPost.toMap` names
it, and a file without it, such as the tables the tests write by hand
(`src/test/database_test.dart:21-40, 60-83`), could not be repaired. That sqflite runs `onCreate`
and `onUpgrade` in one transaction with the version, and that SQLite rolls it
back when the app is killed, is external. `main()` awaits the database, so
openings do not overlap.

### `Accounts`, `AccountsProofs`

Login, registration, saved profile and logout, from the button to table `users`.

| State | Code |
|---|---|
| `users` | table `users`, a row or `Absent` per key; a row is an id, a password, a role and a profile, all that the profile form can change |
| `session`, `current` | `AuthProvider._user`; `AuthService._currentUser` |
| `queue`, `replies` | database calls made, and answered, with the handler that awaits each |
| `earned` | auxiliary: the ids that gave their password or registered since the start |
| `started`, `faults`, `restarts` | bounds |

| Action | Code |
|---|---|
| `Login`, `LoginAnswered` | `_login` of the login screen, `AuthService.login`, `setUser` when the screen is still mounted |
| `Register`, `RegisterChecked`, `Registered` | `_register` of the registration screen and `AuthProvider.register` before, between and after its two awaits |
| `SaveProfile`, `Saved`, `Logout` | `_saveProfile`, `updateUser`, `logout` |
| `DbExecute`, `DbFail`, `Restart` | the database, in order; a call that throws; a kill |

The stack of screens is abstracted: whether the login screen is still mounted
when its answer comes is a choice, and the buttons of a screen that may lie
under another one stay available. The id of a registration is the time of the
tap; a clock that is set back may repeat one, two taps in one millisecond are
excluded (`Register`). The roles and passwords are compared as the code does,
the latter in clear.

### `RouteLookup`, `DistanceLookup`, `RouteLookupProofs`

`LoadProvider.calculateDistance` with `_getLatLng` and `DistanceService.getRoute`,
for several lookups of several `LoadPost` objects at a time.

| State | Code |
|---|---|
| `calls` | the lookups: where each one waits, its object, `origin` and `destination`, `attempt`, the timer it waits for, and, for the properties, its age and the attempts that failed |
| `table` | the loads in table `loads` |
| `posts`, `rows` | the coordinates and the distance in the objects and in table `loads` |
| `cache` | `_distanceCache` |
| `writes` | `updateLoad` calls not executed |

| Action | Code |
|---|---|
| `Start` | a call up to its first await: what is cached, known or empty |
| `Geocoded`, `GeocodingTimedOut` | `_getLatLng`, and what runs after it |
| `RouteAnswered`, `RouteRefused`, `RouteTimedOut`, `PauseOver`, `RouteUnusable` | `getRoute`: an answer, an exception, the timeout, the pause, an answer whose distance is no text |
| `PostReturn` | the Return Load button: a copy of the object with its ends swapped is inserted |
| `DbWrite`, `Refetch`, `Tick` | the write, a fetch that makes new objects, time |

Delays are in ticks; a timer that is due runs before time goes on, which is the
one synchrony assumption (an event loop that is blocked would delay the timers
of a phone as well). An answer that comes after its timeout needs no action: a
Dart future that was completed takes no other value. A point is known by the
address it was found for; the geocoder is taken to find the same point each time.
A load is stored with the two addresses its objects have, for the edit screen
changes an object of the list and no row. A return load is inserted in one step,
and once; that all of them share the id '' is `LoadBoard`'s. `getRoute` also refuses coordinates outside the globe; no
geocoder returns any, so `calculateDistance` cannot get there. Not modelled:
`calculateDistanceBetweenPickups` and the trigonometry of an estimate.

`DistanceLookup` is the abstract specification, four states and the cache. It is
what `LoadBoard` assumes of a lookup (`RouteFound`, `RouteMissing`,
`DistanceSaved`): a text for every load with two addresses, cached once it is
there, a write when it is a distance. `RouteLookup!Abstract` maps every waiting
step to "route".

### `RunnerWindow`, `RunnerWindowProofs`

The Windows host: `wWinMain`, `FlutterWindow`, `Win32Window` and
`WindowClassRegistrar`. `todo` is the call stack of the one thread, as the
sequence of steps still to run; a step replaces itself by what it calls, so that
a window procedure entered from `CreateWindow`, `ShowWindow`, `SetWindowPos` or
`DestroyWindow` runs where Windows runs it, inside the caller.

| State | Code |
|---|---|
| `todo` | the call stack; `<<"GetMessage", ...>>` is the message loop at rest, `<<>>` the end of the program |
| `created`, `result` | what `Create` and `OnCreate`, and `wWinMain`, return |
| `window_handle_`, `child_content_`, `quit_on_close_`, `flutter_controller_` | the members, as far as they are set; "broken" is a controller without an engine or a view |
| `isFlutterWindow` | virtual calls reach `FlutterWindow` (until its destructor has run) |
| `g_active_window_count`, `class_registered_` | the globals |
| `os`, `posted`, `registry` | Windows: the class, the window, its child, sizes, focus and title bar; the queue of messages; the theme of the user |
| `engine` | the engine's own thread: a frame due, the first one completed, the callback registered or posted |
| `destroys`, `events` | calls of `DestroyWindow`; bound |

Every handler of `MessageHandler` and every function of the class is an action
of the same name (`OnWmSize`, `Destroy`, `UnregisterWindowClass`, ...).
`Environment` is the user and the system, `EngineFrame` and `AppRedraws` the
engine. `FontChanges` and `DpiChanges` are messages another thread sends, which
need no message loop: they reach the window procedure from within whatever call
into Windows or the engine the thread is in (`CallsOut`), among them the creation
of the engine, where `flutter_controller_` is null, and its destruction, where it
is null again. `FlutterWindow`'s handler of a font change follows that pointer; the
model then sets `crashed`, ends the program and leaves everything else as it was.
The short calls at the end of a handler (`MoveWindow`, `SetFocus`, `SetWindowPos`)
are one step with it. COM is left out: `CoInitializeEx` and `CoUninitialize`, which
the return with `EXIT_FAILURE` skips (`src/windows/runner/main.cpp:18, 30-32, 41`).
That the plugins the program registers take none of these messages is
assumed; `file_picker_plugin.cpp` is neither compiled nor registered. What
Windows does, which message it sends from within which call and when it refuses
to unregister a class, is external.

## Runs

All runs but `route_lookup` and `distance_dropped` set `CHECK_DEADLOCK FALSE`: their instances stop
when the bounds are used up and no call is outstanding, as the app does when
nobody touches it, or when the program has ended.

| Run | Bounds | Shows |
|---|---|---|
| `negotiation_serial` | 1 load, 2 carriers with a bid each, 7 handlers one at a time | `QuietBoardIsCurrent`: the board shows the table; `ApprovedMeansAwaiting`: the broker is told of an approval the table has; `RefinesLifecycle` |
| `board_overlap` | 2 carriers, 5 handlers; `PostOrAnswer` bounds it to sessions that post, delete and bid, with 2 loads and 3 handlers in flight, and sessions that answer the bids of 1 load, with 2 in flight | `ConfirmationDurable`: a reported confirmation stays until a decline or another acceptance; `ConfirmedNamesCarrier`; `NoDuplicateLoads`: the list shows no load twice; `NoGhostLoads`: a load whose deletion has returned stays off it, unless it is a test load and the app was restarted; `AcknowledgedBidsSurvive`; all of them while handlers and fetches overlap |
| `crash_and_faults` | 1 load and a return load (id '') whose carrier was chosen in an earlier session, a seed, a locatable load, every handler, 3 of them, 2 in flight, 1 failed call, 1 kill, with fairness | `TypeOK`, `StatusFlagsAgree`; `HandlersEnd`: every handler ends |
| `snapshots_overlap` | 2 valid identifiers and an invalid one, overlapping fetches, batches and clears | `SpinnerMeansFetching`: no screen waits for nothing; `SearchingMeansSearch`, `SearchListsClean`: the search screen's button and lists survive overlapping searches |
| `upgrades` | no file, or a file of version 6 to 14 that lacks all, none, any one or all but one of the columns the guarded statements add; 2 kills | `NeverDead`: no upgrade fails for good; `VersionMeansColumns`: a file with version 15 can store a load; `OpenEnds` |
| `accounts_overlap` | 1 seeded user, 2 stamps, 1 name, 2 passwords, 1 role, 2 profiles, 4 handlers, 1 failed call, 1 kill | `SessionHasAccount`, `QuietSessionIsCurrent`, `SessionIsEarned`: sessions under overlapping logins, registrations, saves and logouts; `AccountsKeepTheirOwner`: no write takes an account over |
| `route_lookup` | 2 lookups; 4 loads: one with two objects, its return load, one without an origin, one without a destination whose origin is known; a geocoding of 2 ticks, a route and a pause of 1, 3 attempts | `EndsInTime`, `LookupsEnd`: a bound and an end by the timers alone; `EstimateIsLastResort`; `CoordinatesSound`: coordinates stay with their addresses; `WriteMatchesRoute`: a row is written with the points of its route; `RefinesLookup` |
| `host_window` | 2 sizes, both stored themes and a missing registry value, 4 events of the user or the system | `OpenWindowHasFlutter`: a font change kills no program with an open window; `HandleIsLive`, `NothingLeft`: nothing destroyed twice or left behind, whichever step failed; `ViewFollowsWindow`, `ThemeFollowsSystem`; `CloseEnds`, `WindowShows` |

Four runs expect a violation. Each states what the repository says of itself and
shows where the code does otherwise:

| Run | Property | What happens |
|---|---|---|
| `approval_lost` | `ApprovedMeansAwaiting`, two handlers in flight | between the two awaits of `updateBidStatus` an earlier fetch delivers rows read before the acceptance; the second write puts the old post back, and the broker reads "You have successfully approved the bid" |
| `distance_write` | `DistanceWriteIsNarrow` | the write of a distance undoes a bid written during the lookup |
| `distance_dropped` | `WriteHasDistance` | the copy that `calculateDistance` writes "with new coordinates and distance" has none: `copyWith` sets the distance to its parameter (`models/load_post.dart:567`) |
| `upgrade_from_v5` | `NeverDead` | `destinationDifference` is added for versions below 6 and again, unguarded, for those below 11 |

### Disagreements without a run

Met while modelling; the models have them, but one needs no search to see them:

* A load without bids is read back with a bid of "Unknown", which the broker can
  accept and nobody can answer (`ParseBids`, `OffersAnswer`).
* Every return load has the id '' and replaces the one before (`PostReturn`); the
  details screen then shows it the text cached for the first.
* A return load posted while only one end of its load has been geocoded gets that
  point at both ends, because `copyWith` takes a null for "keep"
  (`models/load_post.dart:541-544`): its route is one of no length.
  `CoordinatesSound` allows this and nothing worse.
* A declined load keeps its carrier, for the same reason
  (`providers/load_provider.dart:596`): `LoadLifecycle!Decline`.
* The seeds of `main()` replace their rows at every start, whatever was negotiated
  on them (`LoadLifecycle!Reset`); a kill between the two writes of an acceptance
  leaves an accepted bid on an available load; a bid on a load posted since the
  last fetch throws.
* A save answered after a logout puts its user in session again, and of two
  logins the later answer wins: `SessionIsEarned` and `QuietSessionIsCurrent`
  allow both.
* A WM_FONTCHANGE sent while the engine is being created, or while the window is
  destroyed, follows a null pointer (`src/windows/runner/flutter_window.cpp:66`).
  The handler asks for the controller four lines above and not there.
* A first installation has no column for a user's distance limit, which only an
  upgrade from below 8 adds (`CreatedUsers`).
* `updateLoadBids` writes the bids without their statuses
  (`core/core/database/database_helper.dart:368`): after another bid or verdict
  the accepted one reads back as pending, and the chosen carrier has no buttons
  to answer with (`Stripped`, `OffersAnswer`).
* Of two overlapping fetches of a snapshot one may fail and leave its error
  beside the snapshot the other one found; a refresh is then a cache hit
  (`providers/safer_web_provider.dart:56`). The tests expect an error and a
  snapshot to exclude each other (`src/test/safer_web_test.dart:133-134`).
* `core/services/auth_service.dart:23`, "Assuming username is unique identifier
  for login", looks the user name up as the id; the registration screen makes the id of the
  time (`enhanced_register_screen.dart:130`). A registered user can log in only
  by typing that number: in `accounts_overlap` no row ever has the key `n1`. The
  password is trimmed at the login and not at the registration.
* `lane_preferences_screen.dart` saves by registering the user again, which
  always throws; no route leads to it.
* A lookup that ends with "not found" is cached, and so is an estimate of
  `calculateDistance`'s own: neither is tried again until the load is deleted or
  the app restarted. A measured distance may be replaced by the estimate of an
  overlapping lookup that started earlier, or by its "not found".
* `win32_window.cpp:22-23` says a missing registry value means the light theme;
  `UpdateTheme` then leaves the title bar as it was. `host_window` and the
  theorems have the missing value; `ThemeFollowsSystem` promises nothing while
  the value is missing.
* `win32_window.cpp:75-76` asks that `UnregisterClass` be called when no window
  is left. When the start fails, the destructor has counted the window down
  before it is destroyed, so the `Destroy` inside `WM_DESTROY` makes the call
  while the window exists. Windows refuses; the call after it succeeds
  (`NothingLeft`, whose mutant drops that second call).
* `utils.cpp:51` subtracts 1 from an unsigned length that is 0 for an argument
  that is no valid UTF-16.

Why the bounds are enough: two handlers in flight already produce every pair of
continuations in every order, and a third one the fetch that falls between the
two halves of another; two carriers are needed for "another carrier's bid or
acceptance", two loads for an index that shifts; a login, a bid, an acceptance, a
login and an answer are five handlers, seven leave room for a second round. One
fault and one kill can each fall between any two steps. `crash_and_faults` has
three handlers, enough for a login, an answer and a fetch that overlaps it, and
its two invariants are theorems for any number. Two lookups of one object are the
overlap that `RouteLookup` is about, a geocoding that lasts longer than a route
lets the one fall within the other, and the return load can be posted before,
between and after the two points are found; the six facts it checks besides
`LookupsEnd` are theorems as well. In `accounts_overlap` two registrations with
two passwords collide or not, and two profiles tell an old save from a new one;
all of it is proved for any bounds. Four events put every pair of window messages
between the start, the first frame, a change of theme and the end, and a theme
needs two of them to change and change back. A file of versions 6 to
10 is in `upgrades` when it lacks what version 11 adds without a `try`: what the
first installations of those releases created is not in the repository, and a
file that came through the upgrade below 6 has two of these columns already and
fails like `upgrade_from_v5`. A column that is missing is repaired by a
statement of its own, so one missing, one present and the two extremes are all
the cases a file can bring.

Limits the runs state by their configuration: `QuietBoardIsCurrent` and
`RefinesLifecycle` are promises of serial use; with an overlap the causes shown
by `approval_lost` and `distance_write` break them. `ConfirmationDurable` is a
promise of a board used to negotiate, `AcknowledgedBidsSurvive` of one without
verdicts, since a verdict written from an old copy takes back the bids it lacks.
`board_overlap` therefore explores two kinds of sessions and no mixture of them
(`CONSTRAINT PostOrAnswer`): those that press the buttons of lists, and those that
answer, without posts, deletions and new bids. Its two carriers are symmetric
(`TheCarriers`): they are called by their ids and have bid on the same loads. It has no
locatable load. The theorems
below say what each of these is excluded for.

### Fairness

`HandlersEnd` is checked under `LiveSpec`: weak fairness of the seeds' loop, of
the database (it executes what is queued), of the event loop (a continuation
whose reply is at the head runs), of each distance lookup and of each dialog.
The lookup has a timeout on every network call (`load_provider.dart:417-420`,
`core/services/distance_service.dart:53-56`) and three attempts; a dialog is
modal, and the login dialog is not dismissible. No fairness is assumed of users
starting handlers, of failures or of kills.

`LookupsEnd` is checked under `FairSpec`: weak fairness of each lookup's timer,
of the clock and of the database. Nothing is assumed of the network, which may
answer, fail or stay silent.

`CloseEnds` and `WindowShows` assume, in `LiveSpec` of `RunnerWindow`, weak
fairness of the host's thread and of a frame that is due. The user, the system
and the app owe nothing.

`OpenEnds` assumes weak fairness of the statements of an opening (`main()`
awaits each of them and the database executes them), and nothing of starts or
kills.

## What is proved

For every value of the constants (any set of loads and carriers, any number of
handlers in flight, failures and kills), from the assumptions named in
`LoadBoard` (the bounds are naturals, the seeds and addressed loads are loads, a
row left by an earlier session is a row whose status and flags agree):

* `TypeCorrect`: `Spec => []TypeOK`.
* `FlagsAgree`: `Spec => []StatusFlagsAgree`. The boards decide by the status,
  `getLoadsAwaitingCarrierConfirmation` by the flags; the two never contradict
  each other, in memory or in the table.

Neither is inductive. A post reaches the list or the table through rows waiting
in `queue` and `replies`, through the posts captured by lookups and the post an
`addLoad` was given, so the invariant `IInv` asks agreement of all of them. The
login step sets the user to the owner of a reply, so `IInv` ties a `getUser`
call to a login of a user, and `BidsWritten` indexes the list, so it keeps the
index from being zero. `IInv` is a conjunction of one named part per variable
and three parts that link them; there is one lemma per group of actions, over
lemmas about lists by id, about each conversion, and about the three things an
action does to `ops`, `queue` and `replies` (start, move on, call, resume).

In `SnapshotCacheProofs`, for any identifiers and any number of overlapping
calls: `SnapshotTypes`, `NoIdleSpinner` (`SpinnerMeansFetching`),
`SearchSpinnerMeansSearch` (`SearchingMeansSearch`) and `SearchListsStayClean`.
The invariants are inductive together with the types; a spinner survives the end
of a fetch only through another fetch of the same identifier, and the end of the
first switches it off as well. What inserting at the head of a list and cutting
it to its limit preserve are lemmas.

In `SchemaProofs`, under the hypothesis that every file found is `Upgradable` (a
statement without a `try` adds a column neither the file nor an earlier
statement has; every column of `LoadPost.toMap` is there or added by a statement
no failure skips) and for any number of kills: `SchemaTypes`, `UpgradesNeverDie`
and `VersionsMeanColumns`. `NeverDead` is not inductive: the invariant
`Progressed` says what an open transaction holds, namely the file's columns and
what the statements already passed added. The hypothesis is a property of files,
not of the run, and `MCSchema` has TLC evaluate it for every file of `upgrades`;
`StatementsAssumption`, the types of the statements, mentions no parameter, so
TLC's evaluation of it is a proof.

In `AccountsProofs`, for any seeds, stamps and forms and any number of handlers,
failures and kills, every property of the run: `AccountTypes`,
`SessionsHaveAccounts`, `SessionsAreEarned`, `OwnersKeepAccounts` and
`QuietSessionsAreCurrent`. That an account keeps its owner needs to know that an
`insert` in the queue is the only one for its key and that the key is free,
which in turn rests on the one registration per stamp and on the order of queue
and replies. That a quiet session is current needs the invariant `FreshInv`: a
session, or a row an answer is about to put into session, is what the table
holds, or the reply of a save of that account, executed later, is still to come
and puts its row there.

In `RouteLookupProofs`, for any lookups, loads, objects, delays and number of
attempts: `LookupTypes`; `LookupsEndInTime`, whose invariant charges the age of a
lookup to the requests it has made, the time its timer has left included, so
that the `Deadline` is what a lookup at its last attempt can have used;
`EstimatesAreLast` (attempts and failures go together); `CoordinatesStaySound` and
`WritesMatchRoutes` (from the assumption that the rows at the start are sound, and
that a return load has the addresses of its original, swapped: an object keeps a
point it has, so what a lookup took from it or put into it is still there when the
route is answered, and is what the copy has; swapping ends keeps them with their
addresses, or gives both the same point); and the refinement,
`LookupsRefine == Spec => RefinesLookup`, with one lemma per action that maps it
to a step of `DistanceLookup` or to a stutter.

In `LoadBoardProofs` as well, from the same assumptions and for any constants
(every button, any number of handlers in flight, failures and kills):

* `BoardShowsLoadOnce` (`NoDuplicateLoads`);
* `DeletedStaysOff` (`NoGhostLoads`).

Both rest on the order of database calls and answers. A call keeps its place
from the moment it is made until its caller resumes: an executed one is behind
the replies already there and before the calls still queued. `Pipe` is that one
sequence, the replies followed by the queue, and executing a call changes what
stands at a place of it and no place. `ListInv` is about the pipe:

| Part | Says |
|---|---|
| `CallsLinked`, `TasksLinked`, `CallsApart` | a call belongs to the handler, or the lookup, that waits for it, which has no other |
| `OpsShaped`, `BootsAlone` | what a handler of a kind can be waiting for; no call while `main()` inserts the seeds |
| `Unique` | an id occurs once in the list, in the table and in the rows of a reply |
| `Posting` | while `addLoad` waits for its insert, the list and the rows of replies before it do not have the load, nor does the table until the insert is executed, and no deletion was given it |
| `ReadOnce` | rows that a fetch was answered with and has not delivered have no load that left the table, but those a deletion was given; hence a load that can be posted is in none of them |
| `Deleting`, `Deleted` | a load whose deletion was executed is not in the table, nor in rows answered after it; once it has returned, neither in the list nor in any rows still to be delivered |

One lemma, `AppStepKeeps`, takes a step of the app (drop the reply at the head,
append at most one call to the queue, change one handler) and says what such a
step has to show for each part; there is one lemma per handler over it, and two
for the database's steps. TLC found every part of `ListInv` to hold on 161,283
states of an instance with the buttons of lists and on 895,410 of one with every button,
a seed, a locatable load, a failed call and a kill before the proof was
attempted.

The theorems of `LoadBoardOverlapProofs` have hypotheses. The first one's is met
by the sessions of `board_overlap` that post:

* `NarrowUseKeepsBids` (`AcknowledgedBidsSurvive`), under `NarrowWrites`: no
  button answers a bid or a load or bids by name, and no load can be located.
  Posts, return loads, deletions, fetches, logins and bids from the boards, any
  number of them at once, failed calls and kills remain.

updateLoadBids writes all bids of a load, from the copy on the board, so a bid is
safe when every copy that will be written from has it. No copy has them all: while
a carrier's own bid is on its way, a fetch may bring rows without it. What holds
is that a copy lacks at most bids *of the user in session*, and the next write
from it is his and puts his bid in. `BidsInv` says this, with `ListInv` below it:

| Part | Says |
|---|---|
| `NarrowCalls`, `BidsOnce`, `NarrowOps`, `TasksLate` | no call writes a whole row but an insert of a post or of a return load; a bid is written once |
| `LoadsKnown` | a load that is or was on the board is in the table or was given to a deletion, so no post brings its id back without its bids |
| `TableKeeps`, `WritesKeep` | the table has the bids acknowledged or about to be; a queued write has those placed before it |
| `AsksAlone`, `AsksAfterBids`, `FetchesAfterBids` | a login asks for the account when nobody is in session, after every bid of the session before; its answer comes behind them, so the rows it then fetches have all bids |
| `SessionKeeps` | until the next login, bids on their way are the user's, and the list and rows to be delivered lack at most his |

`Placed` counts a bid from its call on, by its place in the pipe. TLC found
`BidsInv` to hold on 130,176 states of an instance with the buttons of lists and on 122,842 of one
with a failed call, a kill and a seed. The hypothesis is needed: a carrier who
refreshes, bids and answers bids can have rows from before his bid arrive between
the two writes of updateBidStatus, and the second one drops it; a bid by name
after a stale fetch does the same; saveDistance writes a whole old row.

The second theorem is

* `OverlapsKeepCarrier` (`ConfirmedNamesCarrier`), under `NoOldCopies`: no load
  can be located, neither the broker nor "nobody" is one of the carriers, and the
  rows an earlier session left satisfy the property. Every button stays, bids by
  name and return loads included, with any number of handlers in flight, failed
  calls, logouts and kills.

confirmLoad sets the flag on whatever post the list shows for the load when the
dialog is submitted, and looks at no name. The dialog was opened for the user the
load named then, and fetches, deletions and verdicts may have replaced that post
since. What saves the property is who can do what. Only the broker chooses (by an
acceptance, or with a return load that keeps the choice), and a login lies between
his choice and any dialog. It asks the database behind all calls of the session
before, but for the second write of an acceptance, which is made when the first
returns and may be queued behind it, though not behind the fetch that the login
then makes. `ChoiceInv` says how far this reaches, with `ListInv` below it:

| Part | Says |
|---|---|
| `RowsNamed` | the property itself, of every copy: the list, the table, rows waiting in calls and in replies, posts about to be inserted |
| `KnownCalls`, `TasksAway`, `NobodyBoots` | which handler a call can be of; no lookup is of a login; nobody is in session before the seeds are in |
| `AnswersWait` | a dialog is open only in the session of a carrier; an answer whose write is due still has its call in the pipe |
| `AsksAlone`, `AsksAfterOpenings` | a login asks when nobody is in session, and behind every bid, verdict and post |
| `FetchesLast` | from a login's answer to the end of its fetch, no bid or post is in the pipe and no write of a load behind the fetch; once the fetch is executed, the table and the rows answered from then on name one carrier per load |
| `SessionChoice` | in the session of a carrier all copies of a load (list, table, rows in replies, writes in the queue) name the same one, and a load with an answer under way names the carrier who answers |

`Stands(l, b)` collects the copies of `l` that name `b`; while a carrier is in
session no step adds to it, which is what the lemma `StandsBefore` says of a
step of the app and `ExecutedChoice` of the database. TLC found `ChoiceInv` to
hold on the 45,686 states of an instance with every button, bids by name and a
load that awaits its carrier, and `board_overlap` meets the hypotheses.
That on distances is needed: with one failed fetch, TLC finds a lookup of the
broker's session that ends in the carrier's and writes the row from before the
acceptance, which names nobody; the carrier's refresh reads it while his dialog
is open, and confirmLoad confirms it.

The third theorem is

* `OverlapsKeepConfirmation` (`ConfirmationDurable`), under `OnlyNegotiation`:
  `NoOldCopies`, and the buttons are among login, refresh, details, respond,
  confirm and decline. Any number of handlers in flight, failed calls, kills,
  logouts and seeds remain, and any rows of earlier sessions, whatever bids they
  hold, whose confirmed loads name a carrier. The sessions of `board_overlap` that answer
  meet it.

updateBidStatus writes twice: the bids, from its copy of the load, and after an
await the row that then stands where it found the load. A verdict with a copy from
before a confirmation whose second write comes behind it would take the
confirmation back, and so would a fetch delivered late to the board such a verdict
is given on. Both happen to other loads and to other carriers: a carrier may
refresh, and reject a bid of his own, while his confirmation is being written.
They cannot happen to the load he confirms. It awaited his answer, so his bid was
accepted in every copy his session can meet, and a bid that shows as accepted has
no buttons; the other sessions' boards were fetched behind the write. `ConfirmInv`
says so, with `ListInv` and `ChoiceInv` below it:

| Part | Says |
|---|---|
| `AwaitedCalls`, `RowsOwned` | a handler has one call under way and its step says which; what it writes is of its own load |
| `NegotiationOps`, `TasksOpen` | a verdict under way has its call in the pipe, and the index it remembers is its load's place in the table; a handler with a lookup running is not past its lookups |
| `ListsInPlace` | the list and every list a fetch was answered with have their loads in the table's places, so that index is good for any of them |
| `FetchedNow` | from the execution of a login's fetch to its delivery the table does not change |
| `SessionMarks` | in a carrier's session all copies of a load (list, table, replies, writes) agree on whether his bid is accepted; it is not where a verdict is under way, and it is where he answers |
| `ConfirmRows` | the row a confirmation writes confirms its load for the carrier who answered |
| `Kept` | a confirmation not yet superseded has a place in the pipe until it is reported, and everything behind that place confirms the load (`Behind`): the table once the write is executed, rows answered later, writes queued later; and either the board shows it confirmed, or it is `Closed`: no verdict on the load is between its two writes, and nobody is in session but that carrier, with no copy that has his bid open |

The last alternative carries the argument. While the board is `Closed`, the only
one in session is a carrier none of whose copies leaves his bid to judge, so no
verdict starts, and his own answers write what confirms or declines. When he
leaves, the next login asks behind the write and its fetch brings the confirmed
row; then the board shows it, and what is copied from the board confirms. Each
part has a lemma on what a step of the app must show to keep it, each handler one
that shows this, and the two steps of the database and a kill have their own. TLC
found `ConfirmInv` to hold on 7.0 million states of an instance with two handlers
in flight, and on those of three others with failures, kills and seeds, before
the proof was attempted.

What the hypothesis excludes, and why:

* A distance to save, because saveDistance writes the whole row as it was when the
  lookup began.
* New bids. With one, TLC finds a carrier who refreshes, confirms, bids on the
  load again when the refresh has put the unconfirmed row on his board, and
  rejects that bid: the verdict writes the unconfirmed row. A bid by name does the
  same.
* Return loads. Each is inserted under the id '' and replaces the one before it,
  confirmed or not, as TLC finds.
* Posts and deletions. They make the places of list and table differ, a deletion
  at once and a post after a failed fetch has left the list empty, and
  `ListsInPlace` fails: the index updateBidStatus remembers may be another load's.
  Searches of small instances with either have shown no confirmation lost, so this
  part may be stronger than it has to be.

A refresh, which reads the table at any moment between the two writes of a
verdict, is part of the theorem.

In `LoadBoardSerialProofs`, under the hypothesis `Serial`, for any loads,
carriers, seeds, located loads and kills, and any number of handlers and of
distance lookups of one fetch:

* `SerialUseRefines`: `Spec => RefinesLifecycle`;
* `ApprovalIsStored`: `Spec => ApprovedMeansAwaiting`;
* `RestingBoardIsCurrent`: `Spec => []QuietBoardIsCurrent`, if nobody bids by
  name: such a bid is written without a fetch and loses its status.

`Serial` says that a handler starts when the one before it is over
(`MaxInFlight = 1`), that no database call fails and that no return load is
posted; `negotiation_serial` is an instance of it. None of the three parts can be
dropped: `approval_lost` and `distance_write` show what overlapping handlers do, a
failed call leaves the list ahead of the table (updateBidStatus and confirmLoad
change it first), and a return load carries the stage of another one and replaces
the row with the id ''.

The three properties are about a list and a table that differ most of the time:
they agree while nothing runs and part at the first thing a handler does.
`SerialInv` therefore says for each of the ten steps at which the one handler can
be (`Asking` in a dialog, `LoggingIn`, `Reading`, `Inserting`, `Erasing`,
`Bidding`, `Judging` and `Deciding` for the two writes of updateBidStatus,
`Replying`, `Measuring`) what the list and the table will be to each other when
it is over. It uses `Settled`, the table after the one call that may be waiting:
`Inserting` says that the list with the new post appended shows `Settled`,
`Erasing` the list without the deleted one, `Replying` the list as it is;
`Judging` and `Deciding` promise nothing of the list, which a fetch will replace,
but say what is to be written. `Measuring` says that each lookup captured a post
that is still in the list, so that its stale write changes nothing; this is what
fails when handlers overlap. In `Asking` and `Replying` the load awaits the
carrier who answers, which confirmLoad does not look at: it follows from the
board's offer and from nothing having moved while the dialog was open. The
refinement then maps `InsertTestLoad` to `Reset`, and the execution of
`insertLoad` to `Appear`, of `deleteLoad` to `Vanish`, of `updateLoad` to `Choose`,
`Confirm`, `Decline` or a stutter; every other step is a stutter. TLC found
`SerialInv` to hold on 492,515 states without bids by name and on 49,975 with
them, in instances with a seed, a locatable load, every other button and a kill,
before the proof was attempted.

In `RunnerWindowProofs`, for any sizes, themes and number of events, every safety
property of the run: `HostTypes`, `OpenWindowsHaveFlutter`
(`OpenWindowHasFlutter`), `HandleStaysLive`, `ViewStaysWithWindow`,
`ThemeStaysWithSystem` and `NothingIsLeft`. None is inductive, because each is
about what the steps still on the call stack will do. The invariant is `TypeOK`,
`EngineInv` and, of a program that has crashed, `Ended`, of any other `Stages` and
`ThemeInv`. `Stages` says that the host is in one
of eight stages, each with the call stacks it can have and what the handle, the
view, the class, the counter, the queue and the virtual calls are meanwhile:
`Starting` before there is a window, `Opening` from `CreateWindow` to the end of
`OnCreate`, `NoWindow` when Windows made none, `Open` in the message loop and
the handlers it runs, `Closing` in the `DestroyWindow` of the user, `Closed` when
the window is gone, `Failed` when a start without an engine is on its way to its
`DestroyWindow`, and `Falling` inside that one, where Windows still has the class
and the flag says it does not. `Ended` says when a font change can have ended the program: of the
stages, only `Opening` and `Closing` (and `Failed`, with a controller that has no
engine) let one in where the pointer is of no use. `EngineInv` says that without a
controller no frame or callback is due, `ThemeInv` that the title bar has the system's theme or
a message that sets it is posted or running.

Only model-checked, and why: liveness (`HandlersEnd`, `OpenEnds`, `LookupsEnd`,
`CloseEnds`, `WindowShows`), which the prover does not treat. Every other property
of a passing run is the subject of a theorem; the theorems with a hypothesis say
less than the property for every constant, and what lies outside of it is either
refuted there by a run (`approval_lost`, `distance_write`) or open.

## Plan

1. Done: `LoadLifecycle`, `LoadBoard`, `LoadBoardProofs`; `SnapshotCache` and
   its proofs; `Schema` and its proofs; `Accounts` and its proofs;
   `RouteLookup` and `DistanceLookup` with the refinement proved; `RunnerWindow`
   and its proofs.
2. Done: the theorems of `LoadBoardSerialProofs` under `Serial`, and those of
   `LoadBoardOverlapProofs`, `NarrowUseKeepsBids`, `OverlapsKeepCarrier` and
   `OverlapsKeepConfirmation`, under hypotheses on the buttons. They could be
   weakened: a confirmation survives deletions of other loads if the index of
   updateBidStatus is followed through them.
3. Pure operators against a reference definition: matching, the USDOT filter,
   the board filters, identifier validation, name matching.
4. Persistence: `SembastLoads` (adds where SQLite replaces), which serves the
   web build, against an abstract table that `LoadBoard`'s `Written` implements
   too.

## Not modelled

Layout, navigation, themes, maps and the folders of the platforms other than
Windows; the HTTP payloads of the geocoding, directions, FMCSA and analytics
services beyond their outcome; trigonometry; the console and the command line
of the Windows host.

Code that nothing reaches: the two-factor screen (no route), the invoices (their
provider is not provided), the chat (its database service is never initialised),
the debounced search bar (never mounted), the lane preferences and the older
registration screen. Each was going to be a module until its entry points were
followed; a model of it would describe behaviour the program does not have.

`src/.vscode-temp` is an editor cache that was committed, with the C headers of
two Java kits: about 18,000 of the lines of C and C++ in the repository. They
are no part of the program. Its own C++ is the Windows host, some 640 lines;
everything else here is written in Dart.
