# WarehouseCore: specifications, model checks and proofs

WarehouseCore is a Go server (`cmd/server`, `internal/`) over a PostgreSQL
database it shares with a rental program, with a React frontend (`web/`) and LED
controllers that it drives over MQTT (`internal/led/`, `firmware/`). Staff scan
devices and consumables in and out of zones and jobs; a background scheduler
imports rental products from the Eventory API.

This directory holds TLA+ modules translated from that code, the TLC
configurations that check them on small instances, and TLAPS proofs of their
main safety properties for every instance: first of the server, then of the web
client. `PROJECT.json` lists the components,
the runs, the mutants that show each property can fail, the source lines behind
each definition, the findings, the hazards and the theorems.

To run them, in this directory:

    tlc -workers 2 -config MCDeviceScan.cfg MCDeviceScan
    tlc -workers 2 -config MCWebClient.cfg MCWebClient
    tlapm DeviceScanProofs.tla

## 1. The system

| Part | State | Operations | Hard because |
|---|---|---|---|
| Eventory scheduler (`services/eventory_scheduler.go`, `cmd/server/main.go`) | two mutexes, `stopCh`, `stopped`, `running`, two WaitGroups | `Reset`, ticks, `TryAcquireSync`/`ReleaseSync`, `Stop` | goroutines, overlapping requests, shutdown |
| Device scans (`services/scan_service.go`) | `devices`, `jobdevices`, `device_movements`, `scan_events`, the connection pool | intake, outtake, check, transfer | statements inside and outside one transaction, row locks, a bounded pool, crashes |
| Consumable stock (`services/scan_service.go`, `handlers/product_handlers.go`) | `product_locations`, `products.stock_quantity` | intake, outtake, check, correction by `UpdateProduct` | one quantity recorded twice, READ COMMITTED, opposite lock orders |
| Eventory settings (`handlers/eventory_handlers.go`, `services/eventory_service.go`) | `app_settings`, credential key | get, update, key change, seeding from the environment | read-modify-write, stored credentials outliving their key |
| Eventory product sync (`services/eventory_service.go`, `eventory_scheduler.go`) | `rental_equipment`, `products` | fetch with fallbacks, upserts in one transaction | partial failure of a fetch |
| Defects and cases (`handlers/handlers.go` 1768-2746) | `defect_reports`, `devices.status`, `devicescases`, `cases` | create/update defect, fill/empty/delete case | check then act without a transaction |
| Device administration, IDs (`services/device_admin_service.go`, `device_id.go`, migration 030) | `devices` | create n, rename, delete, bulk | advisory lock per prefix beside a trigger that takes none |
| Labels (`services/label_service.go`) | files under `web/dist/labels`, `devices.label_path`, `label_templates` | save, delete, generate in background, default template | a file and a row that must agree, without a common transaction |
| LEDs (`internal/led/`, `services/led_controller_service.go`, `firmware/`) | mapping file, controllers table, retained MQTT messages, the strip | highlight, clear, locate, heartbeat, last will | asynchronous, debounced by the firmware, retained by the broker |
| Storage zones (`services/zone_service.go`) | `storage_zones` | create (generated code), update, delete | codes counted without a lock |
| Authentication, roles, API keys | `users`, `sessions`, `user_roles`, `api_keys` | login, password, roles, keys | stale row written back |
| Products, packages, dependencies, fields, categories, brands, count types, rental equipment, app settings | one table each | CRUD | little: one statement or one transaction each |
| Pictures/Nextcloud, exports, revalidation, scripts | files, none | I/O | outside the models |
| Web: scanning (`web/src/pages/ScanPage.tsx`, `components/ScanFieldModal.tsx`, `hooks/use*Scanner.ts`) | mode, step, item, case, job, message; camera streams and NFC readers | scan in four modes, LED dialog, defect report; start and stop scanners | a scanner reads on while a scan is answered; permission comes late |
| Web: cases (`pages/CasesPage.tsx`, `admin/CasesTab.tsx`) | list, details, form, message, timers | view, edit, save, delete, label | answers of two requests in either order |
| Web: products and packages (`admin/ProductsTab.tsx`, `admin/ProductPackagesTab.tsx`, `components/ProductDetailModal.tsx`) | list, selection, form, pictures, thumbnail | forms of up to four requests, bulk changes, uploads | failure of one of several requests, positions in lists that change |
| Web: devices and device tree (`admin/DevicesTab.tsx`, `components/DeviceDetailModal.tsx`, `components/DeviceTreeModal.tsx`, `admin/DeviceTreeTab.tsx`) | list, selection, form, the light of a bin, open nodes | forms, bulk changes, locate, search | stale answers, a light that comes on after its dialog closed |
| Web: LED settings (`admin/LEDSettingsTab.tsx`) | appearances, mapping and the texts of its bins | edit, preview, save | texts kept under positions that move |
| Web: session, routes, other pages | who is logged in; one list and form each | login, routes, CRUD | see section 7 |

How they interact. Every handler runs in its own goroutine and shares one
`*sql.DB` pool of 25 connections (`repository/database.go:45`). Handlers meet
only in the database, with two exceptions: the settings handler calls `Reset` of
the scheduler after its save, and the manual-sync handler takes the scheduler's
flag. An outtake starts a background goroutine that refreshes the LEDs; creating
or updating a device starts one that renders its label. The broker connects the
server to the controllers in both directions. `main` boots the scheduler before
it serves, and on SIGTERM closes the MQTT listener, stops the scheduler and
closes the pool, without shutting the HTTP server down.

The web client is one React page at a time over the server's HTTP interface. A
handler runs from one `await` to the next without interruption; between them the
user goes on, other handlers run, and answers come in any order or as failures. A
handler reads what the page was when it began, its closure, and writes to the page
as it is when the answer comes. What two handlers share is only the state of
their page.

What makes each part correct, in the order in which this project takes them:

* *Scheduler*: one sync at a time, one ticker, at the stored interval; after
  `Stop` nothing runs; nobody waits for ever; the WaitGroup contract of Go.
* *Device scans*: no effect without an audit entry; the moves in the history tell
  where the device is; a job lists what was taken out for it; a scan is answered.
* *Consumable stock*: no movement is lost; the two records of the stock agree.
* *Defects, cases*: a device is in at most one case; a device with an open defect
  is not back in circulation; a report exists for each defective device.
* *Device IDs*: no ID is handed out twice; a whole batch or none of it exists.
* *Labels*: `label_path` names a file that exists and is the device's last one.
* *LEDs*: what the strip shows is the last thing asked for; a controller that is
  gone does not stay active.
* *Settings*: a field nobody sent is not changed; a stored credential can be read.
* *Web client*: nothing waits for an answer that will not come; what a form saves goes
  to the item that filled it, what a bulk change works on is in the list; an intake
  names an item, a device goes out with a job; a light, a reader or a preview that was
  switched on is switched off; what a search finds is shown.

## 2. Modules

| Module | Models | Runs | Proofs |
|---|---|---|---|
| `SyncGate` | what the scheduler promises, abstractly | refined by `EventoryScheduler` | refinement |
| `EventoryScheduler` | the scheduler and its callers | `MCEventoryScheduler*` | `EventorySchedulerProofs` |
| `MovementLog` | what device scans promise about places, abstractly | refined by `DeviceScan` | refinement |
| `DeviceScan` | device scans, status and zone handlers, pool, crash | `MCDeviceScan*` | `DeviceScanProofs` |
| `ConsumableStock` | consumable scans and corrections | `MCConsumableStock*` | `ConsumableStockProofs` |
| `Sums` | the sum of a function over a finite set | used by `ConsumableStock`, `DeviceTreeTab` | `SumProofs` |
| `NumberRegister` | what `CreateDevices` promises, abstractly | refined by `DeviceIds` | refinement |
| `DeviceIds` | the three paths that create devices, renames and deletions | `MCDeviceIds*` | `DeviceIdsProofs` |
| `Decimals` | `%03d`, `::TEXT`, `CAST` and the pattern of digits | instantiated by `MCDeviceIds` | none |
| `ReactPage` | handlers in flight, closures, answers: what the pages share | extended by all below | `PageProofs` |
| `ScanPage` | the scan page | `MCWebClient` | `PageProofs` |
| `ScanFieldModal` | the dialog that scans into a field, with both hooks | `MCWebClient` | `PageProofs` |
| `CasesPage`, `CasesTab` | the two lists of cases with their dialogs | `MCWebClient` | `WebClientProofs` |
| `ProductsTab`, `ProductPackagesTab`, `ProductDetailModal` | products, packages, the pictures of a product | `MCWebClient`, `MCProductsTabRequired` | `WebClientProofs` |
| `DevicesTab` | the devices tab | `MCWebClient` | `WebClientProofs` |
| `DeviceDetailModal` | the details of a device and the light of its bin | `MCWebClient` | `PageProofs` |
| `DevicePlaces`, `DeviceTreeModal`, `DeviceTreeTab` | the tree of devices in its two forms | `MCWebClient` | `WebClientWaitProofs` |
| `LEDSettingsTab` | the LED settings | `MCWebClient` | `WebClientProofs` |
| `WebClient` | one of these pages, and what several of them promise | `MCWebClient` | `WebClientWaitProofs` |

The components of the server share no variable but the pool and the devices table,
so no module composes two of them; `WebClient` composes the pages. `DeviceScan` takes
the pool as `MaxConns` and the other writers of a device as actions.

### EventoryScheduler

One process per goroutine. `Editors` are settings requests (save, then `Reset`),
`Manuals` are manual syncs, `Tickers` are the goroutines a `Reset` starts,
`Workers` those a tick starts, `Main` is `main`. A step is what a goroutine does
between two points where another can interfere: a lock, a `Wait`, a
compare-and-swap, a read outside a lock.

| Code | Actions |
|---|---|
| `Reset` | `ResetLock`, `ResetSignal` (first critical section), `ResetWait`, `ResetRelock`, `ResetRead` (`configFn`, which may fail), `ResetStart` |
| ticker goroutine | `TickAcquire`, `TickLaunch`, `TickExit` |
| a sync | `ReleaseFlag`, `ReleaseDone`: the two deferred steps, after a return or a panic |
| `TryAcquireSync` | `TryAcquireSync` |
| `main`, `Stop` | `Signal`, `StopSignal`, `StopTicker`, `StopSync`, `CloseDatabase`, `Exit` |
| `UpdateEventorySettings` | `Save` (validated, or the old value preserved), then the `Reset` steps |

`s.mu` is a variable only because `ResetRead` keeps it across a database read;
critical sections without such a read are one step. A tick that finds the flag
set changes nothing and is not an action. Requests are served until the process
exits, as in the code.

### DeviceScan

A scan is one request and is served once; `pc` is where it is between two
statements. The statements of the transaction (`ResetPack`, `UpdateDevice`) take
a row lock (`packLock`, `devLock`) and become visible in `Commit`; those outside
it (`Upsert`, `Log`) need a connection of their own (`FreeConn`) and are visible
at once. `Branch` is the decision of `ProcessScan`; `FindJob` chooses any
`jobdevices` row of the device, since the code has `LIMIT 1` and no order.
`Fail` is a statement that fails, `Log` may lose its entry (the code prints the
error and goes on), `Rollback` is the deferred rollback, `Crash` ends every open
transaction. A scan that has left nothing but its log entry is forgotten
(`Forget`), which keeps the state space small and loses nothing.

The handlers beside the scans, `UpdateDeviceStatus` and `AssignDevicesToZone`, are
each one statement that takes a connection (`BeginEdit`) and keeps it while it waits
for the row of its device, which a scan may have locked (`EndEdit`). `Edits` is how
many are served at a time; each is served again and again.

`listed` and `assigned` are history variables. A scan is in `listed` when it has
written its `jobdevices` row, which everybody sees at once and which stays when the
scan is rolled back. `AssignDevicesToZone` writes the zone without a movement (its
`INSERT` names a column `moved_at` that no other statement on the table knows, and
its error is ignored), and so excepts its device from `ReplayMatchesZone` until the
next scan writes it. `UpdateDevice` of the device administration, which can also
write the zone, is left to that component.

An intake enters a movement to the zone that was scanned and does not write that zone
to the devices row. So the last movement does not say where a device is; the last one
that is no intake does, and that is what `ReplayMatchesZone` claims. What the README
of the repository says of intakes is refuted by `device_scan_intake`.

`MovementLog` is what the scans are to whoever reads the zone of a device and its
history: `Move` sets the one and appends to the other at one instant, `Return` enters
an intake and moves nothing, `Put` is an operator's assignment, which enters no
history. `ImplementsMovements` maps it to `DeviceScan`: the places are the zones of the
devices table, a history has the time, the zone and the kind of each committed
movement, intakes included. It says more than `ReplayMatchesZone`, of devices that an
operator has assigned too: that no move is entered before an older one, that no entry
is changed or lost when another scan fails or dies, and that no scan moves a device
without an entry, at any time. An intake, which locks no devices row, may be entered
with an earlier time than a move that is already there.

### ConsumableStock

One product, since no statement touches two. `View(t)` is `product_locations` as
transaction `t` sees it at READ COMMITTED: what is committed, and its own write. The
`UPDATE` of `stock_quantity` is two steps, because PostgreSQL evaluates its subquery
(`ReadTotal`) before it waits for the products row (`StoreTotal`) and re-reads only the
row it updates. `Locate` models what the correction of a stocked product does in
PostgreSQL: `<=>` is not an operator there, the transaction is aborted, and the commit
is answered by a rollback. The total is at first any value of `Opening`, since
`CreateProduct` stores what the form says and makes no location; so the two records
agree only once a scan or a correction has committed (`SyncInOnePlace`). `start` is a
history variable for `NoMovementLost`. `handleAccessoryConsumableScan` and
`proxyToRentalCore` in `handlers.go` also change stock but are called from nowhere, and
are not modelled.

### DeviceIds

`devices` is the committed table, deviceID to productID; an ID is a sequence of
characters, because what `LIKE` finds depends on whether one prefix begins
another. A request creates devices in one of three ways:

| Code | Actions |
|---|---|
| `CreateDevices` | `Lock` (the advisory lock of the prefix, held to the end of the transaction), `Count` (MAX + 1), `InsertRow` per device, `Commit`, `Fetch` (hydrating the answer), `Fail` |
| `CreateDevicesForProduct`, manual IDs | `ReadBefore`, `Attempt` per candidate, `Report` |
| the same, IDs by the trigger of migration 030 | `ReadBefore`, `Trigger` (MAX of the last characters), `InsertNumbered`, `Report` |
| `UpdateDevice` with a new ID, `DeleteDevice` | `Rename`, `Delete` |

An `INSERT` waits while an open transaction has inserted the same ID (`Held`),
then succeeds or meets a duplicate key. Two transactions that wait for each other
(overlapping prefixes only) are ended by PostgreSQL's deadlock detection, which is
a `Fail`. The reads of the handler may fail or break off after some rows, since it
ignores the error of the one and checks `rows.Err` of neither; an answer from a
read that broke off is marked `partial`. `Highest` states the maximum as a
relation, without a recursive definition, so that it can be reasoned about.
`Decimal` and `Value` are constants of which only `IdsAssumption` is known: a
counter is padded to at least `Width` characters and can be read back.

`NumberRegister` is the register of numbers that `CreateDevices` is to whoever sees
only committed rows: `Issue` puts a block of new numbers into use at once, `Remove`
takes one out of use. `ImplementsRegister` maps it to `DeviceIds`: its series are the
prefixes that no other path makes IDs of (`Exclusive`), its numbers the IDs in the
table, and a request is served when it has left its transaction with what it made.

### ReactPage and the pages

Every page has two variables. `ui` is the record of its React state (`useState`)
and its refs; `calls` is the set of its handlers that wait for an answer. A handler
is a record: `ask` names what it waits for, and the other fields are what it still
reads of the render in which it began, so that a stale closure is stale in the
model too. `Begins`, `GoesOn` and `Ends` change `calls`; a `catch` block, an early
return and a `finally` are actions or disjuncts of their own. React 18 renders what
a handler sets between two `await`s at once, so that is one step. An effect runs
with the step that changes what it depends on (`Cleanup` of `DeviceDetailModal`,
`Stopped` of `ScanFieldModal`). `alert` and `confirm` block the page: a confirmed
action is one step, a refused one is none.

Two handlers that agree in everything are two members of `calls`: the later one
carries the field `again` and counts, and becomes the other when that is answered
(`Joins`, `Without`). So a double click is two requests.

Data is kept as far as a property tells it apart: which item a list, a form or an
answer is of, what is selected, at what position a picture is; names, prices and
the wording of messages are left out. A failed answer and one that says "not
successful" are told apart where the code does.

| Code | Where |
|---|---|
| `processCode`, `handleJobCodeScan` up to the first `await`, then each continuation | `processCode`, `FirstRequest` and `Answer` of `ScanPage` |
| the `catch` of `processCode`, with its return to the first step | `Fails`, `StartOver` |
| `startScanning`, `stopScanning`, the animation frames, the abort of a reader | `StartCamera`, `StopCamera`, `Granted`, `Frame`, `StartNfc`, `StopNfc` of `ScanFieldModal` |
| a page left: React ignores what its handlers set, `navigate` still works | `Render`, `Navigate` of `ScanPage` |
| `handleSubmit` of the product form with its checks and its up to four requests | `handleSubmit` to `Saved` of `ProductsTab` |
| the list of images and `thumbnailIndex` | sequences, `handleRemoveImage` of `ProductPackagesTab` |
| the LED mapping and `pixelInputs` under `shelf-bin` keys | `mapping`, `pixelsInput` and `removeBin` of `LEDSettingsTab` |
| `triggerPreview` and `handlePreviewStop`, and the buttons that call them, each with its own `disabled` | `FormPreview`, `FormStop`, `MappingPreview`, `BinButton` of `LEDSettingsTab`: of the last two, several may be in flight on one flag |
| the view of the products tab (`viewMode`) | `setViewMode`, `OnAProduct` of `ProductsTab` |
| the interval, the visibility handler and the button of the device tree | `Update` of `DeviceTreeTab`, also while loads are in flight |
| which nodes the search expands | `Path` of `DevicePlaces`, `autoExpandKeys`, `EveryMatchIsShown` |

`DeviceDetailModal` has the light itself in it: a request is `Handled` by the server
at one time and heard of at a later one, in any order among several. `DevicesTab` can
be entered from the scan page with a device to edit, and goes back there
(`ui.sent`). `ScanPage` includes its own `Leave` and `Return`, since its handlers go
on without it; for the other pages leaving is the end of a behaviour.

## 3. Runs

| Run | Instance | Shows |
|---|---|---|
| `scheduler` | 2 settings requests, 1 manual sync, 2 tickers, 1 worker, one supported interval; 16,473 states | the safety, action, refinement and liveness properties of the scheduler |
| `scheduler_shutdown_comment` | 1 of each | finding: manual syncs can be running when `Stop` begins |
| `device_scan` | 2 scans on every way through their statements, 1 operator, 1 device, 1 job, 1 zone, 5 connections; 203,912 states | the safety properties under failures and crashes, the refinement of `MovementLog`, and that every scan and every operator's request is answered |
| `device_scan_pool` | as `device_scan`, 3 connections | finding: scans and an operator's request wait for each other for ever when the pool is too small |
| `device_scan_duplicate` | 2 scans, 2 jobs | finding: overlapping duplicates are both accepted |
| `device_scan_intake` | 1 scan | finding: an intake leaves the device on its job, and in its old zone |
| `consumable_stock` | 2 scans, 1 correction, 2 zones, scans of 1, starting from no location, one with 2 and two with 1, and from a total of 3, which is none of their sums; 83,053 states | no movement lost, records agree in one place, no deadlock |
| `consumable_two_places` | 2 scans, 2 zones | finding: records disagree after overlapping scans |
| `device_ids` | two requests of each kind of pair: service and service, service and manual, trigger and trigger; 96,030 states | no collision under one prefix, numbers in commit order, the refinement of `NumberRegister`, complete answers, every request answered |
| `device_ids_overlap` | 2 requests, products 1 and 11 without abbreviation | finding: prefixes that begin one another allocate the same ID |
| `web_client` | each of the twelve pages and dialogs, two handlers in flight, two items of each kind (one product); 1,388,225 states up to symmetry and dead data, about one minute | nothing waits or stays for good; forms, thumbnails, texts and searches are of what is shown, bulk changes of what is listed; scans name an item and a job; lights, readers and previews go |
| `products_required` | the products tab, two products | finding: a product can be saved without its required field |

Why these bounds are enough to be worth something:

* Two settings requests and the boot give three overlapping `Reset`s; a second ticker
  is needed for an orphan to exist. A sync that overlaps another takes two goroutines
  of any kind, a worker and the manual sync; that two workers do not overlap either is
  in the theorem. Ticker and worker identities are reused, so behaviours are unbounded
  in length. One supported interval, one disabled, one unsupported and a read error
  are the four cases `Reset` tells apart.
* Two scans of one device are the smallest conflict; statements about different devices
  touch different rows and meet only in the pool. The pool bound is scaled: what matters
  is connections per scan. No scan holds more than two, and an operator's request holds
  one; `MaxConns = 5` is enough for all of them, `3` is not. The code has 25 connections
  and no bound on scans, so 25 concurrent requests are what `device_scan_pool` stands
  for. One zone, and none, are the two places that tell a move from an entry that moves
  nothing: which of several zones a request names is told apart by nothing but the
  devices row. One operator's request at a time waits for the row of the only device,
  and any number of them come one after another.
* Two locations are the smallest product where one transaction cannot see the
  other's row. A scan moves 1 (`MaxQty`): of a location that has 2 that is some of it,
  of one that has 1 all of it, and of one that has none too much.

* Two requests for one prefix are the smallest conflict over an ID. Numbers have
  one digit and more (`Width = 1`) where the code has three and more, so that the
  step from 9 to 10, where the trigger's `LPAD` cuts, is a step from 999 to 1000.
  A table starts with a gap and with a suffix too long to count (`MaxCounter = 20`
  stands for the largest BIGINT). `Attempts = 2` stands for 1000: giving a device
  up happens in the run. The prefixes of one start do not meet those of another,
  which `Starts` uses to run the pairs separately. A rename goes to the one ID
  that the manual request will try.

* Two handlers in flight (`MaxCalls = 2`) are the smallest number that can overtake
  each other; a handler answered late by a page that went on, a double click and a
  second mode begun while the first is answered all need two. `ScanFieldModal` has
  three, because a camera, a search in its picture and a reader can be on the way
  together; `MaxStreams = 2` is the stream of a dialog that was closed and that of
  the one opened after it. Two cases, devices, packages and pictures are what it
  takes for one to be mistaken for the other. One product is enough for
  `SelectionIsListed` and `NoSpinnerLeft`, since the tab promises nothing about which
  product a form is of. One bin and the whole strip (`Targets` and "all") are the two
  previews whose buttons differ while one is in flight. The same load of a tree asked
  for twice is two handlers in flight, so that the interval, a return to the page and
  the button overlap. `OneBranch` hangs devices at all three levels of one branch:
  where a search opens too few nodes, one branch shows it. Two shelves of two bins are
  the smallest mapping in which removing one moves another.
* Pages do not act on each other, so that the run is the sum of twelve and not their
  product. Devices that differ in nothing but their name are alike (`Alike`, a symmetry
  of `Devices`). `Live`, the view, leaves out what a page keeps and sets anew before it
  reads it again: the case of the scan page outside the case mode, its device before
  the step that asks for a zone, its job outside the outtake; of the cases, which one
  the closed details, the closed form and the lists of devices were of; of the LED
  settings, whether a text of a bin is written as the code writes it. States that
  differ only there have the same steps. Both are sound for invariants, and the run
  checks nothing else; that what the view leaves out keeps its type is what the theorem
  `TypesAreKept` shows for all of it.

`CHECK_DEADLOCK` is on everywhere. A process that has exited, and requests that have all
ended, are explicit stuttering disjuncts (`Exited`, `Quiet`, and the last line of `Next`
in `ConsumableStock`); in `DeviceScan` operators go on asking. No run but `web_client`
uses symmetry, since most check liveness.

## 4. Fairness

* `EventoryScheduler`: strong fairness for a goroutine that locks, because a
  `sync.Mutex` in starvation mode is handed to the longest waiter; strong
  fairness of `TickExit`, because `select` chooses pseudo-randomly among the
  ready cases, so a closed channel is not passed over for ever; weak fairness of
  a sync's end, because its HTTP client has a timeout. Nothing makes a request, a
  tick or the signal happen.
* `DeviceScan`, `ConsumableStock`: strong fairness of a begun request, because
  PostgreSQL queues the waiters of a row lock, and `database/sql` those of the
  pool, in order; a begun request of an operator (`Edit`) is one too. Failures, crashes
  and new requests, of operators too, are not fair.
* `DeviceIds`: weak fairness of each request; a waiter of the advisory lock or of
  a unique key is woken when the holder's transaction ends, and requests are
  served once. Failures, renames and deletions are not fair.
* The web client: none. A request has no timeout there, so an answer need not come
  (`web/src/lib/api.ts`), and a user need do nothing. What should happen in the end is
  therefore stated as what is true when nothing is in flight (`NoSpinnerLeft`,
  `LightGoesOut`) or as what is still to come (`MessageGoesAway`,
  `TemporaryPicturesGo`).

## 5. Findings

Each is a run that TLC must refute; the lines are quoted in `PROJECT.json`.

1. `main.go:452`: the comment of `Stop` says that requests have completed when it
   is called. They have not: `server.Shutdown` is never called. `StopIsFinal`
   shows that `Stop` waits for a manual sync all the same; the comment is what is
   wrong, and a request can still find the pool closed.
2. `scan_service.go:132`: an intake answers `new_status: in_storage` and does not
   touch the devices row; the statement was commented out. The device is on the
   job for the next scan and for the job's summary. Nor is the scanned zone stored,
   for which the program asks so that the device is "stored at specific location":
   it goes into the movement only.
3. `scan_service.go:67`: the duplicate check uses the device as read before any
   lock was taken.
4. `scan_service.go:445`: the transaction is held while a second connection is
   awaited, without a deadline.
5. `scan_service.go:588`: the total lacks a concurrent scan's quantity at another
   location, and stays wrong until the next scan of the product.
6. `device_id.go:143`: the advisory lock serializes one prefix, but the IDs of
   prefix `P11` are also IDs of prefix `P1`: `P11001` is number 1001 of `P1`. Two
   concurrent requests choose `P11002` under two locks and one of them fails. The
   table stays sound (`deviceID` is its key); the request can be repeated.
7. `ProductsTab.tsx:318`: the form opens as soon as the lists are there, before the
   definitions of the custom fields are. The check that a comment describes is
   skipped while they are an empty list, and the product is created without its
   required field.

Also seen, and listed as hazards, without a run of their own: corrections of stocked
products are always rejected by PostgreSQL (`product_handlers.go:782`), two outtakes can
drive a location below zero (`scan_service.go:656`), an intake resets an arbitrary job's
row (`scan_service.go:396`), and a server that dies between the upsert of `jobdevices`
and the log entry leaves a device in a job's list with nothing that tells of the scan
(`scan_service.go:218`; `EffectsLogged` excepts exactly this). In the web client: what
was selected in the table of products stays selected in the tree, which lists none, and
the bulk bar works on it (`ProductsTab.tsx:996`; `DevicesTab.tsx:224` clears it), a
camera that is granted after its dialog was closed stays on (`useBarcodeScanner.ts:67`;
`CameraStopsWithDialog` of `ScanFieldModal` states what one would expect, and no run
claims it), the pictures of one product can be shown for another
(`ProductDetailModal.tsx:88`), and a late answer to a change of the password can be
taken for that of the next user (`AuthContext.tsx:57`).

## 6. Proofs

`EventorySchedulerProofs` (for any finite numbers of requests, tickers and
workers; assumption `SchedulerAssumption`: identities are distinct, the sets that
are counted are finite). The properties are not inductive: that there is one
ticker depends on who holds `resetMu`, and that on where each `Reset` is. `IInv` adds

* `LockInv`: each mutex is held exactly at the program points where the code holds
  it, and never `s.mu` across a read without `resetMu`;
* `CountInv`: each WaitGroup equals the cardinality of the goroutines between
  their `Add` and their `Done`, so that a `Wait` that returns means none is left
  (`TickersGone`, `SyncsGone`);
* `FlagInv`: at most one tick or sync holds a claim, and then the flag is set;
* `TickerInv`: `OneTicker`, and no ticker at all past a `Reset`'s wait;
* `StopInv`: `stopped` is set exactly from `StopSignal` on, no `Reset` is past its
  second check then, and each phase of `Stop` leaves nothing behind.

One lemma per conjunct (`TypeStep`, `LockStep`, `CountStep`, ...), each with one
step per action; `Invariance` combines them. From it: `TypeCorrect`,
`SyncsNeverOverlap`, `AtMostOneTicker`, `StopLeavesNothing`. `WaitGroupContract`
is an action property from the same invariant. `TickerFollowsConfig` needs
`ConfigInv` on top: what the last `Reset` read is what is stored, unless another
`Reset` is still to read. `SchedulerImplementsGate` proves the refinement of
`SyncGate`: each step maps to a step of the gate or to a stutter (`GateStep`).

`DeviceScanProofs` (for any numbers of scans, devices, jobs and connections;
assumption `ScanAssumption`). `IInv` adds to the three safety properties

* `PathInv`: which action a scan at a program point has;
* `LockInv`: from its `UPDATE` to its end a scan has the row lock, and only such;
* `CommitInv`: what is about to commit has been logged, what is committed ended well,
  a scan that tells of its failure has its entry, and an outtake past its upsert has
  entered the list of its job;
* `StampInv`: a move written under the lock is later than every committed move of the
  same device, which is why the last one leads to the right zone.

One lemma per action. Results: `TypeCorrect`, `EffectsAreLogged`, `HistoryMatchesZone`,
`OuttakeIsListed`, and `ScansImplementMovements`, the refinement of `MovementLog`. There
a commit of an outtake or a transfer is a `Move` (`CommitMoves`: by `LockInv` it writes
that one device, by `StampInv` its entry is the newest), a commit of an intake is a
`Return` (`CommitEnters`, `CommitReturns`), any other commit and any other step of a
scan changes neither places nor histories (`OthersLeaveTheHistory`: what is rolled back
was not committed), and an assignment is a `Put` (`OperatorsPut`).

`DeviceIdsProofs` (for any requests, prefixes, tables, renames, and any numerals
that can be read back; assumption `IdsAssumption`). `CounterBack` is the lemma about
text: the suffix behind the prefix of a formatted ID is its counter, so that
different counters are different IDs (`FormatInjective`). `NoCollision` speaks of a
prefix that is `Exclusive`: no other path and no rename makes an ID of it. It is
not inductive; `IInv` adds

* `PathInv`: which kind of request can be where, and that a transaction has
  inserted only IDs of its prefix and will not pass the largest counter;
* `LockInv`: two requests with the lock of one prefix are one request;
* `FreshInv`: while a request inserts, everything committed under its prefix is
  numbered below what it has inserted and will insert. `OnlyCommits` is its heart: only
  a commit adds an ID under that prefix, and by the lock it is nobody else's
  (`Undisturbed`);
* `BlockInv`: what a transaction has inserted are the numbers from its first one to
  the next one, without a gap;
* `NewInv`: a manual request makes no ID its first read has found.

Results: `TypeCorrect`, `NeverCollides`, `CommitsInOrder` (from `FreshInv`),
`CreationImplementsRegister`, `ReportsAll` (from `NewInv`). The refinement takes a
commit to `Issue` (`CommitIssues`: the block is what `BlockInv` says, above all numbers
by `FreshInv`), and a deletion or a rename to `Remove` of the one number whose ID it is,
if it is one (`Removal`, from `SeriesApart`: two series have no ID in common); no other
step does anything to the register (`OnlyCommits`, `ServedStays`). `ReportsAll`
needs no assumption on the other requests: a device that was deleted and made again is
not missed, because the handler skips every ID it has seen, which the trigger does not.

`SumProofs` (any function, any finite set): what `SumOf` returns. It is a fold, and a
fold is a recursive function on the subsets of a set. The library's induction theorems
cannot be used here, because they take an operator; that the positive numbers have a
least element (`Least`, from the theorem that `<` is well founded) can. So `SumsExist`,
by which the recursion has a solution, and `SumsAgree`, by which the sum depends on the
terms alone, are about the least size of a counterexample. `SumRemove` is what is used:
the sum is that of the rest and any one element. `SumOfSizes` adds up the sizes of
disjoint sets to the size of their union, which is how a tree counts its devices.

`ConsumableStockProofs` (any scans, corrections, zones, any stock to start from;
`StockAssumption`). `IInv` adds

* `KindInv`: which request takes which steps and knows its location by then;
* `LockInv`: a location is locked by the one transaction that changes it, from its
  write to its end, and who is about to commit holds the row of the product;
* `DoneInv`: the committed requests are counted once;
* `SumInv`: the total that a transaction is going to store is that of what it sees. For
  a correction, which has held the row of the product all the time, always; for a
  scan, whose total does not see what others have not committed, while no other place
  is kept. This is what a read of the total before the lock would break.

Results: `ConsumableTypes`, `ConsumableNoMovementLost` (each commit moves exactly what
it adds to the sum of the committed requests, `MoveStep`) and
`ConsumableSyncInOnePlace`. They say nothing of products in several places: that
the total is right there is what the run `consumable_two_places` refutes.

`PageProofs` has the lemmas that the proofs about pages share, and the first pages.
It says what becomes of the handlers in flight when one begins, goes
on or ends, for any handlers and with twins: `Begun`, `WentOn`, `Ended`, each up to
`Like`, which forgets the field `again`; and that a step keeps the bound
(`FewHandlers`). The proofs about pages cite these. Their theorems are about
`WebClient`, for every page that makes the promise, with one invariant per page: a
page that is shown keeps its own, and the others do nothing. Each has two parts: what
a handler in flight may carry, which is what the render in which it began knew (a
property about what a request sends is a part of it), and what of the page itself
each step keeps.

Of the scan page (any items, zones, jobs, cases, scanners), `ZoneForItem` (the zone is
asked for only while an item is remembered) carries `IntakesNameAnItem`;
`DevicesGoOutWithAJob` needs that no code is both a device and a consumable
(`CodesAssumption`), as the server's answer tells one from the other; `LeftAlone` says
that a page that was left waits for nothing, though its handlers go on.

Of `DeviceDetailModal` the light is the hard one, `ClosedLeavesNoLight`.
`DeviceInv` adds `OneOfAKind` (one request of a button and one cleanup at most),
`KnowsLight` (a closed dialog holds nothing to be lit, and nothing is being located
once a cleanup is on its way) and `LightIsRemembered` (a light that is on is known,
about to be known, or about to be put out). Of `ScanFieldModal` (any streams;
`ReadersAssumption`: two scanners at most, numbered streams), `OneThingToCome`, by
which a camera has one request or one frame ahead of it, makes requests distinct;
`ReaderFollowsDialog` is inductive with it.

Of the two trees of devices (any finite sets of devices and places;
`TreeAssumption`: a place is a path of one to three levels) `EveryMatchIsShown` is no
matter of steps but of what the search computes: it holds whatever the page holds.
`NodeIs`, `PathIs` and `WayDown` say which nodes lie between the root and a place;
`DialogShowsTheMatches` that the dialog opens all of them. The tab first drops what does
not match (`KeptIs`, one case per level, as the code has one loop per level) and then
opens what it kept, so that a match is rendered when each node above it was kept
(`Parent`, `FoundIsRendered`). Its counts are sums of sums (`OwnIs`, `OwnSubIs`,
`OwnCatIs`): the devices below the children of a node are disjoint from one another and
from its own (`BesideItsChildren`), so that with `SumOfSizes` the number it states is
the number of devices it kept (`SearchCounts`).

`WebClientProofs` (any items, any bounds):

* `BulkChangesWorkOnWhatIsListed`: of products the property is inductive; of devices
  it needs what each load brings;
* `FormsSaveToTheirItem`: that a form is filled with the values of the item it
  edits must hold also after an answer that opens the form over another
  (`FormIsOfOne`), and is carried into each save (`CaseSaved`, `TabSaved`, `KnownCall`);
* `ThumbnailsAreChosen`: the thumbnail of a package is a position, and `Removed` says
  where a position goes when an element before it is taken out;
* `DetailsAreOfOneCase`, `PreviewsGo`: which handlers are in flight while the details
  or the previews are shown;
* `MappingIsWhatItsTextsSay`: texts are keyed by the positions of shelf and bin. When
  one is added or removed they are made anew from the mapping (`Rebuilt`); when one is
  typed, it is that text and that entry alone that change (`Typed`).

`WebClientWaitProofs`: that no page waits for an answer that will not come. For each
page `Needs` is the set of flags that are up, `Brings` what the end of a handler takes
down, and the invariant `Waits` that each flag that is up is brought by a handler in
flight. It is stronger than `NoSpinnerLeft`, which only speaks of a page with no
handler left, and it is what a step needs: an answer that fails, or that goes on as
another request, must put down what it brings or hand it on (`...Step`, `...Kept`).
A message is a need that a timer meets, which gives `MessagesGoAway` alike.

Types (`...TypesAreKept`, `...TypesHold`): of the scan page, its dialog and the details
of a device they are proved in `PageProofs`; of the devices tab, the cases and the
pictures of a product in `WebClientProofs`; of the other pages here, where
`TypesAreKept` puts them together. That every variable keeps its type takes
what each handler carries, as its answer puts that into the page; of the packages it
takes `PackagesInv` too, since a thumbnail is a position in a list that other handlers
shorten, and of the LED settings that the texts are keyed by the positions of the
mapping (`LEDsTypesRebuilt`, `ChangedMappings`). Results: `TypesAreKept` for all twelve
pages, and `SearchShowsEveryMatch`, which needs the type of what the trees hold. The
four assumptions about the constants (`ReadersAssumption`, `CodesAssumption`,
`PixelsAssumption`, `TreeAssumption`) are stated in `WebClient`, and TLC evaluates them
in the run `web_client`.

Every safety and every action property of a passing run is so stated by a theorem.
Only model-checked are the liveness properties (`ShutdownCompletes`, `ResetReturns`,
`FlagReleased`, `Answered`, `RequestsEnd`), since liveness under fairness and ENABLED
are out of the prover's reach, and what the violation runs refute.

## 7. Not modelled, and what would change if it were

* The fallback of the `jobdevices` upsert for a table without its unique
  constraint (`scan_service.go:219-233`): migration 039 adds the constraint.
* The lookup of a scan code (barcode, QR, serial, RFID): the request names its
  device. A code that names nothing fails before anything is written.
* The LED refresh after an outtake: planned with the LEDs, it writes no table.
* GORM has a pool of its own, without a bound; a statement run through it needs no
  connection of the modelled pool.
* `DeviceIds`: two prefixes with the same FNV-32a hash share a lock, which only
  excludes more. A digit suffix of 20 characters or more counts as 0 in the code
  by its length, in the model by its value; they differ for zero-padded ones
  only, which no path makes. Barcodes and QR codes (`ensureDeviceCodes`), the
  other columns, foreign keys and labels are left out; a failure of theirs is
  `Fail`. Once every request is answered, renames and deletions stop.
* Web client: who is logged in (`contexts/AuthContext.tsx`, route guards): the session
  is read once and the server decides each request by the cookie. `LabelDesignerPage`:
  its state is a drawing, and its effects are pixels. `Dashboard`, `JobsPage`,
  `MaintenancePage`, `ZonesPage` and the small admin tabs (roles, categories, brands,
  count types, API keys, field definitions, zone types, export, Eventory, controllers):
  a list and a form of one request each, of the form `DevicesTab` shows at length.
  `ProductDependenciesModal` and `RentedProductsTab` likewise.
* `CasesTab` is shown by no route at this commit; it is modelled as it stands. In
  `ProductsTab` the dialog of a product's devices is unreachable, since `ProductsPage`
  passes a handler instead of it; in `DeviceDetailModal` the early return for a device
  without a zone is, since the button is not shown. They are not modelled.
* `ScanPage` does not follow how many of a consumable are moved. `DeviceTreeModal` does
  not tell the devices of the current zone apart, which only changes how they look.
* Unhandled exceptions of a render, and the loss of the page by a reload, which starts
  it anew.
* What is inside a sync: see the plan. The components listed as `not_modelled` in
  `PROJECT.json` give their reason there.

## 8. Plan

Done: on the server `EventoryScheduler`/`SyncGate`, `DeviceScan`/`MovementLog`,
`ConsumableStock`, `DeviceIds`/`NumberRegister` with their runs and proofs; in the web
client the pages with most state, in one run, and the proofs of what they promise. Left,
most important first:

1. `DeviceCare`: defects and cases beside the scans, on `devices.status` and
   `devicescases`. Two reports, two case requests and a scan on one device. To
   check: one case per device, no device back in circulation with an open defect
   (`handlers.go:2731`, `2623`, `2339`, `2241`), a report for each defective device.
2. `DeviceAdmin`: bulk update and delete with their savepoints (partial failure,
   two of them in opposite orders; `device_admin_service.go:470`), codes, renames with
   their child tables, zone codes from MAX + 1 (`zone_service.go:44`), and the zone
   assignment that reads its history too late (`handlers.go:3415`).
3. `LabelFiles`: saves, background generation, deletion and crashes on one label
   file and its row (`label_service.go:813`, `828`, `136`). To check: `label_path`
   names an existing file at rest; no save destroys a later one.
4. `LedCommands`: publisher, broker with retained messages and last will, firmware
   with its debounce, heartbeats (`led_controller_service.go:172`). To check: eventually
   the strip shows what was asked last; an absent controller becomes inactive.
5. `EventorySettings`: read-modify-write of settings (`eventory_handlers.go:179`), key
   rotation, escaping of credentials (a pure function, checked against its inverse),
   and one sync with partial failures (`eventory_service.go:947`).
6. The session: login, logout and a change of the password across tabs, on the
   server (`internal/handlers/auth.go`) and in the client.
7. Proofs: what a committed scan of a consumable in several places still leaves right.
