# Verification of inky-image-display

inky-image-display drives a household of e-ink panels: a FastAPI service keeps the
library, the panels and the grids (several panels used as one surface) in a SQLite
database and pushes images over MQTT; a controller on each Raspberry Pi paints them
and acknowledges; a sync worker fetches and generates images. This directory holds
TLA+ specifications of the parts whose correctness depends on the order of
concurrent steps, on failures between two effects or on the history of a database
file, the TLC configurations that check them, and TLAPS proofs.

Paths below are relative to `src/packages/`; `api/`, `controller/`, `sync/`,
`shared/` stand for the Python package inside (for example `api/services/rotation.py`
is `src/packages/api/src/inky_image_display_api/services/rotation.py`).
PROJECT.json lists components, runs, mutants, the source lines of every definition,
findings, hazards and theorems.

    cd tla
    tlc -config claims_overlap.cfg MCGridClaims.tla     # one run
    tlapm GridClaimsProofs.tla                          # the proofs, and likewise
                                                        # QueueTickProofs, PanelRotationProofs,
                                                        # DeviceLinkProofs, SyncJobsProofs,
                                                        # ImageLibraryProofs,
                                                        # SchemaUpgradeProofs, ServicesProofs

## 1. Inventory

| Component | State | Operations | Talks to |
|---|---|---|---|
| Grid ownership (`api/routes/grids.py`, `services/grid_service.py`) | rows `grids`, `grid_devices`, `devices.claimed_by_grid_id`, `grids.hold_until` | create, edit layout, delete, display image/group, next, release | queue service, MQTT service, S3 |
| Grid queue (`services/queue_service.py`, `image_group_service.py`) | `last_displayed_at`, `queue_position` of groups and images, `display_next_at` | show next, start a group, release, reorder; the queue tick every 30 s | grid rows, MQTT service |
| Rotation loop (`services/rotation.py`, `image_service.py`, `refresh_health.py`) | `devices.scheduled_next_at`, `current_image_id`, pins, health | queue tick, job wakes, rotation of the due panels | database, MQTT service |
| MQTT service (`api/mqtt.py`) | in-memory online set, connection; `last_refresh_ok`, `last_error_at` | connect, status, ack, send command, register | broker, database |
| Device routes (`routes/devices.py`) | the `devices` row | register, display, next, clear, pin, delete | MQTT service |
| Controller (`controller/controller.py`, `mqtt_client.py`, `registration.py`) | connection, retry task, shutdown event | register, announce, handle a command, ack, retry, shut down | API (HTTP), broker, S3, driver |
| Panel driver (`controller/display.py`, `el133uf1_patch.py`, `s3_client.py`) | the glass, the driver object, one executor thread, a watcher thread | fetch, refresh with bounded attempts | hardware |
| Sync jobs (`services/sync_job_scheduling.py`, `display_job_service.py`, job routes) | job rows with lease and run flag, run history | arm, claim, begin and report runs | worker (HTTP), MQTT wake |
| Sync worker (`sync/worker.py`, `main.py`, `api_client.py`) | wake event, one task per family | poll, claim, run, report | API, MQTT |
| Sync pipelines (`sync/immich`, `gemini`, `display`, `calibre`) | none between runs | clean up, search, filter, generate, upload, register | API, S3, Immich, Gemini, Calibre |
| Generation tasks (`services/generation_service.py`, `generation_tasks.py`) | task rows, one coroutine each | start, generate, store, register, push, mark, prune | Gemini, S3, MQTT |
| Image library (`routes/images.py`, `image_groups.py`, `services/s3_service.py`) | image and group rows, objects | upload, register, list, delete, group, exclude | S3, queue, pipelines |
| Display groups (`services/display_job_service.py`, `sync/display`) | generated groups and their screens | generate, display now, prune, delete | queue, S3, worker |
| Authentication (`auth/`, `routes/auth.py`) | nothing on the server: signed cookies and links; the secret | sign in, callback, guest link, guest sign-in, log out, policy | provider, all routes |
| Database schema and migrations (`database.py`, `_migrations/`) | the tables, `alembic_version` | create tables, upgrade through 30 versions | every component |
| Settings (`services/app_settings_service.py`) | key/value rows | quiet hours, default interval, stagger | rotation loop |
| Image processing (`services/image_processor.py`, `motd_renderer.py`, `eink_preview.py`) | none | crop, scale, dither, render text | S3 |
| Presets, blocks, profiles; web frontend; charts | rows; none; none | CRUD; pages; deployment | |

What makes it hard. The API is one asyncio process: every `await` (query, publish,
upload) lets the rotation loop and other requests run, and each of them works on rows
it loaded before. A database session and an MQTT publish are two effects that can
fail apart. The broker, the two clients and the panel can each go away at any time;
a QoS 1 publish to a clean session that is not subscribed is gone. A refresh takes
half a minute in a thread that cannot be cancelled. An image is a row in one store and
an object in another, with no transaction over both. A database file outlives every
release that wrote it, and SQLite keeps the first statements of a migration that is
cut short. What makes the components correct:

* Grid ownership: a claimed panel always belongs to a display that will end, a panel
  belongs to one grid, deletion gives panels back.
* Queue: each occurrence of a schedule shows one entry, no entry starves, one grid
  does not stop another.
* Rotation: a panel left to the rotation is served again and again, whatever happens
  to other panels; the row ends up naming what is on the glass.
* Link: the online set is what the broker knows; a failure never blocks a panel for
  ever; a panel is painted once per command, and never with an older image.
* Jobs: a job runs when it is asked to and not again, a click or a schedule is served
  whatever is lost, a dead worker leaves nothing open.
* Panel driver: a caller is told of success only if the waveform of its own image ended.
* Library: an image in the database has its object, in the size it is registered with;
  caps hold; the cleanup takes what is expired and nothing on a panel.
* Groups: once a job has produced something, there is always something to display.
* Tasks: what the list says of a request is so.
* Access: a session goes back to a sign-in or to a link no guest made, no longer ago than
  allowed.
* Schema: every file an earlier release left becomes the schema of the models, whatever
  interrupted the upgrade, and what was configured goes on working.

## 2. Modules

    ClaimLedger        abstract: who owns which panel
      ^ implemented by
    GridClaims         requests and sessions over grids, placements, claims, holds
      MCGridClaims     symmetry for TLC
      GridClaimsProofs theorems
    QueueTick          queue order, scheduled displays, the tick, operators, failures
      QueueTickProofs        theorems
    PanelRotation      rotation loop, single pushes and group displays per panel
      PanelRotationProofs    theorems
    DeviceLink         controller, broker, API connection, refresh health for one panel
      DeviceLinkProofs       theorems
    SyncJobs           job rows, their claim, run and report, the worker's cycles
      SyncJobsProofs         theorems
    ImageLibrary       rows and objects, the passes of the worker, deletion, caps
      ImageLibraryProofs     theorems
    SchemaUpgrade      create_tables and the 30 migrations over files of any release
      SchemaUpgradeProofs    theorems
    DisplayGroups      generated groups between claim, worker and operators
    PanelDriver        one panel, the executor, the attempts and the watcher
    GenerationTasks    task rows and the coroutines they report on
    Access             cookies, sign-in, guest links
      MCServices       composes these four for TLC
      ServicesProofs         theorems about the four and about their composition

The first four state machines share boundary actions rather than variables: the release of
a grid is `FlushRelease` in GridClaims (what it does to claims), `Release` in
QueueTick (what it does to the schedule) and `Release` in PanelRotation (what it does
to a panel's due time). The claim a display takes is `CommitShow`, `CommitShow` and
`CommitGroup`. A publish is one step in PanelRotation and is taken apart in DeviceLink;
the refresh that is one step there, with an outcome, is taken apart in PanelDriver, whose
`told` is the acknowledgement. SyncJobs stands alone: what a job produces reaches the
panels as entries of a queue. Its `StartRun` ... `Report` is what ImageLibrary and
DisplayGroups take apart, for the library and for display jobs. `MCServices` holds four
parts that share no state: a behaviour picks one and follows it, which gives the sum of
their states instead of the product.

### GridClaims and ClaimLedger

`grids`, `layout`, `claim` and `hold` are the columns the rows' names suggest; `hold`
is kept as none, live or over, since code only compares it with now. `req[t]` is what
the handler of task `t` has loaded and not committed. A handler is a load action and
one action per commit; between them every other handler may run. Three facts of
SQLAlchemy on SQLite carry the model and are stated at its head: a commit writes only
columns whose value differs from the loaded one (so `mine`, the claims loaded as the
grid's own, are not written back, `CommitShow`); the first flush takes the write lock
until the commit (so `FlushRelease`, which flushes the grid row before it selects the
claimed devices, is one step, and `CreateGrid` too); a commit that finds its grid row
gone fails (`\cap grids`). `release_queue` of a grid with nothing to clear flushes
nothing before its select, so it is two steps (`ListClaims`, `CommitIdleRelease`).
A deletion and a layout edit likewise list the claims at one await and commit at a later
one (`LoadDeletion`, `ListDropped`). `Overlap = FALSE` lets one request at a time be in
flight.

Abstracted: geometry, names, crops and the columns saying what is on display. A
canvas push reads each panel's claim at its own await; here the request reads all of
them at once, when it begins. ClaimLedger is the promise: displays start, take panels,
yield some, and end by giving all of them back at once.

### QueueTick

`recent` is the order of `last_displayed_at`, and a request that is showing an entry
holds the place of the timestamp it took when it began, as `show_next` does. `pos` and
the entry number are `queue_position` and creation order. `lease` and `hold` are
`display_next_at` and `hold_until` against the tick's `now`. One tick is
`BeginTick`, one `Release` per expired grid, `FindDue`, then for each due grid in row
order `StartDisplay`, `CommitShow`, `AdvanceLease` (two commits) or `SkipDisplay`.
`Fail` rolls a session back and, in the tick, ends it; `Restart` drops both tasks.
`starts` only counts what the occurrence now due has started. Deleting a grid while
the tick runs is left out. An operator who re-stamps the schedule between the two
commits is modelled (`EditSchedule`), as a change of `lease` that the second commit
overwrites.

### PanelRotation

Each single push is `Begin` (the session reads the row), `Publish`, `Commit`
(`update_display_state`), or fails at either point. `ListDue` takes the eligible panels
of the tick, `Rotate` begins the push for one of them without checking again. A group
display is `ShowGroup` (claims and current images are loaded), one step per panel
(`AlreadyShowing` or `PushSpread`, in any order; the code uses slot order), then
`CommitGroup`. One group display is in flight at a time, the tick's or an operator's;
their interleaving is the subject of GridClaims. `ticked` makes the loop alternate
between the queue tick and the rotation, as `rotation_loop` does. The online set and
the row's `is_online` column are one variable. Canvas images, whose push never passes
a panel over, are not in this module. `sent` is the last image handed to the broker. A
request for one panel may name any image, a grid's or a group's included (`SendImage`); the
rotation picks of its pool. Quiet hours are a step that skips the rotation (`SkipQuiet`).

### DeviceLink

`ctl`, `stop`, `link`, `job`, `orphan` are the controller: its process, its shutdown
event, its connection, the command or retry it is executing and the refresh a
cancelled retry has left in the executor thread. `session`, `retained` are the broker,
`apiLink`, `up`, `online`, `health` the API. A dead connection is `lost` until its
client has worked off what it had received (`async for message in client.messages`)
and notices; the broker publishes the will when the keepalive runs out (`BrokerDrops`).
A command cancels the retry (`Take`), a failure schedules one (`Again`), a success
whose ack could not be published is re-acked without repainting (`waitAck`). A
registration clears the health. `health = "stale"` is a failure older than the
backoff. `AutoPush` is any push behind the health gate, `ManualPush` any other.
Duplicated QoS 1 deliveries, the `status` command (the API never sends it) and the
attempts inside one refresh are left out.

### SyncJobs

`next` is `next_run_at` against now, with pausing and "no cron" both `off`; `flag` is
`run_requested_at` compared with the start of the last run of the job, which is all the
report asks of it. `young` and `old` count the `running` rows of a job by age, the only rows
a claim or a report looks for; finished rows are gone from the model. A cycle works
through `Families` in the worker's order. A claim is `SelectDue`, `AdvanceSchedules`
and `BeginRuns` (select, first commit, second commit), and an operator may edit, click
or delete between them; `ClaimRefused` is the error a deleted row causes, which may come
after the running rows have been committed (`AddRows`). `StartRun`
takes `started_at`, `Report` posts the result. `FamilyFails` is any exception outside
a single job's run: after the first commit it loses the occurrences of the jobs that
were handed out and not run. `asked` is not in the code: it records what a job has
been asked to run for, to state that nothing else is run. Jobs all exist from the
start, as if just created. The rotation loop that rings (`Ring`) is taken to run; a
click whose wake is not published stands for an API that is cut off or restarts.
Jobs of the display family are left out: they are claimed in the same way, if they
have a target grid.

### ImageLibrary

`rows`, `objects` and `showing` are the image rows, the bucket and
`devices.current_image_id`. `inserting` and `deleting` are requests the API has received
and not committed: the handler reads, works on the object and commits, and its caller may
stop waiting at any point (`GiveUp`, the HTTP timeout) without stopping it. The read and
the deletion of the object in `delete_image` are one step, because the S3 call blocks the
event loop. `pc` is where the worker is: an Immich pass lists one page of expired rows
(`StartPass`), reads the devices once (`ReadDevices`), deletes (`CleanOne`), then takes
job after job (`BeginImmichJob`, `EndJob`) and asset after asset: `NextAsset` asks for
a row, `FetchAsset` for an object, `Register` posts the row. The generating passes of
Gemini and Calibre (`BeginGenJob`, `NextPicture`, `GenerateOne`) draw a fixed number of
pictures or none; which picture, prompt or book is not told apart. A listing has no order, so a
page is any subset of its size. The size of a rendering is identified with the job whose
profile asked for it; an upload is rendered for no job and its size is `Upload`. `asked`, `fresh`, `abandoned` and `stray` only record what the
properties except. One worker process is modelled, as the chart runs one, and positive
retention days, as the configuration defaults to; renaming a job, which frees its budget, is left out.

### SchemaUpgrade

A table is the set of its columns that some migration touches; a column no migration
mentions is in every version and left out. `rows` holds one row of each kind a migration
converts, with a value per case the conversion tells apart. `M0001` to `M0030` are the
migrations, `Released` the file each release left (its migrations run over the file of
the release before), `Lived` what users can have done to its rows. `StartApp` is
`create_tables`, which makes missing tables in today's shape before the chain runs, so
that most migrations meet both a table of an old release and one of the models.
`Early(n, db)` is what a crash inside migration `n` leaves: SQLite commits each DDL
statement until the first INSERT or UPDATE opens a transaction, which lasts until the
version is stamped. A `batch_alter_table` that has to copy its table begins with
`CREATE TABLE _alembic_tmp_X`, which commits, and goes on with an INSERT, which does not:
`copies` are the tables whose copy was left there, by a crash (`CrashCopying`) or an error
(`Stop`), and a migration that comes to copy one of them again raises (`Blocked`).
`FirstCopy` is the copy a migration makes before any other INSERT or UPDATE, `BeforeCopy` what
it has committed by then. `Raises` is when a statement names what is not there, or creates
what is. `StartCli` is a bare `alembic upgrade head`, whose `env.py` creates a shorter list
of tables. In `Lived`, users have also picked the models that 0029 and 0030 retire. Indexes,
constraints and downgrades are left out.

### PanelDriver

`lock` and `shows` are the asyncio lock of a call and the executor's queue: a cancelled
caller gives the lock back while its job goes on (`CancelShow`). One attempt is `Setup`,
`PowerOn`, `Refresh`, `Poll` or `TimeOut`, `PowerOff`, `Judge`, the sequence of the
patched EL133UF1 update; `asserted` and `late` belong to its wait, `handle`, `seen` and
`low` to the watcher thread, which samples the line at any moment (`Sample`) and hands its
findings to the verdict (`Failed`). A line that cannot be read is a watcher that takes no
samples. The panel is external: LOW at rest and during a waveform, HIGH after one; a
waveform may take any time or never end, a reset cuts one short, a power-off in the middle
may latch the panel until its power is taken away. A refresh of one half of the panel,
which the code documents it cannot detect, is not a case of the model.

### GenerationTasks

`doing[t]` is the coroutine's next step, `row[t]` the task row, `object`, `image` and
`pushed` what it has done. Every step may fail (`Fails`), the writes of the row may be
lost (`MarkLost`), a restart ends all coroutines and touches no row (`ApiRestart`). A
request prunes the oldest rows whatever their status (`Create`), and a write to a pruned
row does nothing (`Mark`).

### DisplayGroups

A group is its job, the number of its screens, whether it is older than the retention and
whether all its objects are there. The claim of a job prunes in three steps (`ReadShowing`,
`ReadGroups`, `CommitPrune`), the worker makes the group before its screens
(`CreateGroup`, `RenderPart`, `EndRun`), and `CutShort` ends either anywhere. A display
(`BeginDisplay`, `CommitDisplay`) is an operator's: the newest group of a job, which may be
the one the worker is filling (`Taken`), or any other.
The schedule and the run rows are those of SyncJobs.

### Access

A session is its role, its embedded expiry and whether it carries the state of a sign-in; `root` is
not in the code: it is the time of the act the session goes back to, a sign-in or the making
of a link by anyone who is not a guest (`MayInvite`).
`Load` is `load_session`, `Store` the middleware that signs the cookie anew if the session
changed. `BeginSignIn` loads the session and waits for the provider, `Login` and
`Callback` store what they made of it, over whatever the browser has got meanwhile. A
restart may find other settings and makes a new secret if none is configured. Requests
that leave the session alone are left out, of the policy all but the route that makes links.

## 3. Runs

| Run | Question | Instance | Result |
|---|---|---|---|
| claims_overlap | With requests interleaved at every await: does a claim always belong to a grid with a hold, and is the ledger implemented? | 2 grids, 2 panels, 2 operators and the loop; symmetric | holds |
| claims_serial | One request at a time: are claimed panels placed on their grid, and on one grid only? | 3 grids, 2 panels, 1 operator and the loop | holds |
| claims_orphan | Does deletion release every claim (docstring of `delete_grid`)? | as claims_overlap | violated |
| queue_plays | Is an occurrence displayed once and never lost, and does every entry play? | 1 grid, 3 entries (a group, a broken image that moves pools, an image), 1 fault | holds |
| tick_serves | Do elapsed holds end and due displays start on every grid that no broken entry stops? | 2 grids (one manual), 3 entries (one group without panels, one image that never renders), 1 fault | holds |
| panels_rotate | Is a panel left to the rotation repainted for ever, and does its row converge? | 2 panels: one on the grid, pinned at times; one failing at times | holds |
| panels_unpushed | Is a panel that is passed over as "already showing" showing it? | 1 panel | violated |
| link_works | Is the online set true, the newest command painted once, a failure never final? | 1 image and the blank, 2 messages each way | holds |
| jobs_served | Is a job run only when asked, is no click swallowed, is everything served by the poll alone and by wakes alone, are abandoned rows closed? | an Immich job, edited and deleted, and a Calibre job | holds |
| library_kept | Has every row its object in its size, do caps hold, does the cleanup spare what is shown and take the rest? | 2 assets, 2 Immich jobs (one capped), 1 generating job, 1 panel, 1 fault | holds |
| schema_upgrades | Does a file of any release, with crashes and a bare upgrade, come to serve with the models' schema and its rows carried over, and where does it stop? | files of 14 versions and a new one, 1 crash, 1 bare upgrade | holds |
| services_work | Are sessions earned, acknowledgements true, task rows true, and is there always a group to display? | 4 parts, see Bounds | holds |

### What the violated runs show

* **claims_orphan.** Deletion is two transactions; a display committed between them leaves
  panels claimed by a grid that is gone.
* **panels_unpushed.** `_claim` records the image for offline panels as well; when the
  group is displayed again after they came online they count as showing it already.

### Also seen

Met while modelling, with no run of their own. On grids, queues and links:

* `database.py:33-43` opens SQLite without `PRAGMA foreign_keys=ON`, so the cascade
  `delete_grid` relies on does nothing: the placements of a deleted grid stay
  (`DeleteCommit`) and its panels are refused to every other grid. The same goes for the
  `ON DELETE` clauses of generated groups and job targets below.
* An exception while one grid's display is rendered leaves the loop over the due grids
  (`queue_service.py`). The entry stays at the head of its queue, so every later tick ends
  there too and grids behind it in row order are not served for as long as it stays
  (`BrokenHead`). tick_serves has such an entry: `DueDisplaysStart` says that nothing else, no
  fault and no grid behind it in row order, keeps a due display from starting.
* The health gate that `refresh_health.py:3-4` and `docs/refresh-issues.md:139` describe
  for grids is only in the rotation and in generation (`ShowGroup` pushes to failing panels).
* A panel claimed or pinned between the rotation's list and its turn is still pushed to
  (`rotation.py:108-151`). A request for one panel may send it any image (`devices.py:241`),
  one of a grid or group included.
* With two layout edits in flight a panel can be placed on two grids, and with overlap a
  display that replaces an expired one can be ended by the tick's stale row. Both are
  behaviours of the overlap instance, where `OneGridPerDevice` does not hold; no property
  covers the second.
* The controller's shutdown monitor raises `CancelledError`, which an `asyncio.TaskGroup`
  takes for a child that was cancelled: the group goes on waiting for the MQTT task and
  `_cleanup` is not reached (`controller.py:113`).
* A command published between a controller's announcement and its subscription is lost;
  a failed clear is not retried.

On jobs:

* `sync_runs.py:18` has no entry for Calibre, so a report never clears the flag of a
  Calibre job: once clicked, it is generated again on every cycle. DueIsAskedFor excepts
  the flag of a Calibre job for this reason, and nothing else of it.
* `wake_due_job_workers` never rings for Calibre jobs, although its docstring says every
  job type, and the chart starts no worker if Calibre is the only family switched on.
* Two claims in flight together would both be handed a due job, which `claim_due_jobs`
  says cannot happen and which only the single worker of the chart prevents.

On the library:

* `docs/configuration.md:362` and `:383` promise that generated images are cleaned up by
  the API after `retention_days`. The only cleanup lists rows of source Immich;
  `expires_at` set by `gemini/sync_service.py:149` and `calibre/sync_service.py:188` is
  read by nobody, which is why `ExpiredGoes` is about Immich rows. It is also written in
  local time and compared with UTC.
* A late insert after a timeout, or `IMMICH_SKIP_EXISTING=false`, gives two rows for one
  object; deleting either takes the object from both (`RowsMatchObjects` excepts it).
* An object that is already there is reused whatever size it was rendered to; errors and
  lost answers do not count towards the cap; a cap above one page of a listing is never
  reached (`CapHolds` states both limits).
* Objects are left behind when the store refuses a deletion (only logged), and when the
  API stops between object and row. A row is left without its object when the API stops
  between the deletion of the object and the commit (`images.py:263`); `RowsMatchObjects`
  excepts rows that somebody asked to delete, so it does not show this.
* Rotation does not look at `expires_at`, so an expired image may be put on a panel
  after the cleanup read the devices and be deleted there.
* The Calibre client stops paging when a page parses to fewer books than it asked for, so a
  page with one unusable entry ends the catalogue; a hero's source id is commented
  as one that dedupes (`calibre/sync_service.py:255`), and nothing looks at it.

On display jobs and groups:

* A run that is cut short leaves an empty or half-filled group as the newest: Display now
  (`display_job_service.py:39-40`) then fails or shows less, and full older groups may be
  pruned. An upload or registration that raises ends the pass for all jobs, unreported.
* The same goes, for a while, for every ordinary run: Display now takes the job's newest
  group whether it is finished or not (`display_jobs.py:280-286`). From the moment the worker
  creates a group until its first screen is there it answers 409 (`queue_service.py:246-247`),
  after that it shows the screens there are, although older groups are complete.
  `DisplayNowWorks` excepts the group being filled for this reason.
* Deleting a job leaves its groups with a dangling link: read-only and never pruned.
  Deleting a grid leaves `target_grid_id`, deleting a group its `current_group_id` and the
  slots of its images dangling.
* The prune can take a group that was put on the grid after it read the grids.

On tasks and sessions:

* After a restart, or when the write of the outcome is lost, a task stays queued or
  running for ever. A task can be failed though its image is in the library.
* Of two overlapping responses to a browser the later wins: the response of a sign-in
  begun before a logout restores the session, a slow guest sign-in replaces an
  administrator's cookie.
* `routes/auth.py:129` says that guest links are for administrators only. The policy also lets
  the sync token make them and, with sign-in off, anybody; such a link outlives a restart
  that switches sign-in on if the secret is configured.

On the schema:

* `alembic upgrade head` on a file no release since 0018 has started stops at 0024, because
  the bootstrap list of `env.py:47` lacks `sync_job_runs`, against the comment at
  `env.py:77-80` (and the fix CHANGELOG.md:293 records). By then 0024 has begun to copy a
  table, and the next start of the API, which would make the missing one, stops at that copy:
  on an empty file too, `_alembic_tmp_grids` has to be dropped by hand.
* A file of release 0015 to 0021 with a MOTD configuration does not come up: start-up has
  created `display_jobs` in today's shape, and 0022 inserts into columns of its own.
* A crash between 0028's unguarded `create_table` and its stamp stops every later start, and
  so does one between the first statement of a table copy, `CREATE TABLE _alembic_tmp_X`, and
  the stamp, in nine migrations (`Copying`; for example 0010:35, 0017:36, 0023:62, 0024:56,
  0025:34), whose guards look at columns and not at that table.
* A crash between 0003's column and its UPDATE leaves `last_seen` NULL for old rows.
* `0029:13-15` and `0030:16-17` promise to leave a model an operator chose alone, even if it is
  the retired one; the UPDATE selects by value, so such a row is moved as well.
  `OperatorTextStays` says so.

### Bounds

Every property is about pairs: two requests, two grids over one panel, a display and
its lease, a command and the retry it supersedes. The smallest instance with each
pair is enough to exhibit the conflict; what a third member adds is more of the same
pair, and for grids claims_serial has three (a panel that moves from a deleted grid to
a second one while a third exists). `MaxFaults` bounds failed sessions in QueueTick:
one, so that `starts <= 1 + faults` separates 1 from 2. `MaxQueue` bounds messages in
flight in DeviceLink: two, so that a command overtakes a refresh and another waits
behind it. `MaxRows` bounds the running rows there may be when the worker fails again:
one, so that a row is abandoned while another job's rows come and go; `Edited` names the
job operators reschedule and delete, so that the two jobs of jobs_served differ. `Pinnable` and `Failing` say on which panels pins and failures vary, so
that the two panels of panels_rotate differ in what happens to them; its pool has one
image besides the group's, which is what the properties tell apart. Deadlock is not
checked in the GridClaims runs, because with all ids used up by deletion the instance
may stop, nor in services_work, whose parts may use up their bounds; it is checked in the
others.

library_kept: `MaxRows = 2`, a row and another one it shares an object, a cap or a
cleanup with; `MaxFaults = 1`, of any kind; `UploadIds` says that the second row may be
an upload; `ListLimit = 2`, so that a page holds all rows, and `Cap = 1`, so that it is
reached. schema_upgrades: `From` has, for every migration that branches on its
input, a version before and one after it; `MaxCrashes = 1`, because each migration is
cut short once and meets its own leftovers. services_work: lifetimes 3, 1 and 1 with five instants, so that a stay can
outlive its link and still end before an administrator's session, one restart; three attempts, two images of the right size and one that is
not, two calls queued; three tasks of which two are kept, two losses; one display job
with two parts, three groups, one run cut short.

### Fairness

Weak fairness for every step a running task takes next: the loop (`TickStep`,
`ListDue`, `Rotate`), the end of a request that began, the clients' loops, the broker.
asyncio runs every ready task, and a publish, query or refresh returns or raises.
In PanelRotation `Rotate` is fair as a whole: the list only shrinks, so each listed
panel gets its turn. `HoldElapses` and `LeaseElapses` are strongly fair because the
model lets them happen only between ticks (the tick compares with one `now`), while
real time goes on during a tick. `Start` is fair because the controller runs under a
service manager. Nothing obliges an operator to act, a panel to come online or
anything to fail, and no failure is prevented: the liveness properties say what they
assume of failures (`<>[][~Broken]_vars`, `LeftToRotation`, `Steady`). A step of the
program that equals a failing one is not excluded by them: `FamilyFails` is not enabled
where the pass ends anyway, `AckUnrecorded` only where the outcome is news. In SyncJobs
the safety poll is not in the specification's fairness but in the antecedent of the
properties that rely on it, so that ServedByWake shows that the wakes suffice without.

In SchemaUpgrade the process runs on, and a container that exited is started again
(`Restarted`, what a Kubernetes Deployment does); nobody restarts an API that serves, and no
crash is owed. In ImageLibrary the API answers (`Api`), the worker goes through a pass it
began (`Clean`, `Process`), and passes of both kinds keep coming, strongly fair because
the other kind keeps taking the worker: every family is polled in every cycle. PanelDriver,
GenerationTasks, DisplayGroups and Access have safety properties only: a panel may never
answer, and a lost task row stays as it is.

## 4. Proofs

Each component with a model has its theorems in `<Model>Proofs`, for every value of the
constants that satisfies the model's named assumption. Those assumptions only say that
sets of names do not overlap, that sentinels are no names and that bounds are natural
numbers; `IsFiniteSet(Entries)` in QueueTick is that a database has finitely many rows. A
proof has the shape: an inductive invariant, a conjunction of named parts, of which each
says one thing; one lemma per group of actions that it survives them; and the theorems,
which follow from it. Every inductive invariant was first checked by TLC on the instance
of the model's run.

`GridClaimsProofs`, any sets of grids, panels and requests:

* `TypeCorrect`: `TypeOK`, inductive as it stands, one step per action.
* `ClaimsAlwaysHeld`: a panel claimed by an existing grid is claimed by a grid with a
  hold. Not inductive alone: a grid created with the id of a deleted one would inherit
  its claims, so `RowsKnown` adds that no id is both existing and deleted and that only
  such ids are claimed or held. The argument is that every write that clears a hold
  (`FlushRelease`) selects the claims in the same transaction.
* `Refinement`: the specification implements `ClaimLedger` under the mapping in
  `GridClaims` (ownership is read for existing grids). The step lemma maps each commit
  to `Display`, `EndDisplay` or `Yield`, and each load to a stutter; it rests on the
  invariant of `ClaimsAlwaysHeld`.
* `SerialClaims`, `SerialLayouts`: with requests one at a time (`~Overlap`), claimed panels
  are placed on the existing grid that claims them and no panel is on two layouts.
  `SerialInv` strengthens this with two facts: at most one request is in flight, and what
  it loaded still describes the rows (`RequestFits`). The condition `~Overlap` is the point
  of both: claims_overlap and claims_orphan show what interleaved handlers do instead.

`QueueTickProofs`, any grids, entries, pools, queue and number of faults:

* `TypeCorrect`, `OneStartEach` (`OneDisplayPerOccurrence`) and `OccurrencesStay`
  (`NoOccurrenceLost`). `StartsOK` is the heart: between the commit of a display and the
  commit of its lease (`Between`) an occurrence has started one display more than it has
  cost failures, and if its lease is still due it has started one. `OrderOK` says that an
  entry has one place in the order of the shown ones, and a request one exactly while it
  shows an entry; it rests on lemmas about removing an element from a sequence
  (`WithoutProperties`).
* `NextIsOne`: at any time the queue has one next entry at most, so that "the head of the
  sorted list" and the model's choice are the same entry.

`PanelRotationProofs`, any panels, layout, pool and failures:

* `TypeCorrect`; `GridStaysOnItsPanels`: a grid claims the panels placed on it and no
  other, and a panel off it is sent nothing but what the rotation picked for it, which is of
  the solo pool, or what a request for this very panel named, which may be any image: no
  step of a group display reaches it (`SentOffGrid`); `LoopDoesOneThing`: the loop's task is
  never in the tick and the rotation at once and serves no panel twice in a round.
  `RotationInv` adds that what the rotation carries is of the pool.

`DeviceLinkProofs`, any images and any bound on the queues:

* `TypeCorrect`; `OnlineIsTrueAlways`: with its queue worked off, a connected API believes
  of the device what the broker knows. `OneStory` strengthens it to every moment: what a
  connected API will believe after the last message on its way (`Believed`) is what the
  broker's session says, the retained status agrees, and a working connection of the
  controller has a session. The types say why the queue has room for the will.
* `PaintedOnce` (`NewestIsPaintedOnce`): once the image of the newest command has been
  painted, no refresh ends until a newer command. `Unpainted` says that wherever a refresh
  can still begin or end - a command, a retry that waits, the thread of a cancelled retry -
  that image has not been painted.

`SyncJobsProofs`, any sets of jobs and any `MaxRows`:

* `TypeCorrect`: `TypeOK`, which includes how the worker's cycle and what it holds fit
  together (what is in hand belongs to the family in hand, a claim's `leased` is empty
  once the claim is over). It is inductive, by one lemma for each group of steps.
* `RunsAreAskedFor`: `DueIsAskedFor`, for all families; the property excepts the flag of a
  Calibre job, which a report never clears (see Also seen). `ReasonsKept` strengthens it: each
  of the two reasons a claim looks at is on record under its own name. The commit of a claim removes an
  occurrence together with its reason, a report the click together with the flag.
* `ClicksAreServed`: `ClickOutlivesEarlierRun`, for all families: only `RunNow`,
  `StartRun` and `Report` write the flag.

`ImageLibraryProofs`, any jobs, assets, panels, caps, page sizes, rows and faults:

* `TypeCorrect`: no identity is given out twice, a deletion in flight is of a row.
* `RowsHaveObjects` (`RowsMatchObjects`), if existing images are skipped (`SkipExisting`, the
  default of the configuration; without it a pass replaces objects under their rows). Not
  inductive alone: `Ownership` says that, as long as nobody stopped waiting for an insert,
  a path belongs to one row, one insert or the worker (`Sole`), that each of them has its
  object (`Served`) and that every object belongs to one of them (`Owned`). `PathsLeft`
  counts paths, rows and faults, so that a generated picture always finds an unused path:
  the uuid of the code.
* `CapsHold` (`CapHolds`): `CapLeft` counts a capped job's rows, the inserts nobody waits
  for any more and what the worker may still add; `PendingCounted` bounds the second by
  the requests that were given up on.
* `ShownAreSpared` (`CleanupSparesShown`): `CleanupKnows` says what the cleanup has in hand is
  expired, Immich's, and on no panel that has not changed since it read the devices.

`ServicesProofs`, the four parts of MCServices and their composition:

* `AccessTypeCorrect` and `SessionsAreEarned` (`AccessIsEarned`), any browsers, lifetimes,
  restarts and length of time. What it says of the session a cookie is read as is
  not inductive, because sign-ins in flight hold sessions of their own. `EarnedInv` says
  of every session, in a cookie or waiting with a sign-in, that it ends within
  its lifetime of its root, and of every link that its root is its own making: a link
  made by a guest would go back further, and the policy refuses it (`MayInvite`). The
  argument needs nothing of the order of responses or of the secret: every session that
  is stored is one that was loaded or one that was just earned (`StoredSession`).
* `DriverTypeCorrect`, with how calls, lock and driver object fit together, and `AcksAreTrue`
  (`AckedMeansShown`), any images, attempts (at least one) and calls. `PanelFollows` says how far the
  panel can have come at each step of an attempt: a waveform seen after the reset is this
  attempt's, the line has been LOW only if the panel is not latched, and a wait that ended
  without its warning ended with this image on the glass. With the patched wait the
  watcher's verdict only rejects more refreshes; it is what the code has for the drivers
  whose wait does not look for the LOW phase.
* `TasksAreTrue` (`TasksTellTheTruth`), any number of requests, of losses and of rows kept
  (at least one). `TasksInv` adds to what a row says what a coroutine
  has done by the time it is at a step (`Progress`), and says "newest" by numbers instead
  of by counting (`ListIsNewest`), the two being related by a lemma on intervals
  (`NewestOfInterval`).
* `GroupsTypeCorrect` and `DisplayNowKeepsWorking` (`DisplayNowWorks`), any jobs, parts, groups
  and prunings. `GroupsWhole` says that a group that is not being filled has screens, and
  their objects unless it is about to go, and that the newest finished group of a job
  never is (`NewestOf` spares it in both commits of the pruning); as in the property, unless a
  run was cut short or groups were deleted. The group being filled is excepted by name.
* `TypeCorrect` and `PromisesKept`: a behaviour of the composition satisfies the
  specifications of all four parts, hence keeps all their promises.

`SchemaUpgradeProofs`, any number of crashes and files of any releases (`From` is any set of
versions, where the run has fourteen):

* `ServedSchema`, `StopsForeseen`, `RowsCarriedOver` and `OperatorTextKept` state the four
  invariants of the run. `SchemaInv` is the file as a function of its version. `Adds` and
  `Drops` are the history of every table; a table has the columns that were added to it
  so far, and none that no later migration takes away (`Within`). `Landmarks` and
  `Heirlooms` are what migrations find out by looking for a table or a column, with the
  crashes that mislead them; `RowsOK` says in what form the rows are, and
  `CarriedOver` what of the first rows is still in them. One lemma for each migration
  (`M0001Effect` to `M0030Effect`) says what it does to the tables (`Evolves`) and the rows
  (`Writes`), whether or not the models or a crashed attempt have made its tables before;
  `FileMoves` concludes that it takes a file of its version to one of the next. What a crash
  can leave of it is a file of the version before (`FileCut`, and `CopyBegins` up to the first
  table copy). `CopiesExplained` says where copies come from: a crash in one of the nine
  migrations, or 0024 in a bare upgrade of a file without `sync_job_runs`. That the file
  of each release is one of its version (`ReleasedOK`) is proved by the least release of which it is not: a function
  defined by recursion over 0..30 exists by the same argument (`ChainExists`).

Only model-checked: the liveness properties, which need fairness and are out of the
prover's reach - `EveryEntryPlays`, `ExpiredHoldsEnd` and `DueDisplaysStart` of QueueTick,
`RotationGoesOn` and `RecordsConverge` of PanelRotation, `RecoversUnattended` of DeviceLink,
`ServedByPoll`, `ServedByWake` and `OldRowsClose` of SyncJobs, `StartsEventually` of
SchemaUpgrade and `ExpiredGoes` of ImageLibrary. Every safety property of a run that is
expected to hold is stated by a theorem.


## 5. What remains

Worth doing next, in this order:

1. Proofs: the safety properties are proved, each for the parts of one module. What is not
   stated yet is the seam between modules: that `Release` and `CommitShow` of QueueTick and
   PanelRotation are `FlushRelease` and `CommitShow` of GridClaims with the rest hidden.
2. Pure algorithms against reference definitions: panel slots and crop boxes of a
   layout, the quiet-hours window, the stagger of a mass rotation, the pick window, the
   size caps of the Immich pipeline.
3. The run rows of display jobs and their pruning, metadata edits of images and the
   members of manual groups.

Not modelled: rendering and image processing (pixel arithmetic and text layout with no
state); settings (single key/value rows, read whole at each use); CRUD of presets,
blocks and profiles (single rows without interaction; how the migrations change them is in
SchemaUpgrade); the provider's protocol behind sign-in (a library's); the search filters
and prompts of the pipelines (they decide which pictures there are, a free choice in the
models); downgrades (nothing runs them); the frontend, which keeps no state the API
relies on, and the charts. That the charts run one replica of the API and one worker is
an assumption of every module.
