--------------------------- MODULE SchemaUpgrade ---------------------------
(***************************************************************************)
(* How the API brings its database up to date: create_tables               *)
(* (api/database.py) first creates every table that is missing, in the     *)
(* shape of today's models, and then runs the chain of 30 Alembic          *)
(* migrations from the version stamped in the file, each guarded so that   *)
(* it changes only what is not there yet.  The file may be new or may have *)
(* been left by any earlier release.  SQLite commits a DDL statement at    *)
(* once until the first INSERT or UPDATE of a migration opens a            *)
(* transaction, which ends when the version is stamped: a crash inside a   *)
(* migration keeps the first statements and forgets the rest.  What cannot *)
(* be altered in place a batch copies: CREATE TABLE _alembic_tmp_X, INSERT *)
(* the rows, drop and rename.  When that INSERT is the migration's first,  *)
(* the created table stays behind a crash, and every later start stops at  *)
(* creating it again.                                                      *)
(*                                                                         *)
(* A table is the set of its columns that some migration touches, {} when  *)
(* it does not exist; of the rows only what a migration carries over.      *)
(***************************************************************************)
EXTENDS Naturals, Sequences

CONSTANTS MaxCrashes,    \* bound: crashes of the process in one behaviour
          From           \* the versions the file may be stamped with at first

Latest == 30
NULL == "null"
Blocks == {"style", "palette"}          \* two of the six seeded blocks

ASSUME UpgradeAssumption == MaxCrashes \in Nat /\ From \subseteq 0..Latest

VARIABLES
    tables,      \* [table -> SUBSET columns]
    rows,        \* what the rows hold, see LegacyRows
    version,     \* alembic_version
    copies,      \* the tables X whose _alembic_tmp_X is left in the file
    phase,       \* of the process: "down", "migrating", "serving", "stopped"
    mode,        \* who migrates: the "app", or "cli" (a bare alembic upgrade head)
    origin,      \* history: the rows and version of the file at first
    crashes,     \* history: the migrations a crash interrupted, in order
    cli          \* history: a bare upgrade was run

vars == <<tables, rows, version, copies, phase, mode, origin, crashes, cli>>

---------------------------------------------------------------------------
(* The models of this release: the columns create_all gives a new table.   *)

Cadence == {"next_run_at", "last_run_at", "run_requested_at", "schedule_cron", "schedule_timezone"}
Target == {"target_device_profile_id", "orientation"}

ImageColumns == {"id", "source_id", "sync_job_name", "target_grid_id", "excluded_from_rotation",
                 "group_id", "group_slot_row", "group_slot_col", "queue_position"}
DeviceColumns == {"id", "last_seen", "device_profile_id", "claimed_by_grid_id", "refresh_interval_seconds",
                  "last_refresh_ok", "last_error", "last_error_at", "is_pinned"}
GridColumns == {"id", "display_schedule_enabled", "display_timezone", "display_duration_seconds",
                "current_group_id", "hold_until", "display_cron", "display_next_at"}
GridDeviceColumns == {"id", "row", "col"}
PromptPresetColumns == {"id", "model_name"}
ImmichSyncJobColumns == {"id", "max_images", "album_match_mode", "person_match_mode"} \cup Target \cup Cadence
GeminiSyncJobColumns == {"id"} \cup Target \cup Cadence
DisplayJobColumns == {"id", "is_active"} \cup Cadence
DeviceProfileColumns == {"id", "physical_width_cm", "physical_height_cm"}
CalibreSyncJobColumns == {"id"} \cup Cadence

Models ==
    [images |-> ImageColumns, devices |-> DeviceColumns, grids |-> GridColumns,
     grid_devices |-> GridDeviceColumns, prompt_blocks |-> {"id"}, prompt_presets |-> PromptPresetColumns,
     immich_sync_jobs |-> ImmichSyncJobColumns, gemini_sync_jobs |-> GeminiSyncJobColumns,
     display_jobs |-> DisplayJobColumns, display_job_slots |-> {"id"}, image_groups |-> {"id"},
     sync_job_runs |-> {"id"}, generation_tasks |-> {"id"}, device_profiles |-> DeviceProfileColumns,
     app_settings |-> {"id"}, calibre_sync_jobs |-> CalibreSyncJobColumns]

(* Tables of earlier releases, and what an interrupted 0022 leaves behind. *)
Retired == {"motd_configs", "motd_device_assignments", "motd_messages", "motd_screens", "motd_messages_old"}

Tables == DOMAIN Models \cup Retired

(* Fault: only the tables of the oldest releases are made at start-up. *)
CreateOrderOfEnv == <<"images", "grids", "prompt_blocks", "prompt_presets", "devices", "grid_devices",
                      "immich_sync_jobs", "gemini_sync_jobs">>

(* The tables create_tables makes, in its order; device_profiles,          *)
(* app_settings and calibre_sync_jobs belong to the migrations.            *)
CreateOrder == <<"images", "grids", "prompt_blocks", "prompt_presets", "devices", "grid_devices",
                 "immich_sync_jobs", "gemini_sync_jobs", "display_jobs", "display_job_slots",
                 "image_groups", "sync_job_runs", "generation_tasks">>

(* The tables env.py makes for a bare "alembic upgrade head".              *)
Bootstrap == {"images", "grids", "devices", "grid_devices", "immich_sync_jobs",
              "prompt_blocks", "prompt_presets", "gemini_sync_jobs"}

Has(t, name) == t[name] # {}

(* create(checkfirst=True): an existing table is left as it is.            *)
CreateMissing(t, names) ==
    [name \in Tables |-> IF name \in names /\ ~Has(t, name) THEN Models[name] ELSE t[name]]

---------------------------------------------------------------------------
(* One migration maps a database to a database.                            *)

AddColumns(db, name, cols) ==
    IF Has(db.t, name) THEN [db EXCEPT !.t[name] = @ \cup cols] ELSE db

DropColumns(db, name, cols) == [db EXCEPT !.t[name] = @ \ cols]

CreateTable(db, name, cols) ==
    IF Has(db.t, name) THEN db ELSE [db EXCEPT !.t[name] = {"id"} \cup cols]

DropTable(db, name) == [db EXCEPT !.t[name] = {}]

InColumns(db, name, col) == col \in db.t[name]

M0001(db) == AddColumns(db, "images", {"source_id", "sync_job_name"})

(* Only on a database that still has target_device_id.                     *)
M0002(db) ==
    IF InColumns(db, "immich_sync_jobs", "target_device_id") /\ db.r.image = "raster"
    THEN [db EXCEPT !.r.image = "panel"] ELSE db

M0003(db) ==
    IF ~Has(db.t, "devices") \/ InColumns(db, "devices", "last_seen") THEN db
    ELSE [AddColumns(db, "devices", {"last_seen"}) EXCEPT
             !.r.seen = IF db.r.panel = "none" THEN NULL ELSE "set"]

PromptTables(db) ==
    CreateTable(CreateTable(CreateTable(db, "prompt_blocks", {}), "prompt_presets", {}),
                "gemini_sync_jobs", {"target_device_id", "is_portrait"})

(* _seed_defaults: a block or a preset already there by name is kept.      *)
M0004(db) ==
    [PromptTables(db) EXCEPT
        !.r.text = [b \in Blocks |-> IF @[b] = "absent" THEN "seed4" ELSE @[b]],
        !.r.humanoid = IF @ = "absent" THEN "retiring" ELSE @]

M0005(db) == AddColumns(db, "prompt_presets", {"model_name"})

M0006(db) == [db EXCEPT !.r.ids = "hex"]

ProfileOf(panel) == IF panel = "seven" THEN "seven" ELSE "default"

MigrateDevices(db) ==
    LET legacy == {"display_width", "display_height", "display_model"} IN
    [DropColumns(AddColumns(db, "devices", {"device_profile_id"}), "devices", legacy) EXCEPT
        !.r.profile = IF db.r.panel = "none" THEN NULL
                      ELSE IF legacy \cap db.t["devices"] # {} THEN ProfileOf(db.r.panel)
                      ELSE IF @ = NULL THEN "default" ELSE @]

MigrateImmichSyncJobs(db) ==
    [DropColumns(AddColumns(db, "immich_sync_jobs", Target), "immich_sync_jobs", {"target_device_id"}) EXCEPT
        !.r.target = IF InColumns(db, "immich_sync_jobs", "target_device_id") /\ @ = NULL
                     THEN db.r.profile ELSE @]

MigrateGeminiSyncJobs(db) ==
    DropColumns(AddColumns(db, "gemini_sync_jobs", Target), "gemini_sync_jobs", {"target_device_id", "is_portrait"})

M0007(db) ==
    LET profiled == MigrateDevices(CreateTable(db, "device_profiles", {}))
        immich == IF Has(db.t, "immich_sync_jobs") THEN MigrateImmichSyncJobs(profiled) ELSE profiled
    IN  IF Has(db.t, "gemini_sync_jobs") THEN MigrateGeminiSyncJobs(immich) ELSE immich

Physical(db) == AddColumns(db, "device_profiles", {"physical_width_cm", "physical_height_cm"})

M0008(db) ==
    LET gridded == CreateTable(CreateTable(Physical(db), "grids", {"scheduled_next_at"}), "grid_devices", {})
    IN  AddColumns(AddColumns(gridded, "devices", {"claimed_by_grid_id"}), "images", {"target_grid_id"})

M0009(db) ==
    AddColumns(AddColumns(db, "devices", {"refresh_interval_seconds"}), "grids", {"refresh_interval_seconds"})

M0010(db) == DropColumns(db, "immich_sync_jobs", {"min_color_score", "min_vibrancy_score"})

M0011(db) == CreateTable(db, "app_settings", {})

M0012(db) == AddColumns(db, "devices", {"last_refresh_ok", "last_error", "last_error_at"})

(* Fault: the block is found by name, whatever its text. *)
RepaintByName(db, changed, from, to) ==
    [db EXCEPT !.r.text = [b \in Blocks |-> IF b \in changed /\ @[b] # "absent" THEN to ELSE @[b]]]

(* Only a row whose text is still the seeded one is repainted.             *)
Repaint(db, changed, from, to) ==
    [db EXCEPT !.r.text = [b \in Blocks |-> IF b \in changed /\ @[b] = from THEN to ELSE @[b]]]

M0013(db) == Repaint(db, Blocks, "seed4", "seed13")

M0014(db) == AddColumns(db, "immich_sync_jobs", {"max_images"})

MotdTables(db) ==
    CreateTable(CreateTable(CreateTable(CreateTable(db, "motd_configs", {}), "motd_device_assignments", {}),
                            "motd_messages", {"config_id"}), "motd_screens", {})

(* Skipped when it is there already, or when an operator deleted a block.  *)
SeedScenePreset(db) ==
    IF db.r.scene = "absent" /\ \A b \in Blocks : db.r.text[b] # "absent"
    THEN [db EXCEPT !.r.scene = "retiring"] ELSE db

M0015(db) ==
    SeedScenePreset(Repaint(AddColumns(MotdTables(db), "devices", {"claimed_by_motd_config_id"}),
                            {"style"}, "seed13", "seed15"))

M0016(db) == AddColumns(db, "motd_messages", {"displayed_at"})

M0017(db) == AddColumns(AddColumns(db, "images", {"excluded_from_rotation"}), "devices", {"is_pinned"})

AddToSyncJobs(db, cols) == AddColumns(AddColumns(db, "immich_sync_jobs", cols), "gemini_sync_jobs", cols)

(* Fault: the flag is added to the Immich jobs only. *)
M0018ForgetsGemini(db) == AddColumns(db, "immich_sync_jobs", {"run_requested_at"})

M0018(db) == AddToSyncJobs(db, {"run_requested_at"})

M0019(db) == AddColumns(db, "immich_sync_jobs", {"album_match_mode", "person_match_mode"})

(* The cadence a deployment cron gave the job until now becomes its own.   *)
M0020(db) ==
    [AddToSyncJobs(db, {"interval_minutes", "next_run_at", "last_run_at"}) EXCEPT
        !.r.cadence = IF @ = "external" THEN "interval" ELSE @]

M0021(db) == AddColumns(db, "grid_devices", {"row", "col"})

LegacySchedule == {"schedule_enabled", "display_time", "weekday_mask", "timezone", "generation_lead_minutes",
                   "display_duration_seconds", "active_message_id", "active_since", "active_expires_at",
                   "last_generated_on", "last_displayed_on"}

JobTables(db) ==
    CreateTable(CreateTable(db, "display_jobs", LegacySchedule), "display_job_slots", {"rotation_index"})

(* The INSERT that carries a MOTD configuration over names the columns of  *)
(* the display_jobs table this migration would have made itself.           *)
CarriesConfigs(db) == db.r.motd # "none" /\ Has(db.t, "motd_configs")
M0022Fails(db) == CarriesConfigs(db) /\ ~InColumns(JobTables(db), "display_jobs", "schedule_enabled")

RenameMessages(db) ==
    IF ~InColumns(db, "motd_messages", "config_id") THEN db
    ELSE [db EXCEPT !.t["motd_messages_old"] = db.t["motd_messages"], !.t["motd_messages"] = {}]

RebuildMessages(db) ==
    IF ~InColumns(db, "motd_messages", "config_id") THEN db
    ELSE [db EXCEPT !.t["motd_messages"] = {"id", "job_id", "displayed_at"}]

M0022(db) ==
    LET carried == IF CarriesConfigs(db)
                   THEN [JobTables(db) EXCEPT !.r.job = db.r.motd, !.r.motd = "none"]
                   ELSE JobTables(db)
        dropped == DropColumns(RebuildMessages(carried), "devices", {"claimed_by_motd_config_id"})
    IN  DropTable(DropTable(dropped, "motd_device_assignments"), "motd_configs")

GridSession == {"active_message_id", "active_since", "active_expires_at"}

GridSchedule == {"display_schedule_enabled", "display_time", "display_weekday_mask", "display_timezone",
                 "display_duration_seconds", "last_displayed_on"} \cup GridSession

(* The schedule of a job that targets the grid moves to the grid; the job  *)
(* itself goes on generating once a day.                                   *)
M0023(db) ==
    LET scheduled == InColumns(db, "display_jobs", "schedule_enabled")
        slim == DropColumns(AddColumns(AddColumns(db, "grids", GridSchedule), "display_jobs",
                                       {"interval_minutes", "next_run_at", "last_run_at"}),
                            "display_jobs", LegacySchedule)
    IN  IF ~scheduled THEN slim
        ELSE [slim EXCEPT
                !.r.sched = IF db.r.jobGrid THEN (IF db.r.job = "scheduled" THEN "mask" ELSE "off") ELSE @,
                !.r.job = IF @ = "scheduled" THEN "interval" ELSE @]

M0024(db) ==
    LET grouped == AddColumns(CreateTable(db, "image_groups", {}), "images",
                              {"group_id", "group_slot_row", "group_slot_col", "queue_position"})
        gridded == DropColumns(AddColumns(grouped, "grids", {"current_group_id", "current_frame", "hold_until"}),
                               "grids", GridSession)
        jobbed == DropColumns(AddColumns(gridded, "display_jobs", {"is_active", "run_requested_at"}),
                              "display_job_slots", {"rotation_index"})
    IN  DropTable(DropTable(jobbed, "motd_screens"), "motd_messages")

(* A grid the old loop left showing something without a hold gets an       *)
(* expired one, so that the first tick releases its panels.                *)
M0025(db) ==
    [DropColumns(db, "grids", {"scheduled_next_at", "refresh_interval_seconds", "current_frame"}) EXCEPT
        !.r.hold = IF db.r.shows /\ @ = NULL THEN "set" ELSE @]

ToCron(db, name) ==
    LET dated == AddColumns(db, name, {"schedule_cron", "schedule_timezone"})
    IN  IF ~InColumns(db, name, "interval_minutes") THEN dated
        ELSE [DropColumns(dated, name, {"interval_minutes"}) EXCEPT
                !.r.cadence = IF name = "immich_sync_jobs" /\ @ = "interval" THEN "cron" ELSE @,
                !.r.job = IF name = "display_jobs" /\ @ = "interval" THEN "cron" ELSE @]

M0026(db) == ToCron(ToCron(ToCron(db, "immich_sync_jobs"), "gemini_sync_jobs"), "display_jobs")

GridCron(db) == AddColumns(db, "grids", {"display_cron", "display_next_at"})

(* Fault: the schedule is converted and the lease left for later. *)
M0027WithoutLease(db) ==
    [DropColumns(GridCron(db), "grids", {"display_time", "display_weekday_mask", "last_displayed_on"}) EXCEPT
        !.r.sched = IF @ = "mask" THEN "cron" ELSE @]

(* The mask becomes a cron, and an enabled schedule gets its first lease.  *)
M0027(db) ==
    IF ~InColumns(db, "grids", "display_time") THEN GridCron(db)
    ELSE [DropColumns(GridCron(db), "grids", {"display_time", "display_weekday_mask", "last_displayed_on"}) EXCEPT
            !.r.lease = IF db.r.sched = "mask" THEN "set" ELSE NULL,
            !.r.sched = IF @ = "mask" THEN "cron" ELSE @]

(* The one migration that creates its table unasked.                       *)
M0028Fails(db) == Has(db.t, "calibre_sync_jobs")
CreateCalibre(db) == [db EXCEPT !.t["calibre_sync_jobs"] = CalibreSyncJobColumns]

(* Its two presets are skipped when they are there already.                *)
SeedBookshelf(db) == [db EXCEPT !.r.shelf = IF @ = "absent" THEN "seeded" ELSE @]

M0028(db) == SeedBookshelf(CreateCalibre(db))

M0029(db) == [db EXCEPT !.r.model = IF @ = "retired" THEN "current" ELSE @]

Replaced(model) == IF model = "retiring" THEN "current" ELSE model

M0030(db) == [db EXCEPT !.r.humanoid = Replaced(@), !.r.scene = Replaced(@)]

Migration(n, db) ==
    CASE n = 1 -> M0001(db)   [] n = 2 -> M0002(db)   [] n = 3 -> M0003(db)   [] n = 4 -> M0004(db)
      [] n = 5 -> M0005(db)   [] n = 6 -> M0006(db)   [] n = 7 -> M0007(db)   [] n = 8 -> M0008(db)
      [] n = 9 -> M0009(db)   [] n = 10 -> M0010(db)  [] n = 11 -> M0011(db)  [] n = 12 -> M0012(db)
      [] n = 13 -> M0013(db)  [] n = 14 -> M0014(db)  [] n = 15 -> M0015(db)  [] n = 16 -> M0016(db)
      [] n = 17 -> M0017(db)  [] n = 18 -> M0018(db)  [] n = 19 -> M0019(db)  [] n = 20 -> M0020(db)
      [] n = 21 -> M0021(db)  [] n = 22 -> M0022(db)  [] n = 23 -> M0023(db)  [] n = 24 -> M0024(db)
      [] n = 25 -> M0025(db)  [] n = 26 -> M0026(db)  [] n = 27 -> M0027(db)  [] n = 28 -> M0028(db)
      [] n = 29 -> M0029(db)  [] n = 30 -> M0030(db)

(* Fault: 0011 creates app_settings unasked, as 0028 does its table. *)
RaisesOnSettings(n, db) ==
    \/ n = 11 /\ Has(db.t, "app_settings")
    \/ n = 22 /\ M0022Fails(db)
    \/ n = 24 /\ ~Has(db.t, "sync_job_runs")
    \/ n = 28 /\ M0028Fails(db)

(* A statement of migration n raises: it names a column or alters a table  *)
(* that is not there, or creates one that is.                              *)
Raises(n, db) ==
    \/ n = 22 /\ M0022Fails(db)
    \/ n = 23 /\ ~Has(db.t, "grids")
    \/ n = 24 /\ ~Has(db.t, "sync_job_runs")
    \/ n = 28 /\ M0028Fails(db)

Prefixes(db, name, cols) ==
    {AddColumns(db, name, {cols[i] : i \in 1..k}) : k \in 0..Len(cols)}

(* What a crash inside migration n can leave of its work: the effect of    *)
(* the DDL statements before its first INSERT or UPDATE, one by one.       *)
Early(n, db) ==
    CASE n = 1 -> Prefixes(db, "images", <<"source_id", "sync_job_name">>)
      [] n = 3 -> {db, AddColumns(db, "devices", {"last_seen"})}
      [] n = 4 -> {db, CreateTable(db, "prompt_blocks", {}),
                   CreateTable(CreateTable(db, "prompt_blocks", {}), "prompt_presets", {}), PromptTables(db)}
      [] n = 5 -> {db, M0005(db)}
      [] n = 7 -> {db, CreateTable(db, "device_profiles", {})}
      [] n = 8 -> Prefixes(db, "device_profiles", <<"physical_width_cm", "physical_height_cm">>)
      [] n = 9 -> {db, AddColumns(db, "devices", {"refresh_interval_seconds"}), M0009(db)}
      [] n = 11 -> {db, M0011(db)}
      [] n = 12 -> Prefixes(db, "devices", <<"last_refresh_ok", "last_error", "last_error_at">>)
      [] n = 14 -> {db, M0014(db)}
      [] n = 15 ->
            LET configs == CreateTable(db, "motd_configs", {})
                assigned == CreateTable(configs, "motd_device_assignments", {})
            IN  {db, configs, assigned, CreateTable(assigned, "motd_messages", {"config_id"}), MotdTables(db)}
      [] n = 16 -> {db, M0016(db)}
      [] n = 18 -> {db, AddColumns(db, "immich_sync_jobs", {"run_requested_at"}), M0018(db)}
      [] n = 19 -> Prefixes(db, "immich_sync_jobs", <<"album_match_mode", "person_match_mode">>)
      [] n = 20 -> Prefixes(db, "immich_sync_jobs", <<"interval_minutes", "next_run_at", "last_run_at">>)
      [] n = 21 -> Prefixes(db, "grid_devices", <<"row", "col">>)
      [] n = 22 -> {db, CreateTable(db, "display_jobs", LegacySchedule), JobTables(db)}
                   \cup (IF CarriesConfigs(db) THEN {}
                         ELSE {RenameMessages(JobTables(db)), RebuildMessages(RenameMessages(JobTables(db))),
                               [RenameMessages(JobTables(db)) EXCEPT !.t["motd_messages"] =
                                   RebuildMessages(JobTables(db)).t["motd_messages"]]})
      [] n = 23 -> IF InColumns(db, "grids", "display_schedule_enabled")
                   THEN Prefixes(db, "grids", <<"display_time", "display_weekday_mask", "display_timezone",
                                                "display_duration_seconds", "active_message_id", "active_since",
                                                "active_expires_at", "last_displayed_on">>)
                   ELSE {db}
      [] n = 24 -> {db, CreateTable(db, "image_groups", {})}
      [] n = 26 -> Prefixes(db, "immich_sync_jobs", <<"schedule_cron", "schedule_timezone">>)
      [] n = 27 -> Prefixes(db, "grids", <<"display_cron", "display_next_at">>)
      [] n = 28 -> {db, CreateCalibre(db)}
      [] OTHER -> {db}

(* The migrations that copy a table before any other INSERT or UPDATE, and *)
(* the table: the copy is needed to drop a column, to change one, or to    *)
(* add one with a foreign key or a boolean default.                        *)
Copying == {10, 15, 17, 22, 23, 24, 25, 26, 27}

FirstCopy(n, db) ==
    CASE n = 10 /\ {"min_color_score", "min_vibrancy_score"} \cap db.t["immich_sync_jobs"] # {} ->
            {"immich_sync_jobs"}
      [] n = 15 /\ Has(db.t, "devices") /\ ~InColumns(db, "devices", "claimed_by_motd_config_id") -> {"devices"}
      [] n = 17 /\ Has(db.t, "images") -> {"images"}
      [] n = 22 /\ InColumns(db, "devices", "claimed_by_motd_config_id") /\ ~CarriesConfigs(db)
               /\ ~InColumns(db, "motd_messages", "config_id") -> {"devices"}
      [] n = 23 /\ ~InColumns(db, "grids", "display_schedule_enabled") -> {"grids"}
      [] n = 24 -> IF InColumns(db, "images", "group_id") THEN {"grids"} ELSE {"images"}
      [] n = 25 /\ {"scheduled_next_at", "refresh_interval_seconds", "current_frame"} \cap db.t["grids"] # {} ->
            {"grids"}
      [] n = 26 /\ InColumns(db, "immich_sync_jobs", "interval_minutes") /\ db.r.cadence # "interval" ->
            {"immich_sync_jobs"}
      [] n = 27 /\ InColumns(db, "grids", "display_time") /\ db.r.sched = "off" /\ ~db.r.shows /\ ~db.r.jobGrid ->
            {"grids"}
      [] OTHER -> {}

(* What has been committed when that copy begins.                          *)
BeforeCopy(n, db) ==
    CASE n = 15 -> MotdTables(db)
      [] n = 22 -> JobTables(db)
      [] n = 24 -> CreateTable(db, "image_groups", {})
      [] n = 26 -> AddColumns(db, "immich_sync_jobs", {"schedule_cron", "schedule_timezone"})
      [] n = 27 -> GridCron(db)
      [] OTHER -> db

---------------------------------------------------------------------------
(* The files there are: a new one, and one of each earlier release.        *)

LegacyTables ==
    [name \in Tables |->
        CASE name = "images" -> {"id"}
          [] name = "devices" -> {"id", "display_width", "display_height", "display_model"}
          [] name = "immich_sync_jobs" -> {"id", "target_device_id", "min_color_score", "min_vibrancy_score"}
          [] OTHER -> {}]

(* One row or none of each kind: a device and its panel, an image synced   *)
(* for it, an Immich job, two prompt blocks and two presets, a MOTD        *)
(* configuration, a display job, a grid.                                   *)
LegacyRows ==
    [panel |-> "seven", seen |-> NULL, profile |-> NULL, image |-> "none", target |-> NULL,
     cadence |-> "external", text |-> [b \in Blocks |-> "absent"], ids |-> "hex",
     humanoid |-> "absent", scene |-> "absent", shelf |-> "absent", motd |-> "none", job |-> "none",
     jobGrid |-> FALSE, model |-> "none", sched |-> "off", lease |-> NULL, shows |-> FALSE, hold |-> NULL]

NoRows == [LegacyRows EXCEPT !.panel = "none", !.cadence = "none"]

(* The file release v left, all its rows untouched; sync_job_runs came     *)
(* with release 18, created at start-up.                                   *)
Released[v \in 0..Latest] ==
    IF v = 0 THEN [t |-> LegacyTables, r |-> LegacyRows]
    ELSE LET db == Migration(v, Released[v - 1])
         IN  IF v = 18 THEN [db EXCEPT !.t["sync_job_runs"] = {"id"}] ELSE db

(* What users did to the rows under release v.  They may have picked the   *)
(* retired text model, or the retiring image model, while it was the       *)
(* default or after it was replaced: a row holds the name of its model,    *)
(* and does not say who put it there.                                      *)
Lived(v) ==
    LET r == Released[v].r IN
    {[r EXCEPT !.panel = p, !.profile = IF v >= 7 THEN ProfileOf(p) ELSE NULL,
               !.target = IF v >= 7 THEN ProfileOf(p) ELSE NULL,
               !.image = i, !.cadence = c, !.text["style"] = s,
               !.ids = d, !.scene = m, !.motd = j.motd, !.job = j.job, !.jobGrid = j.grid, !.model = j.model,
               !.sched = g.sched, !.lease = g.lease, !.shows = g.shows, !.hold = g.hold] :
       p \in {"seven", "odd"},
       i \in IF v = 1 THEN {"none", "raster"} ELSE {"none"},
       c \in IF v < 20 THEN {"external"} ELSE {r.cadence, "manual"},
       s \in IF v < 4 THEN {"absent"} ELSE {r.text["style"], "edited", "absent"},
       d \in IF v \in {4, 5} THEN {"hex", "dashed"} ELSE {"hex"},
       m \in IF v < 15 THEN {"absent"} ELSE {r.scene, "retiring", "chosen"},
       j \in IF v < 15 THEN {[motd |-> "none", job |-> "none", grid |-> FALSE, model |-> "none"]}
             ELSE IF v < 22
             THEN {[motd |-> q, job |-> "none", grid |-> FALSE, model |-> IF q = "none" THEN "none" ELSE l] :
                   q \in {"none", "idle", "scheduled"}, l \in {"retired", "own"}}
             ELSE {[motd |-> "none", job |-> k, grid |-> b, model |-> l] :
                   k \in {"idle", IF v = 22 THEN "scheduled" ELSE IF v < 26 THEN "interval" ELSE "cron"},
                   b \in BOOLEAN, l \in {"retired", "own", IF v < 29 THEN "retired" ELSE "current"}},
       g \in {[sched |-> k, lease |-> IF k = "cron" THEN "set" ELSE NULL, shows |-> b,
               hold |-> IF b /\ v >= 25 THEN "set" ELSE NULL] :
              k \in IF v < 23 THEN {"off"} ELSE IF v < 27 THEN {"off", "mask"} ELSE {"off", "cron"},
              b \in IF v < 8 THEN {FALSE} ELSE BOOLEAN}}

Fresh == [t |-> [name \in Tables |-> {}], r |-> NoRows]

Init ==
    /\ \E v \in From :
         \E db \in {[t |-> Released[v].t, r |-> r] : r \in Lived(v)} \cup (IF v = 0 THEN {Fresh} ELSE {}) :
            /\ tables = db.t
            /\ rows = db.r
            /\ version = v
            /\ origin = [version |-> v, rows |-> db.r, fresh |-> db = Fresh]
    /\ copies = {}
    /\ phase = "down"
    /\ mode = "app"
    /\ crashes = <<>>
    /\ cli = FALSE

---------------------------------------------------------------------------
Database == [t |-> tables, r |-> rows]

Becomes(db) == tables' = db.t /\ rows' = db.r

(* Migration n comes to copy a table whose last copy is still there.       *)
Blocked(n) == FirstCopy(n, Database) \cap copies # {}

(* The lifespan of the API: create_tables, then upgrade to head.           *)
StartApp ==
    /\ phase = "down"
    /\ tables' = CreateMissing(tables, {CreateOrder[i] : i \in DOMAIN CreateOrder})
    /\ phase' = "migrating"
    /\ mode' = "app"
    /\ UNCHANGED <<rows, version, copies, origin, crashes, cli>>

(* A crash while create_tables is at work keeps the tables made so far.    *)
CrashCreating ==
    /\ phase = "down"
    /\ Len(crashes) < MaxCrashes
    /\ \E k \in DOMAIN CreateOrder : tables' = CreateMissing(tables, {CreateOrder[i] : i \in 1..k})
    /\ crashes' = Append(crashes, 0)
    /\ UNCHANGED <<rows, version, copies, phase, mode, origin, cli>>

(* An operator runs "alembic upgrade head" on the file of a stopped API.   *)
StartCli ==
    /\ phase = "down"
    /\ ~cli
    /\ tables' = CreateMissing(tables, Bootstrap)
    /\ phase' = "migrating"
    /\ mode' = "cli"
    /\ cli' = TRUE
    /\ UNCHANGED <<rows, version, copies, origin, crashes>>

Upgrade ==
    /\ phase = "migrating"
    /\ version < Latest
    /\ ~Raises(version + 1, Database) /\ ~Blocked(version + 1)
    /\ Becomes(Migration(version + 1, Database))
    /\ version' = version + 1
    /\ UNCHANGED <<copies, phase, mode, origin, crashes, cli>>

(* A statement raises: its transaction is undone and the process exits.    *)
(* The create of a copy that is there already raises too; 0024 raises      *)
(* after its first copy, and leaves it.                                    *)
Stop ==
    /\ phase = "migrating"
    /\ version < Latest
    /\ \/ /\ Blocked(version + 1)
          /\ Becomes(BeforeCopy(version + 1, Database))
          /\ UNCHANGED copies
       \/ /\ Raises(version + 1, Database) /\ ~Blocked(version + 1)
          /\ IF version + 1 = 24
             THEN Becomes(BeforeCopy(24, Database)) /\ copies' = copies \cup FirstCopy(24, Database)
             ELSE UNCHANGED <<tables, rows, copies>>
    /\ phase' = "stopped"
    /\ UNCHANGED <<version, mode, origin, crashes, cli>>

(* A crash that finds no copy begun.                                       *)
CrashMigrating ==
    /\ phase = "migrating"
    /\ version < Latest
    /\ Len(crashes) < MaxCrashes
    /\ ~Raises(version + 1, Database)
    /\ \E db \in Early(version + 1, Database) : Becomes(db)
    /\ crashes' = Append(crashes, version + 1)
    /\ phase' = "down"
    /\ UNCHANGED <<version, copies, mode, origin, cli>>

(* A crash between the create of the first copy and the stamp.             *)
CrashCopying ==
    /\ phase = "migrating"
    /\ version < Latest
    /\ Len(crashes) < MaxCrashes
    /\ ~Raises(version + 1, Database) /\ ~Blocked(version + 1)
    /\ FirstCopy(version + 1, Database) # {}
    /\ Becomes(BeforeCopy(version + 1, Database))
    /\ copies' = copies \cup FirstCopy(version + 1, Database)
    /\ crashes' = Append(crashes, version + 1)
    /\ phase' = "down"
    /\ UNCHANGED <<version, mode, origin, cli>>

(* The API goes on to serve; a bare upgrade returns.                       *)
Finish ==
    /\ phase = "migrating"
    /\ version = Latest
    /\ phase' = IF mode = "app" THEN "serving" ELSE "down"
    /\ UNCHANGED <<tables, rows, version, copies, mode, origin, crashes, cli>>

(* The container is started again after an exit, or the API is restarted.  *)
Restart ==
    /\ phase \in {"stopped", "serving"}
    /\ phase' = "down"
    /\ UNCHANGED <<tables, rows, version, copies, mode, origin, crashes, cli>>

Next ==
    \/ StartApp \/ CrashCreating \/ StartCli
    \/ Upgrade \/ Stop \/ CrashMigrating \/ CrashCopying \/ Finish \/ Restart

(* The process runs on, and an exited container is started again.  Nothing *)
(* makes a crash or an operator happen, and nobody restarts a served API.  *)
Restarted == phase = "stopped" /\ Restart

Spec ==
    /\ Init /\ [][Next]_vars
    /\ WF_vars(StartApp) /\ WF_vars(Upgrade) /\ WF_vars(Stop) /\ WF_vars(Finish) /\ WF_vars(Restarted)

---------------------------------------------------------------------------
Crashed(n) == \E i \in DOMAIN crashes : crashes[i] = n

(* Whatever release left the file, whether the models or the migrations    *)
(* made a table, and wherever crashes cut the chain: an API that serves    *)
(* has every table with exactly the columns its models read and write, and *)
(* no table of a retired feature - but the renamed messages, when a crash  *)
(* cut 0022 in two.                                                        *)
ServedSchemaIsTheModels ==
    phase = "serving" =>
        /\ mode = "app" /\ version = Latest
        /\ \A name \in DOMAIN Models : tables[name] = Models[name]
        /\ \A name \in Retired : Has(tables, name) => name = "motd_messages_old" /\ Crashed(22)

(* The upgrade stops only for a file that skips from a release with MOTD   *)
(* configurations past the one that carries them over, after a crash in    *)
(* the one migration that cannot be run twice, or at a copy left by an     *)
(* earlier attempt: one that crashed in one of the nine migrations that    *)
(* copy a table first, or a bare one, which stops in 0024 on every file    *)
(* that no release since 0018 has started.                                 *)
StopsAreForeseen ==
    phase = "stopped" =>
        \/ origin.rows.motd # "none"
        \/ Crashed(28)
        \/ copies # {} /\ ((cli /\ origin.version < 18) \/ \E n \in Copying : Crashed(n))

(* What ran goes on running: a job that had a cadence, from its deployment *)
(* or its row, has a cron and a manual one has none; a scheduled grid has  *)
(* its cron and a lease, so its display comes due; the daily job behind it *)
(* still generates; a grid left showing something has a hold that expires; *)
(* ids are readable, a job targets the profile of the panel it synced for, *)
(* a device has been seen - unless a crash cut 0003 in two.                *)
RowsAreCarriedOver ==
    phase = "serving" =>
        /\ origin.rows.cadence \in {"external", "interval", "cron"} => rows.cadence = "cron"
        /\ origin.rows.cadence = "manual" => rows.cadence = "manual"
        /\ (\/ origin.rows.sched # "off"
            \/ origin.rows.job = "scheduled" /\ origin.rows.jobGrid) => rows.sched = "cron" /\ rows.lease = "set"
        /\ origin.rows.job \in {"scheduled", "interval", "cron"} => rows.job = "cron"
        /\ origin.rows.motd = "scheduled" => rows.job = "cron"
        /\ rows.shows => rows.hold = "set"
        /\ rows.ids = "hex" /\ rows.image # "raster"
        /\ rows.panel # "none" => /\ rows.profile = ProfileOf(rows.panel) /\ rows.target = rows.profile
                                  /\ rows.seen = "set" \/ Crashed(3)

(* The seeds follow the releases, the operator's words stay: an edited     *)
(* block keeps its text, a deleted one is not brought back, and the blocks *)
(* nobody touched reach the latest text however often the repaints ran.  A *)
(* model picked for a preset or a job stays - but the retiring image model *)
(* and the retired text model, which 0030 and 0029 replace in every row    *)
(* that names them, chosen or not, and which then come back in none.       *)
OperatorTextStays ==
    /\ \A b \in Blocks :
         LET was == origin.rows.text[b] IN
         was = "edited" \/ (was = "absent" /\ origin.version >= 4) => rows.text[b] = was
    /\ origin.rows.scene = "chosen" => rows.scene = "chosen"
    /\ origin.rows.model = "own" => rows.model = "own"
    /\ phase = "serving" =>
         /\ rows.text["style"] \in {"seed15", "edited", "absent"} /\ rows.text["palette"] = "seed13"
         /\ rows.humanoid = "current" /\ rows.shelf = "seeded"
         /\ rows.scene = "retiring" => origin.version = 30
         /\ rows.model = "retired" => origin.version >= 29

(* An API whose file is none of those comes up, and comes up again after   *)
(* every restart or crash, and after a bare upgrade that left no copy.     *)
StartsEventually ==
    [](origin.rows.motd = "none" /\ ~Crashed(28) /\ copies = {}) => []<>(phase = "serving")
=============================================================================
