------------------------- MODULE SchemaUpgradeProofs -------------------------
(* Proofs about SchemaUpgrade, for any number of crashes and files of any      *)
(* releases.                                                                   *)
EXTENDS SchemaUpgrade, TLAPS, WellFoundedInduction

(* The history of the schema: the columns of today's models that migration n   *)
(* brings to a table of an earlier release, and those it takes away.           *)
Adds(n, name) ==
  CASE n = 1 /\ name = "images" -> {"source_id", "sync_job_name"}
    [] n = 3 /\ name = "devices" -> {"last_seen"}
    [] n = 5 /\ name = "prompt_presets" -> {"model_name"}
    [] n = 7 /\ name = "devices" -> {"device_profile_id"}
    [] n = 7 /\ name \in {"immich_sync_jobs", "gemini_sync_jobs"} -> Target
    [] n = 8 /\ name = "images" -> {"target_grid_id"}
    [] n = 8 /\ name = "devices" -> {"claimed_by_grid_id"}
    [] n = 8 /\ name = "device_profiles" -> {"physical_width_cm", "physical_height_cm"}
    [] n = 9 /\ name = "devices" -> {"refresh_interval_seconds"}
    [] n = 12 /\ name = "devices" -> {"last_refresh_ok", "last_error", "last_error_at"}
    [] n = 14 /\ name = "immich_sync_jobs" -> {"max_images"}
    [] n = 17 /\ name = "images" -> {"excluded_from_rotation"}
    [] n = 17 /\ name = "devices" -> {"is_pinned"}
    [] n = 18 /\ name \in {"immich_sync_jobs", "gemini_sync_jobs"} -> {"run_requested_at"}
    [] n = 19 /\ name = "immich_sync_jobs" -> {"album_match_mode", "person_match_mode"}
    [] n = 20 /\ name \in {"immich_sync_jobs", "gemini_sync_jobs"} -> {"next_run_at", "last_run_at"}
    [] n = 21 /\ name = "grid_devices" -> {"row", "col"}
    [] n = 23 /\ name = "grids" -> {"display_schedule_enabled", "display_timezone", "display_duration_seconds"}
    [] n = 23 /\ name = "display_jobs" -> {"next_run_at", "last_run_at"}
    [] n = 24 /\ name = "images" -> {"group_id", "group_slot_row", "group_slot_col", "queue_position"}
    [] n = 24 /\ name = "grids" -> {"current_group_id", "hold_until"}
    [] n = 24 /\ name = "display_jobs" -> {"is_active", "run_requested_at"}
    [] n = 26 /\ name \in {"immich_sync_jobs", "gemini_sync_jobs", "display_jobs"} -> {"schedule_cron", "schedule_timezone"}
    [] n = 27 /\ name = "grids" -> {"display_cron", "display_next_at"}
    [] n = 28 /\ name = "calibre_sync_jobs" -> Cadence
    [] OTHER -> {}

Drops(n, name) ==
  CASE n = 7 /\ name = "devices" -> {"display_width", "display_height", "display_model"}
    [] n = 7 /\ name = "immich_sync_jobs" -> {"target_device_id"}
    [] n = 7 /\ name = "gemini_sync_jobs" -> {"target_device_id", "is_portrait"}
    [] n = 10 /\ name = "immich_sync_jobs" -> {"min_color_score", "min_vibrancy_score"}
    [] n = 22 /\ name = "devices" -> {"claimed_by_motd_config_id"}
    [] n = 22 /\ name \in {"motd_configs", "motd_device_assignments"} -> {"id"}
    [] n = 22 /\ name = "motd_messages" -> {"config_id"}
    [] n = 23 /\ name = "display_jobs" -> LegacySchedule
    [] n = 24 /\ name = "grids" -> GridSession
    [] n = 24 /\ name = "display_job_slots" -> {"rotation_index"}
    [] n = 24 /\ name = "motd_screens" -> {"id"}
    [] n = 24 /\ name = "motd_messages" -> {"id", "job_id", "displayed_at"}
    [] n = 25 /\ name = "grids" -> {"scheduled_next_at", "refresh_interval_seconds", "current_frame"}
    [] n = 26 /\ name \in {"immich_sync_jobs", "gemini_sync_jobs", "display_jobs"} -> {"interval_minutes"}
    [] n = 27 /\ name = "grids" -> {"display_time", "display_weekday_mask", "last_displayed_on"}
    [] OTHER -> {}

(* Between version v and the models: what a table must have by then, and what  *)
(* a later migration still has to take away.                                   *)
Needed(name, v) == {"id"} \cup UNION {Adds(n, name) : n \in 1..v}

(* The columns today's models give a table; a retired table has none.          *)
Current(name) == IF name \in DOMAIN Models THEN Models[name] ELSE {}
Allowed(name, v) == Current(name) \cup UNION {Drops(n, name) : n \in (v + 1)..Latest}

(* Every table lies between what version v needs and what it allows.           *)
Within(t, v) ==
  \A name \in Tables \ {"motd_messages_old"} :
     /\ t[name] # {} => Needed(name, v) \subseteq t[name]
     /\ t[name] \subseteq Allowed(name, v)

(* What the migrations find out about a file by looking at its columns; C are  *)
(* the migrations that a crash cut short.                                      *)
Landmarks(db, v, C) ==
  /\ v >= 7 => Has(db.t, "device_profiles")
  /\ v >= 8 => Has(db.t, "grids")
  /\ v >= 11 => Has(db.t, "app_settings")
  /\ v >= 22 => Has(db.t, "display_jobs")
  /\ v >= 28 => Has(db.t, "calibre_sync_jobs")
  /\ v < 28 /\ 28 \notin C => ~Has(db.t, "calibre_sync_jobs")
  /\ 22 \notin C => ~Has(db.t, "motd_messages_old")
  /\ v \in 23..26 => InColumns(db, "grids", "display_time")
  /\ v \in 23..25 => InColumns(db, "display_jobs", "interval_minutes")
  /\ v = 22 /\ db.r.job = "scheduled" => InColumns(db, "display_jobs", "schedule_enabled")
  /\ db.r.motd # "none" => Has(db.t, "motd_configs")

(* And about a file that has been in use before the first migration.           *)
Heirlooms(db, v, C) ==
  db.r.panel # "none" =>
    /\ Has(db.t, "devices") /\ Has(db.t, "immich_sync_jobs")
    /\ v < 3 /\ 3 \notin C => ~InColumns(db, "devices", "last_seen")
    /\ v < 7 => InColumns(db, "devices", "display_model") /\ InColumns(db, "immich_sync_jobs", "target_device_id")
    /\ v \in 20..25 => InColumns(db, "immich_sync_jobs", "interval_minutes")

(* The values a row can hold.                                                  *)
Texts == {"absent", "seed4", "seed13", "seed15", "edited"}
Profiles == {NULL, "seven", "default"}
Presets == {"absent", "retiring", "chosen", "current"}

RowFields == {"panel", "seen", "profile", "image", "target", "cadence", "text", "ids", "humanoid", "scene",
              "shelf", "motd", "job", "jobGrid", "model", "sched", "lease", "shows", "hold"}

RowTypes(r) ==
  /\ DOMAIN r = RowFields
  /\ r.panel \in {"seven", "odd", "none"} /\ r.seen \in {NULL, "set"}
  /\ r.image \in {"none", "raster", "panel"} /\ r.ids \in {"hex", "dashed"}
  /\ r.profile \in Profiles /\ r.target \in Profiles
  /\ r.cadence \in {"none", "external", "manual", "interval", "cron"}
  /\ r.text \in [Blocks -> Texts] /\ r.humanoid \in Presets /\ r.scene \in Presets
  /\ r.motd \in {"none", "idle", "scheduled"} /\ r.model \in {"none", "retired", "own", "current"}
  /\ r.job \in {"none", "idle", "scheduled", "interval", "cron"} /\ r.jobGrid \in BOOLEAN
  /\ r.sched \in {"off", "mask", "cron"} /\ r.lease \in {NULL, "set"}
  /\ r.shows \in BOOLEAN /\ r.hold \in {NULL, "set"}

(* What the rows of a file at version v can hold: the seeds ...                *)
Seeded(r, v) ==
  /\ r.text["palette"] = IF v < 4 THEN "absent" ELSE IF v < 13 THEN "seed4" ELSE "seed13"
  /\ v < 4 => r.text["style"] = "absent"
  /\ r.text["style"] \in {"absent", "edited", IF v < 13 THEN "seed4" ELSE IF v < 15 THEN "seed13" ELSE "seed15"}
  /\ r.humanoid = IF v < 4 THEN "absent" ELSE IF v < 30 THEN "retiring" ELSE "current"
  /\ r.scene \in {"absent"} \cup IF v < 15 THEN {} ELSE {"chosen", "retiring", IF v < 30 THEN "retiring" ELSE "current"}
  /\ r.shelf = IF v < 28 THEN "absent" ELSE "seeded"

(* ... what the panel has been shown and synced ...                            *)
Synced(r, v, C) ==
  /\ r.ids = "dashed" => v \in {4, 5}
  /\ r.image = "raster" => v = 1 /\ r.panel # "none"
  /\ r.panel # "none" =>
       /\ r.profile = IF v < 7 THEN NULL ELSE ProfileOf(r.panel)
       /\ r.target = r.profile
       /\ v >= 3 /\ 3 \notin C => r.seen = "set"
  /\ r.shows /\ v >= 25 => r.hold = "set"

(* ... and what runs on a schedule, in the form the release has for it.        *)
Scheduled(r, v) ==
  /\ r.cadence # "none" => r.panel # "none"
  /\ r.cadence = "external" => v < 20
  /\ r.cadence \in {"manual", "interval"} => v >= 20
  /\ r.cadence = "interval" => v < 26
  /\ r.cadence = "cron" => v >= 26
  /\ r.motd # "none" => v \in 15..21
  /\ r.job # "none" => v >= 22
  /\ r.job = "scheduled" => v = 22
  /\ r.job = "interval" => v \in 23..25
  /\ r.job = "cron" => v >= 26
  /\ r.sched = "mask" => v \in 23..26
  /\ r.sched = "cron" => v >= 27 /\ r.lease = "set"

(* All three.                                                                  *)
RowsOK(r, v, C) == RowTypes(r) /\ Seeded(r, v) /\ Synced(r, v, C) /\ Scheduled(r, v)

(* What of the first rows o, of release u, is still in the rows r.             *)
CarriedOver(o, u, r, v) ==
  /\ u <= v
  /\ r.panel = o.panel /\ r.jobGrid = o.jobGrid
  /\ \A c \in {"none", "manual"} : r.cadence = c <=> o.cadence = c
  /\ o.motd = "none" => r.motd = "none"
  /\ o.motd = "scheduled" => IF v < 22 THEN r.motd = "scheduled" ELSE r.job \notin {"none", "idle"}
  /\ o.job \notin {"none", "idle"} => r.job \notin {"none", "idle"}
  /\ o.sched # "off" \/ (o.job = "scheduled" /\ o.jobGrid) =>
       IF v = 22 THEN r.job = "scheduled" ELSE r.sched # "off"
  /\ \A b \in Blocks : o.text[b] = "edited" \/ (o.text[b] = "absent" /\ u >= 4) => r.text[b] = o.text[b]
  /\ o.scene = "chosen" => r.scene = "chosen"
  /\ o.model = "own" => r.model = "own"
  /\ u < 30 /\ v = 30 => r.scene # "retiring"
  /\ u < 29 /\ v >= 29 => r.model # "retired"

(* The migrations that a crash cut, and the tables a start makes.              *)
CrashedOnes == {crashes[i] : i \in DOMAIN crashes}
Created == {CreateOrder[i] : i \in DOMAIN CreateOrder}

(* What holds of the process beside its file.                                  *)
Process ==
  /\ phase \in {"down", "migrating", "serving", "stopped"} /\ mode \in {"app", "cli"}
  /\ version \in 0..Latest /\ origin.version \in 0..Latest
  /\ crashes \in Seq(0..Latest)
  /\ phase = "serving" => mode = "app" /\ version = Latest
  /\ mode = "cli" => cli
  /\ phase \in {"migrating", "serving"} /\ mode = "app" => \A name \in Created : Has(tables, name)
  /\ origin.version >= 18 => Has(tables, "sync_job_runs")

(* A file is a record of its tables and its rows.                              *)
IsDb(db) ==
  /\ db = [t |-> db.t, r |-> db.r] /\ db.t = [name \in Tables |-> db.t[name]]
  /\ DOMAIN db.r = RowFields

(* All that holds of a file stamped v.                                         *)
FileOK(db, v, C) ==
  /\ IsDb(db) /\ Within(db.t, v) /\ Landmarks(db, v, C) /\ Heirlooms(db, v, C) /\ RowsOK(db.r, v, C)

(* Where a copy left in the file comes from.                                   *)
CopiesExplained ==
  copies # {} => (cli /\ origin.version < 18) \/ Copying \cap CrashedOnes # {}

(* The inductive invariant: the file, and its rows against the first ones.     *)
SchemaInv ==
  /\ Process /\ CopiesExplained /\ StopsAreForeseen
  /\ FileOK(Database, version, CrashedOnes)
  /\ RowsOK(origin.rows, origin.version, {})
  /\ CarriedOver(origin.rows, origin.version, rows, version)

-----------------------------------------------------------------------------
(* The history of a table.                                                     *)

USE UpgradeAssumption

(* The tables by name.                                                         *)
LEMMA TableNames ==
  /\ DOMAIN Models = {"images", "devices", "grids", "grid_devices", "prompt_blocks", "prompt_presets",
                      "immich_sync_jobs", "gemini_sync_jobs", "display_jobs", "display_job_slots",
                      "image_groups", "sync_job_runs", "generation_tasks", "device_profiles",
                      "app_settings", "calibre_sync_jobs"}
  /\ Tables = DOMAIN Models \cup {"motd_configs", "motd_device_assignments", "motd_messages",
                                  "motd_screens", "motd_messages_old"}
  BY DEF Models, Tables, Retired

(* Their columns.                                                              *)
LEMMA CurrentColumns ==
  /\ Current("images") = ImageColumns /\ Current("devices") = DeviceColumns
  /\ Current("grids") = GridColumns /\ Current("grid_devices") = GridDeviceColumns
  /\ Current("prompt_blocks") = {"id"} /\ Current("prompt_presets") = PromptPresetColumns
  /\ Current("immich_sync_jobs") = ImmichSyncJobColumns /\ Current("gemini_sync_jobs") = GeminiSyncJobColumns
  /\ Current("display_jobs") = DisplayJobColumns /\ Current("display_job_slots") = {"id"}
  /\ Current("image_groups") = {"id"} /\ Current("sync_job_runs") = {"id"}
  /\ Current("generation_tasks") = {"id"} /\ Current("device_profiles") = DeviceProfileColumns
  /\ Current("app_settings") = {"id"} /\ Current("calibre_sync_jobs") = CalibreSyncJobColumns
  /\ \A name \in Retired : Current(name) = {}
  BY DEF Current, Models, Retired

(* What a migration brings belongs to the models, what it takes does not.      *)
LEMMA History ==
  ASSUME NEW n \in 1..Latest, NEW name \in Tables
  PROVE  /\ Adds(n, name) \subseteq Current(name)
         /\ Drops(n, name) \cap Current(name) = {}
  BY TableNames, CurrentColumns
  DEF Adds, Drops, ImageColumns, DeviceColumns, GridColumns, GridDeviceColumns, PromptPresetColumns,
      ImmichSyncJobColumns, GeminiSyncJobColumns, DisplayJobColumns, DeviceProfileColumns,
      CalibreSyncJobColumns, Target, Cadence, LegacySchedule, GridSession, Latest, Retired

(* No table of the models is without its id.                                   *)
LEMMA ModelsHaveIds ==
  ASSUME NEW name \in DOMAIN Models
  PROVE  "id" \in Models[name] /\ Current(name) = Models[name]
  BY TableNames
  DEF Current, Models, ImageColumns, DeviceColumns, GridColumns, GridDeviceColumns, PromptPresetColumns,
      ImmichSyncJobColumns, GeminiSyncJobColumns, DisplayJobColumns, DeviceProfileColumns, CalibreSyncJobColumns

(* What a version needs, the models have.                                      *)
LEMMA NeededIsCurrent ==
  ASSUME NEW name \in DOMAIN Models, NEW v \in 0..Latest
  PROVE  Needed(name, v) \subseteq Current(name)
  BY History, ModelsHaveIds DEF Needed, Tables, Latest

(* Every column of the models is there from the start, comes with a migration, *)
(* or with the table.                                                          *)
LEMMA AllIsAdded ==
  ASSUME NEW name \in DOMAIN Models
  PROVE  Current(name) \subseteq Needed(name, Latest)
<1>1. \A n \in 1..Latest : Adds(n, name) \subseteq Needed(name, Latest)
  BY DEF Needed
<1>2. "id" \in Needed(name, Latest)
  BY DEF Needed
<1>3. /\ Adds(1, name) \subseteq Needed(name, Latest)
      /\ Adds(3, name) \subseteq Needed(name, Latest)
      /\ Adds(5, name) \subseteq Needed(name, Latest)
      /\ Adds(7, name) \subseteq Needed(name, Latest)
      /\ Adds(8, name) \subseteq Needed(name, Latest)
      /\ Adds(9, name) \subseteq Needed(name, Latest)
      /\ Adds(12, name) \subseteq Needed(name, Latest)
      /\ Adds(14, name) \subseteq Needed(name, Latest)
      /\ Adds(17, name) \subseteq Needed(name, Latest)
      /\ Adds(18, name) \subseteq Needed(name, Latest)
      /\ Adds(19, name) \subseteq Needed(name, Latest)
      /\ Adds(20, name) \subseteq Needed(name, Latest)
      /\ Adds(21, name) \subseteq Needed(name, Latest)
      /\ Adds(23, name) \subseteq Needed(name, Latest)
      /\ Adds(24, name) \subseteq Needed(name, Latest)
      /\ Adds(26, name) \subseteq Needed(name, Latest)
      /\ Adds(27, name) \subseteq Needed(name, Latest)
      /\ Adds(28, name) \subseteq Needed(name, Latest)
  BY <1>1 DEF Latest
<1>4. Current(name) \subseteq {"id"} \cup Adds(1, name) \cup Adds(3, name) \cup Adds(5, name) \cup Adds(7, name) \cup Adds(8, name) \cup Adds(9, name) \cup Adds(12, name) \cup Adds(14, name) \cup Adds(17, name) \cup Adds(18, name) \cup Adds(19, name) \cup Adds(20, name) \cup Adds(21, name) \cup Adds(23, name) \cup Adds(24, name) \cup Adds(26, name) \cup Adds(27, name) \cup Adds(28, name)
  BY TableNames, CurrentColumns
  DEF Adds, ImageColumns, DeviceColumns, GridColumns, GridDeviceColumns, PromptPresetColumns,
      ImmichSyncJobColumns, GeminiSyncJobColumns, DisplayJobColumns, DeviceProfileColumns,
      CalibreSyncJobColumns, Target, Cadence
<1>. QED
  BY <1>2, <1>3, <1>4

-----------------------------------------------------------------------------
(* What the statements of a migration do to the tables.                        *)

(* The rows s have kept what the rows r have in all fields but some.           *)
SameBut(fields, r, s) == DOMAIN s = RowFields /\ \A f \in RowFields \ fields : s[f] = r[f]

(* A table's columns after ADD COLUMN, DROP COLUMN and CREATE TABLE.            *)
Grown(s, cols) == IF s = {} THEN {} ELSE s \cup cols
Cut(s, cols) == s \ cols
Made(s, cols) == IF s = {} THEN {"id"} \cup cols ELSE s

(* d is db with columns added to a table, dropped from it, with a table         *)
(* created or dropped; nothing else has changed.                               *)
Alters(db, d, name, cols) ==
  IsDb(d) /\ d.r = db.r /\ \A x \in Tables : d.t[x] = IF x = name THEN cols ELSE db.t[x]
Extends(db, d, name, cols) == Alters(db, d, name, Grown(db.t[name], cols))
Cuts(db, d, name, cols) == Alters(db, d, name, Cut(db.t[name], cols))
Creates(db, d, name, cols) == Alters(db, d, name, Made(db.t[name], cols))
Removes(db, d, name) == Alters(db, d, name, {})

(* The four statements do what those names say.                                *)
LEMMA AddEffect ==
  ASSUME NEW db, IsDb(db), NEW name \in Tables, NEW cols
  PROVE  Extends(db, AddColumns(db, name, cols), name, cols)
  BY DEF AddColumns, IsDb, Has, Grown, Extends, Alters

LEMMA DropEffect ==
  ASSUME NEW db, IsDb(db), NEW name \in Tables, NEW cols
  PROVE  Cuts(db, DropColumns(db, name, cols), name, cols)
<1> DEFINE u == [x \in Tables |-> IF x = name THEN db.t[x] \ cols ELSE db.t[x]]
<1>1. [db.t EXCEPT ![name] = @ \ cols] = u
  BY DEF IsDb
<1>2. DropColumns(db, name, cols) = [t |-> u, r |-> db.r]
  BY <1>1 DEF DropColumns, IsDb
<1>. QED
  BY <1>2 DEF IsDb, Cut, Cuts, Alters

LEMMA CreateEffect ==
  ASSUME NEW db, IsDb(db), NEW name \in Tables, NEW cols
  PROVE  Creates(db, CreateTable(db, name, cols), name, cols)
  BY DEF CreateTable, IsDb, Has, Made, Creates, Alters

LEMMA DropTableEffect ==
  ASSUME NEW db, IsDb(db), NEW name \in Tables
  PROVE  Removes(db, DropTable(db, name), name)
  BY DEF DropTable, IsDb, Removes, Alters

(* The tables that migration n makes when they are not there.                  *)
Makes(n) ==
  CASE n = 4 -> {"prompt_blocks", "prompt_presets", "gemini_sync_jobs"}
    [] n = 7 -> {"device_profiles"}
    [] n = 8 -> {"grids", "grid_devices"}
    [] n = 11 -> {"app_settings"}
    [] n = 15 -> {"motd_configs", "motd_device_assignments", "motd_messages", "motd_screens"}
    [] n = 22 -> {"display_jobs", "display_job_slots"}
    [] n = 24 -> {"image_groups"}
    [] n = 28 -> {"calibre_sync_jobs"}
    [] OTHER -> {}

(* Those it leaves in the file: all, but for the tables of MOTD at its end.     *)
Stays(n, name) == name \in DOMAIN Models \/ n \notin {22, 24}

(* A migration of the tables from t to u brings what it should bring to every  *)
(* table there is, takes what it should take, and leaves nothing that no later *)
(* migration takes.  A table it makes has missed no earlier migration.         *)
Later(n, name) == UNION {Drops(k, name) : k \in (n + 1)..Latest}

Evolves(n, t, u) ==
  /\ u["motd_messages_old"] = t["motd_messages_old"]
  /\ \A name \in Tables \ {"motd_messages_old"} :
       /\ u[name] \cap Drops(n, name) = {}
       /\ u[name] \subseteq Later(n, name) \cup (IF t[name] = {} THEN Current(name) ELSE t[name] \cup Adds(n, name))
       /\ u[name] # {} => {"id"} \cup Adds(n, name) \subseteq u[name]
       /\ u[name] # {} \/ Stays(n, name) => t[name] \ Drops(n, name) \subseteq u[name]
       /\ name \in Makes(n) => u[name] # {}
       /\ t[name] = {} /\ u[name] # {} => name \in Makes(n) /\ \A k \in 1..(n - 1) : Adds(k, name) \subseteq u[name]

(* Such a migration keeps every table within the bounds of its version.        *)
LEMMA EvolvesWithin ==
  ASSUME NEW n \in 1..Latest, NEW t, NEW u, Within(t, n - 1), Evolves(n, t, u)
  PROVE  Within(u, n)
<1> SUFFICES ASSUME NEW name \in Tables \ {"motd_messages_old"}
             PROVE  /\ u[name] # {} => Needed(name, n) \subseteq u[name]
                    /\ u[name] \subseteq Allowed(name, n)
  BY DEF Within
<1>1. ASSUME u[name] # {}
      PROVE  Needed(name, n) \subseteq u[name]
  <2>1. ASSUME t[name] = {}
        PROVE  Needed(name, n) \subseteq u[name]
    BY <1>1, <2>1 DEF Evolves, Needed
  <2>2. ASSUME t[name] # {}
        PROVE  Needed(name, n) \subseteq u[name]
    <3>1. Needed(name, n - 1) \subseteq t[name] /\ Needed(name, n) = Needed(name, n - 1) \cup Adds(n, name)
      BY <2>2 DEF Within, Needed, Latest
    <3>2. Needed(name, n - 1) \cap Drops(n, name) \subseteq {"id"}
      BY History DEF Needed, Latest
    <3>. QED
      BY <1>1, <3>1, <3>2 DEF Evolves
  <2>. QED
    BY <2>1, <2>2
<1>2. u[name] \subseteq Allowed(name, n)
  <2>1. Later(n - 1, name) = Later(n, name) \cup Drops(n, name)
    BY DEF Later, Latest
  <2>2. /\ t[name] \subseteq Current(name) \cup Later(n - 1, name)
        /\ Allowed(name, n) = Current(name) \cup Later(n, name)
    BY DEF Within, Allowed, Later, Latest
  <2>3. Adds(n, name) \subseteq Current(name)
    BY History
  <2>. QED
    BY <2>1, <2>2, <2>3 DEF Evolves
<1>. QED
  BY <1>1, <1>2

(* Every table has its id.                                                     *)
Ided(t) == \A name \in Tables \ {"motd_messages_old"} : t[name] # {} => "id" \in t[name]

(* The names once more, one by one, for the solvers.                           *)
LEMMA Named ==
  /\ "images" \in Tables
  /\ "devices" \in Tables
  /\ "grids" \in Tables
  /\ "grid_devices" \in Tables
  /\ "prompt_blocks" \in Tables
  /\ "prompt_presets" \in Tables
  /\ "immich_sync_jobs" \in Tables
  /\ "gemini_sync_jobs" \in Tables
  /\ "display_jobs" \in Tables
  /\ "display_job_slots" \in Tables
  /\ "image_groups" \in Tables
  /\ "sync_job_runs" \in Tables
  /\ "generation_tasks" \in Tables
  /\ "device_profiles" \in Tables
  /\ "app_settings" \in Tables
  /\ "calibre_sync_jobs" \in Tables
  /\ "motd_configs" \in Tables
  /\ "motd_device_assignments" \in Tables
  /\ "motd_messages" \in Tables
  /\ "motd_screens" \in Tables
  /\ "motd_messages_old" \in Tables
  BY TableNames

(* The migrations that leave the rows alone, one lemma for each.               *)
LEMMA M0001Effect ==
  ASSUME NEW db, IsDb(db), Ided(db.t)
  PROVE  IsDb(M0001(db)) /\ M0001(db).r = db.r /\ Evolves(1, db.t, M0001(db).t)
<1>1. Extends(db, M0001(db), "images", {"source_id", "sync_job_name"})
  BY AddEffect, Named DEF M0001
<1>. QED
  BY <1>1, TableNames, CurrentColumns
  DEF Alters, Extends, Evolves, Makes, Stays, Ided, Later, Adds, Drops, Grown, Cut, Made, Latest, ImageColumns

LEMMA M0005Effect ==
  ASSUME NEW db, IsDb(db), Ided(db.t)
  PROVE  IsDb(M0005(db)) /\ M0005(db).r = db.r /\ Evolves(5, db.t, M0005(db).t)
<1>1. Extends(db, M0005(db), "prompt_presets", {"model_name"})
  BY AddEffect, Named DEF M0005
<1>. QED
  BY <1>1, TableNames, CurrentColumns
  DEF Alters, Extends, Evolves, Makes, Stays, Ided, Later, Adds, Drops, Grown, Cut, Made, Latest, PromptPresetColumns

LEMMA M0008Effect ==
  ASSUME NEW db, IsDb(db), Ided(db.t)
  PROVE  IsDb(M0008(db)) /\ M0008(db).r = db.r /\ Evolves(8, db.t, M0008(db).t)
<1> DEFINE a == AddColumns(db, "device_profiles", {"physical_width_cm", "physical_height_cm"})
           b == CreateTable(a, "grids", {"scheduled_next_at"})
           c == CreateTable(b, "grid_devices", {})
           d == AddColumns(c, "devices", {"claimed_by_grid_id"})
           e == AddColumns(d, "images", {"target_grid_id"})
<1>1. Extends(db, a, "device_profiles", {"physical_width_cm", "physical_height_cm"})
  BY AddEffect, Named
<1> HIDE DEF a
<1>2. Creates(a, b, "grids", {"scheduled_next_at"})
  BY <1>1, CreateEffect, Named DEF Alters, Extends
<1> HIDE DEF b
<1>3. Creates(b, c, "grid_devices", {})
  BY <1>2, CreateEffect, Named DEF Alters, Creates
<1> HIDE DEF c
<1>4. Extends(c, d, "devices", {"claimed_by_grid_id"})
  BY <1>3, AddEffect, Named DEF Alters, Creates
<1> HIDE DEF d
<1>5. Extends(d, e, "images", {"target_grid_id"})
  BY <1>4, AddEffect, Named DEF Alters, Extends
<1> HIDE DEF e
<1>6. M0008(db) = e
  BY DEF M0008, Physical, a, b, c, d, e
<1>7. IsDb(M0008(db)) /\ M0008(db).r = db.r
  BY <1>1, <1>2, <1>3, <1>4, <1>5, <1>6 DEF Alters, Creates, Extends
<1>8. ASSUME NEW x \in Tables
      PROVE  M0008(db).t[x] =
               CASE x = "device_profiles" -> Grown(db.t[x], {"physical_width_cm", "physical_height_cm"})
                 [] x = "grids" -> Made(db.t[x], {"scheduled_next_at"})
                 [] x = "grid_devices" -> Made(db.t[x], {})
                 [] x = "devices" -> Grown(db.t[x], {"claimed_by_grid_id"})
                 [] x = "images" -> Grown(db.t[x], {"target_grid_id"})
                 [] OTHER -> db.t[x]
  BY <1>1, <1>2, <1>3, <1>4, <1>5, <1>6 DEF Alters, Creates, Extends
<1>. QED
  BY <1>7, <1>8, TableNames, CurrentColumns
  DEF Evolves, Makes, Stays, Ided, Later, Adds, Drops, Grown, Cut, Made, Latest, ImageColumns, DeviceColumns, GridColumns, GridSession, GridSchedule, GridDeviceColumns, DeviceProfileColumns

LEMMA M0009Effect ==
  ASSUME NEW db, IsDb(db), Ided(db.t)
  PROVE  IsDb(M0009(db)) /\ M0009(db).r = db.r /\ Evolves(9, db.t, M0009(db).t)
<1> DEFINE a == AddColumns(db, "devices", {"refresh_interval_seconds"})
           b == AddColumns(a, "grids", {"refresh_interval_seconds"})
<1>1. Extends(db, a, "devices", {"refresh_interval_seconds"})
  BY AddEffect, Named
<1> HIDE DEF a
<1>2. Extends(a, b, "grids", {"refresh_interval_seconds"})
  BY <1>1, AddEffect, Named DEF Alters, Extends
<1> HIDE DEF b
<1>3. M0009(db) = b
  BY DEF M0009, a, b
<1>. QED
  BY <1>1, <1>2, <1>3, TableNames, CurrentColumns
  DEF Alters, Extends, Evolves, Makes, Stays, Ided, Later, Adds, Drops, Grown, Cut, Made, Latest, DeviceColumns, GridColumns, GridSession, GridSchedule

LEMMA M0010Effect ==
  ASSUME NEW db, IsDb(db), Ided(db.t)
  PROVE  IsDb(M0010(db)) /\ M0010(db).r = db.r /\ Evolves(10, db.t, M0010(db).t)
<1>1. Cuts(db, M0010(db), "immich_sync_jobs", {"min_color_score", "min_vibrancy_score"})
  BY DropEffect, Named DEF M0010
<1>. QED
  BY <1>1, TableNames, CurrentColumns
  DEF Alters, Cuts, Evolves, Makes, Stays, Ided, Later, Adds, Drops, Grown, Cut, Made, Latest, ImmichSyncJobColumns, Target, Cadence

LEMMA M0011Effect ==
  ASSUME NEW db, IsDb(db), Ided(db.t)
  PROVE  IsDb(M0011(db)) /\ M0011(db).r = db.r /\ Evolves(11, db.t, M0011(db).t)
<1>1. Creates(db, M0011(db), "app_settings", {})
  BY CreateEffect, Named DEF M0011
<1>. QED
  BY <1>1, TableNames, CurrentColumns
  DEF Alters, Creates, Evolves, Makes, Stays, Ided, Later, Adds, Drops, Grown, Cut, Made, Latest

LEMMA M0012Effect ==
  ASSUME NEW db, IsDb(db), Ided(db.t)
  PROVE  IsDb(M0012(db)) /\ M0012(db).r = db.r /\ Evolves(12, db.t, M0012(db).t)
<1>1. Extends(db, M0012(db), "devices", {"last_refresh_ok", "last_error", "last_error_at"})
  BY AddEffect, Named DEF M0012
<1>. QED
  BY <1>1, TableNames, CurrentColumns
  DEF Alters, Extends, Evolves, Makes, Stays, Ided, Later, Adds, Drops, Grown, Cut, Made, Latest, DeviceColumns

LEMMA M0014Effect ==
  ASSUME NEW db, IsDb(db), Ided(db.t)
  PROVE  IsDb(M0014(db)) /\ M0014(db).r = db.r /\ Evolves(14, db.t, M0014(db).t)
<1>1. Extends(db, M0014(db), "immich_sync_jobs", {"max_images"})
  BY AddEffect, Named DEF M0014
<1>. QED
  BY <1>1, TableNames, CurrentColumns
  DEF Alters, Extends, Evolves, Makes, Stays, Ided, Later, Adds, Drops, Grown, Cut, Made, Latest, ImmichSyncJobColumns, Target, Cadence

LEMMA M0016Effect ==
  ASSUME NEW db, IsDb(db), Ided(db.t)
  PROVE  IsDb(M0016(db)) /\ M0016(db).r = db.r /\ Evolves(16, db.t, M0016(db).t)
<1>1. Extends(db, M0016(db), "motd_messages", {"displayed_at"})
  BY AddEffect, Named DEF M0016
<1>. QED
  BY <1>1, TableNames, CurrentColumns
  DEF Alters, Extends, Evolves, Makes, Stays, Ided, Later, Adds, Drops, Grown, Cut, Made, Latest

LEMMA M0017Effect ==
  ASSUME NEW db, IsDb(db), Ided(db.t)
  PROVE  IsDb(M0017(db)) /\ M0017(db).r = db.r /\ Evolves(17, db.t, M0017(db).t)
<1> DEFINE a == AddColumns(db, "images", {"excluded_from_rotation"})
           b == AddColumns(a, "devices", {"is_pinned"})
<1>1. Extends(db, a, "images", {"excluded_from_rotation"})
  BY AddEffect, Named
<1> HIDE DEF a
<1>2. Extends(a, b, "devices", {"is_pinned"})
  BY <1>1, AddEffect, Named DEF Alters, Extends
<1> HIDE DEF b
<1>3. M0017(db) = b
  BY DEF M0017, a, b
<1>. QED
  BY <1>1, <1>2, <1>3, TableNames, CurrentColumns
  DEF Alters, Extends, Evolves, Makes, Stays, Ided, Later, Adds, Drops, Grown, Cut, Made, Latest, ImageColumns, DeviceColumns

LEMMA M0018Effect ==
  ASSUME NEW db, IsDb(db), Ided(db.t)
  PROVE  IsDb(M0018(db)) /\ M0018(db).r = db.r /\ Evolves(18, db.t, M0018(db).t)
<1> DEFINE a == AddColumns(db, "immich_sync_jobs", {"run_requested_at"})
           b == AddColumns(a, "gemini_sync_jobs", {"run_requested_at"})
<1>1. Extends(db, a, "immich_sync_jobs", {"run_requested_at"})
  BY AddEffect, Named
<1> HIDE DEF a
<1>2. Extends(a, b, "gemini_sync_jobs", {"run_requested_at"})
  BY <1>1, AddEffect, Named DEF Alters, Extends
<1> HIDE DEF b
<1>3. M0018(db) = b
  BY DEF M0018, AddToSyncJobs, a, b
<1>. QED
  BY <1>1, <1>2, <1>3, TableNames, CurrentColumns
  DEF Alters, Extends, Evolves, Makes, Stays, Ided, Later, Adds, Drops, Grown, Cut, Made, Latest, ImmichSyncJobColumns, Target, Cadence, GeminiSyncJobColumns

LEMMA M0019Effect ==
  ASSUME NEW db, IsDb(db), Ided(db.t)
  PROVE  IsDb(M0019(db)) /\ M0019(db).r = db.r /\ Evolves(19, db.t, M0019(db).t)
<1>1. Extends(db, M0019(db), "immich_sync_jobs", {"album_match_mode", "person_match_mode"})
  BY AddEffect, Named DEF M0019
<1>. QED
  BY <1>1, TableNames, CurrentColumns
  DEF Alters, Extends, Evolves, Makes, Stays, Ided, Later, Adds, Drops, Grown, Cut, Made, Latest, ImmichSyncJobColumns, Target, Cadence

LEMMA M0021Effect ==
  ASSUME NEW db, IsDb(db), Ided(db.t)
  PROVE  IsDb(M0021(db)) /\ M0021(db).r = db.r /\ Evolves(21, db.t, M0021(db).t)
<1>1. Extends(db, M0021(db), "grid_devices", {"row", "col"})
  BY AddEffect, Named DEF M0021
<1>. QED
  BY <1>1, TableNames, CurrentColumns
  DEF Alters, Extends, Evolves, Makes, Stays, Ided, Later, Adds, Drops, Grown, Cut, Made, Latest, GridDeviceColumns

LEMMA M0024Effect ==
  ASSUME NEW db, IsDb(db), Ided(db.t)
  PROVE  IsDb(M0024(db)) /\ M0024(db).r = db.r /\ Evolves(24, db.t, M0024(db).t)
<1> DEFINE a == CreateTable(db, "image_groups", {})
           b == AddColumns(a, "images", {"group_id", "group_slot_row", "group_slot_col", "queue_position"})
           c == AddColumns(b, "grids", {"current_group_id", "current_frame", "hold_until"})
           d == DropColumns(c, "grids", GridSession)
           e == AddColumns(d, "display_jobs", {"is_active", "run_requested_at"})
           f == DropColumns(e, "display_job_slots", {"rotation_index"})
           g == DropTable(f, "motd_screens")
           h == DropTable(g, "motd_messages")
<1>1. Creates(db, a, "image_groups", {})
  BY CreateEffect, Named
<1> HIDE DEF a
<1>2. Extends(a, b, "images", {"group_id", "group_slot_row", "group_slot_col", "queue_position"})
  BY <1>1, AddEffect, Named DEF Alters, Creates
<1> HIDE DEF b
<1>3. Extends(b, c, "grids", {"current_group_id", "current_frame", "hold_until"})
  BY <1>2, AddEffect, Named DEF Alters, Extends
<1> HIDE DEF c
<1>4. Cuts(c, d, "grids", GridSession)
  BY <1>3, DropEffect, Named DEF Alters, Extends
<1> HIDE DEF d
<1>5. Extends(d, e, "display_jobs", {"is_active", "run_requested_at"})
  BY <1>4, AddEffect, Named DEF Alters, Cuts
<1> HIDE DEF e
<1>6. Cuts(e, f, "display_job_slots", {"rotation_index"})
  BY <1>5, DropEffect, Named DEF Alters, Extends
<1> HIDE DEF f
<1>7. Removes(f, g, "motd_screens")
  BY <1>6, DropTableEffect, Named DEF Alters, Cuts
<1> HIDE DEF g
<1>8. Removes(g, h, "motd_messages")
  BY <1>7, DropTableEffect, Named DEF Alters, Removes
<1> HIDE DEF h
<1>9. M0024(db) = h
  BY DEF M0024, a, b, c, d, e, f, g, h
<1>10. IsDb(M0024(db)) /\ M0024(db).r = db.r
  BY <1>1, <1>2, <1>3, <1>4, <1>5, <1>6, <1>7, <1>8, <1>9 DEF Alters, Creates, Cuts, Extends, Removes
<1>11. ASSUME NEW x \in Tables
      PROVE  M0024(db).t[x] =
               CASE x = "image_groups" -> Made(db.t[x], {})
                 [] x = "images" -> Grown(db.t[x], {"group_id", "group_slot_row", "group_slot_col", "queue_position"})
                 [] x = "grids" -> Cut(Grown(db.t[x], {"current_group_id", "current_frame", "hold_until"}), GridSession)
                 [] x = "display_jobs" -> Grown(db.t[x], {"is_active", "run_requested_at"})
                 [] x = "display_job_slots" -> Cut(db.t[x], {"rotation_index"})
                 [] x = "motd_screens" -> {}
                 [] x = "motd_messages" -> {}
                 [] OTHER -> db.t[x]
  BY <1>1, <1>2, <1>3, <1>4, <1>5, <1>6, <1>7, <1>8, <1>9 DEF Alters, Creates, Cuts, Extends, Removes
<1>. QED
  BY <1>10, <1>11, TableNames, CurrentColumns
  DEF Evolves, Makes, Stays, Ided, Later, Adds, Drops, Grown, Cut, Made, Latest, ImageColumns, GridColumns, GridSession, GridSchedule, DisplayJobColumns, Cadence, LegacySchedule

(* Two fields of the rows written at once.                                     *)
WithTextAndHumanoid(d, x, y) == [d EXCEPT !.r.text = x, !.r.humanoid = y]
(* Two fields of the rows set at once.                                         *)
WithCadenceAndJob(d, x, y) == [d EXCEPT !.r.cadence = x, !.r.job = y]
WithLeaseAndSched(d, x, y) == [d EXCEPT !.r.lease = x, !.r.sched = y]
WithSchedAndJob(d, x, y) == [d EXCEPT !.r.sched = x, !.r.job = y]
WithHumanoidAndScene(d, x, y) == [d EXCEPT !.r.humanoid = x, !.r.scene = y]

LEMMA TextAndHumanoid ==
  ASSUME NEW d, IsDb(d), NEW x, NEW y
  PROVE  /\ IsDb(WithTextAndHumanoid(d, x, y)) /\ WithTextAndHumanoid(d, x, y).t = d.t
         /\ SameBut({"text", "humanoid"}, d.r, WithTextAndHumanoid(d, x, y).r)
         /\ WithTextAndHumanoid(d, x, y).r.text = x /\ WithTextAndHumanoid(d, x, y).r.humanoid = y
<1> SUFFICES ASSUME NEW m, m = [d EXCEPT !.r.text = x, !.r.humanoid = y]
             PROVE  IsDb(m) /\ m.t = d.t /\ SameBut({"text", "humanoid"}, d.r, m.r) /\ m.r.text = x /\ m.r.humanoid = y
  BY DEF WithTextAndHumanoid
<1>1. m.t = d.t /\ m.r = [d.r EXCEPT !.text = x, !.humanoid = y] /\ m = [t |-> m.t, r |-> m.r]
  BY DEF IsDb
<1>2. DOMAIN d.r = RowFields
  BY DEF IsDb
<1>3. DOMAIN m.r = RowFields
  BY <1>1, <1>2
<1>4. m.r.text = x /\ m.r.humanoid = y
  BY <1>1, <1>2 DEF RowFields
<1>5. \A f \in RowFields \ {"text", "humanoid"} : m.r[f] = d.r[f]
  BY <1>1, <1>2
<1>. QED
  BY <1>1, <1>3, <1>4, <1>5 DEF IsDb, SameBut

LEMMA CadenceAndJob ==
  ASSUME NEW d, IsDb(d), NEW x, NEW y
  PROVE  /\ IsDb(WithCadenceAndJob(d, x, y)) /\ WithCadenceAndJob(d, x, y).t = d.t
         /\ SameBut({"cadence", "job"}, d.r, WithCadenceAndJob(d, x, y).r)
         /\ WithCadenceAndJob(d, x, y).r.cadence = x /\ WithCadenceAndJob(d, x, y).r.job = y
<1> SUFFICES ASSUME NEW m, m = [d EXCEPT !.r.cadence = x, !.r.job = y]
             PROVE  IsDb(m) /\ m.t = d.t /\ SameBut({"cadence", "job"}, d.r, m.r) /\ m.r.cadence = x /\ m.r.job = y
  BY DEF WithCadenceAndJob
<1>1. m.t = d.t /\ m.r = [d.r EXCEPT !.cadence = x, !.job = y] /\ m = [t |-> m.t, r |-> m.r]
  BY DEF IsDb
<1>2. DOMAIN d.r = RowFields
  BY DEF IsDb
<1>3. DOMAIN m.r = RowFields
  BY <1>1, <1>2
<1>4. m.r.cadence = x /\ m.r.job = y
  BY <1>1, <1>2 DEF RowFields
<1>5. \A f \in RowFields \ {"cadence", "job"} : m.r[f] = d.r[f]
  BY <1>1, <1>2
<1>. QED
  BY <1>1, <1>3, <1>4, <1>5 DEF IsDb, SameBut

LEMMA LeaseAndSched ==
  ASSUME NEW d, IsDb(d), NEW x, NEW y
  PROVE  /\ IsDb(WithLeaseAndSched(d, x, y)) /\ WithLeaseAndSched(d, x, y).t = d.t
         /\ SameBut({"lease", "sched"}, d.r, WithLeaseAndSched(d, x, y).r)
         /\ WithLeaseAndSched(d, x, y).r.lease = x /\ WithLeaseAndSched(d, x, y).r.sched = y
<1> SUFFICES ASSUME NEW m, m = [d EXCEPT !.r.lease = x, !.r.sched = y]
             PROVE  IsDb(m) /\ m.t = d.t /\ SameBut({"lease", "sched"}, d.r, m.r) /\ m.r.lease = x /\ m.r.sched = y
  BY DEF WithLeaseAndSched
<1>1. m.t = d.t /\ m.r = [d.r EXCEPT !.lease = x, !.sched = y] /\ m = [t |-> m.t, r |-> m.r]
  BY DEF IsDb
<1>2. DOMAIN d.r = RowFields
  BY DEF IsDb
<1>3. DOMAIN m.r = RowFields
  BY <1>1, <1>2
<1>4. m.r.lease = x /\ m.r.sched = y
  BY <1>1, <1>2 DEF RowFields
<1>5. \A f \in RowFields \ {"lease", "sched"} : m.r[f] = d.r[f]
  BY <1>1, <1>2
<1>. QED
  BY <1>1, <1>3, <1>4, <1>5 DEF IsDb, SameBut

LEMMA SchedAndJob ==
  ASSUME NEW d, IsDb(d), NEW x, NEW y
  PROVE  /\ IsDb(WithSchedAndJob(d, x, y)) /\ WithSchedAndJob(d, x, y).t = d.t
         /\ SameBut({"sched", "job"}, d.r, WithSchedAndJob(d, x, y).r)
         /\ WithSchedAndJob(d, x, y).r.sched = x /\ WithSchedAndJob(d, x, y).r.job = y
<1> SUFFICES ASSUME NEW m, m = [d EXCEPT !.r.sched = x, !.r.job = y]
             PROVE  IsDb(m) /\ m.t = d.t /\ SameBut({"sched", "job"}, d.r, m.r) /\ m.r.sched = x /\ m.r.job = y
  BY DEF WithSchedAndJob
<1>1. m.t = d.t /\ m.r = [d.r EXCEPT !.sched = x, !.job = y] /\ m = [t |-> m.t, r |-> m.r]
  BY DEF IsDb
<1>2. DOMAIN d.r = RowFields
  BY DEF IsDb
<1>3. DOMAIN m.r = RowFields
  BY <1>1, <1>2
<1>4. m.r.sched = x /\ m.r.job = y
  BY <1>1, <1>2 DEF RowFields
<1>5. \A f \in RowFields \ {"sched", "job"} : m.r[f] = d.r[f]
  BY <1>1, <1>2
<1>. QED
  BY <1>1, <1>3, <1>4, <1>5 DEF IsDb, SameBut

LEMMA HumanoidAndScene ==
  ASSUME NEW d, IsDb(d), NEW x, NEW y
  PROVE  /\ IsDb(WithHumanoidAndScene(d, x, y)) /\ WithHumanoidAndScene(d, x, y).t = d.t
         /\ SameBut({"humanoid", "scene"}, d.r, WithHumanoidAndScene(d, x, y).r)
         /\ WithHumanoidAndScene(d, x, y).r.humanoid = x /\ WithHumanoidAndScene(d, x, y).r.scene = y
<1> SUFFICES ASSUME NEW m, m = [d EXCEPT !.r.humanoid = x, !.r.scene = y]
             PROVE  IsDb(m) /\ m.t = d.t /\ SameBut({"humanoid", "scene"}, d.r, m.r) /\ m.r.humanoid = x /\ m.r.scene = y
  BY DEF WithHumanoidAndScene
<1>1. m.t = d.t /\ m.r = [d.r EXCEPT !.humanoid = x, !.scene = y] /\ m = [t |-> m.t, r |-> m.r]
  BY DEF IsDb
<1>2. DOMAIN d.r = RowFields
  BY DEF IsDb
<1>3. DOMAIN m.r = RowFields
  BY <1>1, <1>2
<1>4. m.r.humanoid = x /\ m.r.scene = y
  BY <1>1, <1>2 DEF RowFields
<1>5. \A f \in RowFields \ {"humanoid", "scene"} : m.r[f] = d.r[f]
  BY <1>1, <1>2
<1>. QED
  BY <1>1, <1>3, <1>4, <1>5 DEF IsDb, SameBut

(* The migrations that rewrite rows, one lemma for each.                       *)
LEMMA M0002Effect ==
  ASSUME NEW db, IsDb(db), Ided(db.t)
  PROVE  /\ IsDb(M0002(db)) /\ Evolves(2, db.t, M0002(db).t)
         /\ SameBut({"image"}, db.r, M0002(db).r)
         /\ M0002(db).r.image = IF InColumns(db, "immich_sync_jobs", "target_device_id") /\ db.r.image = "raster"
                                THEN "panel" ELSE db.r.image
<1>1. /\ IsDb(M0002(db)) /\ M0002(db).t = db.t
      /\ SameBut({"image"}, db.r, M0002(db).r)
      /\ M0002(db).r.image = IF InColumns(db, "immich_sync_jobs", "target_device_id") /\ db.r.image = "raster"
                             THEN "panel" ELSE db.r.image
  BY DEF M0002, IsDb, SameBut, RowFields
<1>. QED
  BY <1>1 DEF Evolves, Makes, Stays, Ided, Adds, Drops

LEMMA M0003Effect ==
  ASSUME NEW db, IsDb(db), Ided(db.t)
  PROVE  /\ IsDb(M0003(db)) /\ Evolves(3, db.t, M0003(db).t)
         /\ SameBut({"seen"}, db.r, M0003(db).r)
         /\ M0003(db).r.seen = IF ~Has(db.t, "devices") \/ InColumns(db, "devices", "last_seen") THEN db.r.seen
                               ELSE IF db.r.panel = "none" THEN NULL ELSE "set"
<1> DEFINE a == AddColumns(db, "devices", {"last_seen"})
<1>1. Extends(db, a, "devices", {"last_seen"})
  BY AddEffect, Named
<1>2. CASE ~Has(db.t, "devices") \/ InColumns(db, "devices", "last_seen")
  <2>1. M0003(db) = db
    BY <1>2 DEF M0003
  <2>. QED
    BY <1>2, <2>1, CurrentColumns
    DEF Evolves, Makes, Stays, Ided, Adds, Drops, Has, InColumns, SameBut, IsDb
<1>3. CASE ~(~Has(db.t, "devices") \/ InColumns(db, "devices", "last_seen"))
  <2>1. M0003(db) = [a EXCEPT !.r.seen = IF db.r.panel = "none" THEN NULL ELSE "set"]
    BY <1>3 DEF M0003
  <2> HIDE DEF a
  <2>2. /\ IsDb(M0003(db)) /\ M0003(db).t = a.t
        /\ SameBut({"seen"}, db.r, M0003(db).r)
        /\ M0003(db).r.seen = IF db.r.panel = "none" THEN NULL ELSE "set"
    BY <1>1, <2>1 DEF IsDb, Extends, Alters, SameBut, RowFields
  <2>3. Evolves(3, db.t, M0003(db).t)
    BY <1>1, <2>2, TableNames, CurrentColumns
    DEF Evolves, Makes, Stays, Ided, Adds, Drops, Extends, Alters, Grown, DeviceColumns
  <2>. QED
    BY <1>3, <2>2, <2>3
<1>. QED
  BY <1>2, <1>3

LEMMA M0004Effect ==
  ASSUME NEW db, IsDb(db), Ided(db.t)
  PROVE  /\ IsDb(M0004(db)) /\ Evolves(4, db.t, M0004(db).t)
         /\ SameBut({"text", "humanoid"}, db.r, M0004(db).r)
         /\ M0004(db).r.text = [x \in Blocks |-> IF db.r.text[x] = "absent" THEN "seed4" ELSE db.r.text[x]]
         /\ M0004(db).r.humanoid = IF db.r.humanoid = "absent" THEN "retiring" ELSE db.r.humanoid
<1> DEFINE a == CreateTable(db, "prompt_blocks", {})
           b == CreateTable(a, "prompt_presets", {})
           c == CreateTable(b, "gemini_sync_jobs", {"target_device_id", "is_portrait"})
<1>1. Creates(db, a, "prompt_blocks", {})
  BY CreateEffect, Named
<1> HIDE DEF a
<1>2. Creates(a, b, "prompt_presets", {})
  BY <1>1, CreateEffect, Named DEF Creates, Alters
<1> HIDE DEF b
<1>3. Creates(b, c, "gemini_sync_jobs", {"target_device_id", "is_portrait"})
  BY <1>2, CreateEffect, Named DEF Creates, Alters
<1> HIDE DEF c
<1>4. M0004(db) = [c EXCEPT !.r.text = [x \in Blocks |-> IF @[x] = "absent" THEN "seed4" ELSE @[x]],
                            !.r.humanoid = IF @ = "absent" THEN "retiring" ELSE @]
  BY DEF M0004, PromptTables, a, b, c
<1>5. c.r = db.r
  BY <1>1, <1>2, <1>3 DEF Creates, Alters
<1>6. /\ IsDb(M0004(db)) /\ M0004(db).t = c.t
      /\ SameBut({"text", "humanoid"}, db.r, M0004(db).r)
      /\ M0004(db).r.text = [x \in Blocks |-> IF db.r.text[x] = "absent" THEN "seed4" ELSE db.r.text[x]]
      /\ M0004(db).r.humanoid = IF db.r.humanoid = "absent" THEN "retiring" ELSE db.r.humanoid
  <2> DEFINE m == M0004(db)
  <2>0. m = [c EXCEPT !.r.text = [x \in Blocks |-> IF @[x] = "absent" THEN "seed4" ELSE @[x]],
                      !.r.humanoid = IF @ = "absent" THEN "retiring" ELSE @]
    BY <1>4
  <2> HIDE DEF m
  <2> DEFINE text == [x \in Blocks |-> IF c.r.text[x] = "absent" THEN "seed4" ELSE c.r.text[x]]
             humanoid == IF c.r.humanoid = "absent" THEN "retiring" ELSE c.r.humanoid
  <2>1. m = [[c EXCEPT !.r.text = text] EXCEPT !.r.humanoid = IF @ = "absent" THEN "retiring" ELSE @]
    BY <2>0
  <2>2. /\ text = [x \in Blocks |-> IF db.r.text[x] = "absent" THEN "seed4" ELSE db.r.text[x]]
        /\ humanoid = IF db.r.humanoid = "absent" THEN "retiring" ELSE db.r.humanoid
    BY <1>5
  <2>3. IsDb(c)
    BY <1>3 DEF Creates, Alters
  <2> DEFINE one == [c EXCEPT !.r.text = text]
  <2> HIDE DEF text
  <2>4. one.r.humanoid = c.r.humanoid
    BY <2>3 DEF IsDb, RowFields
  <2>5. m = [one EXCEPT !.r.humanoid = humanoid]
    BY <2>1, <2>4
  <2> HIDE DEF humanoid
  <2>6. m = WithTextAndHumanoid(c, text, humanoid)
    BY <2>5 DEF WithTextAndHumanoid
  <2>7. /\ IsDb(m) /\ m.t = c.t /\ SameBut({"text", "humanoid"}, c.r, m.r)
        /\ m.r.text = text /\ m.r.humanoid = humanoid
    BY <2>3, <2>6, TextAndHumanoid
  <2>. QED
    BY <1>5, <2>2, <2>7 DEF m
<1>7. Evolves(4, db.t, M0004(db).t)
  BY <1>1, <1>2, <1>3, <1>6, TableNames, CurrentColumns
  DEF Evolves, Makes, Stays, Ided, Later, Adds, Drops, Creates, Alters, Made, Latest,
      GeminiSyncJobColumns, PromptPresetColumns, Target, Cadence
<1>. QED
  BY <1>6, <1>7

LEMMA M0006Effect ==
  ASSUME NEW db, IsDb(db), Ided(db.t)
  PROVE  /\ IsDb(M0006(db)) /\ Evolves(6, db.t, M0006(db).t)
         /\ SameBut({"ids"}, db.r, M0006(db).r)
         /\ M0006(db).r.ids = "hex"
<1>1. /\ IsDb(M0006(db)) /\ M0006(db).t = db.t
      /\ SameBut({"ids"}, db.r, M0006(db).r) /\ M0006(db).r.ids = "hex"
  BY DEF M0006, IsDb, SameBut, RowFields
<1>. QED
  BY <1>1 DEF Evolves, Makes, Stays, Ided, Adds, Drops

LEMMA M0013Effect ==
  ASSUME NEW db, IsDb(db), Ided(db.t)
  PROVE  /\ IsDb(M0013(db)) /\ Evolves(13, db.t, M0013(db).t)
         /\ SameBut({"text"}, db.r, M0013(db).r)
         /\ M0013(db).r.text = [x \in Blocks |-> IF db.r.text[x] = "seed4" THEN "seed13" ELSE db.r.text[x]]
<1>1. /\ IsDb(M0013(db)) /\ M0013(db).t = db.t
      /\ SameBut({"text"}, db.r, M0013(db).r)
      /\ M0013(db).r.text = [x \in Blocks |-> IF db.r.text[x] = "seed4" THEN "seed13" ELSE db.r.text[x]]
  BY DEF M0013, Repaint, IsDb, SameBut, RowFields
<1>. QED
  BY <1>1 DEF Evolves, Makes, Stays, Ided, Adds, Drops

LEMMA M0015Effect ==
  ASSUME NEW db, IsDb(db), Ided(db.t)
  PROVE  /\ IsDb(M0015(db)) /\ Evolves(15, db.t, M0015(db).t)
         /\ SameBut({"text", "scene"}, db.r, M0015(db).r)
         /\ M0015(db).r.text = [x \in Blocks |-> IF x = "style" /\ db.r.text[x] = "seed13" THEN "seed15" ELSE db.r.text[x]]
         /\ M0015(db).r.scene \in {db.r.scene, IF db.r.scene = "absent" THEN "retiring" ELSE db.r.scene}
<1> DEFINE a == CreateTable(db, "motd_configs", {})
           b == CreateTable(a, "motd_device_assignments", {})
           c == CreateTable(b, "motd_messages", {"config_id"})
           d == CreateTable(c, "motd_screens", {})
           e == AddColumns(d, "devices", {"claimed_by_motd_config_id"})
           f == Repaint(e, {"style"}, "seed13", "seed15")
           repainted == [x \in Blocks |-> IF x = "style" /\ db.r.text[x] = "seed13" THEN "seed15" ELSE db.r.text[x]]
<1>1. Creates(db, a, "motd_configs", {})
  BY CreateEffect, Named
<1> HIDE DEF a
<1>2. Creates(a, b, "motd_device_assignments", {})
  BY <1>1, CreateEffect, Named DEF Creates, Alters
<1> HIDE DEF b
<1>3. Creates(b, c, "motd_messages", {"config_id"})
  BY <1>2, CreateEffect, Named DEF Creates, Alters
<1> HIDE DEF c
<1>4. Creates(c, d, "motd_screens", {})
  BY <1>3, CreateEffect, Named DEF Creates, Alters
<1> HIDE DEF d
<1>5. Extends(d, e, "devices", {"claimed_by_motd_config_id"})
  BY <1>4, AddEffect, Named DEF Creates, Alters
<1> HIDE DEF e
<1>6. e.r = db.r
  BY <1>1, <1>2, <1>3, <1>4, <1>5 DEF Creates, Extends, Alters
<1>7. IsDb(f) /\ f.t = e.t /\ SameBut({"text"}, db.r, f.r) /\ f.r.text = repainted
  BY <1>5, <1>6 DEF f, Repaint, IsDb, Extends, Alters, SameBut, RowFields
<1> HIDE DEF f, repainted
<1>8. M0015(db) = SeedScenePreset(f)
  BY DEF M0015, MotdTables, a, b, c, d, e, f
<1>9. /\ IsDb(M0015(db)) /\ M0015(db).t = e.t
      /\ SameBut({"text", "scene"}, db.r, M0015(db).r)
      /\ M0015(db).r.text = repainted
      /\ M0015(db).r.scene \in {db.r.scene, IF db.r.scene = "absent" THEN "retiring" ELSE db.r.scene}
  BY <1>7, <1>8 DEF SeedScenePreset, IsDb, SameBut, RowFields
<1>10. M0015(db).t = e.t
  BY <1>9
<1>11. ASSUME NEW x \in Tables
       PROVE  M0015(db).t[x] =
               CASE x \in {"motd_configs", "motd_device_assignments", "motd_screens"} -> Made(db.t[x], {})
                 [] x = "motd_messages" -> Made(db.t[x], {"config_id"})
                 [] x = "devices" -> Grown(db.t[x], {"claimed_by_motd_config_id"})
                 [] OTHER -> db.t[x]
  BY <1>1, <1>2, <1>3, <1>4, <1>5, <1>10 DEF Creates, Extends, Alters
<1>12. Evolves(15, db.t, M0015(db).t)
  BY <1>11, TableNames, CurrentColumns
  DEF Evolves, Makes, Stays, Ided, Later, Adds, Drops, Made, Grown, Latest, DeviceColumns
<1>. QED
  BY <1>9, <1>12 DEF repainted

LEMMA M0020Effect ==
  ASSUME NEW db, IsDb(db), Ided(db.t)
  PROVE  /\ IsDb(M0020(db)) /\ Evolves(20, db.t, M0020(db).t)
         /\ SameBut({"cadence"}, db.r, M0020(db).r)
         /\ M0020(db).r.cadence = IF db.r.cadence = "external" THEN "interval" ELSE db.r.cadence
         /\ Has(db.t, "immich_sync_jobs") => InColumns(M0020(db), "immich_sync_jobs", "interval_minutes")
<1> DEFINE a == AddColumns(db, "immich_sync_jobs", {"interval_minutes", "next_run_at", "last_run_at"})
           b == AddColumns(a, "gemini_sync_jobs", {"interval_minutes", "next_run_at", "last_run_at"})
<1>1. Extends(db, a, "immich_sync_jobs", {"interval_minutes", "next_run_at", "last_run_at"})
  BY AddEffect, Named
<1> HIDE DEF a
<1>2. Extends(a, b, "gemini_sync_jobs", {"interval_minutes", "next_run_at", "last_run_at"})
  BY <1>1, AddEffect, Named DEF Extends, Alters
<1> HIDE DEF b
<1>3. M0020(db) = [b EXCEPT !.r.cadence = IF @ = "external" THEN "interval" ELSE @]
  BY DEF M0020, AddToSyncJobs, a, b
<1>4. b.r = db.r
  BY <1>1, <1>2 DEF Extends, Alters
<1>5. /\ IsDb(M0020(db)) /\ M0020(db).t = b.t
      /\ SameBut({"cadence"}, db.r, M0020(db).r)
      /\ M0020(db).r.cadence = IF db.r.cadence = "external" THEN "interval" ELSE db.r.cadence
  BY <1>2, <1>3, <1>4 DEF IsDb, Extends, Alters, SameBut, RowFields
<1>6. Has(db.t, "immich_sync_jobs") => InColumns(M0020(db), "immich_sync_jobs", "interval_minutes")
  BY <1>1, <1>2, <1>5, Named DEF Has, InColumns, Extends, Alters, Grown
<1>7. Evolves(20, db.t, M0020(db).t)
  BY <1>1, <1>2, <1>5, TableNames, CurrentColumns
  DEF Evolves, Makes, Stays, Ided, Later, Adds, Drops, Extends, Alters, Grown, Latest,
      GeminiSyncJobColumns, ImmichSyncJobColumns, Target, Cadence
<1>. QED
  BY <1>5, <1>6, <1>7

LEMMA M0007Effect ==
  ASSUME NEW db, IsDb(db), Ided(db.t)
  PROVE  /\ IsDb(M0007(db)) /\ Evolves(7, db.t, M0007(db).t)
         /\ SameBut({"profile", "target"}, db.r, M0007(db).r)
         /\ M0007(db).r.profile = IF db.r.panel = "none" THEN NULL
                                  ELSE IF {"display_width", "display_height", "display_model"} \cap db.t["devices"] # {}
                                  THEN ProfileOf(db.r.panel)
                                  ELSE IF db.r.profile = NULL THEN "default" ELSE db.r.profile
         /\ M0007(db).r.target = IF InColumns(db, "immich_sync_jobs", "target_device_id") /\ db.r.target = NULL
                                 THEN M0007(db).r.profile ELSE db.r.target
<1> DEFINE legacy == {"display_width", "display_height", "display_model"}
           a == CreateTable(db, "device_profiles", {})
           b == AddColumns(a, "devices", {"device_profile_id"})
           c == DropColumns(b, "devices", legacy)
           p == MigrateDevices(a)
           d == AddColumns(p, "immich_sync_jobs", Target)
           e == DropColumns(d, "immich_sync_jobs", {"target_device_id"})
           i == IF Has(db.t, "immich_sync_jobs") THEN MigrateImmichSyncJobs(p) ELSE p
           f == AddColumns(i, "gemini_sync_jobs", Target)
           g == DropColumns(f, "gemini_sync_jobs", {"target_device_id", "is_portrait"})
           profile == IF db.r.panel = "none" THEN NULL
                      ELSE IF legacy \cap db.t["devices"] # {} THEN ProfileOf(db.r.panel)
                      ELSE IF db.r.profile = NULL THEN "default" ELSE db.r.profile
           target == IF InColumns(db, "immich_sync_jobs", "target_device_id") /\ db.r.target = NULL
                     THEN profile ELSE db.r.target
<1>1. Creates(db, a, "device_profiles", {})
  BY CreateEffect, Named
<1> HIDE DEF a
<1>2. Extends(a, b, "devices", {"device_profile_id"})
  BY <1>1, AddEffect, Named DEF Creates, Alters
<1> HIDE DEF b
<1>3. Cuts(b, c, "devices", legacy)
  BY <1>2, DropEffect, Named DEF Extends, Alters
<1> HIDE DEF c
<1>4. c.r = db.r /\ a.r = db.r /\ a.t["devices"] = db.t["devices"]
  BY <1>1, <1>2, <1>3, Named DEF Creates, Extends, Cuts, Alters
<1>5. IsDb(p) /\ p.t = c.t /\ SameBut({"profile"}, db.r, p.r) /\ p.r.profile = profile
  <2>1. p = [c EXCEPT !.r.profile = IF a.r.panel = "none" THEN NULL
                        ELSE IF legacy \cap a.t["devices"] # {} THEN ProfileOf(a.r.panel)
                        ELSE IF @ = NULL THEN "default" ELSE @]
    BY DEF p, MigrateDevices, b, c
  <2>2. p = [c EXCEPT !.r.profile = profile]
    BY <1>4, <2>1
  <2> HIDE DEF profile
  <2>. QED
    BY <1>3, <1>4, <2>2 DEF IsDb, Cuts, Alters, SameBut, RowFields
<1> HIDE DEF p, profile
<1>6. Extends(p, d, "immich_sync_jobs", Target)
  BY <1>5, AddEffect, Named
<1> HIDE DEF d
<1>7. Cuts(d, e, "immich_sync_jobs", {"target_device_id"})
  BY <1>6, DropEffect, Named DEF Extends, Alters
<1> HIDE DEF e
<1>8. /\ e.r = p.r
      /\ InColumns(p, "immich_sync_jobs", "target_device_id") <=> InColumns(db, "immich_sync_jobs", "target_device_id")
  BY <1>1, <1>2, <1>3, <1>5, <1>6, <1>7, Named DEF Creates, Extends, Cuts, Alters, InColumns
<1>9. /\ IsDb(i) /\ i.t = (IF Has(db.t, "immich_sync_jobs") THEN e.t ELSE c.t)
      /\ SameBut({"profile", "target"}, db.r, i.r) /\ i.r.profile = profile /\ i.r.target = target
  <2>1. MigrateImmichSyncJobs(p) =
          [e EXCEPT !.r.target = IF InColumns(p, "immich_sync_jobs", "target_device_id") /\ @ = NULL
                                 THEN p.r.profile ELSE @]
    BY DEF MigrateImmichSyncJobs, d, e
  <2>2. e.r.target = db.r.target
    BY <1>5, <1>8 DEF SameBut, RowFields
  <2>3. MigrateImmichSyncJobs(p) = [e EXCEPT !.r.target = target]
    BY <1>5, <1>8, <2>1, <2>2
  <2>4. ~Has(db.t, "immich_sync_jobs") => target = db.r.target
    BY DEF Has, InColumns
  <2> HIDE DEF target
  <2>5. CASE Has(db.t, "immich_sync_jobs")
    <3>1. i = [e EXCEPT !.r.target = target]
      BY <2>3, <2>5 DEF i
    <3>. QED
      BY <1>5, <1>7, <1>8, <2>5, <3>1 DEF IsDb, Cuts, Alters, SameBut, RowFields
  <2>6. CASE ~Has(db.t, "immich_sync_jobs")
    BY <1>5, <2>4, <2>6 DEF i, SameBut, RowFields
  <2>. QED
    BY <2>5, <2>6
<1> HIDE DEF i, target
<1>10. Extends(i, f, "gemini_sync_jobs", Target)
  BY <1>9, AddEffect, Named
<1> HIDE DEF f
<1>11. Cuts(f, g, "gemini_sync_jobs", {"target_device_id", "is_portrait"})
  BY <1>10, DropEffect, Named DEF Extends, Alters
<1> HIDE DEF g
<1>12. M0007(db) = IF Has(db.t, "gemini_sync_jobs") THEN g ELSE i
  BY DEF M0007, MigrateGeminiSyncJobs, a, p, i, f, g
<1>13. IsDb(M0007(db)) /\ M0007(db).r = i.r
  BY <1>9, <1>10, <1>11, <1>12 DEF Extends, Cuts, Alters
<1>14. ASSUME NEW x \in Tables
       PROVE  c.t[x] = CASE x = "device_profiles" -> Made(db.t[x], {})
                         [] x = "devices" -> Cut(Grown(db.t[x], {"device_profile_id"}), legacy)
                         [] OTHER -> db.t[x]
  BY <1>1, <1>2, <1>3, Named DEF Creates, Extends, Cuts, Alters
<1>15. ASSUME NEW x \in Tables
       PROVE  i.t[x] = IF x = "immich_sync_jobs" THEN Cut(Grown(db.t[x], Target), {"target_device_id"}) ELSE c.t[x]
  <2>1. CASE Has(db.t, "immich_sync_jobs")
    BY <1>5, <1>6, <1>7, <1>9, <1>14, <2>1, Named DEF Extends, Cuts, Alters
  <2>2. CASE ~Has(db.t, "immich_sync_jobs")
    BY <1>9, <1>14, <2>2, Named DEF Has, Grown, Cut
  <2>. QED
    BY <2>1, <2>2
<1>16. ASSUME NEW x \in Tables
       PROVE  M0007(db).t[x] = IF x = "gemini_sync_jobs" THEN Cut(Grown(db.t[x], Target), {"target_device_id", "is_portrait"}) ELSE i.t[x]
  <2>1. CASE Has(db.t, "gemini_sync_jobs")
    BY <1>10, <1>11, <1>12, <1>14, <1>15, <2>1, Named DEF Extends, Cuts, Alters
  <2>2. CASE ~Has(db.t, "gemini_sync_jobs")
    BY <1>12, <1>14, <1>15, <2>2, Named DEF Has, Grown, Cut
  <2>. QED
    BY <2>1, <2>2
<1>17. Evolves(7, db.t, M0007(db).t)
  BY <1>14, <1>15, <1>16, TableNames, CurrentColumns
  DEF Evolves, Makes, Stays, Ided, Later, Adds, Drops, Made, Grown, Cut, Latest, DeviceColumns,
      DeviceProfileColumns, ImmichSyncJobColumns, GeminiSyncJobColumns, Target, Cadence
<1>. QED
  BY <1>9, <1>13, <1>17 DEF profile, target

LEMMA M0025Effect ==
  ASSUME NEW db, IsDb(db), Ided(db.t)
  PROVE  /\ IsDb(M0025(db)) /\ Evolves(25, db.t, M0025(db).t)
         /\ SameBut({"hold"}, db.r, M0025(db).r)
         /\ M0025(db).r.hold = IF db.r.shows /\ db.r.hold = NULL THEN "set" ELSE db.r.hold
<1> DEFINE a == DropColumns(db, "grids", {"scheduled_next_at", "refresh_interval_seconds", "current_frame"})
<1>1. Cuts(db, a, "grids", {"scheduled_next_at", "refresh_interval_seconds", "current_frame"})
  BY DropEffect, Named
<1> HIDE DEF a
<1>2. M0025(db) = [a EXCEPT !.r.hold = IF db.r.shows /\ @ = NULL THEN "set" ELSE @]
  BY DEF M0025, a
<1>3. /\ IsDb(M0025(db)) /\ M0025(db).t = a.t
      /\ SameBut({"hold"}, db.r, M0025(db).r)
      /\ M0025(db).r.hold = IF db.r.shows /\ db.r.hold = NULL THEN "set" ELSE db.r.hold
  BY <1>1, <1>2 DEF IsDb, Cuts, Alters, SameBut, RowFields
<1>4. Evolves(25, db.t, M0025(db).t)
  BY <1>1, <1>3, TableNames, CurrentColumns
  DEF Evolves, Makes, Stays, Ided, Later, Adds, Drops, Cuts, Alters, Cut, Latest, GridColumns
<1>. QED
  BY <1>3, <1>4

(* The two values the conversion of a schedule writes.                         *)
Croned(db, name, of, was) ==
  IF InColumns(db, name, "interval_minutes") /\ name = of /\ was = "interval" THEN "cron" ELSE was

(* One table of M0026: its minutes become a cron.                              *)
LEMMA ToCronEffect ==
  ASSUME NEW db, IsDb(db), NEW name \in Tables
  PROVE  /\ IsDb(ToCron(db, name))
         /\ \A x \in Tables : ToCron(db, name).t[x] =
              IF x = name THEN Cut(Grown(db.t[x], {"schedule_cron", "schedule_timezone"}), {"interval_minutes"}) ELSE db.t[x]
         /\ SameBut({"cadence", "job"}, db.r, ToCron(db, name).r)
         /\ ToCron(db, name).r.cadence = Croned(db, name, "immich_sync_jobs", db.r.cadence)
         /\ ToCron(db, name).r.job = Croned(db, name, "display_jobs", db.r.job)
<1> DEFINE a == AddColumns(db, name, {"schedule_cron", "schedule_timezone"})
           b == DropColumns(a, name, {"interval_minutes"})
<1>1. Extends(db, a, name, {"schedule_cron", "schedule_timezone"})
  BY AddEffect
<1> HIDE DEF a
<1>2. Cuts(a, b, name, {"interval_minutes"})
  BY <1>1, DropEffect DEF Extends, Alters
<1> HIDE DEF b
<1>3. a.r = db.r /\ b.r = db.r
  BY <1>1, <1>2 DEF Extends, Cuts, Alters
<1>4. CASE ~InColumns(db, name, "interval_minutes")
  <2>1. ToCron(db, name) = a
    BY <1>4 DEF ToCron, a
  <2>2. Cut(Grown(db.t[name], {"schedule_cron", "schedule_timezone"}), {"interval_minutes"}) =
          Grown(db.t[name], {"schedule_cron", "schedule_timezone"})
    BY <1>4 DEF InColumns, Cut, Grown
  <2>. QED
    BY <1>1, <1>3, <1>4, <2>1, <2>2 DEF Extends, Alters, Croned, SameBut, IsDb
<1>5. CASE InColumns(db, name, "interval_minutes")
  <2>1. ToCron(db, name) =
          [b EXCEPT !.r.cadence = IF name = "immich_sync_jobs" /\ @ = "interval" THEN "cron" ELSE @,
                    !.r.job = IF name = "display_jobs" /\ @ = "interval" THEN "cron" ELSE @]
    BY <1>5 DEF ToCron, a, b
  <2>2. /\ IsDb(ToCron(db, name)) /\ ToCron(db, name).t = b.t
        /\ SameBut({"cadence", "job"}, db.r, ToCron(db, name).r)
        /\ ToCron(db, name).r.cadence = IF name = "immich_sync_jobs" /\ db.r.cadence = "interval" THEN "cron" ELSE db.r.cadence
        /\ ToCron(db, name).r.job = IF name = "display_jobs" /\ db.r.job = "interval" THEN "cron" ELSE db.r.job
    <3> DEFINE cadence == IF name = "immich_sync_jobs" /\ db.r.cadence = "interval" THEN "cron" ELSE db.r.cadence
               job == IF name = "display_jobs" /\ db.r.job = "interval" THEN "cron" ELSE db.r.job
    <3>1. IsDb(b)
      BY <1>2 DEF Cuts, Alters
    <3>2. ToCron(db, name) = WithCadenceAndJob(b, cadence, job)
      BY <1>3, <2>1, <3>1 DEF IsDb, RowFields, WithCadenceAndJob
    <3> HIDE DEF cadence, job
    <3>3. /\ IsDb(ToCron(db, name)) /\ ToCron(db, name).t = b.t /\ SameBut({"cadence", "job"}, b.r, ToCron(db, name).r)
          /\ ToCron(db, name).r.cadence = cadence /\ ToCron(db, name).r.job = job
      BY <3>1, <3>2, CadenceAndJob
    <3>. QED
      BY <1>3, <3>3 DEF cadence, job
  <2>. QED
    BY <1>1, <1>2, <1>5, <2>2 DEF Extends, Cuts, Alters, Croned
<1>. QED
  BY <1>4, <1>5

LEMMA M0026Effect ==
  ASSUME NEW db, IsDb(db), Ided(db.t)
  PROVE  /\ IsDb(M0026(db)) /\ Evolves(26, db.t, M0026(db).t)
         /\ SameBut({"cadence", "job"}, db.r, M0026(db).r)
         /\ M0026(db).r.cadence = Croned(db, "immich_sync_jobs", "immich_sync_jobs", db.r.cadence)
         /\ M0026(db).r.job = Croned(db, "display_jobs", "display_jobs", db.r.job)
<1> DEFINE a == ToCron(db, "immich_sync_jobs")
           b == ToCron(a, "gemini_sync_jobs")
           c == ToCron(b, "display_jobs")
           Dated(s) == Cut(Grown(s, {"schedule_cron", "schedule_timezone"}), {"interval_minutes"})
<1>1. /\ IsDb(a) /\ \A x \in Tables : a.t[x] = IF x = "immich_sync_jobs" THEN Dated(db.t[x]) ELSE db.t[x]
      /\ SameBut({"cadence", "job"}, db.r, a.r)
      /\ a.r.cadence = Croned(db, "immich_sync_jobs", "immich_sync_jobs", db.r.cadence)
      /\ a.r.job = Croned(db, "immich_sync_jobs", "display_jobs", db.r.job)
  BY ToCronEffect, Named
<1> HIDE DEF a
<1>2. /\ IsDb(b) /\ \A x \in Tables : b.t[x] = IF x = "gemini_sync_jobs" THEN Dated(a.t[x]) ELSE a.t[x]
      /\ SameBut({"cadence", "job"}, a.r, b.r)
      /\ b.r.cadence = Croned(a, "gemini_sync_jobs", "immich_sync_jobs", a.r.cadence)
      /\ b.r.job = Croned(a, "gemini_sync_jobs", "display_jobs", a.r.job)
  BY <1>1, ToCronEffect, Named
<1> HIDE DEF b
<1>3. /\ IsDb(c) /\ \A x \in Tables : c.t[x] = IF x = "display_jobs" THEN Dated(b.t[x]) ELSE b.t[x]
      /\ SameBut({"cadence", "job"}, b.r, c.r)
      /\ c.r.cadence = Croned(b, "display_jobs", "immich_sync_jobs", b.r.cadence)
      /\ c.r.job = Croned(b, "display_jobs", "display_jobs", b.r.job)
  BY <1>2, ToCronEffect, Named
<1> HIDE DEF c
<1>4. M0026(db) = c
  BY DEF M0026, a, b, c
<1>5. Evolves(26, db.t, M0026(db).t)
  BY <1>1, <1>2, <1>3, <1>4, TableNames, CurrentColumns
  DEF Evolves, Makes, Stays, Ided, Later, Adds, Drops, Cut, Grown, Latest, ImmichSyncJobColumns,
      GeminiSyncJobColumns, DisplayJobColumns, Target, Cadence
<1>6. b.t["display_jobs"] = db.t["display_jobs"]
  BY <1>1, <1>2, Named
<1>7. a.r.job = db.r.job /\ b.r.job = db.r.job /\ b.r.cadence = a.r.cadence /\ c.r.cadence = a.r.cadence
  BY <1>1, <1>2, <1>3 DEF Croned
<1>8. c.r.job = Croned(db, "display_jobs", "display_jobs", db.r.job)
  BY <1>3, <1>6, <1>7 DEF Croned, InColumns
<1>9. SameBut({"cadence", "job"}, db.r, c.r)
  BY <1>1, <1>2, <1>3 DEF SameBut
<1>. QED
  BY <1>1, <1>3, <1>4, <1>5, <1>7, <1>8, <1>9

LEMMA M0027Effect ==
  ASSUME NEW db, IsDb(db), Ided(db.t), InColumns(db, "grids", "display_time")
  PROVE  /\ IsDb(M0027(db)) /\ Evolves(27, db.t, M0027(db).t)
         /\ SameBut({"lease", "sched"}, db.r, M0027(db).r)
         /\ M0027(db).r.lease = IF db.r.sched = "mask" THEN "set" ELSE NULL
         /\ M0027(db).r.sched = IF db.r.sched = "mask" THEN "cron" ELSE db.r.sched
<1> DEFINE a == GridCron(db)
           b == DropColumns(a, "grids", {"display_time", "display_weekday_mask", "last_displayed_on"})
<1>1. Extends(db, a, "grids", {"display_cron", "display_next_at"})
  BY AddEffect, Named DEF GridCron
<1> HIDE DEF a
<1>2. Cuts(a, b, "grids", {"display_time", "display_weekday_mask", "last_displayed_on"})
  BY <1>1, DropEffect, Named DEF Extends, Alters
<1> HIDE DEF b
<1>3. M0027(db) = [b EXCEPT !.r.lease = IF db.r.sched = "mask" THEN "set" ELSE NULL,
                            !.r.sched = IF @ = "mask" THEN "cron" ELSE @]
  BY DEF M0027, a, b
<1>4. b.r = db.r
  BY <1>1, <1>2 DEF Extends, Cuts, Alters
<1>5. /\ IsDb(M0027(db)) /\ M0027(db).t = b.t
      /\ SameBut({"lease", "sched"}, db.r, M0027(db).r)
      /\ M0027(db).r.lease = IF db.r.sched = "mask" THEN "set" ELSE NULL
      /\ M0027(db).r.sched = IF db.r.sched = "mask" THEN "cron" ELSE db.r.sched
  <2> DEFINE lease == IF db.r.sched = "mask" THEN "set" ELSE NULL
             sched == IF db.r.sched = "mask" THEN "cron" ELSE db.r.sched
  <2>1. IsDb(b)
    BY <1>2 DEF Cuts, Alters
  <2>2. M0027(db) = WithLeaseAndSched(b, lease, sched)
    BY <1>3, <1>4, <2>1 DEF IsDb, RowFields, WithLeaseAndSched
  <2> HIDE DEF lease, sched
  <2>3. /\ IsDb(M0027(db)) /\ M0027(db).t = b.t /\ SameBut({"lease", "sched"}, b.r, M0027(db).r)
        /\ M0027(db).r.lease = lease /\ M0027(db).r.sched = sched
    BY <2>1, <2>2, LeaseAndSched
  <2>. QED
    BY <1>4, <2>3 DEF lease, sched
<1>6. Evolves(27, db.t, M0027(db).t)
  BY <1>1, <1>2, <1>5, TableNames, CurrentColumns
  DEF Evolves, Makes, Stays, Ided, Later, Adds, Drops, Cuts, Extends, Alters, Cut, Grown, Latest, GridColumns
<1>. QED
  BY <1>5, <1>6

(* A configuration carried over: the job, and the configuration gone.          *)
WithJob(d, x, z) == [d EXCEPT !.r.job = x, !.r.motd = z]

(* The rows of M0022 when it carries a configuration over.                     *)
LEMMA CarriedJob ==
  ASSUME NEW d, IsDb(d), NEW x, NEW z
  PROVE  /\ IsDb(WithJob(d, x, z)) /\ WithJob(d, x, z).t = d.t
         /\ SameBut({"job", "motd"}, d.r, WithJob(d, x, z).r)
         /\ WithJob(d, x, z).r.job = x /\ WithJob(d, x, z).r.motd = z
<1> SUFFICES ASSUME NEW m, m = [d EXCEPT !.r.job = x, !.r.motd = z]
             PROVE  /\ IsDb(m) /\ m.t = d.t /\ SameBut({"job", "motd"}, d.r, m.r)
                    /\ m.r.job = x /\ m.r.motd = z
  BY DEF WithJob
<1>1. m.t = d.t /\ m.r = [d.r EXCEPT !.job = x, !.motd = z] /\ m = [t |-> m.t, r |-> m.r]
  BY DEF IsDb
<1>2. DOMAIN d.r = RowFields
  BY DEF IsDb
<1>3. DOMAIN m.r = RowFields
  BY <1>1, <1>2
<1>4. m.r.job = x /\ m.r.motd = z
  BY <1>1, <1>2 DEF RowFields
<1>5. \A f \in RowFields \ {"job", "motd"} : m.r[f] = d.r[f]
  BY <1>1, <1>2
<1>. QED
  BY <1>1, <1>3, <1>4, <1>5 DEF IsDb, SameBut

LEMMA M0022Effect ==
  ASSUME NEW db, IsDb(db), Ided(db.t), Within(db.t, 21)
  PROVE  /\ IsDb(M0022(db)) /\ Evolves(22, db.t, M0022(db).t)
         /\ SameBut({"job", "motd"}, db.r, M0022(db).r)
         /\ CarriesConfigs(db) => M0022(db).r.job = db.r.motd /\ M0022(db).r.motd = "none"
         /\ ~CarriesConfigs(db) => M0022(db).r.job = db.r.job /\ M0022(db).r.motd = db.r.motd
         /\ CarriesConfigs(db) /\ ~M0022Fails(db) => InColumns(M0022(db), "display_jobs", "schedule_enabled")
         /\ ~Has(db.t, "display_jobs") => InColumns(M0022(db), "display_jobs", "schedule_enabled")
<1> DEFINE a == CreateTable(db, "display_jobs", LegacySchedule)
           b == CreateTable(a, "display_job_slots", {"rotation_index"})
           c == IF CarriesConfigs(db) THEN WithJob(b, db.r.motd, "none") ELSE b
           d == RebuildMessages(c)
           e == DropColumns(d, "devices", {"claimed_by_motd_config_id"})
           f == DropTable(e, "motd_device_assignments")
           g == DropTable(f, "motd_configs")
           messages == IF "config_id" \in db.t["motd_messages"] THEN {"id", "job_id", "displayed_at"} ELSE db.t["motd_messages"]
<1>1. Creates(db, a, "display_jobs", LegacySchedule)
  BY CreateEffect, Named
<1> HIDE DEF a
<1>2. Creates(a, b, "display_job_slots", {"rotation_index"})
  BY <1>1, CreateEffect, Named DEF Creates, Alters
<1>3. JobTables(db) = b
  BY DEF JobTables, a, b
<1> HIDE DEF b
<1>4. b.r = db.r /\ IsDb(b)
  BY <1>1, <1>2 DEF Creates, Alters
<1>5. /\ IsDb(c) /\ c.t = b.t /\ SameBut({"job", "motd"}, db.r, c.r)
      /\ CarriesConfigs(db) => c.r.job = db.r.motd /\ c.r.motd = "none"
      /\ ~CarriesConfigs(db) => c.r = db.r
  <2>1. CASE CarriesConfigs(db)
    BY <1>4, <2>1, CarriedJob
  <2>2. CASE ~CarriesConfigs(db)
    BY <1>4, <2>2 DEF SameBut, IsDb
  <2>. QED
    BY <2>1, <2>2
<1>6. M0022(db) = g
  BY <1>3 DEF M0022, WithJob, c, d, e, f, g
<1> HIDE DEF c
<1>7. c.t["motd_messages"] = db.t["motd_messages"]
  BY <1>1, <1>2, <1>5, Named DEF Creates, Alters
<1>8. Alters(c, d, "motd_messages", messages)
  BY <1>5, <1>7, Named DEF d, RebuildMessages, InColumns, IsDb, Alters
<1> HIDE DEF d
<1>9. Cuts(d, e, "devices", {"claimed_by_motd_config_id"})
  BY <1>8, DropEffect, Named DEF Alters
<1> HIDE DEF e
<1>10. Removes(e, f, "motd_device_assignments")
  BY <1>9, DropTableEffect, Named DEF Cuts, Alters
<1> HIDE DEF f
<1>11. Removes(f, g, "motd_configs")
  BY <1>10, DropTableEffect, Named DEF Removes, Alters
<1> HIDE DEF g
<1>12. IsDb(M0022(db)) /\ M0022(db).r = c.r
  BY <1>6, <1>8, <1>9, <1>10, <1>11 DEF Alters, Cuts, Removes
<1>13. ASSUME NEW x \in Tables
       PROVE  M0022(db).t[x] =
               CASE x = "display_jobs" -> Made(db.t[x], LegacySchedule)
                 [] x = "display_job_slots" -> Made(db.t[x], {"rotation_index"})
                 [] x = "motd_messages" -> messages
                 [] x = "devices" -> Cut(db.t[x], {"claimed_by_motd_config_id"})
                 [] x = "motd_device_assignments" -> {}
                 [] x = "motd_configs" -> {}
                 [] OTHER -> db.t[x]
  BY <1>1, <1>2, <1>5, <1>6, <1>8, <1>9, <1>10, <1>11 DEF Alters, Creates, Cuts, Removes
<1>14. db.t["motd_messages"] \subseteq {"id", "job_id", "displayed_at", "config_id"}
  <2>1. db.t["motd_messages"] \subseteq Allowed("motd_messages", 21)
    BY Named DEF Within
  <2>2. Allowed("motd_messages", 21) \subseteq {"id", "job_id", "displayed_at", "config_id"}
    BY TableNames, CurrentColumns DEF Allowed, Drops, Latest, Retired
  <2>. QED
    BY <2>1, <2>2
<1>15. Evolves(22, db.t, M0022(db).t)
  BY <1>13, <1>14, TableNames, CurrentColumns
  DEF Evolves, Makes, Stays, Ided, Later, Adds, Drops, Made, Cut, Latest, DeviceColumns, DisplayJobColumns,
      Cadence, LegacySchedule
<1>16. CarriesConfigs(db) /\ ~M0022Fails(db) => InColumns(M0022(db), "display_jobs", "schedule_enabled")
  BY <1>2, <1>3, <1>1, <1>13, Named DEF M0022Fails, InColumns, Creates, Alters
<1>17. ~Has(db.t, "display_jobs") => InColumns(M0022(db), "display_jobs", "schedule_enabled")
  BY <1>13, Named DEF Has, InColumns, Made, LegacySchedule
<1>. QED
  BY <1>5, <1>12, <1>15, <1>16, <1>17

LEMMA M0023Effect ==
  ASSUME NEW db, IsDb(db), Ided(db.t)
  PROVE  /\ IsDb(M0023(db)) /\ Evolves(23, db.t, M0023(db).t)
         /\ SameBut({"sched", "job"}, db.r, M0023(db).r)
         /\ M0023(db).r.sched = IF InColumns(db, "display_jobs", "schedule_enabled") /\ db.r.jobGrid
                                THEN (IF db.r.job = "scheduled" THEN "mask" ELSE "off") ELSE db.r.sched
         /\ M0023(db).r.job = IF InColumns(db, "display_jobs", "schedule_enabled") /\ db.r.job = "scheduled"
                              THEN "interval" ELSE db.r.job
         /\ Has(db.t, "grids") => InColumns(M0023(db), "grids", "display_time")
         /\ Has(db.t, "display_jobs") => InColumns(M0023(db), "display_jobs", "interval_minutes")
<1> DEFINE a == AddColumns(db, "grids", GridSchedule)
           b == AddColumns(a, "display_jobs", {"interval_minutes", "next_run_at", "last_run_at"})
           c == DropColumns(b, "display_jobs", LegacySchedule)
           sched == IF db.r.jobGrid THEN (IF db.r.job = "scheduled" THEN "mask" ELSE "off") ELSE db.r.sched
           job == IF db.r.job = "scheduled" THEN "interval" ELSE db.r.job
<1>1. Extends(db, a, "grids", GridSchedule)
  BY AddEffect, Named
<1> HIDE DEF a
<1>2. Extends(a, b, "display_jobs", {"interval_minutes", "next_run_at", "last_run_at"})
  BY <1>1, AddEffect, Named DEF Extends, Alters
<1> HIDE DEF b
<1>3. Cuts(b, c, "display_jobs", LegacySchedule)
  BY <1>2, DropEffect, Named DEF Extends, Alters
<1>4. M0023(db) = IF ~InColumns(db, "display_jobs", "schedule_enabled") THEN c
        ELSE [c EXCEPT !.r.sched = IF db.r.jobGrid THEN (IF db.r.job = "scheduled" THEN "mask" ELSE "off") ELSE @,
                       !.r.job = IF @ = "scheduled" THEN "interval" ELSE @]
  BY DEF M0023, a, b, c
<1> HIDE DEF c
<1>5. IsDb(c) /\ c.r = db.r
  BY <1>1, <1>2, <1>3 DEF Extends, Cuts, Alters
<1>6. /\ IsDb(M0023(db)) /\ M0023(db).t = c.t /\ SameBut({"sched", "job"}, db.r, M0023(db).r)
      /\ M0023(db).r.sched = IF InColumns(db, "display_jobs", "schedule_enabled") THEN sched ELSE db.r.sched
      /\ M0023(db).r.job = IF InColumns(db, "display_jobs", "schedule_enabled") THEN job ELSE db.r.job
  <2>1. CASE ~InColumns(db, "display_jobs", "schedule_enabled")
    BY <1>4, <1>5, <2>1 DEF SameBut, IsDb
  <2>2. CASE InColumns(db, "display_jobs", "schedule_enabled")
    <3>1. M0023(db) = WithSchedAndJob(c, sched, job)
      BY <1>4, <1>5, <2>2 DEF IsDb, RowFields, WithSchedAndJob
    <3> HIDE DEF sched, job
    <3>. QED
      BY <1>5, <2>2, <3>1, SchedAndJob
  <2>. QED
    BY <2>1, <2>2
<1>7. ASSUME NEW x \in Tables
      PROVE  M0023(db).t[x] =
               CASE x = "grids" -> Grown(db.t[x], GridSchedule)
                 [] x = "display_jobs" -> Cut(Grown(db.t[x], {"interval_minutes", "next_run_at", "last_run_at"}), LegacySchedule)
                 [] OTHER -> db.t[x]
  BY <1>1, <1>2, <1>3, <1>6 DEF Alters, Extends, Cuts
<1> HIDE DEF sched, job
<1>8. Evolves(23, db.t, M0023(db).t)
  BY <1>7, TableNames, CurrentColumns
  DEF Evolves, Makes, Stays, Ided, Later, Adds, Drops, Grown, Cut, Latest, GridColumns, GridSchedule, GridSession,
      DisplayJobColumns, Cadence, LegacySchedule
<1>9. /\ Has(db.t, "grids") => InColumns(M0023(db), "grids", "display_time")
      /\ Has(db.t, "display_jobs") => InColumns(M0023(db), "display_jobs", "interval_minutes")
  BY <1>7, Named DEF Has, InColumns, Grown, Cut, GridSchedule, GridSession, LegacySchedule
<1>. QED
  BY <1>6, <1>8, <1>9 DEF sched, job

LEMMA M0028Effect ==
  ASSUME NEW db, IsDb(db), Ided(db.t), ~M0028Fails(db)
  PROVE  /\ IsDb(M0028(db)) /\ Evolves(28, db.t, M0028(db).t)
         /\ SameBut({"shelf"}, db.r, M0028(db).r)
         /\ M0028(db).r.shelf = IF db.r.shelf = "absent" THEN "seeded" ELSE db.r.shelf
<1> DEFINE a == CreateCalibre(db)
<1>1. Alters(db, a, "calibre_sync_jobs", CalibreSyncJobColumns)
  <2>1. a = [t |-> [db.t EXCEPT !["calibre_sync_jobs"] = CalibreSyncJobColumns], r |-> db.r]
    BY DEF CreateCalibre, IsDb
  <2>. QED
    BY <2>1, Named DEF IsDb, Alters
<1> HIDE DEF a
<1>2. M0028(db) = [a EXCEPT !.r.shelf = IF @ = "absent" THEN "seeded" ELSE @]
  BY DEF M0028, SeedBookshelf, a
<1>3. /\ IsDb(M0028(db)) /\ M0028(db).t = a.t
      /\ SameBut({"shelf"}, db.r, M0028(db).r)
      /\ M0028(db).r.shelf = IF db.r.shelf = "absent" THEN "seeded" ELSE db.r.shelf
  BY <1>1, <1>2 DEF IsDb, Alters, SameBut, RowFields
<1>4. Evolves(28, db.t, M0028(db).t)
  BY <1>1, <1>3, TableNames, CurrentColumns
  DEF Evolves, Makes, Stays, Ided, Later, Adds, Drops, Alters, Latest, CalibreSyncJobColumns, M0028Fails, Has, Cadence
<1>. QED
  BY <1>3, <1>4

LEMMA M0029Effect ==
  ASSUME NEW db, IsDb(db), Ided(db.t)
  PROVE  /\ IsDb(M0029(db)) /\ Evolves(29, db.t, M0029(db).t)
         /\ SameBut({"model"}, db.r, M0029(db).r)
         /\ M0029(db).r.model = IF db.r.model = "retired" THEN "current" ELSE db.r.model
<1>1. /\ IsDb(M0029(db)) /\ M0029(db).t = db.t /\ SameBut({"model"}, db.r, M0029(db).r)
      /\ M0029(db).r.model = IF db.r.model = "retired" THEN "current" ELSE db.r.model
  BY DEF M0029, IsDb, SameBut, RowFields
<1>. QED
  BY <1>1 DEF Evolves, Makes, Stays, Ided, Adds, Drops

LEMMA M0030Effect ==
  ASSUME NEW db, IsDb(db), Ided(db.t)
  PROVE  /\ IsDb(M0030(db)) /\ Evolves(30, db.t, M0030(db).t)
         /\ SameBut({"humanoid", "scene"}, db.r, M0030(db).r)
         /\ M0030(db).r.humanoid = Replaced(db.r.humanoid) /\ M0030(db).r.scene = Replaced(db.r.scene)
<1>1. M0030(db) = WithHumanoidAndScene(db, Replaced(db.r.humanoid), Replaced(db.r.scene))
  BY DEF M0030, WithHumanoidAndScene, IsDb, RowFields
<1>2. /\ IsDb(M0030(db)) /\ M0030(db).t = db.t
      /\ SameBut({"humanoid", "scene"}, db.r, M0030(db).r)
      /\ M0030(db).r.humanoid = Replaced(db.r.humanoid) /\ M0030(db).r.scene = Replaced(db.r.scene)
  BY <1>1, HumanoidAndScene
<1>. QED
  BY <1>2 DEF Evolves, Makes, Stays, Ided, Adds, Drops

(* Every migration.                                                            *)
LEMMA Migrations ==
  ASSUME NEW db
  PROVE
    /\ Migration(1, db) = M0001(db) /\ Migration(2, db) = M0002(db) /\ Migration(3, db) = M0003(db)
    /\ Migration(4, db) = M0004(db) /\ Migration(5, db) = M0005(db) /\ Migration(6, db) = M0006(db)
    /\ Migration(7, db) = M0007(db) /\ Migration(8, db) = M0008(db) /\ Migration(9, db) = M0009(db)
    /\ Migration(10, db) = M0010(db) /\ Migration(11, db) = M0011(db) /\ Migration(12, db) = M0012(db)
    /\ Migration(13, db) = M0013(db) /\ Migration(14, db) = M0014(db) /\ Migration(15, db) = M0015(db)
    /\ Migration(16, db) = M0016(db) /\ Migration(17, db) = M0017(db) /\ Migration(18, db) = M0018(db)
    /\ Migration(19, db) = M0019(db) /\ Migration(20, db) = M0020(db) /\ Migration(21, db) = M0021(db)
    /\ Migration(22, db) = M0022(db) /\ Migration(23, db) = M0023(db) /\ Migration(24, db) = M0024(db)
    /\ Migration(25, db) = M0025(db) /\ Migration(26, db) = M0026(db) /\ Migration(27, db) = M0027(db)
    /\ Migration(28, db) = M0028(db) /\ Migration(29, db) = M0029(db) /\ Migration(30, db) = M0030(db)
  BY DEF Migration

(* A table within its bounds has its id.                                       *)
LEMMA WithinIded ==
  ASSUME NEW t, NEW v \in 0..Latest, Within(t, v)
  PROVE  Ided(t)
  BY DEF Within, Needed, Ided

(* Every migration that raises nothing evolves the tables.                     *)
LEMMA EachMigration ==
  ASSUME NEW n \in 1..Latest, NEW db, IsDb(db), Within(db.t, n - 1), ~Raises(n, db),
         n = 27 => InColumns(db, "grids", "display_time")
  PROVE  IsDb(Migration(n, db)) /\ Evolves(n, db.t, Migration(n, db).t)
<1>1. Ided(db.t)
  BY WithinIded DEF Latest
<1>2. CASE n = 1
  BY <1>1, <1>2, Migrations, M0001Effect
<1>3. CASE n = 2
  BY <1>1, <1>3, Migrations, M0002Effect
<1>4. CASE n = 3
  BY <1>1, <1>4, Migrations, M0003Effect
<1>5. CASE n = 4
  BY <1>1, <1>5, Migrations, M0004Effect
<1>6. CASE n = 5
  BY <1>1, <1>6, Migrations, M0005Effect
<1>7. CASE n = 6
  BY <1>1, <1>7, Migrations, M0006Effect
<1>8. CASE n = 7
  BY <1>1, <1>8, Migrations, M0007Effect
<1>9. CASE n = 8
  BY <1>1, <1>9, Migrations, M0008Effect
<1>10. CASE n = 9
  BY <1>1, <1>10, Migrations, M0009Effect
<1>11. CASE n = 10
  BY <1>1, <1>11, Migrations, M0010Effect
<1>12. CASE n = 11
  BY <1>1, <1>12, Migrations, M0011Effect
<1>13. CASE n = 12
  BY <1>1, <1>13, Migrations, M0012Effect
<1>14. CASE n = 13
  BY <1>1, <1>14, Migrations, M0013Effect
<1>15. CASE n = 14
  BY <1>1, <1>15, Migrations, M0014Effect
<1>16. CASE n = 15
  BY <1>1, <1>16, Migrations, M0015Effect
<1>17. CASE n = 16
  BY <1>1, <1>17, Migrations, M0016Effect
<1>18. CASE n = 17
  BY <1>1, <1>18, Migrations, M0017Effect
<1>19. CASE n = 18
  BY <1>1, <1>19, Migrations, M0018Effect
<1>20. CASE n = 19
  BY <1>1, <1>20, Migrations, M0019Effect
<1>21. CASE n = 20
  BY <1>1, <1>21, Migrations, M0020Effect
<1>22. CASE n = 21
  BY <1>1, <1>22, Migrations, M0021Effect
<1>23. CASE n = 22
  BY <1>1, <1>23, Migrations, M0022Effect DEF Raises
<1>24. CASE n = 23
  BY <1>1, <1>24, Migrations, M0023Effect
<1>25. CASE n = 24
  BY <1>1, <1>25, Migrations, M0024Effect
<1>26. CASE n = 25
  BY <1>1, <1>26, Migrations, M0025Effect
<1>27. CASE n = 26
  BY <1>1, <1>27, Migrations, M0026Effect
<1>28. CASE n = 27
  BY <1>1, <1>28, Migrations, M0027Effect
<1>29. CASE n = 28
  BY <1>1, <1>29, Migrations, M0028Effect DEF Raises
<1>30. CASE n = 29
  BY <1>1, <1>30, Migrations, M0029Effect
<1>31. CASE n = 30
  BY <1>1, <1>31, Migrations, M0030Effect
<1>. QED
  BY <1>2, <1>3, <1>4, <1>5, <1>6, <1>7, <1>8, <1>9, <1>10, <1>11, <1>12, <1>13, <1>14, <1>15, <1>16, <1>17, <1>18, <1>19, <1>20, <1>21, <1>22, <1>23, <1>24, <1>25, <1>26, <1>27, <1>28, <1>29, <1>30, <1>31 DEF Latest

(* A table of the models is never lost, and keeps the columns that are not taken. *)
LEMMA TablesStay ==
  ASSUME NEW n \in 1..Latest, NEW t, NEW u, Within(t, n - 1), Evolves(n, t, u),
         NEW name \in DOMAIN Models, t[name] # {}
  PROVE  u[name] # {} /\ t[name] \ Drops(n, name) \subseteq u[name]
<1>1. name \in Tables \ {"motd_messages_old"}
  BY TableNames
<1>2. "id" \in t[name] /\ "id" \notin Drops(n, name)
  BY <1>1, ModelsHaveIds, History DEF Within, Needed
<1>. QED
  BY <1>1, <1>2 DEF Evolves, Stays

(* The landmarks of a version lead to those of the next ...                    *)
LEMMA LandmarksStay ==
  ASSUME NEW n \in 1..Latest, NEW C, NEW db, NEW d, Within(db.t, n - 1), Evolves(n, db.t, d.t),
         Landmarks(db, n - 1, C),
         n = 22 /\ d.r.job = "scheduled" => InColumns(d, "display_jobs", "schedule_enabled"),
         n = 23 => /\ InColumns(d, "grids", "display_time")
                   /\ InColumns(d, "display_jobs", "interval_minutes"),
         d.r.motd # "none" => db.r.motd # "none" /\ n \notin {22, 24}
  PROVE  Landmarks(d, n, C)
<1>1. /\ n = 7 => Has(d.t, "device_profiles")
      /\ n = 8 => Has(d.t, "grids")
      /\ n = 11 => Has(d.t, "app_settings")
      /\ n = 22 => Has(d.t, "display_jobs")
      /\ n = 28 => Has(d.t, "calibre_sync_jobs")
  BY Named DEF Evolves, Makes, Has
<1>2. \A name \in DOMAIN Models : Has(db.t, name) => Has(d.t, name) /\ db.t[name] \ Drops(n, name) \subseteq d.t[name]
  BY TablesStay DEF Has
<1>3. /\ n >= 7 => Has(d.t, "device_profiles")
      /\ n >= 8 => Has(d.t, "grids")
      /\ n >= 11 => Has(d.t, "app_settings")
      /\ n >= 22 => Has(d.t, "display_jobs")
      /\ n >= 28 => Has(d.t, "calibre_sync_jobs")
  BY <1>1, <1>2, TableNames DEF Landmarks, Latest
<1>4. n < 28 /\ 28 \notin C => ~Has(d.t, "calibre_sync_jobs")
  <2>1. "calibre_sync_jobs" \notin Makes(n) \/ n = 28
    BY DEF Makes, Latest
  <2>. QED
    BY <2>1, Named DEF Landmarks, Latest, Evolves, Has
<1>5. 22 \notin C => ~Has(d.t, "motd_messages_old")
  BY DEF Landmarks, Evolves, Has
<1>6. ASSUME n \in 23..26
      PROVE  InColumns(d, "grids", "display_time")
  <2>1. CASE n = 23
    BY <2>1
  <2>2. CASE n # 23
    <3>1. "display_time" \in db.t["grids"]
      BY <1>6, <2>2 DEF Landmarks, InColumns
    <3>2. "display_time" \notin Drops(n, "grids")
      BY <1>6 DEF Drops, GridSession
    <3>. QED
      BY <1>2, <3>1, <3>2, TableNames DEF InColumns, Has
  <2>. QED
    BY <2>1, <2>2
<1>7. ASSUME n \in 23..25
      PROVE  InColumns(d, "display_jobs", "interval_minutes")
  <2>1. CASE n = 23
    BY <2>1
  <2>2. CASE n # 23
    <3>1. "interval_minutes" \in db.t["display_jobs"]
      BY <1>7, <2>2 DEF Landmarks, InColumns
    <3>2. "interval_minutes" \notin Drops(n, "display_jobs")
      BY <1>7, <2>2 DEF Drops
    <3>. QED
      BY <1>2, <3>1, <3>2, TableNames DEF InColumns, Has
  <2>. QED
    BY <2>1, <2>2
<1>8. ASSUME d.r.motd # "none"
      PROVE  Has(d.t, "motd_configs")
  <2>1. Has(db.t, "motd_configs") /\ n \notin {22, 24}
    BY <1>8 DEF Landmarks
  <2>2. "id" \in db.t["motd_configs"] /\ Drops(n, "motd_configs") = {}
    BY <2>1, Named DEF Within, Needed, Has, Drops
  <2>. QED
    BY <2>1, <2>2, Named DEF Evolves, Stays, Has
<1>. QED
  BY <1>3, <1>4, <1>5, <1>6, <1>7, <1>8 DEF Landmarks

(* ... and so do those of a file that has been in use.                         *)
LEMMA HeirloomsStay ==
  ASSUME NEW n \in 1..Latest, NEW C, NEW db, NEW d, Within(db.t, n - 1), Evolves(n, db.t, d.t),
         Heirlooms(db, n - 1, C), d.r.panel = db.r.panel,
         n = 20 /\ Has(db.t, "immich_sync_jobs") => InColumns(d, "immich_sync_jobs", "interval_minutes")
  PROVE  Heirlooms(d, n, C)
<1> SUFFICES ASSUME d.r.panel # "none"
             PROVE  /\ Has(d.t, "devices") /\ Has(d.t, "immich_sync_jobs")
                    /\ n < 3 /\ 3 \notin C => ~InColumns(d, "devices", "last_seen")
                    /\ n < 7 => /\ InColumns(d, "devices", "display_model")
                                /\ InColumns(d, "immich_sync_jobs", "target_device_id")
                    /\ n \in 20..25 => InColumns(d, "immich_sync_jobs", "interval_minutes")
  BY DEF Heirlooms
<1>1. /\ Has(db.t, "devices") /\ Has(db.t, "immich_sync_jobs")
      /\ n - 1 < 3 /\ 3 \notin C => ~InColumns(db, "devices", "last_seen")
      /\ n - 1 < 7 => /\ InColumns(db, "devices", "display_model")
                      /\ InColumns(db, "immich_sync_jobs", "target_device_id")
      /\ n - 1 \in 20..25 => InColumns(db, "immich_sync_jobs", "interval_minutes")
  BY DEF Heirlooms
<1>2. \A name \in {"devices", "immich_sync_jobs"} : Has(d.t, name) /\ db.t[name] \ Drops(n, name) \subseteq d.t[name]
  BY <1>1, TablesStay, TableNames DEF Has
<1>3. ASSUME n < 3, 3 \notin C
      PROVE  ~InColumns(d, "devices", "last_seen")
  <2>1. "last_seen" \notin db.t["devices"] /\ db.t["devices"] # {}
    BY <1>1, <1>3 DEF InColumns, Has, Latest
  <2>2. d.t["devices"] \subseteq Later(n, "devices") \cup db.t["devices"] \cup Adds(n, "devices")
    BY <2>1, Named DEF Evolves
  <2>3. "last_seen" \notin Later(n, "devices") /\ "last_seen" \notin Adds(n, "devices")
    <3>1. n \in {1, 2}
      BY <1>3 DEF Latest
    <3>2. "last_seen" \notin Adds(n, "devices")
      BY <3>1 DEF Adds
    <3>3. \A k \in 1..Latest : "last_seen" \notin Drops(k, "devices")
      BY History, Named, CurrentColumns DEF DeviceColumns
    <3>. QED
      BY <3>1, <3>2, <3>3 DEF Later, Latest
  <2>. QED
    BY <2>1, <2>2, <2>3 DEF InColumns
<1>4. ASSUME n < 7
      PROVE  InColumns(d, "devices", "display_model") /\ InColumns(d, "immich_sync_jobs", "target_device_id")
  <2>1. Drops(n, "devices") = {} /\ Drops(n, "immich_sync_jobs") = {}
    BY <1>4 DEF Drops
  <2>. QED
    BY <1>1, <1>2, <1>4, <2>1 DEF InColumns, Latest
<1>5. ASSUME n \in 20..25
      PROVE  InColumns(d, "immich_sync_jobs", "interval_minutes")
  <2>1. CASE n = 20
    BY <1>1, <2>1
  <2>2. CASE n # 20
    <3>1. Drops(n, "immich_sync_jobs") = {}
      BY <1>5 DEF Drops
    <3>. QED
      BY <1>1, <1>2, <1>5, <2>2, <3>1 DEF InColumns
  <2>. QED
    BY <2>1, <2>2
<1>. QED
  BY <1>2, <1>3, <1>4, <1>5

(* What migration n writes to the rows.                                        *)
Writes(n, db, s) ==
  LET r == db.r IN
  /\ DOMAIN s = RowFields
  /\ s.panel = r.panel /\ s.jobGrid = r.jobGrid /\ s.shows = r.shows
  /\ s.seen = IF n = 3 /\ Has(db.t, "devices") /\ ~InColumns(db, "devices", "last_seen")
              THEN (IF r.panel = "none" THEN NULL ELSE "set") ELSE r.seen
  /\ s.profile = IF n # 7 THEN r.profile
                 ELSE IF r.panel = "none" THEN NULL
                 ELSE IF {"display_width", "display_height", "display_model"} \cap db.t["devices"] # {}
                 THEN ProfileOf(r.panel)
                 ELSE IF r.profile = NULL THEN "default" ELSE r.profile
  /\ s.target = IF n = 7 /\ InColumns(db, "immich_sync_jobs", "target_device_id") /\ r.target = NULL
                THEN s.profile ELSE r.target
  /\ s.image = IF n = 2 /\ InColumns(db, "immich_sync_jobs", "target_device_id") /\ r.image = "raster"
               THEN "panel" ELSE r.image
  /\ s.ids = IF n = 6 THEN "hex" ELSE r.ids
  /\ s.cadence = IF n = 20 /\ r.cadence = "external" THEN "interval"
                 ELSE IF n = 26 /\ InColumns(db, "immich_sync_jobs", "interval_minutes") /\ r.cadence = "interval"
                 THEN "cron" ELSE r.cadence
  /\ s.text = [b \in Blocks |-> s.text[b]]
  /\ \A b \in Blocks :
       s.text[b] = IF n = 4 /\ r.text[b] = "absent" THEN "seed4"
                   ELSE IF n = 13 /\ r.text[b] = "seed4" THEN "seed13"
                   ELSE IF n = 15 /\ b = "style" /\ r.text[b] = "seed13" THEN "seed15" ELSE r.text[b]
  /\ s.humanoid = IF n = 4 /\ r.humanoid = "absent" THEN "retiring"
                  ELSE IF n = 30 THEN Replaced(r.humanoid) ELSE r.humanoid
  /\ s.scene \in IF n = 15 /\ r.scene = "absent" THEN {"absent", "retiring"}
                 ELSE IF n = 30 THEN {Replaced(r.scene)} ELSE {r.scene}
  /\ s.model = IF n = 29 /\ r.model = "retired" THEN "current" ELSE r.model
  /\ s.shelf = IF n = 28 /\ r.shelf = "absent" THEN "seeded" ELSE r.shelf
  /\ s.motd = IF n = 22 /\ CarriesConfigs(db) THEN "none" ELSE r.motd
  /\ s.job = IF n = 22 /\ CarriesConfigs(db) THEN r.motd
             ELSE IF n = 23 /\ InColumns(db, "display_jobs", "schedule_enabled") /\ r.job = "scheduled"
             THEN "interval"
             ELSE IF n = 26 /\ InColumns(db, "display_jobs", "interval_minutes") /\ r.job = "interval"
             THEN "cron" ELSE r.job
  /\ s.sched = IF n = 23 /\ InColumns(db, "display_jobs", "schedule_enabled") /\ r.jobGrid
               THEN (IF r.job = "scheduled" THEN "mask" ELSE "off")
               ELSE IF n = 27 /\ r.sched = "mask" THEN "cron" ELSE r.sched
  /\ s.lease = IF n = 27 THEN (IF r.sched = "mask" THEN "set" ELSE NULL) ELSE r.lease
  /\ s.hold = IF n = 25 /\ r.shows /\ r.hold = NULL THEN "set" ELSE r.hold

(* The rows a migration keeps, field by field.                                 *)
LEMMA KeptFields ==
  ASSUME NEW fields, NEW r, NEW s, SameBut(fields, r, s)
  PROVE  /\ DOMAIN s = RowFields
         /\ "panel" \notin fields => s.panel = r.panel
         /\ "seen" \notin fields => s.seen = r.seen
         /\ "profile" \notin fields => s.profile = r.profile
         /\ "image" \notin fields => s.image = r.image
         /\ "target" \notin fields => s.target = r.target
         /\ "cadence" \notin fields => s.cadence = r.cadence
         /\ "text" \notin fields => s.text = r.text
         /\ "ids" \notin fields => s.ids = r.ids
         /\ "humanoid" \notin fields => s.humanoid = r.humanoid
         /\ "scene" \notin fields => s.scene = r.scene
         /\ "shelf" \notin fields => s.shelf = r.shelf
         /\ "motd" \notin fields => s.motd = r.motd
         /\ "job" \notin fields => s.job = r.job
         /\ "jobGrid" \notin fields => s.jobGrid = r.jobGrid
         /\ "model" \notin fields => s.model = r.model
         /\ "sched" \notin fields => s.sched = r.sched
         /\ "lease" \notin fields => s.lease = r.lease
         /\ "shows" \notin fields => s.shows = r.shows
         /\ "hold" \notin fields => s.hold = r.hold
  BY DEF SameBut, RowFields

(* Every migration that raises nothing writes that.                            *)
LEMMA EachWrites ==
  ASSUME NEW n \in 1..Latest, NEW db, IsDb(db), Within(db.t, n - 1), ~Raises(n, db),
         n = 27 => InColumns(db, "grids", "display_time"), db.r.text = [b \in Blocks |-> db.r.text[b]]
  PROVE  Writes(n, db, Migration(n, db).r)
<1>1. Ided(db.t)
  BY WithinIded DEF Latest
<1>2. CASE n = 1
  <2>1. Migration(n, db).r = db.r
    BY <1>1, <1>2, Migrations, M0001Effect
  <2>. QED
    BY <1>2, <2>1 DEF Writes, IsDb
<1>3. CASE n = 2
  <2>1. Migration(n, db) = M0002(db) /\ SameBut({"image"}, db.r, M0002(db).r)
    BY <1>1, <1>3, Migrations, M0002Effect
  <2>. QED
    BY <1>1, <1>3, <2>1, KeptFields, M0002Effect DEF Writes
<1>4. CASE n = 3
  <2>1. Migration(n, db) = M0003(db) /\ SameBut({"seen"}, db.r, M0003(db).r)
    BY <1>1, <1>4, Migrations, M0003Effect
  <2>. QED
    BY <1>1, <1>4, <2>1, KeptFields, M0003Effect DEF Writes
<1>5. CASE n = 4
  <2> DEFINE s == Migration(n, db).r
  <2>1. /\ Migration(n, db) = M0004(db) /\ SameBut({"text", "humanoid"}, db.r, s)
        /\ s.humanoid = IF db.r.humanoid = "absent" THEN "retiring" ELSE db.r.humanoid
        /\ s.text = [b \in Blocks |-> IF db.r.text[b] = "absent" THEN "seed4" ELSE db.r.text[b]]
    BY <1>1, <1>5, Migrations, M0004Effect
  <2> HIDE DEF s
  <2>2. /\ s.text = [b \in Blocks |-> s.text[b]]
        /\ \A b \in Blocks : s.text[b] = IF db.r.text[b] = "absent" THEN "seed4" ELSE db.r.text[b]
    BY <2>1
  <2>. QED
    BY <1>5, <2>1, <2>2, KeptFields DEF Writes, s
<1>6. CASE n = 5
  <2>1. Migration(n, db).r = db.r
    BY <1>1, <1>6, Migrations, M0005Effect
  <2>. QED
    BY <1>6, <2>1 DEF Writes, IsDb
<1>7. CASE n = 6
  <2>1. Migration(n, db) = M0006(db) /\ SameBut({"ids"}, db.r, M0006(db).r)
    BY <1>1, <1>7, Migrations, M0006Effect
  <2>. QED
    BY <1>1, <1>7, <2>1, KeptFields, M0006Effect DEF Writes
<1>8. CASE n = 7
  <2>1. Migration(n, db) = M0007(db) /\ SameBut({"profile", "target"}, db.r, M0007(db).r)
    BY <1>1, <1>8, Migrations, M0007Effect
  <2>. QED
    BY <1>1, <1>8, <2>1, KeptFields, M0007Effect DEF Writes
<1>9. CASE n = 8
  <2>1. Migration(n, db).r = db.r
    BY <1>1, <1>9, Migrations, M0008Effect
  <2>. QED
    BY <1>9, <2>1 DEF Writes, IsDb
<1>10. CASE n = 9
  <2>1. Migration(n, db).r = db.r
    BY <1>1, <1>10, Migrations, M0009Effect
  <2>. QED
    BY <1>10, <2>1 DEF Writes, IsDb
<1>11. CASE n = 10
  <2>1. Migration(n, db).r = db.r
    BY <1>1, <1>11, Migrations, M0010Effect
  <2>. QED
    BY <1>11, <2>1 DEF Writes, IsDb
<1>12. CASE n = 11
  <2>1. Migration(n, db).r = db.r
    BY <1>1, <1>12, Migrations, M0011Effect
  <2>. QED
    BY <1>12, <2>1 DEF Writes, IsDb
<1>13. CASE n = 12
  <2>1. Migration(n, db).r = db.r
    BY <1>1, <1>13, Migrations, M0012Effect
  <2>. QED
    BY <1>13, <2>1 DEF Writes, IsDb
<1>14. CASE n = 13
  <2> DEFINE s == Migration(n, db).r
  <2>1. /\ Migration(n, db) = M0013(db) /\ SameBut({"text"}, db.r, s)
        /\ s.text = [b \in Blocks |-> IF db.r.text[b] = "seed4" THEN "seed13" ELSE db.r.text[b]]
    BY <1>1, <1>14, Migrations, M0013Effect
  <2> HIDE DEF s
  <2>2. /\ s.text = [b \in Blocks |-> s.text[b]]
        /\ \A b \in Blocks : s.text[b] = IF db.r.text[b] = "seed4" THEN "seed13" ELSE db.r.text[b]
    BY <2>1
  <2>. QED
    BY <1>14, <2>1, <2>2, KeptFields DEF Writes, s
<1>15. CASE n = 14
  <2>1. Migration(n, db).r = db.r
    BY <1>1, <1>15, Migrations, M0014Effect
  <2>. QED
    BY <1>15, <2>1 DEF Writes, IsDb
<1>16. CASE n = 15
  <2> DEFINE s == Migration(n, db).r
  <2>1. /\ Migration(n, db) = M0015(db) /\ SameBut({"text", "scene"}, db.r, s)
        /\ s.scene \in {db.r.scene, IF db.r.scene = "absent" THEN "retiring" ELSE db.r.scene}
        /\ s.text = [b \in Blocks |-> IF b = "style" /\ db.r.text[b] = "seed13" THEN "seed15" ELSE db.r.text[b]]
    BY <1>1, <1>16, Migrations, M0015Effect
  <2> HIDE DEF s
  <2>2. /\ s.text = [b \in Blocks |-> s.text[b]]
        /\ \A b \in Blocks : s.text[b] = IF b = "style" /\ db.r.text[b] = "seed13" THEN "seed15" ELSE db.r.text[b]
    BY <2>1
  <2>. QED
    BY <1>16, <2>1, <2>2, KeptFields DEF Writes, s
<1>17. CASE n = 16
  <2>1. Migration(n, db).r = db.r
    BY <1>1, <1>17, Migrations, M0016Effect
  <2>. QED
    BY <1>17, <2>1 DEF Writes, IsDb
<1>18. CASE n = 17
  <2>1. Migration(n, db).r = db.r
    BY <1>1, <1>18, Migrations, M0017Effect
  <2>. QED
    BY <1>18, <2>1 DEF Writes, IsDb
<1>19. CASE n = 18
  <2>1. Migration(n, db).r = db.r
    BY <1>1, <1>19, Migrations, M0018Effect
  <2>. QED
    BY <1>19, <2>1 DEF Writes, IsDb
<1>20. CASE n = 19
  <2>1. Migration(n, db).r = db.r
    BY <1>1, <1>20, Migrations, M0019Effect
  <2>. QED
    BY <1>20, <2>1 DEF Writes, IsDb
<1>21. CASE n = 20
  <2>1. Migration(n, db) = M0020(db) /\ SameBut({"cadence"}, db.r, M0020(db).r)
    BY <1>1, <1>21, Migrations, M0020Effect
  <2>. QED
    BY <1>1, <1>21, <2>1, KeptFields, M0020Effect DEF Writes
<1>22. CASE n = 21
  <2>1. Migration(n, db).r = db.r
    BY <1>1, <1>22, Migrations, M0021Effect
  <2>. QED
    BY <1>22, <2>1 DEF Writes, IsDb
<1>23. CASE n = 22
  <2>1. Migration(n, db) = M0022(db) /\ SameBut({"job", "motd"}, db.r, M0022(db).r)
    BY <1>1, <1>23, Migrations, M0022Effect DEF Raises
  <2>. QED
    BY <1>1, <1>23, <2>1, KeptFields, M0022Effect DEF Writes, Raises
<1>24. CASE n = 23
  <2>1. Migration(n, db) = M0023(db) /\ SameBut({"sched", "job"}, db.r, M0023(db).r)
    BY <1>1, <1>24, Migrations, M0023Effect
  <2>. QED
    BY <1>1, <1>24, <2>1, KeptFields, M0023Effect DEF Writes
<1>25. CASE n = 24
  <2>1. Migration(n, db).r = db.r
    BY <1>1, <1>25, Migrations, M0024Effect
  <2>. QED
    BY <1>25, <2>1 DEF Writes, IsDb
<1>26. CASE n = 25
  <2>1. Migration(n, db) = M0025(db) /\ SameBut({"hold"}, db.r, M0025(db).r)
    BY <1>1, <1>26, Migrations, M0025Effect
  <2>. QED
    BY <1>1, <1>26, <2>1, KeptFields, M0025Effect DEF Writes
<1>27. CASE n = 26
  <2>1. Migration(n, db) = M0026(db) /\ SameBut({"cadence", "job"}, db.r, M0026(db).r)
    BY <1>1, <1>27, Migrations, M0026Effect
  <2>. QED
    BY <1>1, <1>27, <2>1, KeptFields, M0026Effect DEF Writes, Croned
<1>28. CASE n = 27
  <2>1. Migration(n, db) = M0027(db) /\ SameBut({"lease", "sched"}, db.r, M0027(db).r)
    BY <1>1, <1>28, Migrations, M0027Effect
  <2>. QED
    BY <1>1, <1>28, <2>1, KeptFields, M0027Effect DEF Writes
<1>29. CASE n = 28
  <2>1. Migration(n, db) = M0028(db) /\ SameBut({"shelf"}, db.r, M0028(db).r)
    BY <1>1, <1>29, Migrations, M0028Effect DEF Raises
  <2>. QED
    BY <1>1, <1>29, <2>1, KeptFields, M0028Effect DEF Writes, Raises
<1>30. CASE n = 29
  <2>1. Migration(n, db) = M0029(db) /\ SameBut({"model"}, db.r, M0029(db).r)
    BY <1>1, <1>30, Migrations, M0029Effect
  <2>. QED
    BY <1>1, <1>30, <2>1, KeptFields, M0029Effect DEF Writes
<1>31. CASE n = 30
  <2>1. Migration(n, db) = M0030(db) /\ SameBut({"humanoid", "scene"}, db.r, M0030(db).r)
    BY <1>1, <1>31, Migrations, M0030Effect
  <2>. QED
    BY <1>1, <1>31, <2>1, KeptFields, M0030Effect DEF Writes
<1>. QED
  BY <1>2, <1>3, <1>4, <1>5, <1>6, <1>7, <1>8, <1>9, <1>10, <1>11, <1>12, <1>13, <1>14, <1>15, <1>16, <1>17, <1>18, <1>19, <1>20, <1>21, <1>22, <1>23, <1>24, <1>25, <1>26, <1>27, <1>28, <1>29, <1>30, <1>31 DEF Latest

(* The rows a migration leaves are rows of its release.                        *)
LEMMA RowsMove ==
  ASSUME NEW n \in 1..Latest, NEW C, NEW db, NEW s, Writes(n, db, s), RowsOK(db.r, n - 1, C),
         Landmarks(db, n - 1, C), Heirlooms(db, n - 1, C)
  PROVE  RowsOK(s, n, C)
<1> DEFINE r == db.r
<1>1. RowTypes(r) /\ Seeded(r, n - 1) /\ Synced(r, n - 1, C) /\ Scheduled(r, n - 1)
  BY DEF RowsOK
<1>2. r.panel # "none" => /\ Has(db.t, "devices")
                          /\ n = 3 /\ 3 \notin C => ~InColumns(db, "devices", "last_seen")
                          /\ n \in {2, 7} => InColumns(db, "immich_sync_jobs", "target_device_id")
                          /\ n = 7 => "display_model" \in db.t["devices"]
                          /\ n = 26 => InColumns(db, "immich_sync_jobs", "interval_minutes")
  BY DEF Heirlooms, InColumns
<1>3. /\ r.motd # "none" => Has(db.t, "motd_configs")
      /\ n = 23 /\ r.job = "scheduled" => InColumns(db, "display_jobs", "schedule_enabled")
      /\ n = 26 => InColumns(db, "display_jobs", "interval_minutes")
  BY DEF Landmarks
<1>4. s.text \in [Blocks -> Texts]
  <2>1. \A b \in Blocks : s.text[b] \in Texts
    BY <1>1 DEF Writes, RowTypes, Texts
  <2>. QED
    BY <2>1 DEF Writes
<1>5. RowTypes(s)
  <2>1. s.profile \in Profiles /\ s.target \in Profiles
    BY <1>1 DEF Writes, RowTypes, Profiles, ProfileOf
  <2>2. s.humanoid \in Presets /\ s.scene \in Presets
    BY <1>1 DEF Writes, RowTypes, Presets, Replaced
  <2>. QED
    BY <1>1, <1>4, <2>1, <2>2 DEF Writes, RowTypes
<1>6. Seeded(s, n)
  BY <1>1 DEF Writes, Seeded, Replaced, Blocks, Latest
<1>7. Synced(s, n, C)
  <2>1. s.ids = "dashed" => n \in {4, 5}
    BY <1>1 DEF Writes, Synced
  <2>2. s.image = "raster" => n = 1 /\ s.panel # "none"
    BY <1>1, <1>2 DEF Writes, Synced, Latest
  <2>3. ASSUME s.panel # "none"
        PROVE  s.profile = (IF n < 7 THEN NULL ELSE ProfileOf(s.panel)) /\ s.target = s.profile
    BY <1>1, <1>2, <2>3 DEF Writes, Synced, Latest
  <2>4. ASSUME s.panel # "none", n >= 3, 3 \notin C
        PROVE  s.seen = "set"
    BY <1>1, <1>2, <2>4 DEF Writes, Synced, Latest
  <2>5. s.shows /\ n >= 25 => s.hold = "set"
    BY <1>1 DEF Writes, Synced, RowTypes
  <2>. QED
    BY <2>1, <2>2, <2>3, <2>4, <2>5 DEF Synced
<1>8. Scheduled(s, n)
  <2>1. /\ s.cadence # "none" => s.panel # "none"
        /\ s.cadence = "external" => n < 20
        /\ s.cadence \in {"manual", "interval"} => n >= 20
        /\ s.cadence = "interval" => n < 26
        /\ s.cadence = "cron" => n >= 26
    BY <1>1, <1>2 DEF Writes, Scheduled, Latest
  <2>2. s.motd # "none" => n \in 15..21
    BY <1>1, <1>3 DEF Writes, Scheduled, Latest, CarriesConfigs
  <2>3. /\ s.job # "none" => n >= 22
        /\ s.job = "scheduled" => n = 22
        /\ s.job = "interval" => n \in 23..25
        /\ s.job = "cron" => n >= 26
    BY <1>1, <1>3 DEF Writes, Scheduled, RowTypes, Latest
  <2>4. /\ s.sched = "mask" => n \in 23..26
        /\ s.sched = "cron" => n >= 27 /\ s.lease = "set"
    BY <1>1 DEF Writes, Scheduled, Latest
  <2>. QED
    BY <2>1, <2>2, <2>3, <2>4 DEF Scheduled
<1>. QED
  BY <1>5, <1>6, <1>7, <1>8 DEF RowsOK

(* And what they had at first is still in them.                                *)
LEMMA FirstRowsStay ==
  ASSUME NEW n \in 1..Latest, NEW C, NEW db, NEW s, Writes(n, db, s), RowsOK(db.r, n - 1, C),
         Landmarks(db, n - 1, C), NEW o, NEW u \in 0..Latest, RowsOK(o, u, {}), CarriedOver(o, u, db.r, n - 1)
  PROVE  CarriedOver(o, u, s, n)
<1> DEFINE r == db.r
<1>1. /\ u <= n - 1 /\ r.panel = o.panel /\ r.jobGrid = o.jobGrid
      /\ \A c \in {"none", "manual"} : r.cadence = c <=> o.cadence = c
      /\ o.motd = "none" => r.motd = "none"
      /\ o.motd = "scheduled" => IF n - 1 < 22 THEN r.motd = "scheduled" ELSE r.job \notin {"none", "idle"}
      /\ o.job \notin {"none", "idle"} => r.job \notin {"none", "idle"}
      /\ o.sched # "off" \/ (o.job = "scheduled" /\ o.jobGrid) =>
           IF n - 1 = 22 THEN r.job = "scheduled" ELSE r.sched # "off"
      /\ \A b \in Blocks : o.text[b] = "edited" \/ (o.text[b] = "absent" /\ u >= 4) => r.text[b] = o.text[b]
      /\ o.scene = "chosen" => r.scene = "chosen"
      /\ o.model = "own" => r.model = "own"
      /\ u < 29 /\ n - 1 >= 29 => r.model # "retired"
  BY DEF CarriedOver
<1>2. RowTypes(r) /\ Scheduled(r, n - 1) /\ Scheduled(o, u) /\ Seeded(o, u) /\ RowTypes(o)
  BY DEF RowsOK
<1>3. /\ r.motd # "none" => Has(db.t, "motd_configs")
      /\ n = 23 /\ r.job = "scheduled" => InColumns(db, "display_jobs", "schedule_enabled")
  BY DEF Landmarks
<1>4. /\ u <= n /\ s.panel = o.panel /\ s.jobGrid = o.jobGrid
      /\ \A c \in {"none", "manual"} : s.cadence = c <=> o.cadence = c
      /\ o.motd = "none" => s.motd = "none"
      /\ o.scene = "chosen" => s.scene = "chosen"
  BY <1>1, <1>2 DEF Writes, Replaced
<1>5. o.motd = "scheduled" => IF n < 22 THEN s.motd = "scheduled" ELSE s.job \notin {"none", "idle"}
  BY <1>1, <1>2, <1>3 DEF Writes, CarriesConfigs, Latest
<1>6. o.job \notin {"none", "idle"} => s.job \notin {"none", "idle"}
  BY <1>1, <1>2 DEF Writes, Scheduled, Latest
<1>7. ASSUME o.sched # "off" \/ (o.job = "scheduled" /\ o.jobGrid)
      PROVE  IF n = 22 THEN s.job = "scheduled" ELSE s.sched # "off"
  <2>1. u >= 22 /\ n >= 23
    BY <1>1, <1>2, <1>7 DEF Scheduled, RowTypes, Latest
  <2>2. CASE n = 23
    BY <1>1, <1>2, <1>3, <1>7, <2>1, <2>2 DEF Writes, Scheduled, RowTypes
  <2>3. CASE n > 23
    BY <1>1, <1>2, <1>7, <2>1, <2>3 DEF Writes, RowTypes
  <2>. QED
    BY <2>1, <2>2, <2>3 DEF Latest
<1>8. ASSUME NEW b \in Blocks, o.text[b] = "edited" \/ (o.text[b] = "absent" /\ u >= 4)
      PROVE  s.text[b] = o.text[b]
  BY <1>1, <1>2, <1>8 DEF Writes, Seeded, Blocks, Latest
<1>9. /\ o.model = "own" => s.model = "own"
      /\ u < 30 /\ n = 30 => s.scene # "retiring"
      /\ u < 29 /\ n >= 29 => s.model # "retired"
  BY <1>1 DEF Writes, Replaced, Latest
<1>. QED
  BY <1>4, <1>5, <1>6, <1>7, <1>8, <1>9 DEF CarriedOver

(* A migration that runs to its end.                                           *)
LEMMA FileMoves ==
  ASSUME NEW n \in 1..Latest, NEW C, NEW db, FileOK(db, n - 1, C), ~Raises(n, db)
  PROVE  /\ FileOK(Migration(n, db), n, C)
         /\ Evolves(n, db.t, Migration(n, db).t) /\ Writes(n, db, Migration(n, db).r)
<1> DEFINE d == Migration(n, db)
<1>1. /\ IsDb(db) /\ Within(db.t, n - 1) /\ Landmarks(db, n - 1, C) /\ Heirlooms(db, n - 1, C)
      /\ RowsOK(db.r, n - 1, C)
  BY DEF FileOK
<1>2. n = 27 => InColumns(db, "grids", "display_time")
  BY <1>1 DEF Landmarks
<1>3. IsDb(d) /\ Evolves(n, db.t, d.t)
  BY <1>1, <1>2, EachMigration
<1>4. db.r.text = [b \in Blocks |-> db.r.text[b]]
  BY <1>1 DEF RowsOK, RowTypes
<1>5. Writes(n, db, d.r)
  BY <1>1, <1>2, <1>4, EachWrites
<1>6. Within(d.t, n)
  BY <1>1, <1>3, EvolvesWithin
<1>7. RowsOK(d.r, n, C)
  BY <1>1, <1>5, RowsMove
<1>8. n = 22 /\ d.r.job = "scheduled" => InColumns(d, "display_jobs", "schedule_enabled")
  <2>1. SUFFICES ASSUME n = 22, d.r.job = "scheduled"
                 PROVE  InColumns(d, "display_jobs", "schedule_enabled")
    OBVIOUS
  <2>2. db.r.job = "none"
    BY <1>1, <2>1 DEF RowsOK, Scheduled, RowTypes
  <2>3. CarriesConfigs(db)
    BY <1>5, <2>1, <2>2 DEF Writes
  <2>4. d = M0022(db) /\ ~M0022Fails(db) /\ Ided(db.t)
    BY <1>1, <2>1, Migrations, WithinIded DEF Raises, Latest
  <2>. QED
    BY <1>1, <2>1, <2>3, <2>4, M0022Effect
<1>9. n = 23 => InColumns(d, "grids", "display_time") /\ InColumns(d, "display_jobs", "interval_minutes")
  <2>1. SUFFICES ASSUME n = 23
                 PROVE  InColumns(d, "grids", "display_time") /\ InColumns(d, "display_jobs", "interval_minutes")
    OBVIOUS
  <2>2. Has(db.t, "grids") /\ Has(db.t, "display_jobs")
    BY <1>1, <2>1 DEF Landmarks
  <2>3. d = M0023(db) /\ Ided(db.t)
    BY <1>1, <2>1, Migrations, WithinIded DEF Latest
  <2>. QED
    BY <1>1, <2>2, <2>3, M0023Effect
<1>10. n = 20 /\ Has(db.t, "immich_sync_jobs") => InColumns(d, "immich_sync_jobs", "interval_minutes")
  BY <1>1, Migrations, WithinIded, M0020Effect DEF Latest
<1>11. d.r.motd # "none" => db.r.motd # "none" /\ n \notin {22, 24}
  <2>1. db.r.motd # "none" => n - 1 \in 15..21 /\ Has(db.t, "motd_configs")
    BY <1>1 DEF RowsOK, Scheduled, Landmarks
  <2>. QED
    BY <1>5, <2>1 DEF Writes, CarriesConfigs
<1>12. Landmarks(d, n, C)
  BY <1>1, <1>3, <1>8, <1>9, <1>11, LandmarksStay
<1>13. Heirlooms(d, n, C)
  BY <1>1, <1>3, <1>5, <1>10, HeirloomsStay DEF Writes
<1>. QED
  BY <1>3, <1>5, <1>6, <1>7, <1>12, <1>13 DEF FileOK

(* Tables that start-up makes in the shape of today's models.                  *)
LEMMA FileFilled ==
  ASSUME NEW v \in 0..Latest, NEW C, NEW db, FileOK(db, v, C), NEW names \in SUBSET Created
  PROVE  /\ FileOK([t |-> CreateMissing(db.t, names), r |-> db.r], v, C)
         /\ \A name \in names : Has(CreateMissing(db.t, names), name)
         /\ \A name \in Tables : Has(db.t, name) => CreateMissing(db.t, names)[name] = db.t[name]
<1> DEFINE u == CreateMissing(db.t, names)
           d == [t |-> u, r |-> db.r]
<1>1. /\ IsDb(db) /\ Within(db.t, v) /\ Landmarks(db, v, C) /\ Heirlooms(db, v, C) /\ RowsOK(db.r, v, C)
  BY DEF FileOK
<1>2. names \subseteq DOMAIN Models \ {"device_profiles", "app_settings", "calibre_sync_jobs"}
  <2>1. Created = {"images", "grids", "prompt_blocks", "prompt_presets", "devices", "grid_devices",
                   "immich_sync_jobs", "gemini_sync_jobs", "display_jobs", "display_job_slots",
                   "image_groups", "sync_job_runs", "generation_tasks"}
    BY DEF Created, CreateOrder
  <2>. QED
    BY <2>1, TableNames
<1>3. /\ u = [name \in Tables |-> u[name]]
      /\ \A name \in Tables : u[name] = IF name \in names /\ db.t[name] = {} THEN Models[name] ELSE db.t[name]
  BY DEF CreateMissing, Has
<1> HIDE DEF u
<1>4. IsDb(d)
  BY <1>1, <1>3 DEF IsDb
<1>5. Within(u, v)
  <2>1. SUFFICES ASSUME NEW name \in Tables \ {"motd_messages_old"}
                 PROVE  /\ u[name] # {} => Needed(name, v) \subseteq u[name]
                        /\ u[name] \subseteq Allowed(name, v)
    BY DEF Within
  <2>2. CASE name \in names /\ db.t[name] = {}
    <3>1. name \in DOMAIN Models
      BY <1>2, <2>2
    <3>. QED
      BY <1>3, <2>2, <3>1, NeededIsCurrent, ModelsHaveIds DEF Allowed
  <2>3. CASE ~(name \in names /\ db.t[name] = {})
    BY <1>1, <1>3, <2>3 DEF Within
  <2>. QED
    BY <2>2, <2>3
<1>6. \A name \in Tables : db.t[name] # {} => u[name] = db.t[name]
  BY <1>3
<1>7. \A name \in names : u[name] # {}
  BY <1>2, <1>3, ModelsHaveIds, TableNames
<1>8. u["calibre_sync_jobs"] = db.t["calibre_sync_jobs"] /\ u["motd_messages_old"] = db.t["motd_messages_old"]
  BY <1>2, <1>3, TableNames
<1>9. Landmarks(d, v, C)
  BY <1>1, <1>6, <1>8, Named DEF Landmarks, Has, InColumns
<1>10. Heirlooms(d, v, C)
  BY <1>1, <1>6, Named DEF Heirlooms, Has, InColumns
<1>. QED
  BY <1>1, <1>4, <1>5, <1>6, <1>7, <1>9, <1>10 DEF FileOK, Has, u

(* A migration that a crash cut short has added columns and made tables that it *)
(* was to add and make, and that it finds when it runs again.                   *)
Begun(n, name, s, x) ==
  /\ s \subseteq x
  /\ x \subseteq Later(n - 1, name) \cup (IF s = {} THEN Current(name) ELSE s \cup Adds(n, name))
  /\ s = {} /\ x # {} => name \in Makes(n) /\ "id" \in x /\ \A k \in 1..(n - 1) : Adds(k, name) \subseteq x

(* A crash in migration n has only begun it: no rows, some new columns.        *)
Grows(n, db, d) ==
  /\ IsDb(d) /\ d.r = db.r /\ d.t["motd_messages_old"] = db.t["motd_messages_old"]
  /\ \A name \in Tables \ {"motd_messages_old"} : Begun(n, name, db.t[name], d.t[name])

(* Beginning is reflexive and transitive.                                      *)
LEMMA GrowsNot ==
  ASSUME NEW n, NEW db, IsDb(db)
  PROVE  Grows(n, db, db)
  BY DEF Grows, Begun

LEMMA GrowsOn ==
  ASSUME NEW n \in 1..Latest, NEW db, NEW c, NEW d, Grows(n, db, c), Grows(n, c, d)
  PROVE  Grows(n, db, d)
<1> SUFFICES ASSUME NEW name \in Tables \ {"motd_messages_old"}
             PROVE  Begun(n, name, db.t[name], d.t[name])
  BY DEF Grows
<1>1. Begun(n, name, db.t[name], c.t[name]) /\ Begun(n, name, c.t[name], d.t[name])
  BY DEF Grows
<1>2. Adds(n, name) \subseteq Current(name)
  BY History
<1>3. \A s, x, y : Begun(n, name, s, x) /\ Begun(n, name, x, y) => Begun(n, name, s, y)
  BY <1>2 DEF Begun
<1>. QED
  BY <1>1, <1>3

(* A column or a table of the migration begins it.                             *)
LEMMA GrowsByColumns ==
  ASSUME NEW n \in 1..Latest, NEW db, IsDb(db), NEW name \in Tables \ {"motd_messages_old"},
         NEW cols, cols \subseteq Adds(n, name) \cup Later(n - 1, name)
  PROVE  Grows(n, db, AddColumns(db, name, cols))
<1>1. Extends(db, AddColumns(db, name, cols), name, cols)
  BY AddEffect
<1>2. \A x \in Tables \ {name} : AddColumns(db, name, cols).t[x] = db.t[x]
  BY <1>1 DEF Extends, Alters
<1>3. AddColumns(db, name, cols).t[name] = Grown(db.t[name], cols)
  BY <1>1 DEF Extends, Alters
<1>. QED
  BY <1>1, <1>2, <1>3, Named DEF Extends, Alters, Grown, Grows, Begun

LEMMA GrowsByTable ==
  ASSUME NEW n \in 1..Latest, NEW db, IsDb(db), NEW name \in Makes(n), name \in Tables \ {"motd_messages_old"},
         NEW cols, {"id"} \cup cols \subseteq Current(name) \cup Later(n - 1, name),
         \A k \in 1..(n - 1) : Adds(k, name) = {}
  PROVE  Grows(n, db, CreateTable(db, name, cols))
<1>1. Creates(db, CreateTable(db, name, cols), name, cols)
  BY CreateEffect
<1>2. \A x \in Tables \ {name} : CreateTable(db, name, cols).t[x] = db.t[x]
  BY <1>1 DEF Creates, Alters
<1>3. CreateTable(db, name, cols).t[name] = Made(db.t[name], cols)
  BY <1>1 DEF Creates, Alters
<1>. QED
  BY <1>1, <1>2, <1>3, Named DEF Creates, Alters, Made, Grows, Begun

(* The columns are all the migration's, or a later one takes them away.        *)
Owns(n, name, cols) == Len(cols) \in Nat /\ \A i \in 1..Len(cols) : cols[i] \in Adds(n, name) \cup Later(n - 1, name)

(* So does every prefix of its columns.                                        *)
LEMMA GrowsByPrefix ==
  ASSUME NEW n \in 1..Latest, NEW db, IsDb(db), NEW name \in Tables \ {"motd_messages_old"},
         NEW cols, Owns(n, name, cols), NEW d \in Prefixes(db, name, cols)
  PROVE  Grows(n, db, d)
<1>1. PICK k \in 0..Len(cols) : d = AddColumns(db, name, {cols[i] : i \in 1..k})
  BY DEF Prefixes, Owns
<1>2. {cols[i] : i \in 1..k} \subseteq Adds(n, name) \cup Later(n - 1, name)
  BY DEF Owns
<1>. QED
  BY <1>1, <1>2, GrowsByColumns

(* What a crash leaves of a migration is a file of the version before it.      *)
LEMMA FileBegun ==
  ASSUME NEW n \in 1..Latest, NEW C, NEW db, NEW d, FileOK(db, n - 1, C), Grows(n, db, d),
         NEW D, C \subseteq D, n \in {3, 28} => n \in D
  PROVE  /\ FileOK(d, n - 1, D)
         /\ \A name \in DOMAIN Models : Has(db.t, name) => Has(d.t, name)
<1>1. /\ IsDb(db) /\ Within(db.t, n - 1) /\ Landmarks(db, n - 1, C) /\ Heirlooms(db, n - 1, C)
      /\ RowsOK(db.r, n - 1, C)
  BY DEF FileOK
<1>2. \A name \in Tables : db.t[name] \subseteq d.t[name]
  BY Named DEF Grows, Begun
<1>3. Within(d.t, n - 1)
  <2>1. SUFFICES ASSUME NEW name \in Tables \ {"motd_messages_old"}
                 PROVE  /\ d.t[name] # {} => Needed(name, n - 1) \subseteq d.t[name]
                        /\ d.t[name] \subseteq Allowed(name, n - 1)
    BY DEF Within
  <2>2. Begun(n, name, db.t[name], d.t[name])
    BY DEF Grows
  <2>3. Allowed(name, n - 1) = Current(name) \cup Later(n - 1, name) /\ Adds(n, name) \subseteq Current(name)
    BY History DEF Allowed, Later
  <2>4. db.t[name] # {} => Needed(name, n - 1) \subseteq db.t[name]
    BY <1>1 DEF Within
  <2>5. db.t[name] \subseteq Allowed(name, n - 1)
    BY <1>1 DEF Within
  <2>6. d.t[name] # {} => Needed(name, n - 1) \subseteq d.t[name]
    BY <2>2, <2>4 DEF Begun, Needed
  <2>. QED
    BY <2>2, <2>3, <2>5, <2>6 DEF Begun
<1>4. n - 1 < 28 /\ 28 \notin D => ~Has(d.t, "calibre_sync_jobs")
  <2>1. "calibre_sync_jobs" \notin Makes(n) \/ n = 28
    BY DEF Makes
  <2>. QED
    BY <1>1, <2>1, Named DEF Landmarks, Grows, Begun, Has
<1>5. 22 \notin D => ~Has(d.t, "motd_messages_old")
  BY <1>1 DEF Landmarks, Grows, Has
<1>6. d.r = db.r /\ IsDb(d)
  BY DEF Grows
<1>7. Landmarks(d, n - 1, D)
  BY <1>1, <1>2, <1>4, <1>5, <1>6, Named DEF Landmarks, Has, InColumns
<1>8. ASSUME d.r.panel # "none", n - 1 < 3, 3 \notin D
      PROVE  ~InColumns(d, "devices", "last_seen")
  <2>1. "last_seen" \notin db.t["devices"] /\ db.t["devices"] # {} /\ n \in {1, 2}
    BY <1>1, <1>6, <1>8 DEF Heirlooms, InColumns, Has, Latest
  <2>2. d.t["devices"] \subseteq Later(n - 1, "devices") \cup db.t["devices"] \cup Adds(n, "devices")
    BY <2>1, Named DEF Grows, Begun
  <2>3. "last_seen" \notin Adds(n, "devices")
    BY <2>1 DEF Adds
  <2>4. \A k \in 1..Latest : "last_seen" \notin Drops(k, "devices")
    BY History, Named, CurrentColumns DEF DeviceColumns
  <2>5. "last_seen" \notin Later(n - 1, "devices")
    BY <2>4 DEF Later, Latest
  <2>. QED
    BY <2>1, <2>2, <2>3, <2>5 DEF InColumns
<1>9. Heirlooms(d, n - 1, D)
  BY <1>1, <1>2, <1>6, <1>8, Named DEF Heirlooms, Has, InColumns
<1>10. RowsOK(d.r, n - 1, D)
  BY <1>1, <1>6 DEF RowsOK, Synced
<1>. QED
  BY <1>2, <1>3, <1>6, <1>7, <1>9, <1>10, TableNames DEF FileOK, Has

(* The migrations whose first statements add columns to one table ...          *)
LEMMA PrefixesGrow ==
  ASSUME NEW n \in {1, 8, 12, 19, 20, 21, 23, 26, 27}, NEW db, IsDb(db), NEW d \in Early(n, db)
  PROVE  Grows(n, db, d)
<1>1. CASE n = 1
  <2> DEFINE cols == <<"source_id", "sync_job_name">>
  <2>1. d \in Prefixes(db, "images", cols)
    BY <1>1 DEF Early
  <2>2. Len(cols) \in Nat /\ \A i \in 1..Len(cols) : cols[i] \in {"source_id", "sync_job_name"}
    OBVIOUS
  <2>3. {"source_id", "sync_job_name"} \subseteq Adds(1, "images") \cup Later(1 - 1, "images")
    BY DEF Adds
  <2>4. Owns(n, "images", cols)
    BY <1>1, <2>2, <2>3 DEF Owns
  <2> HIDE DEF cols
  <2>. QED
    BY <2>1, <2>4, GrowsByPrefix, Named DEF Latest
<1>2. CASE n = 8
  <2> DEFINE cols == <<"physical_width_cm", "physical_height_cm">>
  <2>1. d \in Prefixes(db, "device_profiles", cols)
    BY <1>2 DEF Early
  <2>2. Len(cols) \in Nat /\ \A i \in 1..Len(cols) : cols[i] \in {"physical_width_cm", "physical_height_cm"}
    OBVIOUS
  <2>3. {"physical_width_cm", "physical_height_cm"} \subseteq Adds(8, "device_profiles") \cup Later(8 - 1, "device_profiles")
    BY DEF Adds
  <2>4. Owns(n, "device_profiles", cols)
    BY <1>2, <2>2, <2>3 DEF Owns
  <2> HIDE DEF cols
  <2>. QED
    BY <2>1, <2>4, GrowsByPrefix, Named DEF Latest
<1>3. CASE n = 12
  <2> DEFINE cols == <<"last_refresh_ok", "last_error", "last_error_at">>
  <2>1. d \in Prefixes(db, "devices", cols)
    BY <1>3 DEF Early
  <2>2. Len(cols) \in Nat /\ \A i \in 1..Len(cols) : cols[i] \in {"last_refresh_ok", "last_error", "last_error_at"}
    OBVIOUS
  <2>3. {"last_refresh_ok", "last_error", "last_error_at"} \subseteq Adds(12, "devices") \cup Later(12 - 1, "devices")
    BY DEF Adds
  <2>4. Owns(n, "devices", cols)
    BY <1>3, <2>2, <2>3 DEF Owns
  <2> HIDE DEF cols
  <2>. QED
    BY <2>1, <2>4, GrowsByPrefix, Named DEF Latest
<1>4. CASE n = 19
  <2> DEFINE cols == <<"album_match_mode", "person_match_mode">>
  <2>1. d \in Prefixes(db, "immich_sync_jobs", cols)
    BY <1>4 DEF Early
  <2>2. Len(cols) \in Nat /\ \A i \in 1..Len(cols) : cols[i] \in {"album_match_mode", "person_match_mode"}
    OBVIOUS
  <2>3. {"album_match_mode", "person_match_mode"} \subseteq Adds(19, "immich_sync_jobs") \cup Later(19 - 1, "immich_sync_jobs")
    BY DEF Adds
  <2>4. Owns(n, "immich_sync_jobs", cols)
    BY <1>4, <2>2, <2>3 DEF Owns
  <2> HIDE DEF cols
  <2>. QED
    BY <2>1, <2>4, GrowsByPrefix, Named DEF Latest
<1>5. CASE n = 20
  <2> DEFINE cols == <<"interval_minutes", "next_run_at", "last_run_at">>
  <2>1. d \in Prefixes(db, "immich_sync_jobs", cols)
    BY <1>5 DEF Early
  <2>2. Len(cols) \in Nat /\ \A i \in 1..Len(cols) : cols[i] \in {"interval_minutes", "next_run_at", "last_run_at"}
    OBVIOUS
  <2>3. {"interval_minutes", "next_run_at", "last_run_at"} \subseteq Adds(20, "immich_sync_jobs") \cup Later(20 - 1, "immich_sync_jobs")
    BY DEF Adds, Drops, Later, Latest
  <2>4. Owns(n, "immich_sync_jobs", cols)
    BY <1>5, <2>2, <2>3 DEF Owns
  <2> HIDE DEF cols
  <2>. QED
    BY <2>1, <2>4, GrowsByPrefix, Named DEF Latest
<1>6. CASE n = 21
  <2> DEFINE cols == <<"row", "col">>
  <2>1. d \in Prefixes(db, "grid_devices", cols)
    BY <1>6 DEF Early
  <2>2. Len(cols) \in Nat /\ \A i \in 1..Len(cols) : cols[i] \in {"row", "col"}
    OBVIOUS
  <2>3. {"row", "col"} \subseteq Adds(21, "grid_devices") \cup Later(21 - 1, "grid_devices")
    BY DEF Adds
  <2>4. Owns(n, "grid_devices", cols)
    BY <1>6, <2>2, <2>3 DEF Owns
  <2> HIDE DEF cols
  <2>. QED
    BY <2>1, <2>4, GrowsByPrefix, Named DEF Latest
<1>7. CASE n = 26
  <2> DEFINE cols == <<"schedule_cron", "schedule_timezone">>
  <2>1. d \in Prefixes(db, "immich_sync_jobs", cols)
    BY <1>7 DEF Early
  <2>2. Len(cols) \in Nat /\ \A i \in 1..Len(cols) : cols[i] \in {"schedule_cron", "schedule_timezone"}
    OBVIOUS
  <2>3. {"schedule_cron", "schedule_timezone"} \subseteq Adds(26, "immich_sync_jobs") \cup Later(26 - 1, "immich_sync_jobs")
    BY DEF Adds
  <2>4. Owns(n, "immich_sync_jobs", cols)
    BY <1>7, <2>2, <2>3 DEF Owns
  <2> HIDE DEF cols
  <2>. QED
    BY <2>1, <2>4, GrowsByPrefix, Named DEF Latest
<1>8. CASE n = 27
  <2> DEFINE cols == <<"display_cron", "display_next_at">>
  <2>1. d \in Prefixes(db, "grids", cols)
    BY <1>8 DEF Early
  <2>2. Len(cols) \in Nat /\ \A i \in 1..Len(cols) : cols[i] \in {"display_cron", "display_next_at"}
    OBVIOUS
  <2>3. {"display_cron", "display_next_at"} \subseteq Adds(27, "grids") \cup Later(27 - 1, "grids")
    BY DEF Adds
  <2>4. Owns(n, "grids", cols)
    BY <1>8, <2>2, <2>3 DEF Owns
  <2> HIDE DEF cols
  <2>. QED
    BY <2>1, <2>4, GrowsByPrefix, Named DEF Latest
<1>9. CASE n = 23
  <2> DEFINE cols == <<"display_time", "display_weekday_mask", "display_timezone", "display_duration_seconds",
                       "active_message_id", "active_since", "active_expires_at", "last_displayed_on">>
             names == {"display_time", "display_weekday_mask", "display_timezone", "display_duration_seconds",
                       "active_message_id", "active_since", "active_expires_at", "last_displayed_on"}
  <2>1. d = db \/ d \in Prefixes(db, "grids", cols)
    BY <1>9 DEF Early
  <2>2. Len(cols) \in Nat /\ \A i \in 1..Len(cols) : cols[i] \in names
    OBVIOUS
  <2>3. names \subseteq Adds(23, "grids") \cup Later(23 - 1, "grids")
    BY DEF Adds, Later, Drops, GridSession, Latest
  <2> HIDE DEF names
  <2>4. Owns(n, "grids", cols)
    BY <1>9, <2>2, <2>3 DEF Owns
  <2> HIDE DEF cols
  <2>5. CASE d = db
    BY <2>5, GrowsNot
  <2>6. CASE d \in Prefixes(db, "grids", cols)
    BY <2>4, <2>6, GrowsByPrefix, Named DEF Latest
  <2>. QED
    BY <2>1, <2>5, <2>6
<1>. QED
  BY <1>1, <1>2, <1>3, <1>4, <1>5, <1>6, <1>7, <1>8, <1>9

(* ... or to several ...                                                       *)
LEMMA ColumnsGrow ==
  ASSUME NEW n \in {3, 5, 9, 14, 16, 18}, NEW db, IsDb(db), NEW d \in Early(n, db)
  PROVE  Grows(n, db, d)
<1>1. Grows(n, db, db)
  BY GrowsNot
<1>2. CASE n = 3
  <2>1. Grows(3, db, AddColumns(db, "devices", {"last_seen"}))
    BY GrowsByColumns, Named DEF Adds, Latest
  <2>. QED
    BY <1>1, <1>2, <2>1 DEF Early
<1>3. CASE n = 5
  <2>1. Grows(5, db, M0005(db))
    BY GrowsByColumns, Named DEF M0005, Adds, Latest
  <2>. QED
    BY <1>1, <1>3, <2>1 DEF Early
<1>4. CASE n = 9
  <2> DEFINE a == AddColumns(db, "devices", {"refresh_interval_seconds"})
  <2>1. Grows(9, db, a)
    BY GrowsByColumns, Named DEF Adds, Latest
  <2>2. d = db \/ d = a \/ d = AddColumns(a, "grids", {"refresh_interval_seconds"})
    BY <1>4 DEF Early, M0009
  <2> HIDE DEF a
  <2>3. {"refresh_interval_seconds"} \subseteq Later(8, "grids")
    BY DEF Later, Drops, Latest
  <2>4. Grows(9, a, AddColumns(a, "grids", {"refresh_interval_seconds"}))
    BY <2>1, <2>3, GrowsByColumns, Named DEF Grows, Latest
  <2>5. Grows(9, db, AddColumns(a, "grids", {"refresh_interval_seconds"}))
    BY <2>1, <2>4, GrowsOn DEF Latest
  <2>. QED
    BY <1>1, <1>4, <2>1, <2>2, <2>5
<1>5. CASE n = 14
  <2>1. Grows(14, db, M0014(db))
    BY GrowsByColumns, Named DEF M0014, Adds, Latest
  <2>. QED
    BY <1>1, <1>5, <2>1 DEF Early
<1>6. CASE n = 16
  <2>1. {"displayed_at"} \subseteq Later(15, "motd_messages")
    BY DEF Later, Drops, Latest
  <2>2. Grows(16, db, M0016(db))
    BY <2>1, GrowsByColumns, Named DEF M0016, Latest
  <2>. QED
    BY <1>1, <1>6, <2>2 DEF Early
<1>7. CASE n = 18
  <2> DEFINE a == AddColumns(db, "immich_sync_jobs", {"run_requested_at"})
  <2>1. Grows(18, db, a)
    BY GrowsByColumns, Named DEF Adds, Latest
  <2>2. d = db \/ d = a \/ d = AddColumns(a, "gemini_sync_jobs", {"run_requested_at"})
    BY <1>7 DEF Early, M0018, AddToSyncJobs
  <2> HIDE DEF a
  <2>3. Grows(18, a, AddColumns(a, "gemini_sync_jobs", {"run_requested_at"}))
    BY <2>1, GrowsByColumns, Named DEF Grows, Adds, Latest
  <2>4. Grows(18, db, AddColumns(a, "gemini_sync_jobs", {"run_requested_at"}))
    BY <2>1, <2>3, GrowsOn DEF Latest
  <2>. QED
    BY <1>1, <1>7, <2>1, <2>2, <2>4
<1>. QED
  BY <1>2, <1>3, <1>4, <1>5, <1>6, <1>7

(* ... and those that make tables, which missed no earlier migration.          *)
LEMMA MadeTables ==
  ASSUME NEW n \in 1..Latest, NEW name \in Makes(n)
  PROVE  /\ name \in Tables \ {"motd_messages_old"}
         /\ \A k \in 1..(n - 1) : Adds(k, name) = {}
<1>1. name \in Tables \ {"motd_messages_old"}
  BY TableNames DEF Makes
<1>2. ASSUME NEW k \in 1..(n - 1)
      PROVE  Adds(k, name) = {}
  BY DEF Makes, Adds
<1>. QED
  BY <1>1, <1>2

LEMMA MadeGrows ==
  ASSUME NEW n \in 1..Latest, NEW db, IsDb(db), NEW name \in Makes(n),
         NEW cols, {"id"} \cup cols \subseteq Current(name) \cup Later(n - 1, name)
  PROVE  Grows(n, db, CreateTable(db, name, cols))
  BY MadeTables, GrowsByTable

(* What a crash can leave of those that make tables.                           *)
LEMMA TablesGrow ==
  ASSUME NEW n \in {4, 7, 11, 15, 24}, NEW db, IsDb(db), NEW d \in Early(n, db)
  PROVE  Grows(n, db, d)
<1>1. Grows(n, db, db)
  BY GrowsNot
<1>2. CASE n = 4
  <2> DEFINE a == CreateTable(db, "prompt_blocks", {})
             b == CreateTable(a, "prompt_presets", {})
             c == CreateTable(b, "gemini_sync_jobs", {"target_device_id", "is_portrait"})
  <2>1. d \in {db, a, b, c}
    BY <1>2 DEF Early, PromptTables
  <2>2. Makes(4) = {"prompt_blocks", "prompt_presets", "gemini_sync_jobs"}
    BY DEF Makes
  <2>3. {"target_device_id", "is_portrait"} \subseteq Later(3, "gemini_sync_jobs")
    BY DEF Later, Drops, Latest
  <2>4. Grows(4, db, a)
    BY <2>2, MadeGrows, CurrentColumns DEF Latest
  <2> HIDE DEF a
  <2>5. Grows(4, a, b)
    BY <2>2, <2>4, MadeGrows, CurrentColumns DEF Grows, Latest, PromptPresetColumns
  <2> HIDE DEF b
  <2>6. Grows(4, b, c)
    BY <2>2, <2>3, <2>5, MadeGrows, CurrentColumns DEF Grows, Latest, GeminiSyncJobColumns
  <2> HIDE DEF c
  <2>7. Grows(4, db, b) /\ Grows(4, db, c)
    BY <2>4, <2>5, <2>6, GrowsOn DEF Latest
  <2>. QED
    BY <1>1, <1>2, <2>1, <2>4, <2>7
<1>3. CASE n = 7
  <2>1. Makes(7) = {"device_profiles"}
    BY DEF Makes
  <2>2. Grows(7, db, CreateTable(db, "device_profiles", {}))
    BY <2>1, MadeGrows, CurrentColumns DEF Latest, DeviceProfileColumns
  <2>. QED
    BY <1>1, <1>3, <2>2 DEF Early
<1>4. CASE n = 11
  <2>1. Makes(11) = {"app_settings"}
    BY DEF Makes
  <2>2. Grows(11, db, M0011(db))
    BY <2>1, MadeGrows, CurrentColumns DEF Latest, M0011
  <2>. QED
    BY <1>1, <1>4, <2>2 DEF Early
<1>5. CASE n = 15
  <2> DEFINE a == CreateTable(db, "motd_configs", {})
             b == CreateTable(a, "motd_device_assignments", {})
             c == CreateTable(b, "motd_messages", {"config_id"})
             e == CreateTable(c, "motd_screens", {})
  <2>1. d \in {db, a, b, c, e}
    BY <1>5 DEF Early, MotdTables
  <2>2. Makes(15) = {"motd_configs", "motd_device_assignments", "motd_messages", "motd_screens"}
    BY DEF Makes
  <2>3. /\ {"id"} \subseteq Later(14, "motd_configs") /\ {"id"} \subseteq Later(14, "motd_device_assignments")
        /\ {"id", "config_id"} \subseteq Later(14, "motd_messages") /\ {"id"} \subseteq Later(14, "motd_screens")
    BY DEF Later, Drops, Latest
  <2>4. Grows(15, db, a)
    BY <2>2, <2>3, MadeGrows DEF Latest
  <2> HIDE DEF a
  <2>5. Grows(15, a, b)
    BY <2>2, <2>3, <2>4, MadeGrows DEF Grows, Latest
  <2> HIDE DEF b
  <2>6. Grows(15, b, c)
    BY <2>2, <2>3, <2>5, MadeGrows DEF Grows, Latest
  <2> HIDE DEF c
  <2>7. Grows(15, c, e)
    BY <2>2, <2>3, <2>6, MadeGrows DEF Grows, Latest
  <2> HIDE DEF e
  <2>8. Grows(15, db, b)
    BY <2>4, <2>5, GrowsOn DEF Latest
  <2>9. Grows(15, db, c)
    BY <2>6, <2>8, GrowsOn DEF Latest
  <2>10. Grows(15, db, e)
    BY <2>7, <2>9, GrowsOn DEF Latest
  <2>. QED
    BY <1>1, <1>5, <2>1, <2>4, <2>8, <2>9, <2>10
<1>6. CASE n = 24
  <2>1. Makes(24) = {"image_groups"}
    BY DEF Makes
  <2>2. Grows(24, db, CreateTable(db, "image_groups", {}))
    BY <2>1, MadeGrows, CurrentColumns DEF Latest
  <2>. QED
    BY <1>1, <1>6, <2>2 DEF Early
<1>. QED
  BY <1>2, <1>3, <1>4, <1>5, <1>6

(* 0028 makes its table in one statement.                                      *)
LEMMA CalibreGrows ==
  ASSUME NEW db, IsDb(db), ~M0028Fails(db), NEW d \in Early(28, db)
  PROVE  Grows(28, db, d)
<1>1. CASE d = db
  BY <1>1, GrowsNot
<1>2. CASE d = CreateCalibre(db)
  <2>1. d = [t |-> [db.t EXCEPT !["calibre_sync_jobs"] = CalibreSyncJobColumns], r |-> db.r]
    BY <1>2 DEF CreateCalibre, IsDb
  <2>2. Alters(db, d, "calibre_sync_jobs", CalibreSyncJobColumns)
    BY <2>1, Named DEF IsDb, Alters
  <2>3. \A x \in Tables \ {"calibre_sync_jobs"} : d.t[x] = db.t[x]
    BY <2>2 DEF Alters
  <2>4. d.t["calibre_sync_jobs"] = CalibreSyncJobColumns /\ db.t["calibre_sync_jobs"] = {}
    BY <2>2, Named DEF Alters, M0028Fails, Has
  <2>5. "calibre_sync_jobs" \in Makes(28) /\ \A k \in 1..27 : Adds(k, "calibre_sync_jobs") = {}
    <3>1. "calibre_sync_jobs" \in Makes(28)
      BY DEF Makes
    <3>. QED
      BY <3>1, MadeTables DEF Latest
  <2>6. "id" \in CalibreSyncJobColumns
    BY DEF CalibreSyncJobColumns
  <2>7. Begun(28, "calibre_sync_jobs", db.t["calibre_sync_jobs"], d.t["calibre_sync_jobs"])
    BY <2>4, <2>5, <2>6, CurrentColumns DEF Begun
  <2>8. \A x \in Tables \ {"calibre_sync_jobs", "motd_messages_old"} : Begun(28, x, db.t[x], d.t[x])
    BY <2>3 DEF Begun
  <2>. QED
    BY <2>2, <2>3, <2>7, <2>8, Named DEF Grows, Alters
<1>. QED
  BY <1>1, <1>2 DEF Early

(* The messages of MOTD are renamed, and made anew.                            *)
LEMMA RenameEffect ==
  ASSUME NEW db, IsDb(db)
  PROVE  /\ IsDb(RenameMessages(db)) /\ RenameMessages(db).r = db.r
         /\ RenameMessages(db).t["motd_messages"] \in {{}, db.t["motd_messages"]}
         /\ \A x \in Tables \ {"motd_messages", "motd_messages_old"} : RenameMessages(db).t[x] = db.t[x]
<1>1. CASE ~InColumns(db, "motd_messages", "config_id")
  BY <1>1 DEF RenameMessages
<1>2. CASE InColumns(db, "motd_messages", "config_id")
  <2> DEFINE u == [[db.t EXCEPT !["motd_messages_old"] = db.t["motd_messages"]] EXCEPT !["motd_messages"] = {}]
  <2>1. RenameMessages(db) = [t |-> u, r |-> db.r]
    BY <1>2 DEF RenameMessages, IsDb
  <2>2. /\ u = [x \in Tables |-> u[x]] /\ u["motd_messages"] = {}
        /\ \A x \in Tables \ {"motd_messages", "motd_messages_old"} : u[x] = db.t[x]
    BY Named DEF IsDb
  <2> HIDE DEF u
  <2>. QED
    BY <2>1, <2>2 DEF IsDb
<1>. QED
  BY <1>1, <1>2

(* The messages rebuilt: a new table under the old name.                       *)
LEMMA RebuildEffect ==
  ASSUME NEW db, IsDb(db)
  PROVE  /\ IsDb(RebuildMessages(db)) /\ RebuildMessages(db).r = db.r
         /\ RebuildMessages(db).t["motd_messages"] \in {{"id", "job_id", "displayed_at"}, db.t["motd_messages"]}
         /\ \A x \in Tables \ {"motd_messages"} : RebuildMessages(db).t[x] = db.t[x]
<1>1. CASE ~InColumns(db, "motd_messages", "config_id")
  BY <1>1 DEF RebuildMessages
<1>2. CASE InColumns(db, "motd_messages", "config_id")
  <2> DEFINE u == [db.t EXCEPT !["motd_messages"] = {"id", "job_id", "displayed_at"}]
  <2>1. RebuildMessages(db) = [t |-> u, r |-> db.r]
    BY <1>2 DEF RebuildMessages, IsDb
  <2>2. /\ u = [x \in Tables |-> u[x]] /\ u["motd_messages"] = {"id", "job_id", "displayed_at"}
        /\ \A x \in Tables \ {"motd_messages"} : u[x] = db.t[x]
    BY Named DEF IsDb
  <2> HIDE DEF u
  <2>. QED
    BY <2>1, <2>2 DEF IsDb
<1>. QED
  BY <1>1, <1>2

(* Whatever has become of the messages, 0022 can run again.                    *)
LEMMA FileRenamed ==
  ASSUME NEW C, 22 \in C, NEW db, FileOK(db, 21, C), NEW d, IsDb(d), d.r = db.r,
         d.t["motd_messages"] \in {{}, {"id", "job_id", "displayed_at"}, db.t["motd_messages"]},
         \A x \in Tables \ {"motd_messages", "motd_messages_old"} : d.t[x] = db.t[x]
  PROVE  FileOK(d, 21, C)
<1>1. IsDb(db) /\ Within(db.t, 21) /\ Landmarks(db, 21, C) /\ Heirlooms(db, 21, C) /\ RowsOK(db.r, 21, C)
  BY DEF FileOK
<1>2. /\ Needed("motd_messages", 21) = {"id"}
      /\ {"id", "job_id", "displayed_at"} \subseteq Allowed("motd_messages", 21)
  <2>1. \A k \in 1..21 : Adds(k, "motd_messages") = {}
    BY DEF Adds
  <2>2. Drops(24, "motd_messages") = {"id", "job_id", "displayed_at"}
    BY DEF Drops
  <2>. QED
    BY <2>1, <2>2 DEF Needed, Allowed, Latest
<1>3. Within(d.t, 21)
  BY <1>1, <1>2, Named DEF Within
<1>4. Landmarks(d, 21, C)
  BY <1>1, Named DEF Landmarks, Has, InColumns
<1>5. Heirlooms(d, 21, C)
  BY <1>1, Named DEF Heirlooms, Has, InColumns
<1>. QED
  BY <1>1, <1>3, <1>4, <1>5 DEF FileOK

(* The two job tables begin 0022.                                              *)
LEMMA JobTablesGrow ==
  ASSUME NEW db, IsDb(db)
  PROVE  Grows(22, db, CreateTable(db, "display_jobs", LegacySchedule)) /\ Grows(22, db, JobTables(db))
<1> DEFINE a == CreateTable(db, "display_jobs", LegacySchedule)
           b == CreateTable(a, "display_job_slots", {"rotation_index"})
<1>1. Makes(22) = {"display_jobs", "display_job_slots"} /\ JobTables(db) = b
  BY DEF Makes, JobTables
<1>2. LegacySchedule \subseteq Later(21, "display_jobs") /\ {"rotation_index"} \subseteq Later(21, "display_job_slots")
  BY DEF Later, Drops, Latest
<1>3. Grows(22, db, a)
  BY <1>1, <1>2, MadeGrows, CurrentColumns DEF Latest, DisplayJobColumns
<1> HIDE DEF a
<1>4. Grows(22, a, b)
  BY <1>1, <1>2, <1>3, MadeGrows, CurrentColumns DEF Grows, Latest
<1> HIDE DEF b
<1>5. Grows(22, db, b)
  BY <1>3, <1>4, GrowsOn DEF Latest
<1>. QED
  BY <1>1, <1>3, <1>5 DEF a

(* A migration that a crash cut short.                                         *)
LEMMA FileCut ==
  ASSUME NEW n \in 1..Latest, NEW C, NEW db, FileOK(db, n - 1, C), ~Raises(n, db), NEW d \in Early(n, db)
  PROVE  /\ FileOK(d, n - 1, C \cup {n}) /\ d.r = db.r
         /\ \A name \in DOMAIN Models : Has(db.t, name) => Has(d.t, name)
<1>1. IsDb(db)
  BY DEF FileOK
<1>2. ASSUME Grows(n, db, d)
      PROVE  /\ FileOK(d, n - 1, C \cup {n}) /\ d.r = db.r
             /\ \A name \in DOMAIN Models : Has(db.t, name) => Has(d.t, name)
  <2> DEFINE D == C \cup {n}
  <2>1. C \subseteq D /\ (n \in {3, 28} => n \in D)
    OBVIOUS
  <2> HIDE DEF D
  <2>2. FileOK(d, n - 1, D) /\ \A name \in DOMAIN Models : Has(db.t, name) => Has(d.t, name)
    BY <1>2, <2>1, FileBegun
  <2>. QED
    BY <1>2, <2>2 DEF D, Grows
<1>3. CASE n \in {1, 8, 12, 19, 20, 21, 23, 26, 27}
  BY <1>1, <1>2, <1>3, PrefixesGrow
<1>4. CASE n \in {3, 5, 9, 14, 16, 18}
  BY <1>1, <1>2, <1>4, ColumnsGrow
<1>5. CASE n \in {4, 7, 11, 15, 24}
  BY <1>1, <1>2, <1>5, TablesGrow
<1>6. CASE n = 28
  BY <1>1, <1>2, <1>6, CalibreGrows DEF Raises
<1>7. CASE n \in {2, 6, 10, 13, 17, 25, 29, 30}
  <2>1. Early(n, db) = {db}
    BY <1>7 DEF Early
  <2>. QED
    BY <1>1, <1>2, <2>1, GrowsNot
<1>8. CASE n = 22
  <2> DEFINE j == JobTables(db)
  <2>1. Grows(22, db, j) /\ Grows(22, db, CreateTable(db, "display_jobs", LegacySchedule)) /\ Grows(22, db, db)
    BY <1>1, JobTablesGrow, GrowsNot
  <2>2. CASE d \in {db, CreateTable(db, "display_jobs", LegacySchedule), j}
    BY <1>2, <1>8, <2>1, <2>2
  <2>3. CASE d \in {RenameMessages(j), RebuildMessages(RenameMessages(j)),
                    [RenameMessages(j) EXCEPT !.t["motd_messages"] = RebuildMessages(j).t["motd_messages"]]}
    <3>1. /\ FileOK(j, 21, C \cup {22}) /\ IsDb(j) /\ j.r = db.r
          /\ \A name \in DOMAIN Models : Has(db.t, name) => Has(j.t, name)
      <4>1. 22 \in 1..Latest /\ FileOK(db, 22 - 1, C) /\ 22 - 1 = 21
        BY <1>8 DEF Latest
      <4> HIDE DEF j
      <4>2. /\ FileOK(j, 22 - 1, C \cup {22})
            /\ \A name \in DOMAIN Models : Has(db.t, name) => Has(j.t, name)
        BY <2>1, <4>1, FileBegun
      <4>. QED
        BY <2>1, <4>1, <4>2 DEF Grows
    <3> HIDE DEF j
    <3> DEFINE m == RenameMessages(j)
    <3>2. /\ IsDb(m) /\ m.r = j.r /\ m.t["motd_messages"] \in {{}, j.t["motd_messages"]}
          /\ \A x \in Tables \ {"motd_messages", "motd_messages_old"} : m.t[x] = j.t[x]
      BY <3>1, RenameEffect
    <3> HIDE DEF m
    <3>3. /\ IsDb(d) /\ d.r = j.r
          /\ d.t["motd_messages"] \in {{}, {"id", "job_id", "displayed_at"}, j.t["motd_messages"]}
          /\ \A x \in Tables \ {"motd_messages", "motd_messages_old"} : d.t[x] = j.t[x]
      <4>1. CASE d = m
        BY <3>2, <4>1
      <4>2. CASE d = RebuildMessages(m)
        BY <3>2, <4>2, RebuildEffect
      <4>3. CASE d = [m EXCEPT !.t["motd_messages"] = RebuildMessages(j).t["motd_messages"]]
        <5> DEFINE new == RebuildMessages(j).t["motd_messages"]
                   u == [m.t EXCEPT !["motd_messages"] = new]
        <5>1. new \in {{"id", "job_id", "displayed_at"}, j.t["motd_messages"]}
          BY <3>1, RebuildEffect
        <5> HIDE DEF new
        <5>2. d = [t |-> u, r |-> m.r]
          BY <3>2, <4>3 DEF IsDb, new
        <5>3. /\ u = [x \in Tables |-> u[x]] /\ u["motd_messages"] = new
              /\ \A x \in Tables \ {"motd_messages"} : u[x] = m.t[x]
          BY <3>2, Named DEF IsDb
        <5> HIDE DEF u
        <5>. QED
          BY <3>2, <5>1, <5>2, <5>3 DEF IsDb
      <4>. QED
        BY <2>3, <4>1, <4>2, <4>3 DEF m
    <3>4. FileOK(d, 21, C \cup {22})
      BY <3>1, <3>3, FileRenamed
    <3>5. \A name \in DOMAIN Models : d.t[name] = j.t[name]
      BY <3>3, TableNames
    <3>. QED
      BY <1>8, <3>1, <3>3, <3>4, <3>5 DEF Has
  <2>. QED
    BY <1>8, <2>2, <2>3 DEF Early
<1>. QED
  BY <1>3, <1>4, <1>5, <1>6, <1>7, <1>8 DEF Latest

(* A migration that has come to its first copy has committed no more than one  *)
(* that a crash cut short.                                                     *)
LEMMA CopyBegins ==
  ASSUME NEW n \in 1..Latest, NEW C, NEW db, FileOK(db, n - 1, C), NEW d, d = BeforeCopy(n, db)
  PROVE  /\ FileOK(d, n - 1, C) /\ d.r = db.r
         /\ \A name \in DOMAIN Models : Has(db.t, name) => Has(d.t, name)
<1>1. IsDb(db)
  BY DEF FileOK
<1>2. CASE n \notin {3, 28} /\ Grows(n, db, d)
  BY <1>2, FileBegun DEF Grows
<1>3. CASE n \notin {15, 22, 24, 26, 27}
  <2>1. d = db
    BY <1>3 DEF BeforeCopy
  <2>. QED
    BY <2>1
<1>4. CASE n \in {15, 24}
  <2>1. d \in Early(n, db)
    BY <1>4 DEF BeforeCopy, Early
  <2>. QED
    BY <1>1, <1>2, <1>4, <2>1, TablesGrow
<1>5. CASE n = 22
  <2>1. d = JobTables(db)
    BY <1>5 DEF BeforeCopy
  <2>. QED
    BY <1>1, <1>2, <1>5, <2>1, JobTablesGrow
<1>6. CASE n = 26
  <2>1. d = AddColumns(db, "immich_sync_jobs", {"schedule_cron", "schedule_timezone"})
    BY <1>6 DEF BeforeCopy
  <2>2. {"schedule_cron", "schedule_timezone"} \subseteq Adds(26, "immich_sync_jobs")
    BY DEF Adds
  <2>. QED
    BY <1>1, <1>2, <1>6, <2>1, <2>2, GrowsByColumns, Named
<1>7. CASE n = 27
  <2>1. d = AddColumns(db, "grids", {"display_cron", "display_next_at"})
    BY <1>7 DEF BeforeCopy, GridCron
  <2>2. {"display_cron", "display_next_at"} \subseteq Adds(27, "grids")
    BY DEF Adds
  <2>. QED
    BY <1>1, <1>2, <1>7, <2>1, <2>2, GrowsByColumns, Named
<1>. QED
  BY <1>3, <1>4, <1>5, <1>6, <1>7

(* Only some migrations copy a table first, and 0024 always does.              *)
LEMMA CopyingOnes ==
  ASSUME NEW n \in 1..Latest, NEW db
  PROVE  /\ FirstCopy(n, db) # {} => n \in Copying
         /\ FirstCopy(24, db) # {}
<1>1. n \notin Copying => FirstCopy(n, db) = {}
  BY DEF FirstCopy, Copying
<1>2. FirstCopy(24, db) # {}
  BY DEF FirstCopy
<1>. QED
  BY <1>1, <1>2

(* The chain of files that the releases left is well defined.                  *)
Start == [t |-> LegacyTables, r |-> LegacyRows]
(* Release 18 adds the table of runs; every other one only migrates.           *)
WithRuns(db) == [db EXCEPT !.t["sync_job_runs"] = {"id"}]
After(v, db) == IF v = 18 THEN WithRuns(Migration(v, db)) ELSE Migration(v, db)
Chain(n, f) == f = [v \in 0..n |-> IF v = 0 THEN Start ELSE After(v, f[v - 1])]

(* A set of numbers has a least one.                                           *)
LEMMA FirstOf ==
  ASSUME NEW S \in SUBSET Nat, S # {}
  PROVE  \E x \in S : \A y \in S : x <= y
<1>1. PICK x \in S : \A y \in S : ~ (<<y, x>> \in OpToRel(<, Nat))
  BY WFMin, NatLessThanWellFounded
<1>2. \A y \in S : ~ (y < x)
  BY <1>1, Zenon DEF OpToRel
<1>3. \A y \in S : x <= y
  BY <1>2
<1>. QED
  BY <1>3

(* Suppose not; take the shortest chain there is not.                          *)
LEMMA ChainExists ==
  \E f : Chain(Latest, f)
<1> DEFINE Missing == {n \in 0..Latest : ~ \E f : Chain(n, f)}
<1> SUFFICES ASSUME Missing # {}
             PROVE  FALSE
  BY DEF Latest
<1>0. Missing \in SUBSET Nat
  BY DEF Latest
<1> HIDE DEF Missing
<1>1. PICK n \in Missing : \A m \in Missing : n <= m
  BY <1>0, FirstOf
<1>2. n \in 0..Latest /\ ~ \E f : Chain(n, f)
  BY <1>1 DEF Missing
<1>3. n # 0
  <2>1. Chain(0, [v \in 0..0 |-> Start])
    BY DEF Chain
  <2>. QED
    BY <1>2, <2>1
<1>4. PICK f : Chain(n - 1, f)
  BY <1>1, <1>2, <1>3 DEF Latest, Missing
<1> DEFINE g == [v \in 0..n |-> IF v = n THEN After(n, f[n - 1]) ELSE f[v]]
<1>5. ASSUME NEW v \in 0..n
      PROVE  g[v] = IF v = 0 THEN Start ELSE After(v, g[v - 1])
  <2>1. CASE v = n
    BY <1>2, <1>3, <2>1 DEF Latest
  <2>2. CASE v # n
    <3>1. v \in 0..(n - 1)
      BY <1>2, <2>2 DEF Latest
    <3>2. f[v] = IF v = 0 THEN Start ELSE After(v, f[v - 1])
      BY <1>4, <3>1 DEF Chain
    <3>. QED
      BY <1>2, <2>2, <3>1, <3>2 DEF Latest
  <2>. QED
    BY <2>1, <2>2
<1>6. Chain(n, g)
  BY <1>5 DEF Chain
<1>. QED
  BY <1>2, <1>6

(* So Released is what its definition says.                                    *)
LEMMA ReleasedSteps ==
  /\ Released[0] = Start
  /\ \A v \in 1..Latest : Released[v] = After(v, Released[v - 1])
<1>1. Released = CHOOSE f : Chain(Latest, f)
  BY DEF Released, Chain, After, WithRuns, Start
<1>2. Chain(Latest, Released)
  BY <1>1, ChainExists
<1>. QED
  BY <1>2 DEF Chain, Latest

(* The table of runs came with release 18, made at start-up.                   *)
LEMMA RunsTable ==
  ASSUME NEW d, FileOK(d, 18, {})
  PROVE  /\ FileOK(WithRuns(d), 18, {}) /\ WithRuns(d).r = d.r /\ Has(WithRuns(d).t, "sync_job_runs")
         /\ \A name \in Tables \ {"sync_job_runs"} : WithRuns(d).t[name] = d.t[name]
<1> DEFINE e == WithRuns(d)
           t == CreateMissing(d.t, {"sync_job_runs"})
<1>1. IsDb(d) /\ Within(d.t, 18)
  BY DEF FileOK
<1>2. Models["sync_job_runs"] = {"id"} /\ "sync_job_runs" \in Created
  BY DEF Models, Created, CreateOrder
<1>3. Has(d.t, "sync_job_runs") => d.t["sync_job_runs"] = {"id"}
  <2>1. "id" \in Needed("sync_job_runs", 18) /\ Allowed("sync_job_runs", 18) = {"id"}
    BY TableNames, CurrentColumns DEF Needed, Allowed, Drops, Latest
  <2>2. /\ d.t["sync_job_runs"] # {} => Needed("sync_job_runs", 18) \subseteq d.t["sync_job_runs"]
        /\ d.t["sync_job_runs"] \subseteq Allowed("sync_job_runs", 18)
    BY <1>1, Named DEF Within
  <2>. QED
    BY <2>1, <2>2 DEF Has
<1>4. e.r = d.r /\ IsDb(e) /\ e.t["sync_job_runs"] = {"id"}
      /\ \A name \in Tables \ {"sync_job_runs"} : e.t[name] = d.t[name]
  BY <1>1, Named DEF IsDb, WithRuns
<1>5. e.t = t
  BY <1>2, <1>3, <1>4 DEF CreateMissing, IsDb
<1>6. e = [t |-> t, r |-> d.r]
  BY <1>4, <1>5 DEF IsDb
<1>7. FileOK([t |-> t, r |-> d.r], 18, {})
  BY <1>2, FileFilled DEF Latest
<1>. QED
  BY <1>4, <1>6, <1>7, Zenon DEF Has

(* Every release left a file of its version, with the rows that users had not  *)
(* touched.                                                                    *)
LEMMA ReleasedOK ==
  \A v \in 0..Latest :
     /\ FileOK(Released[v], v, {})
     /\ Released[v].r.panel = "seven" /\ Released[v].r.motd = "none" /\ Released[v].r.job = "none"
     /\ v >= 18 => Has(Released[v].t, "sync_job_runs")
     /\ v \in 15..21 => Has(Released[v].t, "motd_configs")
     /\ v < 22 => ~Has(Released[v].t, "display_jobs")
     /\ v = 22 => InColumns(Released[v], "display_jobs", "schedule_enabled")
<1> DEFINE Good(v) ==
     /\ FileOK(Released[v], v, {})
     /\ Released[v].r.panel = "seven" /\ Released[v].r.motd = "none" /\ Released[v].r.job = "none"
     /\ v >= 18 => Has(Released[v].t, "sync_job_runs")
     /\ v \in 15..21 => Has(Released[v].t, "motd_configs")
     /\ v < 22 => ~Has(Released[v].t, "display_jobs")
     /\ v = 22 => InColumns(Released[v], "display_jobs", "schedule_enabled")
<1>1. Good(0)
  <2>1. Released[0] = Start /\ Start.t = LegacyTables /\ Start.r = LegacyRows
    BY ReleasedSteps DEF Start
  <2>2. /\ LegacyTables = [name \in Tables |-> LegacyTables[name]]
        /\ LegacyTables["images"] = {"id"}
        /\ LegacyTables["devices"] = {"id", "display_width", "display_height", "display_model"}
        /\ LegacyTables["immich_sync_jobs"] = {"id", "target_device_id", "min_color_score", "min_vibrancy_score"}
        /\ \A name \in Tables \ {"images", "devices", "immich_sync_jobs"} : LegacyTables[name] = {}
    BY Named DEF LegacyTables
  <2>3. IsDb(Start)
    BY <2>1, <2>2 DEF IsDb, Start, LegacyRows, RowFields
  <2>4. Within(LegacyTables, 0)
    <3>1. SUFFICES ASSUME NEW name \in Tables \ {"motd_messages_old"}
                   PROVE  /\ LegacyTables[name] # {} => Needed(name, 0) \subseteq LegacyTables[name]
                          /\ LegacyTables[name] \subseteq Allowed(name, 0)
      BY DEF Within
    <3>2. Needed(name, 0) = {"id"}
      BY DEF Needed
    <3>3. /\ "id" \in Allowed("images", 0) /\ "id" \in Allowed("devices", 0) /\ "id" \in Allowed("immich_sync_jobs", 0)
      BY CurrentColumns DEF Allowed, ImageColumns, DeviceColumns, ImmichSyncJobColumns
    <3>4. /\ Drops(7, "devices") = {"display_width", "display_height", "display_model"}
          /\ Drops(7, "immich_sync_jobs") = {"target_device_id"}
          /\ Drops(10, "immich_sync_jobs") = {"min_color_score", "min_vibrancy_score"}
      BY DEF Drops
    <3>5. /\ {"display_width", "display_height", "display_model"} \subseteq Allowed("devices", 0)
          /\ {"target_device_id", "min_color_score", "min_vibrancy_score"} \subseteq Allowed("immich_sync_jobs", 0)
      BY <3>4 DEF Allowed, Latest
    <3>. QED
      BY <2>2, <3>2, <3>3, <3>5
  <2>5. Landmarks(Start, 0, {})
    BY <2>1, <2>2, Named DEF Landmarks, Has, LegacyRows
  <2>6. Heirlooms(Start, 0, {})
    BY <2>1, <2>2, Named DEF Heirlooms, Has, InColumns
  <2>7. RowsOK(LegacyRows, 0, {})
    BY DEF RowsOK, RowTypes, Seeded, Synced, Scheduled, LegacyRows, RowFields, Blocks, Texts, Profiles, Presets
  <2>. QED
    BY <2>1, <2>2, <2>3, <2>4, <2>5, <2>6, <2>7, Named DEF FileOK, LegacyRows, Has
<1>2. ASSUME NEW v \in 1..Latest, Good(v - 1)
      PROVE  Good(v)
  <2> DEFINE b == Released[v - 1]
             d == Migration(v, b)
  <2>1. FileOK(b, v - 1, {}) /\ b.r.panel = "seven" /\ b.r.motd = "none" /\ b.r.job = "none"
    BY <1>2
  <2>2. ~Raises(v, b)
    <3>1. v = 23 => Has(b.t, "grids")
      BY <2>1 DEF FileOK, Landmarks
    <3>2. v = 28 => ~Has(b.t, "calibre_sync_jobs")
      BY <2>1 DEF FileOK, Landmarks
    <3>3. v = 24 => Has(b.t, "sync_job_runs")
      BY <1>2
    <3>. QED
      BY <2>1, <3>1, <3>2, <3>3 DEF Raises, M0022Fails, M0028Fails, CarriesConfigs
  <2>3. FileOK(d, v, {}) /\ Evolves(v, b.t, d.t) /\ Writes(v, b, d.r)
    BY <2>1, <2>2, FileMoves
  <2>4. d.r.panel = "seven" /\ d.r.motd = "none" /\ d.r.job = "none"
    BY <2>1, <2>3 DEF Writes, CarriesConfigs
  <2>5. /\ v - 1 >= 18 => Has(d.t, "sync_job_runs")
        /\ v < 22 /\ Has(b.t, "motd_configs") => Has(d.t, "motd_configs")
        /\ v = 15 => Has(d.t, "motd_configs")
        /\ v < 22 => ~Has(d.t, "display_jobs")
    <3>1. Within(b.t, v - 1)
      BY <2>1 DEF FileOK
    <3>2. v - 1 >= 18 => Has(d.t, "sync_job_runs")
      BY <1>2, <2>3, <3>1, TablesStay, TableNames DEF Has
    <3>3. v # 22 => Drops(v, "motd_configs") = {}
      BY DEF Drops, Latest
    <3>4. v < 22 /\ Has(b.t, "motd_configs") => Has(d.t, "motd_configs")
      <4>1. v < 22 => Stays(v, "motd_configs") /\ Drops(v, "motd_configs") = {}
        BY <3>3 DEF Stays, Latest
      <4>2. "motd_configs" \in Tables \ {"motd_messages_old"}
        BY Named
      <4>. QED
        BY <2>3, <4>1, <4>2 DEF Evolves, Has
    <3>5. v = 15 => Has(d.t, "motd_configs")
      BY <2>3, Named DEF Evolves, Makes, Has
    <3>6. v < 22 => ~Has(d.t, "display_jobs")
      <4>1. v < 22 => "display_jobs" \notin Makes(v)
        BY DEF Makes, Latest
      <4>. QED
        BY <1>2, <2>3, <4>1, Named DEF Evolves, Has, Latest
    <3>. QED
      BY <3>2, <3>4, <3>5, <3>6
  <2>6. v = 22 => InColumns(d, "display_jobs", "schedule_enabled")
    <3>1. SUFFICES ASSUME v = 22
                   PROVE  InColumns(d, "display_jobs", "schedule_enabled")
      OBVIOUS
    <3>2. d = M0022(b) /\ ~Has(b.t, "display_jobs")
      BY <1>2, <3>1, Migrations
    <3>3. IsDb(b) /\ Within(b.t, 21) /\ Ided(b.t)
      BY <2>1, <3>1, WithinIded DEF FileOK, Latest
    <3>. QED
      BY <3>2, <3>3, M0022Effect
  <2>7. v < 18 \/ v > 18 => Released[v] = d
    <3>1. Released[v] = After(v, b)
      BY ReleasedSteps
    <3>. QED
      BY <3>1 DEF After
  <2>8. CASE v = 18
    <3>1. Released[v] = WithRuns(d)
      <4>1. Released[v] = After(v, b)
        BY ReleasedSteps
      <4>. QED
        BY <2>8, <4>1 DEF After
    <3>2. /\ FileOK(Released[v], 18, {}) /\ Released[v].r = d.r /\ Has(Released[v].t, "sync_job_runs")
          /\ \A name \in Tables \ {"sync_job_runs"} : Released[v].t[name] = d.t[name]
      BY <2>3, <2>8, <3>1, RunsTable
    <3>3. Has(b.t, "motd_configs") /\ ~Has(d.t, "display_jobs")
      BY <1>2, <2>5, <2>8
    <3>4. Has(Released[v].t, "motd_configs") /\ ~Has(Released[v].t, "display_jobs")
      BY <2>5, <2>8, <3>2, <3>3, Named DEF Has
    <3>. QED
      BY <2>4, <2>8, <3>2, <3>4
  <2>9. CASE v # 18
    <3>1. Released[v] = d
      BY <2>7, <2>9
    <3>2. v >= 18 => Has(d.t, "sync_job_runs")
      BY <2>5, <2>9
    <3>3. v \in 15..21 => Has(d.t, "motd_configs")
      BY <1>2, <2>5
    <3>. QED
      BY <2>3, <2>4, <2>5, <2>6, <3>1, <3>2, <3>3, Zenon
  <2>. QED
    BY <2>8, <2>9
<1> DEFINE Bad == {v \in 0..Latest : ~Good(v)}
<1> SUFFICES ASSUME Bad # {}
             PROVE  FALSE
  OBVIOUS
<1>3. Bad \in SUBSET Nat
  BY DEF Latest
<1>4. \A v \in 0..Latest : Good(v) <=> v \notin Bad
  OBVIOUS
<1>5. \A v \in 1..Latest : v - 1 \notin Bad => v \notin Bad
  BY <1>2, <1>4 DEF Latest
<1>6. Bad \subseteq 0..Latest /\ 0 \notin Bad
  BY <1>1
<1> HIDE DEF Bad, Good
<1>7. PICK v \in Bad : \A w \in Bad : v <= w
  BY <1>3, FirstOf
<1>8. v \in 1..Latest
  BY <1>6, <1>7 DEF Latest
<1>. QED
  BY <1>5, <1>7, <1>8 DEF Latest

-----------------------------------------------------------------------------
(* The files there are at first.                                               *)

(* The rows r after what users did, see Lived.                                 *)
Touched(r, v, p, i, c, s, d, m, j, g) ==
  [r EXCEPT !.panel = p, !.profile = IF v >= 7 THEN ProfileOf(p) ELSE NULL,
            !.target = IF v >= 7 THEN ProfileOf(p) ELSE NULL,
            !.image = i, !.cadence = c, !.text["style"] = s,
            !.ids = d, !.scene = m, !.motd = j.motd, !.job = j.job, !.jobGrid = j.grid, !.model = j.model,
            !.sched = g.sched, !.lease = g.lease, !.shows = g.shows, !.hold = g.hold]

(* The same field by field.                                                    *)
LEMMA TouchedFields ==
  ASSUME NEW r, DOMAIN r = RowFields, r.text = [b \in Blocks |-> r.text[b]],
         NEW v, NEW p, NEW i, NEW c, NEW s, NEW d, NEW m, NEW j, NEW g, NEW x,
         x = Touched(r, v, p, i, c, s, d, m, j, g)
  PROVE  /\ DOMAIN x = RowFields
         /\ x.panel = p /\ x.profile = (IF v >= 7 THEN ProfileOf(p) ELSE NULL) /\ x.target = x.profile
         /\ x.image = i /\ x.cadence = c /\ x.ids = d /\ x.scene = m /\ x.motd = j.motd
         /\ x.text = [b \in Blocks |-> IF b = "style" THEN s ELSE r.text[b]]
         /\ x.job = j.job /\ x.model = j.model /\ x.jobGrid = j.grid /\ x.sched = g.sched /\ x.lease = g.lease
         /\ x.shows = g.shows /\ x.hold = g.hold
         /\ x.seen = r.seen /\ x.humanoid = r.humanoid /\ x.shelf = r.shelf
<1>1. DOMAIN x = RowFields
  BY DEF Touched
<1>2. /\ x.panel = p /\ x.image = i /\ x.cadence = c /\ x.ids = d /\ x.scene = m /\ x.motd = j.motd
  BY DEF Touched, RowFields
<1>3. x.profile = (IF v >= 7 THEN ProfileOf(p) ELSE NULL) /\ x.target = (IF v >= 7 THEN ProfileOf(p) ELSE NULL)
  BY DEF Touched, RowFields
<1>4. x.job = j.job /\ x.model = j.model /\ x.jobGrid = j.grid /\ x.sched = g.sched /\ x.lease = g.lease
  BY DEF Touched, RowFields
<1>5. x.shows = g.shows /\ x.hold = g.hold /\ x.seen = r.seen /\ x.humanoid = r.humanoid /\ x.shelf = r.shelf
  BY DEF Touched, RowFields
<1>6. x.text = [r.text EXCEPT !["style"] = s]
  BY DEF Touched, RowFields
<1>7. x.text = [b \in Blocks |-> IF b = "style" THEN s ELSE r.text[b]]
  BY <1>6 DEF Blocks
<1>. QED
  BY <1>1, <1>2, <1>3, <1>4, <1>5, <1>7

(* The choices of Lived, each by its name.                                     *)
JobKinds(v) == {"idle", IF v = 22 THEN "scheduled" ELSE IF v < 26 THEN "interval" ELSE "cron"}
TextModels(v) == {"retired", "own", IF v < 29 THEN "retired" ELSE "current"}
MotdOf(q, l) == [motd |-> q, job |-> "none", grid |-> FALSE, model |-> IF q = "none" THEN "none" ELSE l]
JobOf(k, b, l) == [motd |-> "none", job |-> k, grid |-> b, model |-> l]
JobsOf(v) ==
  IF v < 15 THEN {[motd |-> "none", job |-> "none", grid |-> FALSE, model |-> "none"]}
  ELSE IF v < 22 THEN {MotdOf(q, l) : q \in {"none", "idle", "scheduled"}, l \in {"retired", "own"}}
  ELSE {JobOf(k, b, l) : k \in JobKinds(v), b \in BOOLEAN, l \in TextModels(v)}

GridKinds(v) == IF v < 23 THEN {"off"} ELSE IF v < 27 THEN {"off", "mask"} ELSE {"off", "cron"}
GridOf(v, k, b) ==
  [sched |-> k, lease |-> IF k = "cron" THEN "set" ELSE NULL, shows |-> b,
   hold |-> IF b /\ v >= 25 THEN "set" ELSE NULL]
Showing(v) == IF v < 8 THEN {FALSE} ELSE BOOLEAN
GridsOf(v) == {GridOf(v, k, b) : k \in GridKinds(v), b \in Showing(v)}

Panels == {"seven", "odd"}
Images(v) == IF v = 1 THEN {"none", "raster"} ELSE {"none"}
Cadences(v, r) == IF v < 20 THEN {"external"} ELSE {r.cadence, "manual"}
Styles(v, r) == IF v < 4 THEN {"absent"} ELSE {r.text["style"], "edited", "absent"}
Ids(v) == IF v \in {4, 5} THEN {"hex", "dashed"} ELSE {"hex"}
Scenes(v, r) == IF v < 15 THEN {"absent"} ELSE {r.scene, "retiring", "chosen"}
Motds(v) == IF v \in 15..21 THEN {"none", "idle", "scheduled"} ELSE {"none"}
ModelNames == {"none", "retired", "own", "current"}

(* What users can have done under release v.                                   *)
Uses(v, r, p, i, c, s, d, m, j, g) ==
  /\ p \in Panels /\ i \in Images(v) /\ c \in Cadences(v, r) /\ s \in Styles(v, r)
  /\ d \in Ids(v) /\ m \in Scenes(v, r) /\ j.motd \in Motds(v) /\ j.model \in ModelNames
  /\ j.job \in (IF v < 22 THEN {"none"} ELSE JobKinds(v)) /\ j.grid \in BOOLEAN
  /\ g.sched \in GridKinds(v)
  /\ g.lease = IF g.sched = "cron" THEN "set" ELSE NULL
  /\ g.shows \in BOOLEAN
  /\ g.hold = IF g.shows /\ v >= 25 THEN "set" ELSE NULL

(* A job and a grid of release v have the forms of that release.               *)
LEMMA JobsOfUse ==
  ASSUME NEW v \in 0..Latest, NEW j \in JobsOf(v)
  PROVE  /\ j.job \in (IF v < 22 THEN {"none"} ELSE JobKinds(v)) /\ j.grid \in BOOLEAN
         /\ j.motd \in Motds(v) /\ j.model \in ModelNames
<1>1. CASE v < 15
  <2>1. j = [motd |-> "none", job |-> "none", grid |-> FALSE, model |-> "none"]
    BY <1>1 DEF JobsOf
  <2>. QED
    BY <1>1, <2>1 DEF Motds, ModelNames
<1>2. CASE v \in 15..21
  <2>1. PICK q \in {"none", "idle", "scheduled"}, l \in {"retired", "own"} : j = MotdOf(q, l)
    BY <1>2 DEF JobsOf
  <2>. QED
    BY <1>2, <2>1 DEF MotdOf, Motds, ModelNames
<1>3. CASE v >= 22
  <2>1. PICK k \in JobKinds(v), b \in BOOLEAN, l \in TextModels(v) : j = JobOf(k, b, l)
    BY <1>3 DEF JobsOf
  <2>. QED
    BY <1>3, <2>1 DEF JobOf, TextModels, Motds, ModelNames
<1>. QED
  BY <1>1, <1>2, <1>3 DEF Latest

LEMMA GridsOfUse ==
  ASSUME NEW v \in 0..Latest, NEW g \in GridsOf(v)
  PROVE  /\ g.sched \in GridKinds(v)
         /\ g.lease = IF g.sched = "cron" THEN "set" ELSE NULL
         /\ g.shows \in BOOLEAN
         /\ g.hold = IF g.shows /\ v >= 25 THEN "set" ELSE NULL
<1>1. PICK k \in GridKinds(v), b \in Showing(v) : g = GridOf(v, k, b)
  BY DEF GridsOf
<1>2. b \in BOOLEAN
  BY DEF Showing
<1>. QED
  BY <1>1, <1>2 DEF GridOf

(* Lived, by those names.                                                      *)
LEMMA LivedSet ==
  ASSUME NEW v
  PROVE  Lived(v) = {Touched(Released[v].r, v, p, i, c, s, d, m, j, g) :
                    p \in Panels, i \in Images(v), c \in Cadences(v, Released[v].r),
                    s \in Styles(v, Released[v].r), d \in Ids(v), m \in Scenes(v, Released[v].r),
                    j \in JobsOf(v), g \in GridsOf(v)}
  BY DEF Lived, Touched, Panels, Images, Cadences, Styles, Ids, Scenes, JobsOf, GridsOf,
         JobKinds, MotdOf, JobOf, TextModels, GridKinds, GridOf, Showing

(* Its rows one by one.                                                        *)
LEMMA LivedTouched ==
  ASSUME NEW v \in 0..Latest, NEW x \in Lived(v)
  PROVE  \E p, i, c, s, d, m, j, g :
           /\ Uses(v, Released[v].r, p, i, c, s, d, m, j, g)
           /\ x = Touched(Released[v].r, v, p, i, c, s, d, m, j, g)
<1>2. PICK p \in Panels, i \in Images(v), c \in Cadences(v, Released[v].r),
           s \in Styles(v, Released[v].r), d \in Ids(v), m \in Scenes(v, Released[v].r),
           j \in JobsOf(v), g \in GridsOf(v) :
        x = Touched(Released[v].r, v, p, i, c, s, d, m, j, g)
  BY LivedSet
<1>3. Uses(v, Released[v].r, p, i, c, s, d, m, j, g)
  BY JobsOfUse, GridsOfUse DEF Uses
<1>. QED
  BY <1>2, <1>3

(* They are rows of their version.                                             *)
LEMMA LivedRows ==
  ASSUME NEW v \in 0..Latest, NEW x \in Lived(v)
  PROVE  RowsOK(x, v, {}) /\ x.panel # "none"
<1> DEFINE r == Released[v].r
<1>1. FileOK(Released[v], v, {}) /\ r.panel = "seven"
  BY ReleasedOK
<1>2. RowsOK(r, v, {}) /\ DOMAIN r = RowFields
  BY <1>1 DEF FileOK, IsDb
<1>3. r.text \in [Blocks -> Texts] /\ r.text = [b \in Blocks |-> r.text[b]]
  BY <1>2 DEF RowsOK, RowTypes
<1>4. PICK p, i, c, s, d, m, j, g :
           /\ Uses(v, r, p, i, c, s, d, m, j, g)
           /\ x = Touched(r, v, p, i, c, s, d, m, j, g)
  BY LivedTouched
<1>5. /\ DOMAIN x = RowFields
      /\ x.panel = p /\ x.profile = (IF v >= 7 THEN ProfileOf(p) ELSE NULL) /\ x.target = x.profile
      /\ x.image = i /\ x.cadence = c /\ x.ids = d /\ x.scene = m /\ x.motd = j.motd
      /\ x.text = [b \in Blocks |-> IF b = "style" THEN s ELSE r.text[b]]
      /\ x.job = j.job /\ x.model = j.model /\ x.jobGrid = j.grid /\ x.sched = g.sched /\ x.lease = g.lease
      /\ x.shows = g.shows /\ x.hold = g.hold
      /\ x.seen = r.seen /\ x.humanoid = r.humanoid /\ x.shelf = r.shelf
  BY <1>2, <1>3, <1>4, TouchedFields
<1>6. ProfileOf(p) \in {"seven", "default"}
  BY DEF ProfileOf
<1>7. c \in {"none", "external", "manual", "interval", "cron"} /\ m \in {"absent", "chosen", "retiring", r.scene} /\ s \in {"absent", "edited", r.text["style"]}
  BY <1>1, <1>2, <1>4 DEF Uses, Cadences, Scenes, Styles, RowsOK, RowTypes
<1>8. RowTypes(x)
  <2>1. x.text \in [Blocks -> Texts]
    BY <1>3, <1>5, <1>7 DEF Blocks, Texts
  <2>2. x.profile \in Profiles /\ x.target \in Profiles
    BY <1>5, <1>6 DEF Profiles
  <2>3. x.humanoid \in Presets /\ x.scene \in Presets /\ x.seen \in {NULL, "set"}
    BY <1>2, <1>5, <1>7 DEF RowsOK, RowTypes, Presets
  <2>4. /\ x.panel \in {"seven", "odd", "none"} /\ x.image \in {"none", "raster", "panel"} /\ x.ids \in {"hex", "dashed"}
        /\ x.motd \in {"none", "idle", "scheduled"} /\ x.model \in {"none", "retired", "own", "current"}
    BY <1>4, <1>5 DEF Uses, Panels, Images, Ids, Motds, ModelNames, JobKinds, GridKinds
  <2>5. /\ x.job \in {"none", "idle", "scheduled", "interval", "cron"} /\ x.jobGrid \in BOOLEAN
        /\ x.sched \in {"off", "mask", "cron"} /\ x.lease \in {NULL, "set"}
        /\ x.shows \in BOOLEAN /\ x.hold \in {NULL, "set"}
    BY <1>4, <1>5 DEF Uses, Panels, Images, Ids, Motds, JobKinds, GridKinds
  <2>. QED
    BY <1>5, <1>7, <2>1, <2>2, <2>3, <2>4, <2>5 DEF RowTypes
<1>9. Seeded(x, v)
  <2>1. Seeded(r, v)
    BY <1>2 DEF RowsOK
  <2>2. x.text["palette"] = r.text["palette"] /\ x.text["style"] = s
    BY <1>5 DEF Blocks
  <2>3. v < 4 => s = "absent"
    BY <1>4 DEF Uses, Styles, Scenes
  <2>4. v < 15 => m = "absent"
    BY <1>4 DEF Uses, Styles, Scenes
  <2>. QED
    BY <1>5, <1>7, <2>1, <2>2, <2>3, <2>4 DEF Seeded
<1>10. Synced(x, v, {})
  <2>1. r.panel # "none" /\ Synced(r, v, {})
    BY <1>1, <1>2 DEF RowsOK
  <2>2. v >= 3 => x.seen = "set"
    BY <1>5, <2>1 DEF Synced
  <2>. QED
    BY <1>4, <1>5, <2>2 DEF Synced, Uses, Ids, Images, Panels, Latest
<1>11. Scheduled(x, v)
  <2>1. Scheduled(r, v)
    BY <1>2 DEF RowsOK
  <2>. QED
    BY <1>4, <1>5, <2>1 DEF Scheduled, Uses, Cadences, Motds, JobKinds, GridKinds, Panels, Latest
<1>. QED
  BY <1>4, <1>5, <1>8, <1>9, <1>10, <1>11 DEF RowsOK, Uses, Panels

(* The files there are at first are files of their versions.                   *)
LEMMA LivedFile ==
  ASSUME NEW v \in 0..Latest, NEW x \in Lived(v)
  PROVE  FileOK([t |-> Released[v].t, r |-> x], v, {}) /\ RowsOK(x, v, {})
<1> DEFINE db == [t |-> Released[v].t, r |-> x]
<1>1. RowsOK(x, v, {}) /\ x.panel # "none"
  BY LivedRows
<1>2. FileOK(Released[v], v, {}) /\ Released[v].r.panel = "seven"
  BY ReleasedOK
<1>3. db.t = Released[v].t /\ db.r = x
  OBVIOUS
<1> HIDE DEF db
<1>4. IsDb(db)
  <2>1. DOMAIN x = RowFields
    BY <1>1 DEF RowsOK, RowTypes
  <2>2. db = [t |-> db.t, r |-> db.r]
    BY DEF db
  <2>. QED
    BY <1>2, <1>3, <2>1, <2>2 DEF FileOK, IsDb
<1>5. Landmarks(db, v, {})
  <2>1. x.job = "scheduled" => v = 22
    BY <1>1 DEF RowsOK, Scheduled
  <2>2. x.motd # "none" => v \in 15..21
    BY <1>1 DEF RowsOK, Scheduled
  <2>3. x.job = "scheduled" => InColumns(Released[v], "display_jobs", "schedule_enabled")
    BY <2>1, ReleasedOK
  <2>4. x.motd # "none" => Has(Released[v].t, "motd_configs")
    BY <2>2, ReleasedOK
  <2>5. Landmarks(Released[v], v, {})
    BY <1>2 DEF FileOK
  <2>. QED
    BY <1>3, <2>3, <2>4, <2>5 DEF Landmarks, InColumns, Has
<1>6. Heirlooms(db, v, {})
  BY <1>2, <1>3 DEF FileOK, Heirlooms, InColumns
<1>7. Within(db.t, v)
  BY <1>2, <1>3 DEF FileOK
<1>. QED
  BY <1>1, <1>3, <1>4, <1>5, <1>6, <1>7 DEF FileOK, db

(* And so is a new one.                                                        *)
LEMMA FreshFile ==
  FileOK(Fresh, 0, {}) /\ RowsOK(Fresh.r, 0, {})
<1>1. Fresh.t = [name \in Tables |-> {}] /\ Fresh.r = NoRows /\ Fresh = [t |-> Fresh.t, r |-> Fresh.r]
  BY DEF Fresh
<1>2. /\ DOMAIN NoRows = RowFields /\ NoRows.panel = "none" /\ NoRows.cadence = "none"
      /\ NoRows.seen = NULL /\ NoRows.profile = NULL /\ NoRows.image = "none" /\ NoRows.target = NULL
      /\ NoRows.text = [b \in Blocks |-> "absent"] /\ NoRows.ids = "hex"
      /\ NoRows.humanoid = "absent" /\ NoRows.scene = "absent" /\ NoRows.shelf = "absent"
      /\ NoRows.motd = "none" /\ NoRows.model = "none" /\ NoRows.job = "none" /\ NoRows.jobGrid = FALSE
      /\ NoRows.sched = "off" /\ NoRows.lease = NULL /\ NoRows.shows = FALSE /\ NoRows.hold = NULL
  BY DEF NoRows, LegacyRows, RowFields
<1>3. RowsOK(NoRows, 0, {})
  <2>1. /\ NoRows.text \in [Blocks -> Texts]
        /\ NoRows.text["palette"] = "absent" /\ NoRows.text["style"] = "absent"
    BY <1>2 DEF Blocks, Texts
  <2>2. RowTypes(NoRows)
    BY <1>2, <2>1 DEF RowTypes, Profiles, Presets
  <2>3. Seeded(NoRows, 0)
    BY <1>2, <2>1 DEF Seeded
  <2>4. Synced(NoRows, 0, {}) /\ Scheduled(NoRows, 0)
    BY <1>2 DEF Synced, Scheduled
  <2>. QED
    BY <2>2, <2>3, <2>4 DEF RowsOK
<1>4. Within(Fresh.t, 0) /\ Landmarks(Fresh, 0, {}) /\ Heirlooms(Fresh, 0, {})
  BY <1>1, <1>2, Named DEF Within, Landmarks, Heirlooms, Has, InColumns
<1>. QED
  BY <1>1, <1>2, <1>3, <1>4 DEF FileOK, IsDb

(* The first rows are still there at first.                                    *)
LEMMA CarriedAtFirst ==
  ASSUME NEW v \in 0..Latest, NEW r, RowsOK(r, v, {})
  PROVE  CarriedOver(r, v, r, v)
<1>1. Scheduled(r, v) /\ r.sched \in {"off", "mask", "cron"}
  BY DEF RowsOK, RowTypes
<1>. QED
  BY <1>1 DEF Scheduled, CarriedOver, Latest

(* More crashes explain no less.                                               *)
LEMMA MoreCrashes ==
  ASSUME NEW db, NEW v, NEW C, NEW D, C \subseteq D, FileOK(db, v, C)
  PROVE  FileOK(db, v, D)
<1>1. Landmarks(db, v, D) /\ Heirlooms(db, v, D)
  BY DEF FileOK, Landmarks, Heirlooms
<1>2. Synced(db.r, v, D)
  BY DEF FileOK, RowsOK, Synced
<1>. QED
  BY <1>1, <1>2 DEF FileOK, RowsOK

(* A crash joins the ones before it.                                           *)
LEMMA CrashesGrow ==
  ASSUME crashes \in Seq(0..Latest), NEW k \in 0..Latest, crashes' = Append(crashes, k)
  PROVE  crashes' \in Seq(0..Latest) /\ CrashedOnes' = CrashedOnes \cup {k}
<1>1. /\ Len(crashes') = Len(crashes) + 1
      /\ crashes'[Len(crashes) + 1] = k
      /\ \A i \in 1..Len(crashes) : crashes'[i] = crashes[i]
      /\ crashes' \in Seq(0..Latest) /\ Len(crashes) \in Nat
      /\ DOMAIN crashes = 1..Len(crashes) /\ DOMAIN crashes' = 1..(Len(crashes) + 1)
  OBVIOUS
<1>. QED
  BY <1>1 DEF CrashedOnes

(* What a start makes belongs to the models; a bare upgrade makes less.        *)
LEMMA CreatedTables ==
  Created \subseteq DOMAIN Models /\ Bootstrap \subseteq Created /\ "sync_job_runs" \in Created
  BY TableNames DEF Created, CreateOrder, Bootstrap

(* The invariant holds at first ...                                            *)
LEMMA SchemaInit ==
  Init => SchemaInv
<1> SUFFICES ASSUME Init
             PROVE  SchemaInv
  OBVIOUS
<1>1. PICK v \in From : \E db \in {[t |-> Released[v].t, r |-> r] : r \in Lived(v)} \cup (IF v = 0 THEN {Fresh} ELSE {}) :
            /\ tables = db.t
            /\ rows = db.r
            /\ version = v
            /\ origin = [version |-> v, rows |-> db.r, fresh |-> db = Fresh]
  BY DEF Init
<1>2. v \in 0..Latest
  BY <1>1, UpgradeAssumption
<1>3. PICK db \in {[t |-> Released[v].t, r |-> r] : r \in Lived(v)} \cup (IF v = 0 THEN {Fresh} ELSE {}) :
            /\ tables = db.t
            /\ rows = db.r
            /\ version = v
            /\ origin = [version |-> v, rows |-> db.r, fresh |-> db = Fresh]
  BY <1>1
<1>4. /\ FileOK(db, v, {}) /\ RowsOK(db.r, v, {}) /\ db = Database
      /\ v >= 18 => Has(db.t, "sync_job_runs")
  <2>1. CASE db \in {[t |-> Released[v].t, r |-> r] : r \in Lived(v)}
    <3>1. PICK r \in Lived(v) : db = [t |-> Released[v].t, r |-> r]
      BY <2>1
    <3>2. FileOK(db, v, {}) /\ RowsOK(db.r, v, {})
      BY <1>2, <3>1, LivedFile
    <3>3. v >= 18 => Has(Released[v].t, "sync_job_runs")
      BY <1>2, ReleasedOK
    <3>. QED
      BY <1>3, <3>1, <3>2, <3>3 DEF Database
  <2>2. CASE db = Fresh /\ v = 0
    BY <1>3, <2>2, FreshFile DEF Fresh, Database
  <2>. QED
    BY <1>3, <2>1, <2>2
<1>5. CrashedOnes = {} /\ crashes = <<>> /\ phase = "down" /\ mode = "app" /\ copies = {}
  BY DEF Init, CrashedOnes
<1>6. Process
  BY <1>2, <1>3, <1>4, <1>5 DEF Process
<1>7. origin.rows = rows /\ origin.version = version /\ version = v /\ rows = db.r
  BY <1>3
<1>8. CarriedOver(rows, v, rows, v)
  BY <1>2, <1>4, <1>7, CarriedAtFirst
<1>. QED
  BY <1>4, <1>5, <1>6, <1>7, <1>8 DEF SchemaInv, CopiesExplained, StopsAreForeseen

(* A start fills in the missing tables, whether it gets to the end or not.     *)
LEMMA Filled ==
  ASSUME SchemaInv, NEW names \in SUBSET Created, NEW D, CrashedOnes \subseteq D,
         NEW t, t = CreateMissing(tables, names)
  PROVE  /\ FileOK([t |-> t, r |-> rows], version, D)
         /\ \A name \in names : Has(t, name)
         /\ Has(tables, "sync_job_runs") => Has(t, "sync_job_runs")
<1>1. FileOK(Database, version, CrashedOnes) /\ version \in 0..Latest
  BY DEF SchemaInv, Process
<1>2. Database.t = tables /\ Database.r = rows
  BY DEF Database
<1>3. FileOK(Database, version, D)
  BY <1>1, MoreCrashes
<1>4. /\ FileOK([t |-> CreateMissing(Database.t, names), r |-> Database.r], version, D)
      /\ \A name \in names : Has(CreateMissing(Database.t, names), name)
      /\ \A name \in Tables : Has(Database.t, name) => CreateMissing(Database.t, names)[name] = Database.t[name]
  BY <1>1, <1>3, FileFilled
<1>5. Has(tables, "sync_job_runs") => Has(t, "sync_job_runs")
  BY <1>2, <1>4, Named DEF Has
<1>. QED
  BY <1>2, <1>4, <1>5

(* ... and every action keeps it.                                              *)
LEMMA StartAppKeeps ==
  ASSUME SchemaInv, StartApp
  PROVE  SchemaInv'
<1>1. /\ FileOK([t |-> tables', r |-> rows], version, CrashedOnes)
      /\ \A name \in Created : Has(tables', name)
      /\ Has(tables, "sync_job_runs") => Has(tables', "sync_job_runs")
  BY Filled DEF StartApp, Created
<1>2. Database' = [t |-> tables', r |-> rows] /\ CrashedOnes' = CrashedOnes
  BY DEF StartApp, Database, CrashedOnes
<1>3. Process'
  BY <1>1 DEF StartApp, SchemaInv, Process
<1>. QED
  BY <1>1, <1>2, <1>3 DEF StartApp, SchemaInv, CopiesExplained, StopsAreForeseen

(* A crash while tables are made is a start that got less far.                 *)
LEMMA CrashCreatingKeeps ==
  ASSUME SchemaInv, CrashCreating
  PROVE  SchemaInv'
<1>1. PICK k \in DOMAIN CreateOrder : tables' = CreateMissing(tables, {CreateOrder[i] : i \in 1..k})
  BY DEF CrashCreating
<1>2. {CreateOrder[i] : i \in 1..k} \in SUBSET Created
  <2>1. DOMAIN CreateOrder = 1..13
    BY DEF CreateOrder
  <2>. QED
    BY <2>1 DEF Created
<1>3. 0 \in 0..Latest
  BY DEF Latest
<1>4. crashes' \in Seq(0..Latest) /\ CrashedOnes' = CrashedOnes \cup {0}
  BY <1>3, CrashesGrow DEF CrashCreating, SchemaInv, Process
<1>5. /\ FileOK([t |-> tables', r |-> rows], version, CrashedOnes \cup {0})
      /\ Has(tables, "sync_job_runs") => Has(tables', "sync_job_runs")
  BY <1>1, <1>2, Filled
<1>6. Database' = [t |-> tables', r |-> rows]
  BY DEF CrashCreating, Database
<1>7. Process'
  BY <1>4, <1>5 DEF CrashCreating, SchemaInv, Process
<1>. QED
  BY <1>4, <1>5, <1>6, <1>7 DEF CrashCreating, SchemaInv, CopiesExplained, StopsAreForeseen

(* The bare upgrade makes a few of them.                                       *)
LEMMA StartCliKeeps ==
  ASSUME SchemaInv, StartCli
  PROVE  SchemaInv'
<1>1. /\ FileOK([t |-> tables', r |-> rows], version, CrashedOnes)
      /\ Has(tables, "sync_job_runs") => Has(tables', "sync_job_runs")
  BY CreatedTables, Filled DEF StartCli
<1>2. Database' = [t |-> tables', r |-> rows] /\ CrashedOnes' = CrashedOnes
  BY DEF StartCli, Database, CrashedOnes
<1>3. Process'
  BY <1>1 DEF StartCli, SchemaInv, Process
<1>. QED
  BY <1>1, <1>2, <1>3 DEF StartCli, SchemaInv, CopiesExplained, StopsAreForeseen

(* A migration takes a file of its version to one of the next.                 *)
LEMMA UpgradeKeeps ==
  ASSUME SchemaInv, Upgrade
  PROVE  SchemaInv'
<1> DEFINE n == version + 1
           d == Migration(n, Database)
<1>1. n \in 1..Latest /\ n - 1 = version /\ version \in 0..Latest
  BY DEF SchemaInv, Process, Upgrade, Latest
<1>2. FileOK(Database, n - 1, CrashedOnes) /\ ~Raises(n, Database)
  BY <1>1 DEF SchemaInv, Upgrade
<1>3. FileOK(d, n, CrashedOnes) /\ Evolves(n, Database.t, d.t) /\ Writes(n, Database, d.r)
  BY <1>1, <1>2, FileMoves
<1>4. Database.t = tables /\ Database.r = rows
  BY DEF Database
<1>5. tables' = d.t /\ rows' = d.r /\ version' = n
  BY DEF Upgrade, Becomes
<1>6. Database' = d /\ CrashedOnes' = CrashedOnes
  BY <1>3, <1>5 DEF Database, CrashedOnes, FileOK, IsDb, Upgrade
<1>7. CarriedOver(origin.rows, origin.version, d.r, n)
  <2>1. /\ RowsOK(Database.r, n - 1, CrashedOnes) /\ Landmarks(Database, n - 1, CrashedOnes)
        /\ RowsOK(origin.rows, origin.version, {}) /\ origin.version \in 0..Latest
        /\ CarriedOver(origin.rows, origin.version, Database.r, n - 1)
    BY <1>1, <1>2, <1>4 DEF FileOK, SchemaInv, Process
  <2>. QED
    BY <1>1, <1>3, <2>1, FirstRowsStay
<1>8. \A name \in DOMAIN Models : Has(tables, name) => Has(tables', name)
  <2>1. Within(tables, n - 1)
    BY <1>2, <1>4 DEF FileOK
  <2>. QED
    BY <1>1, <1>3, <1>4, <1>5, <2>1, TablesStay DEF Has
<1>9. Process'
  BY <1>1, <1>5, <1>8, CreatedTables DEF Upgrade, SchemaInv, Process, Latest
<1>. QED
  BY <1>3, <1>5, <1>6, <1>7, <1>9 DEF Upgrade, SchemaInv, CopiesExplained, StopsAreForeseen

(* A migration that raises has one of four causes.                             *)
LEMMA StopKeeps ==
  ASSUME SchemaInv, Stop
  PROVE  SchemaInv'
<1> DEFINE n == version + 1
           d == BeforeCopy(n, Database)
<1>1. version \in 0..Latest /\ FileOK(Database, version, CrashedOnes) /\ n \in 1..Latest /\ n - 1 = version
  BY DEF SchemaInv, Process, Stop, Latest
<1>2. Database.t = tables /\ Database.r = rows
  BY DEF Database
<1>3. Landmarks(Database, version, CrashedOnes) /\ RowsOK(rows, version, CrashedOnes)
  BY <1>1, <1>2 DEF FileOK
<1>4. ASSUME n = 22, M0022Fails(Database)
      PROVE  origin.rows.motd # "none"
  <2>1. rows.motd # "none"
    BY <1>2, <1>4 DEF M0022Fails, CarriesConfigs
  <2>. QED
    BY <2>1 DEF SchemaInv, CarriedOver
<1>5. n = 23 => Has(Database.t, "grids")
  BY <1>1, <1>3 DEF Landmarks, Latest
<1>6. ASSUME n = 24, ~Has(Database.t, "sync_job_runs")
      PROVE  cli /\ origin.version < 18
  <2>1. ~Has(tables, "sync_job_runs") /\ "sync_job_runs" \in Created
    BY <1>2, <1>6, CreatedTables
  <2>2. /\ phase = "migrating" /\ mode \in {"app", "cli"} /\ origin.version \in 0..Latest
        /\ mode = "app" => \A name \in Created : Has(tables, name)
        /\ origin.version >= 18 => Has(tables, "sync_job_runs")
        /\ mode = "cli" => cli
    BY <1>6 DEF SchemaInv, Process, Stop
  <2>. QED
    BY <2>1, <2>2 DEF Latest
<1>7. ASSUME n = 28, M0028Fails(Database)
      PROVE  Crashed(28)
  BY <1>1, <1>2, <1>3, <1>7 DEF M0028Fails, Landmarks, CrashedOnes, Crashed, Latest
<1>8. /\ Raises(n, Database) => origin.rows.motd # "none" \/ Crashed(28) \/ n = 24
      /\ Raises(n, Database) /\ n = 24 => cli /\ origin.version < 18
  BY <1>1, <1>4, <1>5, <1>6, <1>7 DEF Raises
<1>9. Blocked(n) => copies # {}
  BY DEF Blocked
<1>10. /\ UNCHANGED <<version, mode, origin, crashes, cli>> /\ phase' = "stopped"
       /\ \/ Blocked(n) /\ Becomes(d) /\ UNCHANGED copies
          \/ Raises(n, Database) /\ n = 24 /\ Becomes(d) /\ copies' = copies \cup FirstCopy(24, Database)
          \/ Raises(n, Database) /\ n # 24 /\ UNCHANGED <<tables, rows, copies>>
  BY DEF Stop
<1>11. /\ FileOK(d, version, CrashedOnes) /\ d.r = rows
       /\ \A name \in DOMAIN Models : Has(tables, name) => Has(d.t, name)
  BY <1>1, <1>2, CopyBegins
<1>12. CrashedOnes' = CrashedOnes /\ Crashed(28)' = Crashed(28)
  BY <1>10 DEF CrashedOnes, Crashed
<1>13. CopiesExplained'
  BY <1>8, <1>10, <1>12 DEF SchemaInv, CopiesExplained
<1>14. StopsAreForeseen'
  <2>1. origin.rows.motd # "none" \/ Crashed(28) \/ copies' # {}
    BY <1>1, <1>8, <1>9, <1>10, CopyingOnes
  <2>2. copies' # {} => ((cli /\ origin.version < 18) \/ \E k \in Copying : Crashed(k))'
    BY <1>13 DEF CopiesExplained, CrashedOnes, Crashed
  <2>. QED
    BY <1>10, <1>12, <2>1, <2>2 DEF StopsAreForeseen
<1>15. FileOK(Database', version', CrashedOnes') /\ rows' = rows
       /\ (Has(tables, "sync_job_runs") => Has(tables', "sync_job_runs"))
  <2>1. CASE Becomes(d)
    <3>1. tables' = d.t /\ rows' = d.r /\ Database' = d
      BY <1>11, <2>1 DEF Becomes, Database, FileOK, IsDb
    <3>. QED
      BY <1>10, <1>11, <1>12, <3>1, CreatedTables
  <2>2. CASE UNCHANGED <<tables, rows>>
    BY <1>1, <1>10, <1>12, <2>2 DEF Database
  <2>. QED
    BY <1>10, <2>1, <2>2
<1>16. Process'
  BY <1>10, <1>15 DEF SchemaInv, Process
<1>. QED
  BY <1>10, <1>13, <1>14, <1>15, <1>16 DEF SchemaInv

(* A crash leaves a file of the version before.                                *)
LEMMA CrashMigratingKeeps ==
  ASSUME SchemaInv, CrashMigrating
  PROVE  SchemaInv'
<1> DEFINE n == version + 1
<1>1. n \in 1..Latest /\ n - 1 = version /\ version \in 0..Latest
  BY DEF SchemaInv, Process, CrashMigrating, Latest
<1>2. FileOK(Database, n - 1, CrashedOnes) /\ ~Raises(n, Database)
  BY <1>1 DEF SchemaInv, CrashMigrating
<1>3. PICK d \in Early(n, Database) : Becomes(d)
  BY DEF CrashMigrating
<1>4. /\ FileOK(d, n - 1, CrashedOnes \cup {n}) /\ d.r = Database.r
      /\ \A name \in DOMAIN Models : Has(Database.t, name) => Has(d.t, name)
  BY <1>1, <1>2, FileCut
<1>5. Database.t = tables /\ Database.r = rows
  BY DEF Database
<1>6. tables' = d.t /\ rows' = rows /\ Database' = d
  BY <1>3, <1>4, <1>5 DEF Becomes, Database, FileOK, IsDb
<1>7. n \in 0..Latest /\ crashes' = Append(crashes, n)
  BY <1>1 DEF CrashMigrating, Latest
<1>8. crashes' \in Seq(0..Latest) /\ CrashedOnes' = CrashedOnes \cup {n}
  BY <1>7, CrashesGrow DEF SchemaInv, Process
<1>9. Has(tables, "sync_job_runs") => Has(tables', "sync_job_runs")
  BY <1>4, <1>5, <1>6, CreatedTables
<1>10. Process'
  BY <1>8, <1>9 DEF CrashMigrating, SchemaInv, Process
<1>11. FileOK(Database', version', CrashedOnes')
  BY <1>1, <1>4, <1>6, <1>8 DEF CrashMigrating
<1>12. CopiesExplained'
  <2>1. UNCHANGED <<copies, cli, origin>> /\ CrashedOnes \subseteq CrashedOnes'
    BY <1>8 DEF CrashMigrating
  <2>. QED
    BY <2>1 DEF SchemaInv, CopiesExplained
<1>. QED
  BY <1>6, <1>10, <1>11, <1>12 DEF CrashMigrating, SchemaInv, StopsAreForeseen

(* And so does one that leaves a copy.                                         *)
LEMMA CrashCopyingKeeps ==
  ASSUME SchemaInv, CrashCopying
  PROVE  SchemaInv'
<1> DEFINE n == version + 1
           d == BeforeCopy(n, Database)
<1>1. n \in 1..Latest /\ n - 1 = version /\ version \in 0..Latest /\ FileOK(Database, n - 1, CrashedOnes)
  BY DEF SchemaInv, Process, CrashCopying, Latest
<1>2. Database.t = tables /\ Database.r = rows
  BY DEF Database
<1>3. /\ FileOK(d, n - 1, CrashedOnes) /\ d.r = rows
      /\ \A name \in DOMAIN Models : Has(tables, name) => Has(d.t, name)
  BY <1>1, <1>2, CopyBegins
<1>4. tables' = d.t /\ rows' = rows /\ Database' = d
  BY <1>3 DEF CrashCopying, Becomes, Database, FileOK, IsDb
<1>5. n \in 0..Latest /\ crashes' = Append(crashes, n)
  BY <1>1 DEF CrashCopying, Latest
<1>6. crashes' \in Seq(0..Latest) /\ CrashedOnes' = CrashedOnes \cup {n}
  BY <1>5, CrashesGrow DEF SchemaInv, Process
<1>7. FileOK(Database', version', CrashedOnes')
  BY <1>1, <1>3, <1>4, <1>6, MoreCrashes DEF CrashCopying
<1>8. CopiesExplained'
  <2>1. n \in Copying
    BY <1>1, CopyingOnes DEF CrashCopying
  <2>. QED
    BY <1>6, <2>1 DEF CopiesExplained
<1>9. Process'
  BY <1>3, <1>4, <1>6, CreatedTables DEF CrashCopying, SchemaInv, Process
<1>. QED
  BY <1>4, <1>7, <1>8, <1>9 DEF CrashCopying, SchemaInv, StopsAreForeseen

(* The end of the chain, and a restart, touch no file.                         *)
LEMMA FinishKeeps ==
  ASSUME SchemaInv, Finish
  PROVE  SchemaInv'
<1>1. Database' = Database /\ CrashedOnes' = CrashedOnes
  BY DEF Finish, Database, CrashedOnes
<1>2. Process'
  BY DEF Finish, SchemaInv, Process
<1>. QED
  BY <1>1, <1>2 DEF Finish, SchemaInv, CopiesExplained, StopsAreForeseen

LEMMA RestartKeeps ==
  ASSUME SchemaInv, Restart
  PROVE  SchemaInv'
<1>1. Database' = Database /\ CrashedOnes' = CrashedOnes
  BY DEF Restart, Database, CrashedOnes
<1>2. Process'
  BY DEF Restart, SchemaInv, Process
<1>. QED
  BY <1>1, <1>2 DEF Restart, SchemaInv, CopiesExplained, StopsAreForeseen

(* The invariant is inductive.                                                 *)
LEMMA SchemaStep ==
  SchemaInv /\ [Next]_vars => SchemaInv'
<1> SUFFICES ASSUME SchemaInv, [Next]_vars
             PROVE  SchemaInv'
  OBVIOUS
<1>1. CASE UNCHANGED vars
  BY <1>1 DEF vars, SchemaInv, Process, CopiesExplained, StopsAreForeseen, Crashed, Database, CrashedOnes
<1>. QED
  BY <1>1, StartAppKeeps, CrashCreatingKeeps, StartCliKeeps, UpgradeKeeps, StopKeeps, CrashMigratingKeeps,
     CrashCopyingKeeps, FinishKeeps, RestartKeeps DEF Next

(* SchemaInv holds in every state of every behaviour.                          *)
LEMMA SchemaKept ==
  Spec => []SchemaInv
  BY SchemaInit, SchemaStep, PTL DEF Spec

-----------------------------------------------------------------------------
(* What an API that serves has.                                                *)
LEMMA ServingFile ==
  ASSUME SchemaInv, phase = "serving"
  PROVE  /\ mode = "app" /\ version = 30 /\ Latest = 30
         /\ Within(tables, 30) /\ Landmarks(Database, 30, CrashedOnes) /\ Heirlooms(Database, 30, CrashedOnes)
         /\ RowsOK(rows, 30, CrashedOnes) /\ CarriedOver(origin.rows, origin.version, rows, 30)
         /\ \A name \in Created : Has(tables, name)
         /\ origin.version \in 0..30 /\ RowsOK(origin.rows, origin.version, {})
  BY DEF SchemaInv, Process, FileOK, Database, Latest

(* An API that serves has the tables and columns of its models, and of the     *)
(* retired tables only what a crash in 0022 left (create_tables, the chain of  *)
(* migrations), after any number of crashes.                                   *)
THEOREM ServedSchema == Spec => []ServedSchemaIsTheModels
<1>1. SchemaInv => ServedSchemaIsTheModels
  <2>1. SUFFICES ASSUME SchemaInv, phase = "serving"
                 PROVE  /\ mode = "app" /\ version = Latest
                        /\ \A name \in DOMAIN Models : tables[name] = Models[name]
                        /\ \A name \in Retired : Has(tables, name) => name = "motd_messages_old" /\ Crashed(22)
    BY DEF ServedSchemaIsTheModels
  <2>2. /\ mode = "app" /\ version = 30 /\ Latest = 30 /\ Within(tables, 30)
        /\ Landmarks(Database, 30, CrashedOnes) /\ \A name \in Created : Has(tables, name)
    BY <2>1, ServingFile
  <2>3. Database.t = tables
    BY DEF Database
  <2>4. ASSUME NEW name \in Tables
        PROVE  Allowed(name, 30) = Current(name)
    BY DEF Allowed, Latest
  <2>5. ASSUME NEW name \in DOMAIN Models
        PROVE  tables[name] = Models[name]
    <3>1. name \in Created \/ name \in {"device_profiles", "app_settings", "calibre_sync_jobs"}
      BY TableNames DEF Created, CreateOrder
    <3>2. Has(tables, "device_profiles") /\ Has(tables, "app_settings") /\ Has(tables, "calibre_sync_jobs")
      BY <2>2, <2>3 DEF Landmarks
    <3>3. tables[name] # {}
      BY <2>2, <3>1, <3>2 DEF Has
    <3>4. name \in Tables \ {"motd_messages_old"}
      BY TableNames
    <3>5. Needed(name, 30) \subseteq tables[name] /\ tables[name] \subseteq Current(name)
      BY <2>2, <2>4, <3>3, <3>4 DEF Within
    <3>6. Current(name) \subseteq Needed(name, 30)
      BY <2>2, AllIsAdded
    <3>. QED
      BY <3>5, <3>6, ModelsHaveIds
  <2>6. ASSUME NEW name \in Retired, Has(tables, name)
        PROVE  name = "motd_messages_old" /\ Crashed(22)
    <3>1. name = "motd_messages_old"
      <4>1. name \in Tables /\ Current(name) = {}
        BY CurrentColumns DEF Tables
      <4>. QED
        BY <2>2, <2>4, <2>6, <4>1 DEF Within, Has
    <3>2. 22 \in CrashedOnes
      BY <2>2, <2>3, <2>6, <3>1 DEF Landmarks
    <3>. QED
      BY <3>1, <3>2 DEF CrashedOnes, Crashed
  <2>. QED
    BY <2>2, <2>5, <2>6
<1>. QED
  BY <1>1, SchemaKept, PTL

(* The upgrade stops only where it must: where 0022 or 0028 raises, and where  *)
(* a batch_alter_table meets the _alembic_tmp table that a crash in one of the *)
(* nine migrations that copy first, or a bare upgrade stopped in 0024, left.   *)
THEOREM StopsForeseen == Spec => []StopsAreForeseen
<1>1. SchemaInv => StopsAreForeseen
  BY DEF SchemaInv
<1>. QED
  BY <1>1, SchemaKept, PTL

(* What ran before the upgrade runs after it: cadences, schedules and holds    *)
(* are carried over, ids and image targets rewritten (0002 to 0027).           *)
THEOREM RowsCarriedOver == Spec => []RowsAreCarriedOver
<1>1. SchemaInv => RowsAreCarriedOver
  <2>1. SUFFICES ASSUME SchemaInv, phase = "serving"
                 PROVE  RowsAreCarriedOver
    BY DEF RowsAreCarriedOver
  <2>2. /\ RowsOK(rows, 30, CrashedOnes) /\ CarriedOver(origin.rows, origin.version, rows, 30)
        /\ RowsOK(origin.rows, origin.version, {})
    BY <2>1, ServingFile
  <2>3. rows.cadence \in {"none", "manual", "cron"}
    BY <2>2 DEF RowsOK, RowTypes, Scheduled
  <2>4. rows.job \in {"none", "idle", "cron"} /\ rows.sched \in {"off", "cron"}
    BY <2>2 DEF RowsOK, RowTypes, Scheduled
  <2>5. /\ origin.rows.cadence \in {"external", "interval", "cron"} => rows.cadence = "cron"
        /\ origin.rows.cadence = "manual" => rows.cadence = "manual"
    BY <2>2, <2>3 DEF CarriedOver
  <2>6. (\/ origin.rows.sched # "off"
         \/ origin.rows.job = "scheduled" /\ origin.rows.jobGrid) => rows.sched = "cron" /\ rows.lease = "set"
    BY <2>2, <2>4 DEF CarriedOver, RowsOK, Scheduled
  <2>7. /\ origin.rows.job \in {"scheduled", "interval", "cron"} => rows.job = "cron"
        /\ origin.rows.motd = "scheduled" => rows.job = "cron"
    BY <2>2, <2>4 DEF CarriedOver
  <2>8. /\ rows.shows => rows.hold = "set"
        /\ rows.ids = "hex" /\ rows.image # "raster"
        /\ rows.panel # "none" => /\ rows.profile = ProfileOf(rows.panel) /\ rows.target = rows.profile
                                  /\ rows.seen = "set" \/ 3 \in CrashedOnes
    BY <2>2 DEF RowsOK, RowTypes, Synced
  <2>9. 3 \in CrashedOnes => Crashed(3)
    BY DEF CrashedOnes, Crashed
  <2>. QED
    BY <2>5, <2>6, <2>7, <2>8, <2>9 DEF RowsAreCarriedOver
<1>. QED
  BY <1>1, SchemaKept, PTL

(* An operator's texts survive the seeds and the repaints, however often they  *)
(* run (0004, 0013, 0015, 0028), and so does every model but the two that 0029 *)
(* and 0030 retire, which they replace in every row, chosen or not.            *)
THEOREM OperatorTextKept == Spec => []OperatorTextStays
<1>1. SchemaInv => OperatorTextStays
  <2>1. SUFFICES ASSUME SchemaInv
                 PROVE  OperatorTextStays
    OBVIOUS
  <2>2. CarriedOver(origin.rows, origin.version, rows, version)
    BY <2>1 DEF SchemaInv
  <2>3. phase = "serving" => RowsOK(rows, 30, CrashedOnes)
    BY <2>1, ServingFile
  <2>4. /\ \A b \in Blocks :
             LET was == origin.rows.text[b] IN
             was = "edited" \/ (was = "absent" /\ origin.version >= 4) => rows.text[b] = was
        /\ origin.rows.scene = "chosen" => rows.scene = "chosen"
        /\ origin.rows.model = "own" => rows.model = "own"
    BY <2>2 DEF CarriedOver
  <2>5. phase = "serving" =>
         /\ rows.text["style"] \in {"seed15", "edited", "absent"} /\ rows.text["palette"] = "seed13"
         /\ rows.humanoid = "current" /\ rows.shelf = "seeded"
    BY <2>3 DEF RowsOK, Seeded
  <2>6. phase = "serving" => /\ rows.scene = "retiring" => origin.version = 30
                             /\ rows.model = "retired" => origin.version >= 29
    BY <2>1, ServingFile DEF CarriedOver
  <2>. QED
    BY <2>4, <2>5, <2>6 DEF OperatorTextStays
<1>. QED
  BY <1>1, SchemaKept, PTL
=============================================================================
