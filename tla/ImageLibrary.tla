---------------------------- MODULE ImageLibrary ----------------------------
(* The image library: rows in the database, objects in the store, and everyone  *)
(* who adds or removes either.  No transaction spans the two: every operation   *)
(* writes one and then the other, and can stop in between.                      *)
(*                                                                              *)
(* Writers: the sync worker, one pass at a time (an Immich pass begins with the *)
(* cleanup of expired images, then runs its jobs asset by asset; a generating   *)
(* pass draws fresh images), uploads and generations of the API, and operators  *)
(* who delete images or put them on a panel.  The worker's calls are requests   *)
(* the API answers later: a caller may give up on one that is still carried out.*)
EXTENDS Integers, FiniteSets

CONSTANTS Assets,      \* Immich assets, each with its own object path
          ImmichJobs,
          GenJobs,     \* jobs of the generating families (Gemini, Calibre)
          Retained,    \* those with retention_days set
          Capped, Cap, \* Immich jobs with a max_images, and what it is
          Devices,
          ListLimit,   \* rows one listing call returns at most
          SkipExisting,
          MaxRows,     \* rows ever made
          UploadIds,   \* which of them may come from an upload
          MaxFaults    \* faults of the environment

Jobs == ImmichJobs \cup GenJobs

ASSUME LibraryAssumption ==
  /\ ImmichJobs \cap GenJobs = {} /\ {"none", "upload", "nothing"} \cap Jobs = {}
  /\ Capped \subseteq ImmichJobs /\ Retained \subseteq GenJobs
  /\ SkipExisting \in BOOLEAN
  /\ Cap \in Nat /\ ListLimit \in Nat /\ MaxRows \in Nat /\ MaxFaults \in Nat
  /\ Assets \cap 1..(MaxRows + MaxFaults) = {}

VARIABLES
  rows,      \* rows[i]: an image row, or Absent
  made,      \* rows made so far, the identities given out
  objects,   \* objects[p]: the job, or Upload, to whose raster size the object at
             \* path p was rendered, or Nothing
  inserting, \* identities whose insert the API has received and not committed
  deleting,  \* rows a delete request has read, the object removed, not committed
  showing,   \* showing[d]: current_image_id of a device
  pc,        \* where the worker is
  doomed,    \* expired images the cleanup still has to delete
  todo,      \* jobs of the pass not yet run
  job,       \* the job in hand
  pool,      \* what it still has to process
  asset,     \* the asset in hand
  left,      \* uploads the cap still allows
  entry,     \* entry[i]: the row an insert in flight is to write
  asked,     \* rows some request meant to delete (no code)
  fresh,     \* devices that changed their image since the cleanup read them (no code)
  faults, abandoned, stray  \* faults, inserts given up on, objects left behind (no code)

library == <<rows, made, objects, inserting, deleting, entry>>
worker == <<pc, doomed, todo, job, pool, asset, left>>
ghosts == <<asked, fresh, faults, abandoned, stray>>
vars == <<library, showing, worker, ghosts>>

Ids == 1..MaxRows
Fresh == 1..(MaxRows + MaxFaults)
Paths == Assets \cup Fresh
Absent == [job |-> "absent"]
Nothing == "nothing"
NoOne == 0
Unlimited == -1
Upload == "upload"
Stages == {"idle", "listed", "clean", "cleaning", "jobs", "asset", "fetch", "register", "answer"}

Row == [job : Jobs \cup {Upload}, path : Paths, size : Jobs \cup {Upload}, expires : {"never", "later", "past"}]
Kept == {i \in Ids : rows[i] # Absent}
RowsOf(j) == {i \in Kept : rows[i].job = j}
FromImmich(i) == rows[i].job \in ImmichJobs
Shown == {showing[d] : d \in Devices}
Fault == faults < MaxFaults /\ faults' = faults + 1

(* Subsets a listing without an order may return. *)
Listings(S) == {L \in SUBSET S : \/ L = S /\ Cardinality(S) <= ListLimit
                                 \/ Cardinality(L) = ListLimit /\ ListLimit < Cardinality(S)}

Init ==
  /\ rows = [i \in Ids |-> Absent] /\ entry = [i \in Ids |-> Absent] /\ made = 0
  /\ objects = [p \in Paths |-> Nothing]
  /\ inserting = {} /\ deleting = {} /\ asked = {} /\ doomed = {} /\ todo = {} /\ pool = {}
  /\ showing = [d \in Devices |-> 0] /\ fresh = {}
  /\ pc = "idle" /\ job = "none" /\ asset = NoOne /\ left = 0
  /\ faults = 0 /\ abandoned = 0 /\ stray = 0

-----------------------------------------------------------------------------
(* Rows and objects. *)

(* An insert request: the row it carries gets the next identity. *)
Insert(r) ==
  /\ made < MaxRows /\ made' = made + 1
  /\ inserting' = inserting \cup {made'}
  /\ entry' = [entry EXCEPT ![made'] = r]

(* The row an upload, an Immich job and a generating job write. *)
RowOf(j, p, s, e) == [job |-> j, path |-> p, size |-> s, expires |-> e]

(* register_image and the commit of an upload or a generation: no look at rows  *)
(* with the same source, none at the object. *)
CommitInsert(i) ==
  /\ i \in inserting /\ inserting' = inserting \ {i}
  /\ rows' = [rows EXCEPT ![i] = entry[i]]
  /\ entry' = [entry EXCEPT ![i] = Absent]
  /\ IF pc = "answer" /\ asset = i
     THEN /\ pc' = "asset" /\ asset' = NoOne
          /\ left' = IF left = Unlimited THEN left ELSE left - 1
     ELSE UNCHANGED <<pc, asset, left>>
  /\ UNCHANGED <<made, objects, deleting, showing, doomed, todo, job, pool, ghosts>>

(* A path no row, no request and no object has: what a fresh UUID gives. *)
FreshPath == CHOOSE p \in Fresh : /\ objects[p] = Nothing
                                /\ \A i \in Ids : /\ rows[i] # Absent => rows[i].path # p
                                                  /\ i \in inserting => entry[i].path # p

(* An upload or a generation of the API: its object, then its row. *)
UploadImage ==
  /\ made + 1 \in UploadIds
  /\ made + (IF pc = "register" THEN 1 ELSE 0) < MaxRows
  /\ Insert(RowOf(Upload, FreshPath, Upload, "never"))
  /\ objects' = [objects EXCEPT ![FreshPath] = Upload]
  /\ UNCHANGED <<rows, deleting, showing, worker, ghosts>>

(* A delete request up to its first wait after the read: the object goes, and a *)
(* store that refuses is only logged. *)
RemoveObject(i) ==
  /\ i \in Kept \ deleting /\ deleting' = deleting \cup {i} /\ asked' = asked \cup {i}
  /\ \/ objects' = [objects EXCEPT ![rows[i].path] = Nothing] /\ UNCHANGED <<faults, stray>>
     \/ Fault /\ stray' = stray + 1 /\ UNCHANGED objects

DeleteImage(i) ==
  /\ RemoveObject(i)
  /\ UNCHANGED <<rows, made, inserting, entry, showing, worker, fresh, abandoned>>

(* The row goes; a cleanup waiting for it goes on. *)
CommitDelete(i) ==
  /\ i \in deleting /\ deleting' = deleting \ {i} /\ asked' = asked \ {i}
  /\ rows' = [rows EXCEPT ![i] = Absent]
  /\ IF pc = "cleaning" /\ asset = i
     THEN pc' = "clean" /\ asset' = NoOne ELSE UNCHANGED <<pc, asset>>
  /\ UNCHANGED <<made, objects, inserting, entry, showing, doomed, todo, job, pool, left,
                 fresh, faults, abandoned, stray>>

(* Rotation, a grid or an operator puts an image on a panel.  Neither the       *)
(* expiry nor the object is looked at. *)
Show(d, i) ==
  /\ i \in Kept /\ showing[d] # i
  /\ showing' = [showing EXCEPT ![d] = i] /\ fresh' = IF pc \in {"clean", "cleaning"} THEN fresh \cup {d} ELSE {}
  /\ UNCHANGED <<library, worker, asked, faults, abandoned, stray>>

Expire(i) ==
  /\ i \in Kept /\ rows[i].expires = "later"
  /\ rows' = [rows EXCEPT ![i].expires = "past"]
  /\ UNCHANGED <<made, objects, inserting, deleting, entry, showing, worker, ghosts>>

(* The API dies: requests in flight end where they are, their callers get an    *)
(* error, an upload that has no row yet leaves its object behind. *)
ApiCrash ==
  /\ Fault /\ (inserting \cup deleting) # {}
  /\ stray' = stray + Cardinality(inserting)
  /\ inserting' = {} /\ deleting' = {}
  /\ entry' = [i \in Ids |-> Absent]
  /\ IF pc \in {"answer", "cleaning"}
     THEN pc' = (IF pc = "answer" THEN "asset" ELSE "clean") /\ asset' = NoOne
     ELSE UNCHANGED <<pc, asset>>
  /\ UNCHANGED <<rows, made, objects, showing, doomed, todo, job, pool, left, asked, fresh, abandoned>>

-----------------------------------------------------------------------------
(* The worker. *)

(* Fault: images of a capped job are left to its cap. *)
StartPassUncapped(S) ==
  /\ pc = "idle" /\ S # {} /\ todo' = S
  /\ \/ /\ S \subseteq ImmichJobs
        /\ \E L \in Listings({i \in Kept : /\ rows[i].job \in ImmichJobs \ Capped
                                          /\ rows[i].expires = "past"}) :
             doomed' = L /\ pc' = IF L = {} THEN "jobs" ELSE "listed"
     \/ S \subseteq GenJobs /\ pc' = "jobs" /\ UNCHANGED doomed
  /\ UNCHANGED <<library, showing, job, pool, asset, left, ghosts>>

(* A pass is handed jobs of one family.  An Immich pass cleans up first: it     *)
(* lists the expired images of its own source, at most one page of them. *)
StartPass(S) ==
  /\ pc = "idle" /\ S # {} /\ todo' = S
  /\ \/ /\ S \subseteq ImmichJobs
        /\ \E L \in Listings({i \in Kept : FromImmich(i) /\ rows[i].expires = "past"}) :
             doomed' = L /\ pc' = IF L = {} THEN "jobs" ELSE "listed"
     \/ S \subseteq GenJobs /\ pc' = "jobs" /\ UNCHANGED doomed
  /\ UNCHANGED <<library, showing, job, pool, asset, left, ghosts>>

(* Fault: images on a panel are not left out. *)
ReadNoDevices ==
  /\ pc = "listed" /\ pc' = "clean" /\ fresh' = {} /\ UNCHANGED doomed
  /\ UNCHANGED <<library, showing, todo, job, pool, asset, left, asked, faults, abandoned, stray>>

(* One reading of all devices: what they show now is left out. *)
ReadDevices ==
  /\ pc = "listed" /\ pc' = "clean"
  /\ doomed' = doomed \ Shown /\ fresh' = {}
  /\ UNCHANGED <<library, showing, todo, job, pool, asset, left, asked, faults, abandoned, stray>>

(* The next of them is deleted through the API, whatever it has become since. *)
CleanOne(i) ==
  /\ pc = "clean" /\ i \in doomed /\ doomed' = doomed \ {i}
  /\ \/ RemoveObject(i) /\ pc' = "cleaning" /\ asset' = i
     \/ i \notin Kept \ deleting /\ UNCHANGED <<objects, deleting, asked, faults, stray, pc, asset>>
  /\ UNCHANGED <<rows, made, inserting, entry, showing, todo, job, pool, left, fresh, abandoned>>

CleanDone ==
  /\ pc = "clean" /\ doomed = {} /\ pc' = "jobs" /\ fresh' = {}
  /\ UNCHANGED <<library, showing, doomed, todo, job, pool, asset, left, asked, faults, abandoned, stray>>

(* Fault: the cap bounds each pass. *)
RemainingOfPass(j) == IF j \notin Capped THEN Unlimited ELSE Cap

(* What the cap leaves a job, from one page of its rows. *)
Remaining(j) ==
  IF j \notin Capped THEN Unlimited
  ELSE LET held == Cardinality(RowsOf(j))
           seen == IF held <= ListLimit THEN held ELSE ListLimit
       IN IF seen < Cap THEN Cap - seen ELSE 0

(* The next job of an Immich pass: skipped at its cap, else it fetches and      *)
(* filters what it will process (nothing when the fetch fails). *)
BeginImmichJob(j) ==
  /\ pc = "jobs" /\ j \in todo \cap ImmichJobs /\ todo' = todo \ {j}
  /\ LET r == Remaining(j)
     IN IF r = 0
        THEN UNCHANGED <<pc, job, pool, left>>
        ELSE pc' = "asset" /\ job' = j /\ left' = r /\ pool' \in SUBSET Assets
  /\ UNCHANGED <<library, showing, doomed, asset, ghosts>>

(* The next job of a generating pass: its pictures, here as many as there are   *)
(* assets, or none without a profile (for books: a catalogue and a match in it). *)
BeginGenJob(j) ==
  /\ pc = "jobs" /\ j \in todo \cap GenJobs /\ todo' = todo \ {j}
  /\ pc' = "asset" /\ job' = j /\ left' = Unlimited /\ pool' \in {{}, Assets}
  /\ UNCHANGED <<library, showing, doomed, asset, ghosts>>

(* The job is done, at its cap or with nothing more to process. *)
EndJob ==
  /\ pc = "asset" /\ (pool = {} \/ left = 0)
  /\ pc' = "jobs" /\ job' = "none" /\ pool' = {} /\ left' = 0
  /\ UNCHANGED <<library, showing, doomed, todo, asset, ghosts>>

EndPass ==
  /\ pc = "jobs" /\ todo = {} /\ pc' = "idle"
  /\ UNCHANGED <<library, showing, doomed, todo, job, pool, asset, left, ghosts>>

(* Fault: the job looks for the asset among its own rows only. *)
ExistingOfJob(a) == SkipExisting /\ \E i \in RowsOf(job) : rows[i].path = a

(* A row of the asset, whichever job made it. *)
Existing(a) == SkipExisting /\ \E i \in Kept : FromImmich(i) /\ rows[i].path = a

(* An asset that has a row is passed over. *)
NextAsset(a) ==
  /\ pc = "asset" /\ job \in ImmichJobs /\ left # 0 /\ a \in pool /\ pool' = pool \ {a}
  /\ IF Existing(a) THEN UNCHANGED <<pc, asset>> ELSE pc' = "fetch" /\ asset' = a
  /\ UNCHANGED <<library, showing, doomed, todo, job, left, ghosts>>

(* A generating job looks at no row. *)
NextPicture ==
  /\ pc = "asset" /\ job \in GenJobs /\ pool # {} /\ pool' = pool \ {CHOOSE a \in pool : TRUE}
  /\ pc' = "fetch"
  /\ UNCHANGED <<library, showing, doomed, todo, job, asset, left, ghosts>>

(* The object at path p is there: the row can be registered. *)
Stored(p) == made < MaxRows /\ pc' = "register" /\ asset' = p

(* The object of an asset: an existing one is taken as it is, else the picture  *)
(* is rendered to the job's size and stored. *)
FetchAsset ==
  /\ pc = "fetch" /\ job \in ImmichJobs /\ Stored(asset)
  /\ objects' = IF objects[asset] = Nothing THEN [objects EXCEPT ![asset] = job] ELSE objects
  /\ UNCHANGED <<rows, made, inserting, deleting, entry, showing, doomed, todo, job, pool, left, ghosts>>

(* A generated picture goes to a path of its own. *)
GenerateOne ==
  /\ pc = "fetch" /\ job \in GenJobs /\ Stored(FreshPath)
  /\ objects' = [objects EXCEPT ![FreshPath] = job]
  /\ UNCHANGED <<rows, made, inserting, deleting, entry, showing, doomed, todo, job, pool, left, ghosts>>

(* No download, no answer of the model, too small a picture, a store that       *)
(* refuses: the asset is done with. *)
AssetFails ==
  /\ pc = "fetch" /\ pc' = "asset" /\ asset' = NoOne
  /\ UNCHANGED <<library, showing, doomed, todo, job, pool, left, ghosts>>

(* The row is registered with the size the job renders to. *)
Register ==
  /\ pc = "register"
  /\ \/ /\ Insert(RowOf(job, asset, job, IF job \in ImmichJobs \cup Retained THEN "later" ELSE "never"))
        /\ pc' = "answer" /\ asset' = made' /\ UNCHANGED <<faults, stray>>
     \/ /\ Fault /\ stray' = stray + 1
        /\ pc' = "asset" /\ asset' = NoOne /\ UNCHANGED <<made, inserting, entry>>
  /\ UNCHANGED <<rows, objects, deleting, showing, doomed, todo, job, pool, left, asked, fresh, abandoned>>

(* The call times out: the worker goes on, the API has not finished. *)
GiveUp ==
  /\ Fault
  /\ \/ pc = "answer" /\ pc' = "asset" /\ abandoned' = abandoned + 1
     \/ pc = "cleaning" /\ pc' = "clean" /\ UNCHANGED abandoned
  /\ asset' = NoOne
  /\ UNCHANGED <<library, showing, doomed, todo, job, pool, left, asked, fresh, stray>>

(* Fault: the job in hand is not forgotten. *)
WorkerCrashMidJob ==
  /\ pc # "idle" /\ Fault /\ pc' = "idle"
  /\ abandoned' = abandoned + (IF pc = "answer" THEN 1 ELSE 0)
  /\ stray' = stray + (IF pc = "register" THEN 1 ELSE 0)
  /\ doomed' = {} /\ todo' = {} /\ pool' = {} /\ asset' = NoOne /\ left' = 0 /\ fresh' = {}
  /\ UNCHANGED <<library, showing, job, asked>>

(* The worker dies, or a call outside the per-asset handlers fails and ends the pass. *)
WorkerCrash ==
  /\ pc # "idle" /\ Fault /\ pc' = "idle"
  /\ abandoned' = abandoned + (IF pc = "answer" THEN 1 ELSE 0)
  /\ stray' = stray + (IF pc = "register" THEN 1 ELSE 0)
  /\ doomed' = {} /\ todo' = {} /\ job' = "none" /\ pool' = {} /\ asset' = NoOne /\ left' = 0
  /\ fresh' = {}
  /\ UNCHANGED <<library, showing, asked>>

Clean == ReadDevices \/ (\E i \in Ids : CleanOne(i)) \/ CleanDone
Process == \/ (\E j \in Jobs : BeginImmichJob(j) \/ BeginGenJob(j)) \/ EndJob \/ EndPass
           \/ (\E a \in Assets : NextAsset(a)) \/ NextPicture \/ FetchAsset \/ GenerateOne \/ AssetFails \/ Register
Api == \E i \in Ids : CommitInsert(i) \/ CommitDelete(i)
Pass == \E S \in SUBSET Jobs : StartPass(S)

Next ==
  \/ Api \/ ApiCrash \/ UploadImage
  \/ \E i \in Ids : DeleteImage(i) \/ Expire(i)
  \/ \E d \in Devices, i \in Ids : Show(d, i)
  \/ Pass \/ Clean \/ Process \/ GiveUp \/ WorkerCrash

(* Jobs stay due, so passes of every family keep coming; the API answers. *)
Fairness ==
  /\ WF_vars(Api) /\ WF_vars(Clean) /\ WF_vars(Process)
  /\ SF_vars(\E S \in SUBSET ImmichJobs : StartPass(S))
  /\ SF_vars(\E S \in SUBSET GenJobs : StartPass(S))

Spec == Init /\ [][Next]_vars /\ Fairness

-----------------------------------------------------------------------------
TypeOK ==
  /\ rows \in [Ids -> Row \cup {Absent}] /\ entry \in [Ids -> Row \cup {Absent}]
  /\ made \in 0..MaxRows /\ inserting \subseteq 1..made /\ deleting \subseteq Kept
  /\ objects \in [Paths -> Jobs \cup {Upload, Nothing}]
  /\ showing \in [Devices -> 0..made]
  /\ pc \in Stages /\ doomed \subseteq Ids /\ todo \subseteq Jobs /\ pool \subseteq Assets
  /\ pc \in {"asset", "fetch", "register", "answer"} <=> job \in Jobs
  /\ pc = "cleaning" => asset \in deleting
  /\ pc = "answer" => asset \in inserting
  /\ left \in {Unlimited} \cup Nat
  /\ {faults, abandoned, stray} \subseteq Nat

(* A row nobody asked to delete has its object, unless the caller of a          *)
(* registration stopped waiting for it and the asset was taken again: deleting  *)
(* either row then removes the object of both.  As long as no object was left   *)
(* behind without a row, the object also has the size the row says. *)
RowsMatchObjects ==
  \A i \in Kept \ asked : abandoned = 0 =>
    LET o == objects[rows[i].path]
    IN o # Nothing /\ (stray = 0 => o = rows[i].size)

(* The cap of a job is exceeded by no more rows than the registrations it       *)
(* stopped waiting for.  A cap above one page of a listing is never reached. *)
CapHolds ==
  Cap <= ListLimit => \A j \in Capped : Cardinality(RowsOf(j)) <= Cap + abandoned

(* The cleanup deletes expired images of Immich, and never one that a panel has *)
(* been showing since before the cleanup read the devices. *)
CleanupSparesShown ==
  [][\A i \in Ids : pc = "clean" /\ pc' = "cleaning" /\ asset' = i =>
       /\ FromImmich(i) /\ rows[i].expires = "past"
       /\ \A d \in Devices : showing[d] = i => d \in fresh]_vars

Overdue(i) == i \in Kept /\ rows[i].expires = "past"

(* An expired image of Immich goes, or is on a panel time and again. *)
ExpiredGoes ==
  \A i \in Ids : (Overdue(i) /\ FromImmich(i)) ~> (i \notin Kept \/ i \in Shown)
=============================================================================
