------------------------- MODULE ImageLibraryProofs -------------------------
(* Proofs about ImageLibrary, for any jobs, assets, devices, caps, listing      *)
(* limits and bounds on rows and faults.                                        *)
EXTENDS ImageLibrary, FiniteSetTheorems, TLAPS

InJob == {"asset", "fetch", "register", "answer"}

(* The variables' types.  Rows come from inserts in flight, both have been      *)
(* given out their identity, and what is being deleted is a row.                *)
RowTypes ==
  /\ rows \in [Ids -> Row \cup {Absent}] /\ entry \in [Ids -> Row \cup {Absent}]
  /\ made \in 0..MaxRows
  /\ inserting \subseteq 1..made /\ Kept \subseteq (1..made) \ inserting
  /\ \A i \in inserting : entry[i] # Absent
  /\ deleting \subseteq asked /\ asked \subseteq Kept
  /\ objects \in [Paths -> Jobs \cup {Upload, Nothing}]
  /\ showing \in [Devices -> 0..made]

(* The worker's: the job in hand, the asset or the identity it waits for, and   *)
(* what the cap leaves it.  What it takes up is allowed by the cap.             *)
WorkerTypes ==
  /\ pc \in Stages /\ todo \subseteq Jobs /\ pool \subseteq Assets
  /\ pc \in InJob <=> job \in Jobs
  /\ pc = "fetch" /\ job \in ImmichJobs => asset \in Assets
  /\ pc = "register" => asset \in IF job \in ImmichJobs THEN Assets ELSE Fresh
  /\ pc = "answer" => asset \in inserting
  /\ pc = "cleaning" => asset \in deleting
  /\ left \in {Unlimited} \cup Nat
  /\ pc \in InJob => (job \in Capped <=> left # Unlimited)
  /\ pc \in InJob \ {"asset"} => left # 0

Counters ==
  /\ faults \in 0..MaxFaults /\ abandoned \in Nat /\ stray \in Nat

(* Rows and inserts of assets are those of Immich jobs.                         *)
Wanted(i) == IF i \in inserting THEN entry[i] ELSE rows[i]
Live == Kept \cup inserting
AssetRows == \A i \in Live : Wanted(i).path \in Assets <=> Wanted(i).job \in ImmichJobs

LibraryTypes == RowTypes /\ WorkerTypes /\ Counters /\ AssetRows

(* The paths of generated pictures and uploads that something holds on to: an   *)
(* object, a row, an insert in flight, or the worker.  Never more of them than  *)
(* identities given out, faults met, and the picture the worker has in hand.    *)
Used == {p \in Fresh : \/ objects[p] # Nothing
                       \/ \E i \in Live : Wanted(i).path = p
                       \/ pc = "register" /\ asset = p}
InHand == IF pc = "register" THEN 1 ELSE 0
PathsLeft == Cardinality(Used) <= made + faults + InHand

(* The inserts of jobs that nobody waits for any more.                          *)
Pending == {i \in inserting : entry[i].job \in Jobs /\ ~(pc = "answer" /\ asset = i)}
PendingCounted == Cardinality(Pending) <= abandoned

(* As long as nobody stopped waiting: a path belongs to one row, one insert or  *)
(* the worker, ...                                                              *)
Handling(p) == /\ asset = p
               /\ pc = "register" \/ (pc = "fetch" /\ job \in ImmichJobs)
Sole == /\ \A i, k \in Live : Wanted(i).path = Wanted(k).path => i = k
        /\ \A i \in Live : ~Handling(Wanted(i).path)

(* ... it has its object unless its deletion was asked for, in its size unless  *)
(* objects were left behind, ...                                                *)
Fits(o, size) == o # Nothing /\ (stray = 0 => o = size)
Served == /\ \A i \in Live \ asked : Fits(objects[Wanted(i).path], Wanted(i).size)
          /\ pc = "register" => Fits(objects[asset], job)

(* ... and, if none was left behind, every object belongs to one of them.       *)
Owned == stray = 0 => \A p \in Paths :
           objects[p] # Nothing => \/ \E i \in Live \ deleting : Wanted(i).path = p
                                   \/ pc = "register" /\ asset = p

Ownership == SkipExisting /\ abandoned = 0 => Sole /\ Served /\ Owned

(* What the worker waits for is an insert of the job in hand.                   *)
Awaited == pc = "answer" => entry[asset].job = job

(* The rows of a capped job, those still to come from inserts nobody waits for, *)
(* and what the worker may still add.                                           *)
Taken(j) == RowsOf(j) \cup {i \in Pending : entry[i].job = j}
ToCome(j) == IF job = j THEN left ELSE 0
CapLeft == Cap <= ListLimit =>
             \A j \in Capped : Cardinality(Taken(j)) + ToCome(j) <= Cap + abandoned

(* What the cleanup has in hand is expired and Immich's, and not on a panel     *)
(* that has not changed since the cleanup read the devices.                     *)
CleanupKnows ==
  /\ doomed \subseteq (1..made) \ inserting
  /\ pc \in {"listed", "clean", "cleaning"} =>
       \A i \in doomed \cap Kept : FromImmich(i) /\ rows[i].expires = "past"
  /\ pc \in {"clean", "cleaning"} =>
       \A i \in doomed, d \in Devices : showing[d] = i => d \in fresh

LibraryInv == /\ LibraryTypes /\ PathsLeft /\ Awaited /\ PendingCounted
              /\ Ownership /\ CapLeft /\ CleanupKnows

-----------------------------------------------------------------------------
(* Operators.                                                                   *)

LEMMA Sentinels ==
  /\ \A r \in Row : r # Absent
  /\ Upload \notin Jobs /\ Nothing \notin Jobs /\ "none" \notin Jobs /\ Upload # Nothing
  /\ Assets \cap Fresh = {} /\ Assets \subseteq Paths /\ Fresh \subseteq Paths
<1>1. \A r \in Row : r # Absent
  BY DEF Row, Absent
<1>. QED
  BY <1>1, LibraryAssumption DEF Upload, Nothing, Fresh, Paths

LEMMA RowOfIsRow ==
  ASSUME NEW j \in Jobs \cup {Upload}, NEW p \in Paths, NEW s \in Jobs \cup {Upload},
         NEW e \in {"never", "later", "past"}
  PROVE  /\ RowOf(j, p, s, e) \in Row
         /\ RowOf(j, p, s, e).job = j /\ RowOf(j, p, s, e).path = p
         /\ RowOf(j, p, s, e).size = s /\ RowOf(j, p, s, e).expires = e
  BY DEF RowOf, Row

(* A row that exists or is about to has a job, a path and a size.               *)
LEMMA LiveRows ==
  ASSUME RowTypes, NEW i \in Live
  PROVE  /\ i \in Ids /\ i \in 1..made
         /\ Wanted(i) \in Row
         /\ Wanted(i).job \in Jobs \cup {Upload}
         /\ Wanted(i).path \in Paths
         /\ Wanted(i).size \in Jobs \cup {Upload}
<1>1. i \in 1..made /\ i \in Ids
  BY LibraryAssumption DEF RowTypes, Live, Ids
<1>2. Wanted(i) \in Row
  BY <1>1 DEF RowTypes, Live, Wanted, Kept
<1>. QED
  BY <1>1, <1>2 DEF Row

LEMMA InsertsAreIds ==
  ASSUME RowTypes
  PROVE  inserting \subseteq Ids /\ 1..made \subseteq Ids
  BY LibraryAssumption DEF RowTypes, Ids

LEMMA FiniteIds ==
  /\ IsFiniteSet(Ids) /\ Cardinality(Ids) = MaxRows
  /\ IsFiniteSet(Fresh) /\ Cardinality(Fresh) = MaxRows + MaxFaults
<1>1. MaxRows \in Nat /\ MaxRows + MaxFaults \in Nat
  BY LibraryAssumption
<1>2. \A n \in Nat : IsFiniteSet(1..n) /\ Cardinality(1..n) = n
  BY FS_Interval
<1>. QED
  BY <1>1, <1>2 DEF Ids, Fresh

-----------------------------------------------------------------------------
(* What each operation does to the rows and to the inserts in flight.           *)

SameRows == Live' = Live /\ \A i \in Live : Wanted(i)' = Wanted(i)

LEMMA UntouchedView ==
  ASSUME RowTypes, UNCHANGED <<rows, inserting, entry>>
  PROVE  SameRows /\ Kept' = Kept
  BY DEF SameRows, Live, Kept, Wanted

LEMMA InsertView ==
  ASSUME RowTypes, NEW r \in Row, Insert(r), UNCHANGED rows, NEW n, n = made + 1
  PROVE  /\ made' = n /\ n \in Ids /\ n \notin Live
         /\ inserting' = inserting \cup {n} /\ Kept' = Kept
         /\ entry'[n] = r /\ \A i \in inserting : entry'[i] = entry[i]
         /\ entry' \in [Ids -> Row \cup {Absent}]
         /\ Live' = Live \cup {n}
         /\ Wanted(n)' = r
         /\ \A i \in Live : Wanted(i)' = Wanted(i)
<1>1. made' = n /\ n \in Ids /\ n \notin Live
  BY LibraryAssumption DEF RowTypes, Insert, Live, Ids
<1>2. inserting' = inserting \cup {n} /\ Kept' = Kept /\ Live' = Live \cup {n}
  BY DEF Insert, Live, Kept
<1>3. /\ entry'[n] = r /\ \A i \in Ids : i # n => entry'[i] = entry[i]
      /\ entry' \in [Ids -> Row \cup {Absent}]
  BY <1>1 DEF RowTypes, Insert
<1>4. Wanted(n)' = r
  BY <1>2, <1>3 DEF Wanted
<1>5. ASSUME NEW i \in Live PROVE Wanted(i)' = Wanted(i)
  <2>1. i \in Ids /\ i # n
    BY <1>1, <1>5, LiveRows
  <2>. QED
    BY <1>2, <1>3, <2>1 DEF Wanted
<1>6. \A i \in inserting : entry'[i] = entry[i]
  <2>1. \A i \in inserting : i \in Live
    BY DEF Live
  <2>. QED
    BY <1>1, <1>3, <2>1, LiveRows
<1>. QED
  BY <1>1, <1>2, <1>3, <1>4, <1>5, <1>6

LEMMA CommitInsertView ==
  ASSUME RowTypes, NEW i \in Ids, CommitInsert(i)
  PROVE  /\ SameRows /\ Kept' = Kept \cup {i}
         /\ rows'[i] = entry[i] /\ \A k \in Ids \ {i} : rows'[k] = rows[k] /\ entry'[k] = entry[k]
         /\ rows' \in [Ids -> Row \cup {Absent}] /\ entry' \in [Ids -> Row \cup {Absent}]
<1>1. /\ rows'[i] = entry[i]
      /\ \A k \in Ids \ {i} : rows'[k] = rows[k] /\ entry'[k] = entry[k]
      /\ rows' \in [Ids -> Row \cup {Absent}] /\ entry' \in [Ids -> Row \cup {Absent}]
  BY DEF RowTypes, CommitInsert
<1>2. i \in inserting /\ inserting' = inserting \ {i} /\ entry[i] # Absent
  BY DEF RowTypes, CommitInsert
<1>3. Kept' = Kept \cup {i}
  BY <1>1, <1>2 DEF Kept
<1>4. Live' = Live
  BY <1>2, <1>3 DEF Live
<1>5. ASSUME NEW k \in Live PROVE Wanted(k)' = Wanted(k)
  <2>1. k \in Ids
    BY LiveRows
  <2>. QED
    BY <1>1, <1>2, <2>1 DEF Wanted
<1>. QED
  BY <1>1, <1>3, <1>4, <1>5 DEF SameRows

LEMMA CommitDeleteView ==
  ASSUME RowTypes, NEW i \in Ids, CommitDelete(i)
  PROVE  /\ Kept' = Kept \ {i} /\ Live' = Live \ {i}
         /\ rows' \in [Ids -> Row \cup {Absent}]
         /\ \A k \in Ids \ {i} : rows'[k] = rows[k]
         /\ \A k \in Live' : Wanted(k)' = Wanted(k)
<1>1. /\ rows'[i] = Absent /\ \A k \in Ids \ {i} : rows'[k] = rows[k]
      /\ rows' \in [Ids -> Row \cup {Absent}]
  BY DEF RowTypes, CommitDelete
<1>2. i \in Kept /\ i \notin inserting /\ UNCHANGED <<inserting, entry>>
  BY DEF RowTypes, CommitDelete
<1>3. Kept' = Kept \ {i} /\ Live' = Live \ {i}
  BY <1>1, <1>2 DEF Kept, Live
<1>4. ASSUME NEW k \in Live' PROVE Wanted(k)' = Wanted(k)
  <2>1. k \in Ids \ {i}
    BY <1>3, LiveRows
  <2>. QED
    BY <1>1, <1>2, <2>1 DEF Wanted
<1>. QED
  BY <1>1, <1>3, <1>4

LEMMA ExpireView ==
  ASSUME RowTypes, NEW i \in Ids, Expire(i)
  PROVE  /\ Kept' = Kept /\ Live' = Live
         /\ rows' \in [Ids -> Row \cup {Absent}]
         /\ \A k \in Ids \ {i} : rows'[k] = rows[k]
         /\ rows'[i].job = rows[i].job /\ rows'[i].expires = "past"
         /\ \A k \in Live : /\ Wanted(k)'.job = Wanted(k).job
                            /\ Wanted(k)'.path = Wanted(k).path
                            /\ Wanted(k)'.size = Wanted(k).size
<1>1. rows[i] \in Row /\ i \in Kept /\ i \notin inserting
  BY DEF RowTypes, Expire, Kept
<1>. DEFINE r == [rows[i] EXCEPT !.expires = "past"]
<1>2. /\ r \in Row /\ r.job = rows[i].job /\ r.path = rows[i].path /\ r.size = rows[i].size
      /\ r.expires = "past"
  BY <1>1 DEF Row
<1>3. rows' = [rows EXCEPT ![i] = r]
  BY DEF Expire, RowTypes
<1>. HIDE DEF r
<1>4. rows'[i] = r /\ (\A k \in Ids \ {i} : rows'[k] = rows[k]) /\ rows' \in [Ids -> Row \cup {Absent}]
  <2>1. i \in Ids /\ rows \in [Ids -> Row \cup {Absent}] /\ r \in Row \cup {Absent}
    BY <1>2 DEF RowTypes
  <2>. QED
    BY <1>3, <2>1
<1>5. Kept' = Kept /\ Live' = Live /\ UNCHANGED <<inserting, entry>>
  <2>1. UNCHANGED <<inserting, entry>>
    BY DEF Expire
  <2>2. rows[i] # Absent /\ rows'[i] # Absent
    BY <1>1, <1>2, <1>4, Sentinels DEF Kept
  <2>3. Kept' = Kept
    BY <1>4, <2>2 DEF Kept
  <2>. QED
    BY <2>1, <2>3 DEF Live
<1>6. ASSUME NEW k \in Live
      PROVE  /\ Wanted(k)'.job = Wanted(k).job
             /\ Wanted(k)'.path = Wanted(k).path
             /\ Wanted(k)'.size = Wanted(k).size
  <2>1. k \in Ids
    BY LiveRows
  <2>. QED
    BY <1>1, <1>2, <1>4, <1>5, <2>1 DEF Wanted
<1>. QED
  BY <1>2, <1>4, <1>5, <1>6

LEMMA ApiCrashView ==
  ASSUME RowTypes, ApiCrash
  PROVE  /\ Kept' = Kept /\ Live' = Kept /\ \A k \in Kept : Wanted(k) = rows[k] /\ Wanted(k)' = rows[k]
         /\ entry' \in [Ids -> Row \cup {Absent}]
  BY DEF RowTypes, ApiCrash, Kept, Live, Wanted

(* A request that removes an object leaves the rows as they are.                *)
LEMMA RemoveView ==
  ASSUME RowTypes, NEW i \in Ids, RemoveObject(i), UNCHANGED <<rows, inserting, entry>>
  PROVE  /\ SameRows /\ Kept' = Kept /\ i \in Kept /\ rows[i].path \in Paths
         /\ Wanted(i) = rows[i]
         /\ objects' \in [Paths -> Jobs \cup {Upload, Nothing}]
         /\ \A p \in Paths : objects'[p] = objects[p] \/ (p = rows[i].path /\ objects'[p] = Nothing)
<1>1. SameRows /\ Kept' = Kept
  BY UntouchedView
<1>2. i \in Kept /\ i \in Live /\ Wanted(i) = rows[i]
  BY DEF RemoveObject, Live, RowTypes, Wanted
<1>3. rows[i].path \in Paths
  BY <1>2, LiveRows
<1>4. objects' = objects \/ objects' = [objects EXCEPT ![rows[i].path] = Nothing]
  BY DEF RemoveObject
<1>5. objects \in [Paths -> Jobs \cup {Upload, Nothing}]
  BY DEF RowTypes
<1>6. objects' \in [Paths -> Jobs \cup {Upload, Nothing}]
  BY <1>4, <1>5
<1>7. \A p \in Paths : objects'[p] = objects[p] \/ (p = rows[i].path /\ objects'[p] = Nothing)
  BY <1>3, <1>4, <1>5
<1>. QED
  BY <1>1, <1>2, <1>3, <1>6, <1>7

(* A path that nothing holds on to is there for every new picture.              *)
LEMMA FreshPathIsFresh ==
  ASSUME LibraryTypes, PathsLeft, made + InHand < MaxRows
  PROVE  /\ FreshPath \in Fresh /\ objects[FreshPath] = Nothing
         /\ \A i \in Live : Wanted(i).path # FreshPath
<1>1. Used \subseteq Fresh /\ IsFiniteSet(Used) /\ Cardinality(Used) \in Nat
  <2>1. Used \subseteq Fresh
    BY DEF Used
  <2>. QED
    BY <2>1, FiniteIds, FS_Subset, FS_CardinalityType
<1>2. Cardinality(Used) < MaxRows + MaxFaults
  BY <1>1, LibraryAssumption DEF PathsLeft, LibraryTypes, RowTypes, Counters, InHand
<1>3. Used # Fresh
  BY <1>1, <1>2, FiniteIds, LibraryAssumption
<1>4. PICK q \in Fresh : q \notin Used
  BY <1>1, <1>3
<1>. DEFINE Free(p) == /\ objects[p] = Nothing
                       /\ \A i \in Ids : /\ rows[i] # Absent => rows[i].path # p
                                         /\ i \in inserting => entry[i].path # p
<1>5. \A i \in Ids : /\ rows[i] # Absent => i \in Live /\ Wanted(i) = rows[i]
                     /\ i \in inserting => i \in Live /\ Wanted(i) = entry[i]
  BY DEF Live, Kept, Wanted, LibraryTypes, RowTypes
<1>6. Free(q)
  BY <1>4, <1>5 DEF Used
<1>7. FreshPath = CHOOSE p \in Fresh : Free(p)
  BY DEF FreshPath
<1>8. FreshPath \in Fresh /\ Free(FreshPath)
  <2>. HIDE DEF Free
  <2>. QED
    BY <1>4, <1>6, <1>7
<1>9. \A i \in Live : i \in Ids /\ (i \in inserting \/ rows[i] # Absent)
  BY LiveRows DEF LibraryTypes, Live, Kept
<1>. QED
  BY <1>8, <1>9 DEF Wanted

-----------------------------------------------------------------------------
(* Types.                                                                       *)

LEMMA RowTypesStep ==
  ASSUME LibraryTypes, PathsLeft, [Next]_vars
  PROVE  RowTypes'
<1>. RowTypes
  BY DEF LibraryTypes
<1>1. ASSUME NEW i \in Ids, CommitInsert(i) PROVE RowTypes'
  <2>1. /\ i \in inserting /\ inserting' = inserting \ {i}
        /\ UNCHANGED <<made, objects, deleting, asked, showing>>
    BY <1>1 DEF CommitInsert, ghosts
  <2>2. \A k \in inserting' : k \in Ids \ {i}
    BY <2>1, LibraryAssumption DEF RowTypes, Ids
  <2>. QED
    <3>1. /\ Kept' = Kept \cup {i} /\ \A k \in Ids \ {i} : entry'[k] = entry[k]
          /\ rows' \in [Ids -> Row \cup {Absent}] /\ entry' \in [Ids -> Row \cup {Absent}]
      BY <1>1, CommitInsertView
    <3>2. \A k \in inserting' : entry'[k] # Absent
      BY <2>1, <2>2, <3>1 DEF RowTypes
    <3>3. Kept' \subseteq (1..made') \ inserting'
      BY <2>1, <3>1 DEF RowTypes
    <3>. QED
      BY <2>1, <3>1, <3>2, <3>3 DEF RowTypes
<1>2. ASSUME NEW i \in Ids, CommitDelete(i) PROVE RowTypes'
  <2>1. /\ deleting' = deleting \ {i} /\ asked' = asked \ {i}
        /\ UNCHANGED <<made, objects, inserting, entry, showing>>
    BY <1>2 DEF CommitDelete
  <2>2. Kept' = Kept \ {i} /\ rows' \in [Ids -> Row \cup {Absent}]
    BY <1>2, CommitDeleteView
  <2>. QED
    BY <2>1, <2>2 DEF RowTypes
<1>3. ASSUME NEW i \in Ids, Expire(i) PROVE RowTypes'
  <2>1. UNCHANGED <<made, objects, inserting, entry, showing, deleting, asked>>
    BY <1>3 DEF Expire, ghosts
  <2>. QED
    BY <1>3, <2>1, ExpireView DEF RowTypes
<1>4. CASE ApiCrash
  <2>1. inserting' = {} /\ deleting' = {} /\ UNCHANGED <<rows, made, objects, showing, asked>>
    BY <1>4 DEF ApiCrash
  <2>. QED
    BY <1>4, <2>1, ApiCrashView DEF RowTypes
<1>5. ASSUME NEW r \in Row, Insert(r), UNCHANGED <<rows, deleting, asked, showing>>,
             objects' \in [Paths -> Jobs \cup {Upload, Nothing}]
      PROVE  RowTypes'
  <2>. DEFINE n == made + 1
  <2>1. /\ made' = n /\ n \in Ids /\ inserting' = inserting \cup {n} /\ Kept' = Kept
        /\ entry'[n] = r /\ \A i \in inserting : entry'[i] = entry[i]
        /\ entry' \in [Ids -> Row \cup {Absent}] /\ n \notin Live
    BY <1>5, InsertView
  <2>2. 1..made \subseteq 1..n /\ 0..made \subseteq 0..n /\ n \in 1..n /\ n \in 0..MaxRows
    BY <2>1, LibraryAssumption DEF RowTypes, Ids
  <2>. HIDE DEF n
  <2>3. showing' \in [Devices -> 0..made']
    BY <1>5, <2>1, <2>2 DEF RowTypes
  <2>4. \A i \in inserting' : entry'[i] # Absent
    BY <1>5, <2>1, Sentinels DEF RowTypes
  <2>5. Kept' \subseteq (1..made') \ inserting'
    BY <2>1, <2>2 DEF RowTypes, Live
  <2>. QED
    BY <1>5, <2>1, <2>2, <2>3, <2>4, <2>5 DEF RowTypes
<1>6. CASE UploadImage
  <2>1. FreshPath \in Fresh
    BY <1>6, FreshPathIsFresh DEF UploadImage, InHand
  <2>2. RowOf(Upload, FreshPath, Upload, "never") \in Row
    BY <2>1, RowOfIsRow, Sentinels
  <2>3. objects' \in [Paths -> Jobs \cup {Upload, Nothing}]
    BY <1>6, <2>1, Sentinels DEF UploadImage, RowTypes
  <2>. QED
    BY <1>5, <1>6, <2>2, <2>3 DEF UploadImage, ghosts
<1>7. CASE Register
  <2>1. job \in Jobs /\ asset \in Paths
    BY <1>7, Sentinels DEF Register, LibraryTypes, WorkerTypes, InJob
  <2>2. UNCHANGED <<rows, objects, deleting, showing, asked>>
    BY <1>7 DEF Register
  <2>3. CASE UNCHANGED <<made, inserting, entry>>
    BY <2>2, <2>3 DEF RowTypes, Kept
  <2>4. CASE \E r \in Row : Insert(r)
    BY <1>5, <2>2, <2>4 DEF RowTypes
  <2>. QED
    BY <1>7, <2>1, <2>3, <2>4, RowOfIsRow DEF Register
<1>8. ASSUME NEW i \in Ids, RemoveObject(i), UNCHANGED <<rows, made, inserting, entry, showing>>
      PROVE  RowTypes'
  <2>1. deleting' = deleting \cup {i} /\ asked' = asked \cup {i}
    BY <1>8 DEF RemoveObject
  <2>. QED
    BY <1>8, <2>1, RemoveView DEF RowTypes
<1>9. ASSUME NEW i \in Ids, DeleteImage(i) \/ CleanOne(i) PROVE RowTypes'
  <2>1. UNCHANGED <<rows, made, inserting, entry, showing>>
    BY <1>9 DEF DeleteImage, CleanOne
  <2>2. CASE UNCHANGED <<objects, deleting, asked>>
    BY <2>1, <2>2 DEF RowTypes, Kept
  <2>. QED
    BY <1>8, <1>9, <2>1, <2>2 DEF DeleteImage, CleanOne
<1>10. ASSUME NEW d \in Devices, NEW i \in Ids, Show(d, i) PROVE RowTypes'
  <2>1. i \in 0..made
    BY <1>10 DEF Show, RowTypes
  <2>2. UNCHANGED <<rows, made, objects, inserting, deleting, entry, asked>>
    BY <1>10 DEF Show, library
  <2>3. showing' \in [Devices -> 0..made]
    BY <1>10, <2>1 DEF Show, RowTypes
  <2>. QED
    BY <2>2, <2>3 DEF RowTypes, Kept
<1>11. CASE FetchAsset \/ GenerateOne
  <2>1. UNCHANGED <<rows, made, inserting, entry, deleting, asked, showing>>
    BY <1>11 DEF FetchAsset, GenerateOne, ghosts
  <2>2. job \in Jobs
    BY <1>11 DEF FetchAsset, GenerateOne, LibraryTypes, WorkerTypes, InJob
  <2>3. objects' \in [Paths -> Jobs \cup {Upload, Nothing}]
    BY <1>11, <2>2 DEF FetchAsset, GenerateOne, RowTypes
  <2>. QED
    BY <2>1, <2>3 DEF RowTypes, Kept
<1>12. CASE UNCHANGED <<library, showing, asked>>
  BY <1>12 DEF RowTypes, Kept, library
<1>13. \/ GiveUp \/ WorkerCrash \/ Pass \/ ReadDevices \/ CleanDone \/ EndJob \/ EndPass
       \/ NextPicture \/ AssetFails
       \/ (\E j \in Jobs : BeginImmichJob(j) \/ BeginGenJob(j)) \/ (\E a \in Assets : NextAsset(a))
       \/ UNCHANGED vars
       => UNCHANGED <<library, showing, asked>>
  BY DEF GiveUp, WorkerCrash, Pass, StartPass, ReadDevices, CleanDone, EndJob, EndPass, NextPicture,
         AssetFails, BeginImmichJob, BeginGenJob, NextAsset, vars, ghosts
<1>. QED
  BY <1>1, <1>2, <1>3, <1>4, <1>6, <1>7, <1>9, <1>10, <1>11, <1>12, <1>13 DEF Next, Api, Clean, Process

(* The cap leaves an uncapped job everything, and a capped one a number.        *)
LEMMA RemainingIsKnown ==
  ASSUME NEW j \in Jobs
  PROVE  /\ Remaining(j) \in {Unlimited} \cup Nat
         /\ j \in Capped <=> Remaining(j) # Unlimited
<1>. DEFINE held == Cardinality(RowsOf(j))
            seen == IF held <= ListLimit THEN held ELSE ListLimit
<1>1. RowsOf(j) \subseteq Ids
  BY DEF RowsOf, Kept
<1>2. held \in Nat
  BY <1>1, FiniteIds, FS_Subset, FS_CardinalityType
<1>3. seen \in Nat
  BY <1>2, LibraryAssumption
<1>4. j \in Capped => Remaining(j) = IF seen < Cap THEN Cap - seen ELSE 0
  BY DEF Remaining
<1>5. j \in Capped => Remaining(j) \in Nat
  <2>. HIDE DEF seen
  <2>. QED
    BY <1>3, <1>4, LibraryAssumption
<1>6. Unlimited \notin Nat
  BY DEF Unlimited
<1>. QED
  BY <1>5, <1>6 DEF Remaining

LEMMA WorkerTypesStep ==
  ASSUME LibraryTypes, PathsLeft, [Next]_vars
  PROVE  WorkerTypes'
<1>. WorkerTypes /\ RowTypes
  BY DEF LibraryTypes
<1>. "none" \notin Jobs
  BY Sentinels
<1>1. ASSUME NEW i \in Ids, CommitInsert(i) PROVE WorkerTypes'
  <2>1. inserting' = inserting \ {i} /\ UNCHANGED <<deleting, todo, job, pool>>
    BY <1>1 DEF CommitInsert
  <2>2. CASE pc = "answer" /\ asset = i
    <3>1. pc' = "asset" /\ left' = IF left = Unlimited THEN left ELSE left - 1
      BY <1>1, <2>2 DEF CommitInsert
    <3>2. left \in {Unlimited} \cup Nat /\ left # 0
      BY <2>2 DEF WorkerTypes, InJob
    <3>3. left' \in {Unlimited} \cup Nat /\ (left' = Unlimited <=> left = Unlimited)
      BY <3>1, <3>2 DEF Unlimited
    <3>. QED
      BY <2>1, <2>2, <3>1, <3>3 DEF WorkerTypes, InJob, Stages
  <2>3. CASE ~(pc = "answer" /\ asset = i)
    <3>1. UNCHANGED <<pc, asset, left>>
      BY <1>1, <2>3 DEF CommitInsert
    <3>. QED
      BY <2>1, <2>3, <3>1 DEF WorkerTypes
  <2>. QED
    BY <2>2, <2>3
<1>2. ASSUME NEW i \in Ids, CommitDelete(i) PROVE WorkerTypes'
  BY <1>2 DEF CommitDelete, WorkerTypes, InJob, Stages
<1>3. CASE ApiCrash
  BY <1>3 DEF ApiCrash, WorkerTypes, InJob, Stages
<1>4. CASE UploadImage
  BY <1>4 DEF UploadImage, Insert, WorkerTypes, worker
<1>5. ASSUME NEW i \in Ids, DeleteImage(i) PROVE WorkerTypes'
  BY <1>5 DEF DeleteImage, RemoveObject, WorkerTypes, worker
<1>6. ASSUME NEW i \in Ids, Expire(i) \/ (\E d \in Devices : Show(d, i)) PROVE WorkerTypes'
  BY <1>6 DEF Expire, Show, WorkerTypes, worker, library
<1>7. CASE Pass
  BY <1>7 DEF Pass, StartPass, WorkerTypes, InJob, Stages, library
<1>8. CASE ReadDevices \/ CleanDone \/ EndJob \/ EndPass
  BY <1>8 DEF ReadDevices, CleanDone, EndJob, EndPass, WorkerTypes, InJob, Stages, library
<1>9. ASSUME NEW i \in Ids, CleanOne(i) PROVE WorkerTypes'
  <2>1. /\ pc = "clean" /\ UNCHANGED <<inserting, todo, job, pool, left>>
    BY <1>9 DEF CleanOne
  <2>2. \/ pc' = "cleaning" /\ asset' = i /\ deleting' = deleting \cup {i}
        \/ UNCHANGED <<deleting, pc, asset>>
    BY <1>9 DEF CleanOne, RemoveObject
  <2>. QED
    BY <2>1, <2>2 DEF WorkerTypes, InJob, Stages
<1>10. ASSUME NEW j \in Jobs, BeginImmichJob(j) PROVE WorkerTypes'
  <2>. DEFINE r == Remaining(j)
  <2>1. r \in {Unlimited} \cup Nat /\ (j \in Capped <=> r # Unlimited)
    BY RemainingIsKnown
  <2>2. /\ pc = "jobs" /\ todo' = todo \ {j} /\ UNCHANGED <<inserting, deleting, asset>>
        /\ \/ UNCHANGED <<pc, job, pool, left>>
           \/ pc' = "asset" /\ job' = j /\ left' = r /\ pool' \in SUBSET Assets
    BY <1>10 DEF BeginImmichJob, library
  <2>. HIDE DEF r
  <2>. QED
    BY <2>1, <2>2 DEF WorkerTypes, InJob, Stages
<1>11. ASSUME NEW j \in Jobs, BeginGenJob(j) PROVE WorkerTypes'
  <2>1. j \in GenJobs /\ j \notin Capped /\ j \notin ImmichJobs
    BY <1>11, LibraryAssumption DEF BeginGenJob
  <2>. QED
    BY <1>11, <2>1 DEF BeginGenJob, WorkerTypes, InJob, Stages, library
<1>12. ASSUME NEW a \in Assets, NextAsset(a) PROVE WorkerTypes'
  BY <1>12 DEF NextAsset, WorkerTypes, InJob, Stages, library
<1>13. CASE NextPicture
  <2>1. /\ pc = "asset" /\ job \in GenJobs /\ pool' \subseteq pool /\ pc' = "fetch"
        /\ UNCHANGED <<inserting, deleting, todo, job, asset, left>>
    BY <1>13 DEF NextPicture, library
  <2>2. job \notin ImmichJobs /\ job \notin Capped
    BY <2>1, LibraryAssumption
  <2>3. left # 0
    BY <2>1, <2>2 DEF WorkerTypes, InJob, Unlimited
  <2>. QED
    BY <2>1, <2>2, <2>3 DEF WorkerTypes, InJob, Stages
<1>14. CASE FetchAsset
  BY <1>14 DEF FetchAsset, Stored, WorkerTypes, InJob, Stages
<1>15. CASE GenerateOne
  <2>1. FreshPath \in Fresh
    BY <1>15, FreshPathIsFresh DEF GenerateOne, Stored, InHand, LibraryTypes, RowTypes
  <2>2. job \notin ImmichJobs
    BY <1>15, LibraryAssumption DEF GenerateOne
  <2>. QED
    BY <1>15, <2>1, <2>2 DEF GenerateOne, Stored, WorkerTypes, InJob, Stages
<1>16. CASE AssetFails
  BY <1>16 DEF AssetFails, WorkerTypes, InJob, Stages, library
<1>17. CASE Register
  <2>1. /\ pc = "register" /\ UNCHANGED <<deleting, todo, job, pool, left>>
        /\ \/ pc' = "asset"
           \/ pc' = "answer" /\ asset' \in inserting'
    BY <1>17 DEF Register, Insert
  <2>. QED
    BY <2>1 DEF WorkerTypes, InJob, Stages
<1>18. CASE GiveUp \/ WorkerCrash
  BY <1>18 DEF GiveUp, WorkerCrash, WorkerTypes, InJob, Stages, library
<1>19. CASE UNCHANGED vars
  BY <1>19 DEF vars, library, worker, WorkerTypes
<1>. QED
  BY <1>1, <1>2, <1>3, <1>4, <1>5, <1>6, <1>7, <1>8, <1>9, <1>10, <1>11, <1>12, <1>13, <1>14, <1>15,
     <1>16, <1>17, <1>18, <1>19 DEF Next, Api, Clean, Process

LEMMA CountersStep ==
  ASSUME LibraryTypes, [Next]_vars
  PROVE  Counters' /\ stray' >= stray
<1>. Counters /\ RowTypes
  BY DEF LibraryTypes
<1>1. Cardinality(inserting) \in Nat
  <2>1. inserting \subseteq Ids
    BY LibraryAssumption DEF RowTypes, Ids
  <2>. QED
    BY <2>1, FiniteIds, FS_Subset, FS_CardinalityType
<1>. DEFINE k == Cardinality(inserting)
            Goal == Counters' /\ stray' >= stray
<1>2. /\ \/ UNCHANGED faults
         \/ Fault
      /\ abandoned' \in {abandoned, abandoned + 1}
      /\ stray' \in {stray, stray + 1, stray + k}
      => Goal
  <2>. HIDE DEF k
  <2>1. Fault => faults' \in 0..MaxFaults
    BY LibraryAssumption DEF Counters, Fault
  <2>. QED
    BY <1>1, <2>1 DEF Counters, k
<1>. HIDE DEF k, Goal
<1>3. ASSUME NEW i \in Ids, CommitInsert(i) \/ CommitDelete(i) \/ Expire(i) \/ (\E d \in Devices : Show(d, i))
      PROVE UNCHANGED <<faults, abandoned, stray>>
  BY <1>3 DEF CommitInsert, CommitDelete, Expire, Show, ghosts
<1>4. ASSUME ApiCrash PROVE Goal
  BY <1>2, <1>4 DEF ApiCrash, k
<1>5. ASSUME NEW i \in Ids, DeleteImage(i) \/ CleanOne(i) PROVE Goal
  <2>1. UNCHANGED <<faults, stray>> \/ (Fault /\ stray' = stray + 1)
    BY <1>5 DEF DeleteImage, CleanOne, RemoveObject
  <2>2. UNCHANGED abandoned
    BY <1>5 DEF DeleteImage, CleanOne
  <2>. QED
    BY <1>2, <2>1, <2>2
<1>6. ASSUME Register PROVE Goal
  <2>1. UNCHANGED <<faults, stray>> \/ (Fault /\ stray' = stray + 1)
    BY <1>6 DEF Register
  <2>2. UNCHANGED abandoned
    BY <1>6 DEF Register
  <2>. QED
    BY <1>2, <2>1, <2>2
<1>7. ASSUME GiveUp \/ WorkerCrash PROVE Goal
  <2>1. Fault
    BY <1>7 DEF GiveUp, WorkerCrash
  <2>2. abandoned' \in {abandoned, abandoned + 1} /\ stray' \in {stray, stray + 1}
    BY <1>7 DEF GiveUp, WorkerCrash, Counters, LibraryTypes
  <2>. QED
    BY <1>2, <2>1, <2>2
<1>8. \/ UploadImage \/ Pass \/ ReadDevices \/ CleanDone \/ EndJob \/ EndPass
      \/ NextPicture \/ AssetFails \/ FetchAsset \/ GenerateOne
      \/ (\E j \in Jobs : BeginImmichJob(j) \/ BeginGenJob(j)) \/ (\E a \in Assets : NextAsset(a))
      \/ UNCHANGED vars
      => UNCHANGED <<faults, abandoned, stray>>
  BY DEF UploadImage, Pass, StartPass, ReadDevices, CleanDone, EndJob, EndPass, NextPicture, AssetFails,
         FetchAsset, GenerateOne, BeginImmichJob, BeginGenJob, NextAsset, vars, ghosts
<1>9. Goal
  BY <1>2, <1>3, <1>4, <1>5, <1>6, <1>7, <1>8 DEF Next, Api, Clean, Process
<1>. QED
  BY <1>9 DEF Goal

(* But for the two inserts, no step adds a row or changes what one is for.      *)
ViewKept == /\ Live' \subseteq Live
            /\ \A k \in Live' : /\ Wanted(k)'.job = Wanted(k).job
                                /\ Wanted(k)'.path = Wanted(k).path
                                /\ Wanted(k)'.size = Wanted(k).size

Registered == Register /\ pc' = "answer"

LEMMA ViewStep ==
  ASSUME LibraryTypes, [Next]_vars
  PROVE  UploadImage \/ Registered \/ ViewKept
<1>. RowTypes
  BY DEF LibraryTypes
<1>1. UNCHANGED <<rows, inserting, entry>> => ViewKept
  BY UntouchedView DEF SameRows, ViewKept
<1>2. ASSUME NEW i \in Ids, CommitInsert(i) PROVE ViewKept
  BY <1>2, CommitInsertView DEF SameRows, ViewKept
<1>3. ASSUME NEW i \in Ids, CommitDelete(i) PROVE ViewKept
  BY <1>3, CommitDeleteView DEF ViewKept
<1>4. ASSUME NEW i \in Ids, Expire(i) PROVE ViewKept
  BY <1>4, ExpireView DEF ViewKept
<1>5. CASE ApiCrash
  BY <1>5, ApiCrashView DEF ViewKept, Live
<1>6. ASSUME NEW i \in Ids, DeleteImage(i) \/ CleanOne(i) \/ (\E d \in Devices : Show(d, i))
      PROVE  UNCHANGED <<rows, inserting, entry>>
  BY <1>6 DEF DeleteImage, CleanOne, Show, library
<1>7. \/ GiveUp \/ WorkerCrash \/ Pass \/ ReadDevices \/ CleanDone \/ EndJob \/ EndPass
      \/ NextPicture \/ AssetFails \/ FetchAsset \/ GenerateOne
      \/ (\E j \in Jobs : BeginImmichJob(j) \/ BeginGenJob(j)) \/ (\E a \in Assets : NextAsset(a))
      \/ UNCHANGED vars
      => UNCHANGED <<rows, inserting, entry>>
  BY DEF GiveUp, WorkerCrash, Pass, StartPass, ReadDevices, CleanDone, EndJob, EndPass, NextPicture,
         AssetFails, FetchAsset, GenerateOne, BeginImmichJob, BeginGenJob, NextAsset, vars, library
<1>8. Register => pc' = "answer" \/ UNCHANGED <<rows, inserting, entry>>
  BY DEF Register
<1>. QED
  BY <1>1, <1>2, <1>3, <1>4, <1>5, <1>6, <1>7, <1>8 DEF Registered, Next, Api, Clean, Process

(* What an upload and a registration insert.                                    *)
LEMMA UploadView ==
  ASSUME LibraryTypes, PathsLeft, UploadImage, NEW n, n = made + 1
  PROVE  /\ FreshPath \in Fresh /\ objects[FreshPath] = Nothing
         /\ \A i \in Live : Wanted(i).path # FreshPath
         /\ made' = n /\ n \notin Live /\ Live' = Live \cup {n} /\ Kept' = Kept
         /\ inserting' = inserting \cup {n} /\ \A i \in inserting : entry'[i] = entry[i]
         /\ entry'[n] = Wanted(n)' /\ n \in Ids
         /\ Wanted(n)'.job = Upload /\ Wanted(n)'.path = FreshPath /\ Wanted(n)'.size = Upload
         /\ \A i \in Live : Wanted(i)' = Wanted(i)
         /\ objects' = [objects EXCEPT ![FreshPath] = Upload]
<1>1. FreshPath \in Fresh /\ objects[FreshPath] = Nothing /\ \A i \in Live : Wanted(i).path # FreshPath
  BY FreshPathIsFresh DEF UploadImage, InHand
<1>. DEFINE r == RowOf(Upload, FreshPath, Upload, "never")
<1>2. r \in Row /\ r.job = Upload /\ r.path = FreshPath /\ r.size = Upload
  BY <1>1, RowOfIsRow, Sentinels
<1>3. Insert(r) /\ UNCHANGED rows /\ objects' = [objects EXCEPT ![FreshPath] = Upload]
  BY DEF UploadImage
<1>. HIDE DEF r
<1>. QED
  BY <1>1, <1>2, <1>3, InsertView DEF LibraryTypes

LEMMA RegisterView ==
  ASSUME LibraryTypes, Registered, NEW n, n = made + 1
  PROVE  /\ made' = n /\ n \notin Live /\ Live' = Live \cup {n} /\ Kept' = Kept /\ asset' = n
         /\ inserting' = inserting \cup {n} /\ \A i \in inserting : entry'[i] = entry[i]
         /\ entry'[n] = Wanted(n)' /\ n \in Ids
         /\ job \in Jobs /\ asset \in Paths
         /\ asset \in IF job \in ImmichJobs THEN Assets ELSE Fresh
         /\ Wanted(n)'.job = job /\ Wanted(n)'.path = asset /\ Wanted(n)'.size = job
         /\ \A i \in Live : Wanted(i)' = Wanted(i)
<1>1. job \in Jobs /\ asset \in Paths /\ asset \in IF job \in ImmichJobs THEN Assets ELSE Fresh
  BY Sentinels DEF Registered, Register, LibraryTypes, WorkerTypes, InJob
<1>. DEFINE r == RowOf(job, asset, job, IF job \in ImmichJobs \cup Retained THEN "later" ELSE "never")
<1>2. r \in Row /\ r.job = job /\ r.path = asset /\ r.size = job
  BY <1>1, RowOfIsRow
<1>3. Insert(r) /\ asset' = made' /\ UNCHANGED rows
  BY DEF Registered, Register
<1>. HIDE DEF r
<1>. QED
  BY <1>1, <1>2, <1>3, InsertView DEF LibraryTypes

LEMMA AssetRowsStep ==
  ASSUME LibraryTypes, PathsLeft, [Next]_vars
  PROVE  AssetRows'
<1>. PICK n : n = made + 1
  OBVIOUS
<1>1. \A p \in Fresh : p \notin Assets
  BY Sentinels
<1>2. CASE UploadImage
  <2>1. Wanted(n)'.path \notin Assets /\ Wanted(n)'.job \notin ImmichJobs
    BY <1>1, <1>2, UploadView, Sentinels DEF Jobs
  <2>. QED
    BY <1>2, <2>1, UploadView DEF AssetRows, LibraryTypes
<1>3. CASE Registered
  <2>1. Wanted(n)'.path \in Assets <=> Wanted(n)'.job \in ImmichJobs
    BY <1>1, <1>3, RegisterView
  <2>. QED
    BY <1>3, <2>1, RegisterView DEF AssetRows, LibraryTypes
<1>4. CASE ViewKept
  BY <1>4 DEF ViewKept, AssetRows, LibraryTypes
<1>. QED
  BY <1>2, <1>3, <1>4, ViewStep

LEMMA TypesStep ==
  ASSUME LibraryTypes, PathsLeft, [Next]_vars
  PROVE  LibraryTypes'
  BY RowTypesStep, WorkerTypesStep, CountersStep, AssetRowsStep DEF LibraryTypes

-----------------------------------------------------------------------------
(* Paths for new pictures never run out.                                        *)

LEMMA UsedBound ==
  ASSUME LibraryTypes, LibraryTypes', PathsLeft, NEW q,
         \/ Used' \subseteq Used /\ made + faults + InHand <= made' + faults' + InHand'
         \/ Used' \subseteq Used \cup {q} /\ made + faults + InHand + 1 <= made' + faults' + InHand'
  PROVE  PathsLeft'
<1>1. IsFiniteSet(Used) /\ Cardinality(Used) \in Nat
  <2>1. Used \subseteq Fresh
    BY DEF Used
  <2>. QED
    BY <2>1, FiniteIds, FS_Subset, FS_CardinalityType
<1>2. /\ IsFiniteSet(Used \cup {q}) /\ Cardinality(Used \cup {q}) \in Nat
      /\ Cardinality(Used \cup {q}) <= Cardinality(Used) + 1
  BY <1>1, FS_AddElement, FS_CardinalityType
<1>3. /\ Used' \subseteq Used => Cardinality(Used') \in Nat /\ Cardinality(Used') <= Cardinality(Used)
      /\ Used' \subseteq Used \cup {q} =>
           Cardinality(Used') \in Nat /\ Cardinality(Used') <= Cardinality(Used \cup {q})
  BY <1>1, <1>2, FS_Subset, FS_CardinalityType
<1>4. made + faults + InHand \in Nat /\ made' + faults' + InHand' \in Nat
  <2>1. made \in Nat /\ faults \in Nat /\ made' \in Nat /\ faults' \in Nat
    BY LibraryAssumption DEF LibraryTypes, RowTypes, Counters
  <2>2. InHand \in {0, 1} /\ InHand' \in {0, 1}
    BY DEF InHand
  <2>3. \A a, b \in Nat : \A c \in {0, 1} : a + b + c \in Nat
    OBVIOUS
  <2>. QED
    BY <2>1, <2>2, <2>3, Zenon
<1>5. Cardinality(Used)' = Cardinality(Used')
  OBVIOUS
<1>. QED
  BY <1>1, <1>2, <1>3, <1>4, <1>5 DEF PathsLeft

(* Objects other than new ones only go.                                         *)
Cleared == \A p \in Paths : objects'[p] \in {objects[p], Nothing}

LEMMA ObjectsStep ==
  ASSUME LibraryTypes, [Next]_vars, ~UploadImage, ~FetchAsset, ~GenerateOne
  PROVE  /\ Cleared
         /\ pc' = "register" => pc = "register" /\ asset' = asset
         /\ ~Registered => UNCHANGED made
         /\ faults' \in {faults, faults + 1}
         /\ pc = "register" /\ pc' # "register" /\ ~Registered => faults' = faults + 1
<1>. RowTypes
  BY DEF LibraryTypes
<1>. DEFINE Goal == /\ Cleared
                    /\ pc' = "register" => pc = "register" /\ asset' = asset
                    /\ ~Registered => UNCHANGED made
                    /\ faults' \in {faults, faults + 1}
                    /\ pc = "register" /\ pc' # "register" /\ ~Registered => faults' = faults + 1
<1>. SUFFICES Goal
  OBVIOUS
<1>1. UNCHANGED objects => Cleared
  BY DEF Cleared
<1>2. ASSUME NEW i \in Ids, RemoveObject(i), UNCHANGED <<rows, inserting, entry>>
      PROVE Cleared /\ faults' \in {faults, faults + 1}
  BY <1>2, RemoveView DEF Cleared, RemoveObject, Fault
<1>3. ASSUME NEW i \in Ids, CommitInsert(i) \/ CommitDelete(i)
      PROVE Goal
  BY <1>1, <1>3 DEF CommitInsert, CommitDelete, ghosts
<1>4. ASSUME NEW i \in Ids, Expire(i) \/ (\E d \in Devices : Show(d, i))
      PROVE Goal
  BY <1>1, <1>4 DEF Expire, Show, ghosts, worker, library
<1>5. ASSUME ApiCrash PROVE Goal
  BY <1>1, <1>5 DEF ApiCrash, Fault, Registered, Register
<1>6. ASSUME NEW i \in Ids, DeleteImage(i)
      PROVE  Goal
  BY <1>2, <1>6 DEF DeleteImage, worker
<1>7. ASSUME NEW i \in Ids, CleanOne(i)
      PROVE  Goal
  <2>1. UNCHANGED <<rows, inserting, entry, made>> /\ pc = "clean" /\ pc' \in {"clean", "cleaning"}
    BY <1>7 DEF CleanOne
  <2>2. RemoveObject(i) \/ UNCHANGED <<objects, faults>>
    BY <1>7 DEF CleanOne
  <2>. QED
    BY <1>1, <1>2, <2>1, <2>2
<1>8. ASSUME GiveUp \/ WorkerCrash PROVE Goal
  BY <1>1, <1>8 DEF GiveUp, WorkerCrash, Fault, library
<1>9. ASSUME Register PROVE Goal
  BY <1>1, <1>9 DEF Register, Registered, Fault
<1>10. \/ Pass \/ ReadDevices \/ CleanDone \/ EndJob \/ EndPass \/ NextPicture \/ AssetFails
       \/ (\E j \in Jobs : BeginImmichJob(j) \/ BeginGenJob(j)) \/ (\E a \in Assets : NextAsset(a))
       => Goal
  BY <1>1 DEF Pass, StartPass, ReadDevices, CleanDone, EndJob, EndPass, NextPicture,
         AssetFails, BeginImmichJob, BeginGenJob, NextAsset, library, ghosts
<1>11. UNCHANGED vars => Goal
  BY <1>1 DEF vars, library, worker, ghosts
<1>. HIDE DEF Goal
<1>. QED
  BY <1>3, <1>4, <1>5, <1>6, <1>7, <1>8, <1>9, <1>10, <1>11 DEF Next, Api, Clean, Process

LEMMA PathsLeftStep ==
  ASSUME LibraryTypes, PathsLeft, [Next]_vars
  PROVE  PathsLeft'
<1>. PICK n : n = made + 1
  OBVIOUS
<1>. LibraryTypes' /\ RowTypes /\ RowTypes'
  BY TypesStep DEF LibraryTypes
<1>. made \in Nat /\ faults \in Nat
  BY LibraryAssumption DEF LibraryTypes, RowTypes, Counters
<1>. \A p \in Fresh : p \in Paths /\ p \notin Assets
  BY Sentinels
<1>1. CASE UploadImage
  <2>1. Used' \subseteq Used \cup {FreshPath}
    <3>1. \A p \in Fresh : p # FreshPath => objects'[p] = objects[p]
      BY <1>1, UploadView DEF RowTypes
    <3>2. \A p \in Fresh : (\E i \in Live' : Wanted(i)'.path = p) =>
                              (p = FreshPath \/ \E i \in Live : Wanted(i).path = p)
      BY <1>1, UploadView
    <3>3. UNCHANGED <<pc, asset>>
      BY <1>1 DEF UploadImage, worker
    <3>. QED
      BY <3>1, <3>2, <3>3 DEF Used
  <2>2. made' = n /\ faults' = faults /\ pc' = pc
    BY <1>1, UploadView DEF UploadImage, worker, ghosts
  <2>3. made + faults + InHand + 1 <= made' + faults' + InHand'
    BY <2>2 DEF InHand
  <2>. QED
    BY <2>1, <2>3, UsedBound
<1>2. CASE FetchAsset \/ GenerateOne
  <2>. DEFINE q == asset'
  <2>1. /\ pc' = "register" /\ pc = "fetch" /\ UNCHANGED <<made, faults, rows, inserting, entry>>
    BY <1>2 DEF FetchAsset, GenerateOne, Stored, ghosts
  <2>2. \A p \in Fresh : p # q => objects'[p] = objects[p]
    BY <1>2 DEF FetchAsset, GenerateOne, Stored, RowTypes
  <2>3. SameRows
    BY <2>1, UntouchedView
  <2>4. Used' \subseteq Used \cup {q}
    BY <2>1, <2>2, <2>3 DEF Used, SameRows
  <2>5. made + faults + InHand + 1 <= made' + faults' + InHand'
    BY <2>1 DEF InHand
  <2>. QED
    BY <2>4, <2>5, UsedBound
<1>3. CASE ~UploadImage /\ ~FetchAsset /\ ~GenerateOne
  <2>1. \A p \in Fresh : objects'[p] # Nothing => objects[p] # Nothing
    BY <1>3, ObjectsStep DEF Cleared
  <2>2. \A p \in Fresh : pc' = "register" /\ asset' = p => pc = "register" /\ asset = p
    BY <1>3, ObjectsStep
  <2>3. \A p \in Fresh : (\E i \in Live' : Wanted(i)'.path = p) =>
              ((\E i \in Live : Wanted(i).path = p) \/ (pc = "register" /\ asset = p))
    <3>1. CASE Registered
      BY <3>1, RegisterView DEF Registered, Register
    <3>2. CASE ViewKept
      BY <3>2 DEF ViewKept
    <3>. QED
      BY <1>3, <3>1, <3>2, ViewStep
  <2>4. Used' \subseteq Used
    BY <2>1, <2>2, <2>3 DEF Used
  <2>5. made + faults + InHand <= made' + faults' + InHand'
    <3>1. Registered => made' = made + 1
      BY RegisterView
    <3>. QED
      BY <1>3, <3>1, ObjectsStep DEF InHand
  <2>. QED
    BY <2>4, <2>5, UsedBound
<1>. QED
  BY <1>1, <1>2, <1>3

-----------------------------------------------------------------------------
(* Inserts, those who wait for them, and caps.                                  *)

(* Steps that neither change the inserts nor begin or end a wait for one.       *)
Waits == /\ UNCHANGED <<inserting, entry, abandoned>> /\ (pc' = "answer" => pc = "answer")
         /\ pc = "answer" => UNCHANGED <<pc, asset, job>>

LEMMA WaitStep ==
  ASSUME LibraryTypes, [Next]_vars
  PROVE  \/ \E i \in Ids : CommitInsert(i)
         \/ ApiCrash \/ UploadImage \/ Registered
         \/ (GiveUp \/ WorkerCrash) /\ pc = "answer"
         \/ Waits
<1>1. ASSUME NEW i \in Ids, \/ CommitDelete(i) \/ DeleteImage(i) \/ CleanOne(i) \/ Expire(i)
                            \/ \E d \in Devices : Show(d, i)
      PROVE  Waits
  BY <1>1 DEF CommitDelete, DeleteImage, CleanOne, Expire, Show, Waits, ghosts, worker, library
<1>2. (GiveUp \/ WorkerCrash) /\ pc # "answer" => Waits
  <2>1. CASE GiveUp /\ pc # "answer"
    BY <2>1 DEF GiveUp, Waits, library
  <2>2. CASE WorkerCrash /\ pc # "answer"
    BY <2>2 DEF WorkerCrash, Waits, library, LibraryTypes, Counters
  <2>. QED
    BY <2>1, <2>2
<1>3. \/ Pass \/ ReadDevices \/ CleanDone \/ EndJob \/ EndPass \/ NextPicture \/ AssetFails
      \/ FetchAsset \/ GenerateOne
      \/ (\E j \in Jobs : BeginImmichJob(j) \/ BeginGenJob(j)) \/ (\E a \in Assets : NextAsset(a))
      => Waits
  BY DEF Pass, StartPass, ReadDevices, CleanDone, EndJob, EndPass, NextPicture, AssetFails, FetchAsset,
         GenerateOne, Stored, BeginImmichJob, BeginGenJob, NextAsset, Waits, library, ghosts
<1>4. UNCHANGED vars => Waits
  BY DEF vars, library, worker, ghosts, Waits
<1>5. Register /\ pc' # "answer" => Waits
  BY DEF Register, Waits
<1>. QED
  BY <1>1, <1>2, <1>3, <1>4, <1>5 DEF Registered, Next, Api, Clean, Process

LEMMA AwaitedStep ==
  ASSUME LibraryTypes, PathsLeft, Awaited, [Next]_vars
  PROVE  Awaited'
<1>. PICK n : n = made + 1
  OBVIOUS
<1>. pc = "answer" => asset \in inserting /\ asset \in Ids
  BY InsertsAreIds DEF LibraryTypes, WorkerTypes
<1>1. ASSUME NEW i \in Ids, CommitInsert(i) PROVE Awaited'
  <2>1. pc' = "answer" => pc = "answer" /\ UNCHANGED <<asset, job>> /\ asset # i
    BY <1>1 DEF CommitInsert
  <2>. QED
    BY <1>1, <2>1, CommitInsertView DEF Awaited, LibraryTypes
<1>2. CASE ApiCrash
  BY <1>2 DEF ApiCrash, Awaited
<1>3. CASE UploadImage
  BY <1>3, UploadView DEF UploadImage, worker, Awaited
<1>4. CASE Registered
  BY <1>4, RegisterView DEF Registered, Register, Awaited
<1>5. CASE (GiveUp \/ WorkerCrash) /\ pc = "answer"
  BY <1>5 DEF GiveUp, WorkerCrash, Awaited
<1>6. CASE Waits
  BY <1>6 DEF Waits, Awaited
<1>. QED
  BY <1>1, <1>2, <1>3, <1>4, <1>5, <1>6, WaitStep

LEMMA PendingIsFinite ==
  ASSUME RowTypes
  PROVE  /\ Pending \subseteq Ids /\ IsFiniteSet(Pending) /\ Cardinality(Pending) \in Nat
         /\ \A S : S \subseteq Pending => IsFiniteSet(S) /\ Cardinality(S) <= Cardinality(Pending)
<1>1. Pending \subseteq Ids
  BY InsertsAreIds DEF Pending
<1>. QED
  BY <1>1, FiniteIds, FS_Subset, FS_CardinalityType

(* How the inserts nobody waits for change.                                     *)
LEMMA PendingStep ==
  ASSUME LibraryTypes, PathsLeft, [Next]_vars
  PROVE  \/ Pending' \subseteq Pending /\ UNCHANGED abandoned
         \/ /\ Pending' \subseteq Pending \cup {asset} /\ abandoned' = abandoned + 1
            /\ pc = "answer"
<1>. PICK n : n = made + 1
  OBVIOUS
<1>. pc = "answer" => asset \in inserting
  BY DEF LibraryTypes, WorkerTypes
<1>1. ASSUME NEW i \in Ids, CommitInsert(i) PROVE Pending' \subseteq Pending /\ UNCHANGED abandoned
  <2>1. inserting' = inserting \ {i} /\ UNCHANGED abandoned
    BY <1>1 DEF CommitInsert, ghosts
  <2>2. \A k \in inserting' : entry'[k] = entry[k]
    BY <1>1, <2>1, CommitInsertView, LibraryAssumption DEF LibraryTypes, RowTypes, Ids
  <2>3. pc = "answer" /\ asset # i => UNCHANGED <<pc, asset>>
    BY <1>1 DEF CommitInsert
  <2>. QED
    BY <2>1, <2>2, <2>3 DEF Pending
<1>2. CASE ApiCrash
  BY <1>2 DEF ApiCrash, Pending
<1>3. CASE UploadImage
  <2>1. /\ inserting' = inserting \cup {n} /\ n \notin inserting
        /\ entry'[n].job \notin Jobs
        /\ \A i \in inserting : entry'[i] = entry[i]
    BY <1>3, UploadView, Sentinels DEF Live
  <2>. QED
    BY <1>3, <2>1 DEF UploadImage, worker, ghosts, Pending
<1>4. CASE Registered
  <2>1. /\ inserting' = inserting \cup {n} /\ asset' = n
        /\ \A i \in inserting : entry'[i] = entry[i]
    BY <1>4, RegisterView
  <2>2. pc = "register" /\ pc' = "answer" /\ UNCHANGED abandoned
    BY <1>4 DEF Registered, Register
  <2>. QED
    BY <2>1, <2>2 DEF Pending
<1>5. CASE (GiveUp \/ WorkerCrash) /\ pc = "answer"
  BY <1>5 DEF GiveUp, WorkerCrash, Pending, library
<1>6. CASE Waits
  BY <1>6 DEF Waits, Pending
<1>. QED
  BY <1>1, <1>2, <1>3, <1>4, <1>5, <1>6, WaitStep

LEMMA PendingCountedStep ==
  ASSUME LibraryTypes, PathsLeft, PendingCounted, [Next]_vars
  PROVE  PendingCounted'
<1>1. /\ IsFiniteSet(Pending) /\ Cardinality(Pending) \in Nat
      /\ Cardinality(Pending \cup {asset}) \in Nat
      /\ Cardinality(Pending \cup {asset}) <= Cardinality(Pending) + 1
      /\ IsFiniteSet(Pending \cup {asset})
  BY PendingIsFinite, FS_AddElement, FS_CardinalityType DEF LibraryTypes
<1>2. /\ Pending' \subseteq Pending =>
           Cardinality(Pending') \in Nat /\ Cardinality(Pending') <= Cardinality(Pending)
      /\ Pending' \subseteq Pending \cup {asset} =>
           Cardinality(Pending') \in Nat /\ Cardinality(Pending') <= Cardinality(Pending \cup {asset})
  BY <1>1, FS_Subset, FS_CardinalityType
<1>3. Cardinality(Pending') = Cardinality(Pending)'
  OBVIOUS
<1>4. abandoned \in Nat
  BY DEF LibraryTypes, Counters
<1>5. \/ Cardinality(Pending)' <= Cardinality(Pending) /\ abandoned' = abandoned
      \/ Cardinality(Pending)' <= Cardinality(Pending) + 1 /\ abandoned' = abandoned + 1
  BY <1>1, <1>2, <1>3, PendingStep
<1>6. Cardinality(Pending)' \in Nat
  BY <1>1, <1>2, <1>3, PendingStep
<1>. QED
  BY <1>1, <1>4, <1>5, <1>6 DEF PendingCounted

LEMMA TakenIs ==
  ASSUME LibraryTypes, NEW j \in Jobs
  PROVE  Taken(j) = {i \in Live : Wanted(i).job = j /\ ~(pc = "answer" /\ asset = i)}
  BY DEF Taken, RowsOf, Pending, Live, Wanted, LibraryTypes, RowTypes, WorkerTypes

LEMMA TakenIsFinite ==
  ASSUME LibraryTypes, NEW j
  PROVE  IsFiniteSet(Taken(j)) /\ Cardinality(Taken(j)) \in Nat
<1>1. Taken(j) \subseteq Ids
  BY PendingIsFinite DEF Taken, RowsOf, Kept, LibraryTypes
<1>. QED
  BY <1>1, FiniteIds, FS_Subset, FS_CardinalityType

LEMMA ToComeIsKnown ==
  ASSUME LibraryTypes, NEW j \in Capped
  PROVE  ToCome(j) \in Nat
  BY LibraryAssumption DEF LibraryTypes, WorkerTypes, ToCome, Jobs

(* How the share of a capped job changes.                                       *)
LEMMA TakenStep ==
  ASSUME LibraryTypes, PathsLeft, Awaited, [Next]_vars, NEW j \in Capped
  PROVE  \/ Taken(j)' \subseteq Taken(j) /\ (UNCHANGED <<job, left>> \/ job' # j) /\ abandoned' >= abandoned
         \/ /\ Taken(j)' \subseteq Taken(j) \cup {asset}
            /\ job = j /\ job' = j /\ left' = left - 1 /\ abandoned' = abandoned
         \/ /\ Taken(j)' \subseteq Taken(j) \cup {asset}
            /\ (UNCHANGED <<job, left>> \/ job' # j) /\ abandoned' = abandoned + 1
         \/ Taken(j)' \subseteq Taken(j) /\ job' = j /\ left' = Remaining(j) /\ abandoned' = abandoned
<1>. PICK n : n = made + 1
  OBVIOUS
<1>. j \in Jobs /\ "none" \notin Jobs /\ j \notin GenJobs
  BY LibraryAssumption, Sentinels DEF Jobs
<1>. LibraryTypes' /\ abandoned \in Nat
  BY TypesStep DEF LibraryTypes, Counters
<1>. pc = "answer" => asset \in inserting
  BY DEF LibraryTypes, WorkerTypes
<1>. DEFINE Share == {i \in Live : Wanted(i).job = j /\ ~(pc = "answer" /\ asset = i)}
<1>0. Taken(j) = Share /\ Taken(j)' = Share'
  <2>1. Taken(j)' = Share'
    BY DEF Taken, RowsOf, Pending, Live, Wanted, LibraryTypes, RowTypes, WorkerTypes
  <2>. QED
    BY <2>1, TakenIs
<1>1. ASSUME NEW i \in Ids, CommitInsert(i), ~(pc = "answer" /\ asset = i)
      PROVE  Share' \subseteq Share /\ UNCHANGED <<job, left, abandoned>>
  <2>1. UNCHANGED <<pc, asset, left, job, abandoned>>
    BY <1>1 DEF CommitInsert, ghosts
  <2>. QED
    BY <1>1, <2>1, CommitInsertView DEF SameRows, LibraryTypes
<1>2. ASSUME NEW i \in Ids, CommitInsert(i), pc = "answer", asset = i, left # Unlimited \/ job # j
      PROVE  \/ Share' \subseteq Share /\ UNCHANGED <<job, abandoned>> /\ job # j
             \/ Share' \subseteq Share \cup {asset} /\ job = j /\ job' = j /\ left' = left - 1 /\ abandoned' = abandoned
  <2>1. /\ pc' = "asset" /\ UNCHANGED <<job, abandoned>>
        /\ left' = IF left = Unlimited THEN left ELSE left - 1
        /\ i \in inserting
    BY <1>2 DEF CommitInsert, ghosts
  <2>2. SameRows
    BY <1>2, CommitInsertView DEF LibraryTypes
  <2>3. Share' \subseteq Share \cup {asset}
    BY <1>2, <2>1, <2>2 DEF SameRows
  <2>4. Wanted(i)' = Wanted(i) /\ Wanted(i) = entry[i]
    BY <2>1, <2>2 DEF SameRows, Wanted, Live
  <2>5. job # j => i \notin Share'
    BY <1>2, <2>4 DEF Awaited
  <2>. QED
    BY <1>2, <2>1, <2>3, <2>5
<1>3. job = j /\ pc = "answer" => left # Unlimited
  BY DEF LibraryTypes, WorkerTypes, InJob
<1>4. CASE ApiCrash
  <2>1. /\ UNCHANGED <<job, left, abandoned>> /\ Live' = Kept /\ \A k \in Kept : Wanted(k)' = Wanted(k)
        /\ pc = "answer" => asset \notin Kept
    BY <1>4, ApiCrashView DEF ApiCrash, LibraryTypes, RowTypes
  <2>2. Share' \subseteq Share
    BY <2>1 DEF Live
  <2>. QED
    BY <1>0, <2>1, <2>2
<1>5. CASE UploadImage
  <2>1. UNCHANGED <<pc, asset, job, left, abandoned>>
    BY <1>5 DEF UploadImage, worker, ghosts
  <2>2. Live' = Live \cup {n} /\ (\A k \in Live : Wanted(k)' = Wanted(k)) /\ Wanted(n)'.job # j
    BY <1>5, UploadView, Sentinels
  <2>3. Share' \subseteq Share
    BY <2>1, <2>2
  <2>. QED
    BY <1>0, <2>1, <2>3
<1>6. CASE Registered
  <2>1. pc' = "answer" /\ pc = "register" /\ UNCHANGED <<job, left, abandoned>>
    BY <1>6 DEF Registered, Register
  <2>2. Live' = Live \cup {n} /\ (\A k \in Live : Wanted(k)' = Wanted(k)) /\ asset' = n
    BY <1>6, RegisterView
  <2>3. Share' \subseteq Share
    BY <2>1, <2>2
  <2>. QED
    BY <1>0, <2>1, <2>3
<1>7. CASE (GiveUp \/ WorkerCrash) /\ pc = "answer"
  <2>1. UNCHANGED <<rows, inserting, entry>> /\ abandoned' = abandoned + 1
        /\ (UNCHANGED <<job, left>> \/ job' = "none") /\ pc' # "answer"
    BY <1>7 DEF GiveUp, WorkerCrash, library
  <2>2. SameRows
    BY <2>1, UntouchedView DEF LibraryTypes
  <2>3. Share' \subseteq Share \cup {asset}
    BY <2>1, <2>2 DEF SameRows
  <2>. QED
    BY <1>0, <2>1, <2>3
<1>8. CASE Waits /\ ~UploadImage /\ ~Registered
  <2>1. ViewKept
    BY <1>8, ViewStep
  <2>2. Share' \subseteq Share /\ abandoned' = abandoned
    BY <1>8, <2>1 DEF ViewKept, Waits
  <2>3. \/ UNCHANGED <<job, left>>
        \/ job' # j
        \/ job' = j /\ left' = Remaining(j)
    <3>1. ASSUME NEW i \in Ids, \/ CommitInsert(i)
          PROVE  UNCHANGED <<job, left>>
      BY <1>8, <3>1 DEF Waits, CommitInsert
    <3>2. ASSUME NEW i \in Ids, \/ CommitDelete(i) \/ DeleteImage(i) \/ CleanOne(i) \/ Expire(i)
                                \/ \E d \in Devices : Show(d, i)
          PROVE  UNCHANGED <<job, left>>
      BY <3>2 DEF CommitDelete, DeleteImage, CleanOne, Expire, Show, worker
    <3>3. \/ ApiCrash \/ GiveUp \/ Pass \/ ReadDevices \/ CleanDone \/ EndPass \/ NextPicture
          \/ AssetFails \/ FetchAsset \/ GenerateOne \/ Register \/ (\E a \in Assets : NextAsset(a))
          => UNCHANGED <<job, left>>
      BY DEF ApiCrash, GiveUp, Pass, StartPass, ReadDevices, CleanDone, EndPass, NextPicture, AssetFails,
             FetchAsset, GenerateOne, Register, NextAsset
    <3>4. UNCHANGED vars => UNCHANGED <<job, left>>
      BY DEF vars, worker
    <3>5. WorkerCrash \/ EndJob => job' = "none"
      BY DEF WorkerCrash, EndJob
    <3>6. ASSUME NEW k \in Jobs, BeginGenJob(k) PROVE job' # j
      BY <3>6 DEF BeginGenJob
    <3>7. ASSUME NEW k \in Jobs, BeginImmichJob(k)
          PROVE  UNCHANGED <<job, left>> \/ job' # j \/ (job' = j /\ left' = Remaining(j))
      BY <3>7 DEF BeginImmichJob
    <3>. QED
      BY <1>8, <3>1, <3>2, <3>3, <3>4, <3>5, <3>6, <3>7 DEF Next, Api, Clean, Process
  <2>. HIDE DEF Share
  <2>. QED
    BY <1>0, <2>2, <2>3
<1>. HIDE DEF Share
<1>9. ASSUME NEW i \in Ids, CommitInsert(i)
      PROVE  \/ Taken(j)' \subseteq Taken(j) /\ (UNCHANGED <<job, left>> \/ job' # j) /\ abandoned' >= abandoned
             \/ /\ Taken(j)' \subseteq Taken(j) \cup {asset}
                /\ job = j /\ job' = j /\ left' = left - 1 /\ abandoned' = abandoned
  BY <1>0, <1>1, <1>2, <1>3, <1>9
<1>. QED
  BY <1>4, <1>5, <1>6, <1>7, <1>8, <1>9, WaitStep

LEMMA CapLeftStep ==
  ASSUME LibraryTypes, PathsLeft, Awaited, PendingCounted, CapLeft, [Next]_vars
  PROVE  CapLeft'
<1>. SUFFICES ASSUME Cap <= ListLimit, NEW j \in Capped
              PROVE  Cardinality(Taken(j)') + ToCome(j)' <= Cap + abandoned'
  BY DEF CapLeft
<1>. LibraryTypes'
  BY TypesStep
<1>. DEFINE t == Cardinality(Taken(j))
            u == Cardinality(Taken(j)')
<1>1. IsFiniteSet(Taken(j)) /\ t \in Nat
  BY TakenIsFinite
<1>2. ToCome(j) \in Nat /\ ToCome(j)' \in Nat
  <2>1. ToCome(j)' \in Nat
    BY LibraryAssumption DEF LibraryTypes, WorkerTypes, ToCome, Jobs
  <2>. QED
    BY <2>1, ToComeIsKnown
<1>3. abandoned \in Nat /\ abandoned' \in Nat /\ Cap \in Nat /\ ListLimit \in Nat
  BY LibraryAssumption DEF LibraryTypes, Counters
<1>4. t + ToCome(j) <= Cap + abandoned
  BY DEF CapLeft
<1>5. Taken(j)' \subseteq Taken(j) => u \in Nat /\ u <= t
  BY <1>1, FS_Subset, FS_CardinalityType
<1>6. Taken(j)' \subseteq Taken(j) \cup {asset} => u \in Nat /\ u <= t + 1
  <2>1. /\ IsFiniteSet(Taken(j) \cup {asset}) /\ Cardinality(Taken(j) \cup {asset}) \in Nat
        /\ Cardinality(Taken(j) \cup {asset}) <= t + 1
    <3>. HIDE DEF t
    <3>1. \A S : IsFiniteSet(S) => IsFiniteSet(S \cup {asset})
                 /\ Cardinality(S \cup {asset}) \in {Cardinality(S), Cardinality(S) + 1}
      BY FS_AddElement
    <3>. QED
      BY <1>1, <3>1 DEF t
  <2>2. Taken(j)' \subseteq Taken(j) \cup {asset} =>
           u \in Nat /\ u <= Cardinality(Taken(j) \cup {asset})
    BY <2>1, FS_Subset, FS_CardinalityType
  <2>. QED
    BY <1>1, <2>1, <2>2
<1>7. /\ UNCHANGED <<job, left>> => ToCome(j)' = ToCome(j)
      /\ job' # j => ToCome(j)' = 0
      /\ job = j /\ job' = j /\ left' = left - 1 => ToCome(j)' = ToCome(j) - 1
      /\ job' = j => ToCome(j)' = left'
  BY DEF ToCome
<1>8. t <= Cardinality(RowsOf(j)) + abandoned /\ Cardinality(RowsOf(j)) \in Nat
  <2>. DEFINE Later == {i \in Pending : entry[i].job = j}
  <2>1. RowsOf(j) \subseteq Ids
    BY DEF RowsOf, Kept
  <2>2. IsFiniteSet(RowsOf(j)) /\ Cardinality(RowsOf(j)) \in Nat
    BY <2>1, FiniteIds, FS_Subset, FS_CardinalityType
  <2>3. /\ IsFiniteSet(Later) /\ Cardinality(Later) <= Cardinality(Pending)
        /\ Cardinality(Pending) \in Nat /\ Cardinality(Later) \in Nat
    BY PendingIsFinite, FS_CardinalityType DEF LibraryTypes
  <2>4. Taken(j) = RowsOf(j) \cup Later
    BY DEF Taken
  <2>. HIDE DEF Later
  <2>5. t = Cardinality(RowsOf(j)) + Cardinality(Later) - Cardinality(RowsOf(j) \cap Later)
        /\ Cardinality(RowsOf(j) \cap Later) \in Nat
    <3>1. RowsOf(j) \cap Later \subseteq Later
      OBVIOUS
    <3>2. Cardinality(RowsOf(j) \cap Later) \in Nat
      BY <2>3, <3>1, FS_Subset, FS_CardinalityType
    <3>. QED
      BY <2>2, <2>3, <2>4, <3>2, FS_Union
  <2>. HIDE DEF t
  <2>. QED
    BY <1>1, <1>3, <2>2, <2>3, <2>5 DEF PendingCounted
<1>9. Cardinality(RowsOf(j)) < Cap => Remaining(j) = Cap - Cardinality(RowsOf(j))
  BY <1>3, <1>8 DEF Remaining
<1>10. Cardinality(RowsOf(j)) >= Cap => Remaining(j) = 0
  BY <1>3, <1>8 DEF Remaining
<1>. HIDE DEF t, u
<1>11. CASE Taken(j)' \subseteq Taken(j) /\ job' = j /\ left' = Remaining(j) /\ abandoned' = abandoned
  BY <1>1, <1>2, <1>3, <1>4, <1>5, <1>7, <1>8, <1>9, <1>10, <1>11 DEF u
<1>12. CASE Taken(j)' \subseteq Taken(j) /\ (UNCHANGED <<job, left>> \/ job' # j) /\ abandoned' >= abandoned
  BY <1>1, <1>2, <1>3, <1>4, <1>5, <1>7, <1>12 DEF u
<1>13. CASE /\ Taken(j)' \subseteq Taken(j) \cup {asset}
            /\ job = j /\ job' = j /\ left' = left - 1 /\ abandoned' = abandoned
  BY <1>1, <1>2, <1>3, <1>4, <1>6, <1>7, <1>13 DEF u
<1>14. CASE /\ Taken(j)' \subseteq Taken(j) \cup {asset}
            /\ (UNCHANGED <<job, left>> \/ job' # j) /\ abandoned' = abandoned + 1
  BY <1>1, <1>2, <1>3, <1>4, <1>6, <1>7, <1>14 DEF u
<1>. QED
  BY <1>11, <1>12, <1>13, <1>14, TakenStep

-----------------------------------------------------------------------------
(* The cleanup.                                                                 *)

LEMMA CleanupStep ==
  ASSUME LibraryTypes, PathsLeft, CleanupKnows, [Next]_vars
  PROVE  CleanupKnows'
<1>. PICK n : n = made + 1
  OBVIOUS
<1>. RowTypes /\ made \in Nat
  BY LibraryAssumption DEF LibraryTypes, RowTypes
<1>. DEFINE AtWork == {"listed", "clean", "cleaning"}
<1>1. ASSUME NEW k \in Ids, CommitInsert(k) PROVE CleanupKnows'
  <2>1. /\ k \in inserting /\ inserting' = inserting \ {k} /\ UNCHANGED <<made, doomed, showing, fresh>>
        /\ pc' \in AtWork => pc' = pc
    BY <1>1 DEF CommitInsert, ghosts
  <2>2. Kept' = Kept \cup {k} /\ \A i \in Ids \ {k} : rows'[i] = rows[i]
    BY <1>1, CommitInsertView
  <2>3. k \notin doomed /\ doomed' \subseteq (1..made') \ inserting'
    BY <2>1 DEF CleanupKnows
  <2>4. \A i \in doomed' \cap Kept' : i \in doomed \cap Kept /\ rows'[i] = rows[i]
    BY <2>1, <2>2, <2>3 DEF Kept
  <2>. QED
    BY <2>1, <2>3, <2>4 DEF CleanupKnows, FromImmich
<1>2. ASSUME NEW k \in Ids, CommitDelete(k) PROVE CleanupKnows'
  <2>1. /\ UNCHANGED <<inserting, made, doomed, showing, fresh>>
        /\ pc' = pc \/ (pc = "cleaning" /\ pc' = "clean")
    BY <1>2 DEF CommitDelete
  <2>2. Kept' = Kept \ {k} /\ \A i \in Ids \ {k} : rows'[i] = rows[i]
    BY <1>2, CommitDeleteView
  <2>3. \A i \in doomed' \cap Kept' : i \in doomed \cap Kept /\ rows'[i] = rows[i]
    BY <2>1, <2>2 DEF Kept
  <2>. QED
    BY <2>1, <2>3 DEF CleanupKnows, FromImmich
<1>3. ASSUME NEW k \in Ids, Expire(k) PROVE CleanupKnows'
  <2>1. UNCHANGED <<inserting, made, doomed, showing, fresh, pc>>
    BY <1>3 DEF Expire, ghosts, worker
  <2>2. /\ Kept' = Kept /\ \A i \in Ids \ {k} : rows'[i] = rows[i]
        /\ rows'[k].job = rows[k].job /\ rows'[k].expires = "past"
    BY <1>3, ExpireView
  <2>3. \A i \in Kept : i \in Ids
    BY DEF Kept
  <2>. QED
    BY <2>1, <2>2, <2>3 DEF CleanupKnows, FromImmich
<1>4. ASSUME UNCHANGED <<rows, showing, made>>, inserting' \subseteq inserting, doomed' \subseteq doomed,
             pc' \in AtWork => UNCHANGED fresh /\ (pc' = pc \/ (pc = "cleaning" /\ pc' = "clean")
                                                           \/ (pc = "clean" /\ pc' = "cleaning"))
      PROVE  CleanupKnows'
  <2>1. Kept' = Kept
    BY <1>4 DEF Kept
  <2>. QED
    BY <1>4, <2>1 DEF CleanupKnows, FromImmich
<1>5. CASE ApiCrash
  BY <1>4, <1>5 DEF ApiCrash
<1>6. ASSUME made' = n, inserting' = inserting \cup {n}, Kept' = Kept,
             UNCHANGED <<rows, showing, doomed, fresh>>, pc' = pc \/ pc' = "answer"
      PROVE  CleanupKnows'
  <2>1. doomed' \subseteq (1..made') \ inserting'
    BY <1>6 DEF CleanupKnows
  <2>. QED
    BY <1>6, <2>1 DEF CleanupKnows, FromImmich
<1>7. CASE UploadImage
  BY <1>6, <1>7, UploadView DEF UploadImage, worker, ghosts
<1>8. CASE Registered
  BY <1>6, <1>8, RegisterView DEF Registered, Register
<1>9. CASE Register /\ ~Registered
  BY <1>4, <1>9 DEF Registered, Register
<1>10. ASSUME NEW i \in Ids, DeleteImage(i) PROVE CleanupKnows'
  BY <1>4, <1>10 DEF DeleteImage, worker
<1>11. ASSUME NEW i \in Ids, CleanOne(i) PROVE CleanupKnows'
  <2>1. /\ UNCHANGED <<rows, made, inserting, showing, fresh>> /\ doomed' \subseteq doomed
        /\ pc = "clean" /\ pc' \in {"clean", "cleaning"}
    BY <1>11 DEF CleanOne
  <2>. QED
    BY <1>4, <2>1
<1>12. ASSUME NEW d \in Devices, NEW i \in Ids, Show(d, i) PROVE CleanupKnows'
  <2>1. /\ UNCHANGED <<rows, made, inserting, doomed, pc>> /\ showing' = [showing EXCEPT ![d] = i]
        /\ pc \in {"clean", "cleaning"} => fresh' = fresh \cup {d}
    BY <1>12 DEF Show, library, worker
  <2>2. Kept' = Kept
    BY <2>1 DEF Kept
  <2>3. \A e \in Devices : e # d => showing'[e] = showing[e]
    BY <2>1 DEF RowTypes
  <2>. QED
    BY <2>1, <2>2, <2>3 DEF CleanupKnows, FromImmich
<1>13. CASE Pass
  <2>1. UNCHANGED <<rows, made, inserting, showing>> /\ Kept' = Kept /\ Kept \subseteq (1..made) \ inserting
    BY <1>13 DEF Pass, StartPass, library, Kept, RowTypes
  <2>2. \/ /\ doomed' \subseteq {i \in Kept : FromImmich(i) /\ rows[i].expires = "past"}
           /\ pc' \in {"jobs", "listed"}
        \/ doomed' = doomed /\ pc' = "jobs"
    BY <1>13 DEF Pass, StartPass, Listings
  <2>. QED
    BY <2>1, <2>2 DEF CleanupKnows, FromImmich
<1>14. CASE ReadDevices
  <2>1. /\ UNCHANGED <<rows, made, inserting, showing>> /\ pc = "listed" /\ doomed' = doomed \ Shown
    BY <1>14 DEF ReadDevices, library
  <2>2. Kept' = Kept /\ \A i \in doomed' : \A d \in Devices : showing'[d] # i
    BY <2>1 DEF Kept, Shown
  <2>. QED
    BY <2>1, <2>2 DEF CleanupKnows, FromImmich
<1>15. CASE GiveUp \/ WorkerCrash
  BY <1>4, <1>15 DEF GiveUp, WorkerCrash, library
<1>16. \/ CleanDone \/ EndJob \/ EndPass \/ NextPicture
       \/ AssetFails \/ FetchAsset \/ GenerateOne
       \/ (\E j \in Jobs : BeginImmichJob(j) \/ BeginGenJob(j)) \/ (\E a \in Assets : NextAsset(a))
       => CleanupKnows'
  BY <1>4 DEF CleanDone, EndJob, EndPass, NextPicture, AssetFails,
         FetchAsset, GenerateOne, Stored, BeginImmichJob, BeginGenJob, NextAsset, library
<1>17. UNCHANGED vars => CleanupKnows'
  BY <1>4 DEF vars, library, worker, ghosts
<1>. QED
  BY <1>1, <1>2, <1>3, <1>5, <1>7, <1>8, <1>9, <1>10, <1>11, <1>12, <1>13, <1>14, <1>15, <1>16, <1>17
  DEF Next, Api, Clean, Process

-----------------------------------------------------------------------------
(* Rows and their objects.                                                      *)

(* A step that touches no object, and takes up none, keeps every path's owner.  *)
LEMMA OwnersStay ==
  ASSUME LibraryTypes, Sole, Served, Owned, stray' >= stray, stray' \in Nat, UNCHANGED objects,
         ViewKept, Live' \ asked' \subseteq Live \ asked,
         stray' = 0 => Live \ deleting \subseteq Live' \ deleting',
         \A p : Handling(p)' => Handling(p),
         pc' = "register" => pc = "register" /\ UNCHANGED <<asset, job>>,
         pc = "register" => pc' = "register" \/ stray' # 0
  PROVE  Sole' /\ Served' /\ Owned'
<1>1. stray' = 0 => stray = 0
  BY DEF LibraryTypes, Counters
<1>2. Sole'
  BY DEF Sole, ViewKept
<1>3. Served'
  <2>1. ASSUME NEW i \in Live' \ asked' PROVE Fits(objects[Wanted(i).path], Wanted(i).size)'
    <3>1. Fits(objects[Wanted(i).path], Wanted(i).size)
      BY <2>1 DEF Served
    <3>2. objects' = objects /\ Wanted(i)'.path = Wanted(i).path /\ Wanted(i)'.size = Wanted(i).size
      BY <2>1 DEF ViewKept
    <3>. QED
      BY <1>1, <3>1, <3>2 DEF Fits
  <2>2. pc' = "register" => Fits(objects[asset], job)'
    BY <1>1 DEF Served, Fits
  <2>. QED
    BY <2>1, <2>2 DEF Served
<1>4. Owned'
  <2>. SUFFICES ASSUME stray' = 0, NEW p \in Paths, objects'[p] # Nothing
                PROVE  \/ \E i \in Live' \ deleting' : Wanted(i)'.path = p
                       \/ pc' = "register" /\ asset' = p
    BY DEF Owned
  <2>1. CASE pc = "register" /\ asset = p
    BY <2>1
  <2>2. CASE \E i \in Live \ deleting : Wanted(i).path = p
    BY <2>2 DEF ViewKept
  <2>. QED
    BY <1>1, <2>1, <2>2 DEF Owned
<1>. QED
  BY <1>2, <1>3, <1>4

(* While nobody stopped waiting, inserts the worker does not wait for are those *)
(* of uploads.                                                                  *)
LEMMA NoLateInsert ==
  ASSUME LibraryTypes, PendingCounted, abandoned = 0, pc # "answer"
  PROVE  \A i \in inserting : entry[i].job \notin Jobs
<1>1. Cardinality(Pending) = 0 /\ IsFiniteSet(Pending)
  BY PendingIsFinite DEF PendingCounted, LibraryTypes
<1>2. Pending = {}
  BY <1>1, FS_EmptySet
<1>. QED
  BY <1>2 DEF Pending

(* An object goes, its row is no longer wanted.                                 *)
LEMMA RemovalKeepsOwners ==
  ASSUME LibraryTypes, Sole, Served, Owned, stray \in Nat, NEW i \in Ids, RemoveObject(i),
         UNCHANGED <<rows, inserting, entry, job>>,
         pc = "register" => UNCHANGED <<pc, asset>>,
         pc' # pc => pc' = "cleaning" /\ pc = "clean",
         pc' = pc => asset' = asset
  PROVE  Sole' /\ Served' /\ Owned'
<1>1. /\ Live' = Live /\ \A k \in Live : Wanted(k)' = Wanted(k)
      /\ i \in Live /\ Wanted(i) = rows[i] /\ i \notin deleting
      /\ deleting' = deleting \cup {i} /\ asked' = asked \cup {i}
  BY RemoveView DEF SameRows, RemoveObject, LibraryTypes, Live
<1>2. \A p : Handling(p)' => Handling(p)
  BY DEF Handling
<1>3. Sole'
  BY <1>1, <1>2 DEF Sole
<1>4. \A k \in Live : Wanted(k).path \in Paths
  BY LiveRows DEF LibraryTypes
<1>5. CASE objects' = [objects EXCEPT ![rows[i].path] = Nothing] /\ UNCHANGED stray
  <2>1. /\ \A p \in Paths : p # rows[i].path => objects'[p] = objects[p]
        /\ objects'[rows[i].path] = Nothing
    BY <1>1, <1>4, <1>5 DEF LibraryTypes, RowTypes
  <2>2. ASSUME NEW k \in Live' \ asked' PROVE Fits(objects[Wanted(k).path], Wanted(k).size)'
    <3>1. k \in Live \ asked /\ k # i
      BY <1>1, <2>2
    <3>2. Wanted(k).path # rows[i].path
      BY <1>1, <3>1 DEF Sole
    <3>3. Fits(objects[Wanted(k).path], Wanted(k).size)
      BY <3>1 DEF Served
    <3>4. objects'[Wanted(k).path] = objects[Wanted(k).path] /\ Wanted(k)' = Wanted(k)
      BY <1>1, <1>4, <2>1, <3>1, <3>2
    <3>. QED
      BY <1>5, <3>3, <3>4 DEF Fits
  <2>3. pc' = "register" => Fits(objects[asset], job)'
    <3>. SUFFICES ASSUME pc' = "register" PROVE Fits(objects[asset], job)'
      OBVIOUS
    <3>1. pc = "register" /\ UNCHANGED <<asset, job>>
      OBVIOUS
    <3>2. asset # rows[i].path
      BY <1>1, <3>1 DEF Sole, Handling
    <3>3. asset \in Paths
      BY <3>1, Sentinels DEF LibraryTypes, WorkerTypes
    <3>. QED
      BY <1>5, <2>1, <3>1, <3>2, <3>3 DEF Served, Fits
  <2>4. Owned'
    <3>. SUFFICES ASSUME stray' = 0, NEW p \in Paths, objects'[p] # Nothing
                  PROVE  \/ \E k \in Live' \ deleting' : Wanted(k)'.path = p
                         \/ pc' = "register" /\ asset' = p
      BY DEF Owned
    <3>1. p # rows[i].path /\ objects[p] # Nothing
      BY <2>1
    <3>. QED
      BY <1>1, <1>5, <3>1 DEF Owned
  <2>. QED
    BY <1>3, <2>2, <2>3, <2>4 DEF Served
<1>6. CASE UNCHANGED objects /\ stray' = stray + 1
  <2>1. ViewKept /\ Live' \ asked' \subseteq Live \ asked
    BY <1>1 DEF ViewKept
  <2>2. stray' # 0 /\ stray' >= stray /\ stray' \in Nat
    BY <1>6
  <2>3. pc' = "register" => pc = "register" /\ UNCHANGED <<asset, job>>
    OBVIOUS
  <2>. QED
    BY <1>2, <1>6, <2>1, <2>2, <2>3, OwnersStay
<1>. QED
  BY <1>5, <1>6 DEF RemoveObject

(* A new object at a path that nobody has.                                      *)
LEMMA NewObjectIsOwned ==
  ASSUME LibraryTypes, LibraryTypes', Sole, Served, Owned, NEW q \in Paths, NEW size, size # Nothing,
         objects' = [objects EXCEPT ![q] = size] \/ (UNCHANGED objects /\ Fits(objects[q], size)),
         \A k \in Live : Wanted(k).path # q,
         UNCHANGED <<stray, asked, deleting>>, pc = "fetch",
         UNCHANGED <<rows, inserting, entry, job>>,
         pc' = "register", asset' = q, job = size
  PROVE  Sole' /\ Served' /\ Owned'
<1>1. Live' = Live /\ \A k \in Live : Wanted(k)' = Wanted(k)
  BY UntouchedView DEF SameRows, LibraryTypes
<1>2. \A k \in Live : Wanted(k).path \in Paths
  BY LiveRows DEF LibraryTypes
<1>3. \A p \in Paths : p # q => objects'[p] = objects[p]
  BY DEF LibraryTypes, RowTypes
<1>4. Sole'
  BY <1>1 DEF Sole, Handling
<1>5. Served'
  <2>1. Fits(objects[asset], job)'
    BY DEF Fits, LibraryTypes, RowTypes
  <2>2. ASSUME NEW k \in Live' \ asked' PROVE Fits(objects[Wanted(k).path], Wanted(k).size)'
    <3>1. Fits(objects[Wanted(k).path], Wanted(k).size) /\ Wanted(k)' = Wanted(k)
      BY <1>1, <2>2 DEF Served
    <3>2. objects'[Wanted(k).path] = objects[Wanted(k).path]
      BY <1>1, <1>2, <1>3, <2>2
    <3>. QED
      BY <3>1, <3>2 DEF Fits
  <2>. QED
    BY <2>1, <2>2 DEF Served
<1>6. Owned'
  BY <1>1, <1>3 DEF Owned
<1>. QED
  BY <1>4, <1>5, <1>6

LEMMA OwnershipStep ==
  ASSUME LibraryTypes, PathsLeft, PendingCounted, Ownership, [Next]_vars
  PROVE  Ownership'
<1>. SUFFICES ASSUME SkipExisting, abandoned' = 0
              PROVE  Sole' /\ Served' /\ Owned'
  BY DEF Ownership
<1>. PICK n : n = made + 1
  OBVIOUS
<1>. RowTypes /\ LibraryTypes'
  BY TypesStep DEF LibraryTypes
<1>. stray' >= stray /\ stray \in Nat /\ stray' \in Nat
  BY CountersStep DEF LibraryTypes, Counters
<1>. abandoned = 0
  BY PendingStep DEF LibraryTypes, Counters
<1>. Sole /\ Served /\ Owned
  BY DEF Ownership
<1>. Upload \notin Jobs /\ Nothing \notin Jobs /\ Upload # Nothing /\ Assets \cap Fresh = {}
  BY Sentinels
<1>1. ASSUME NEW i \in Ids, CommitInsert(i) PROVE Sole' /\ Served' /\ Owned'
  <2>1. /\ UNCHANGED <<objects, deleting, asked, stray, job>>
        /\ UNCHANGED <<pc, asset>> \/ (pc = "answer" /\ pc' = "asset")
    BY <1>1 DEF CommitInsert, ghosts
  <2>2. SameRows
    BY <1>1, CommitInsertView
  <2>3. \A p : Handling(p)' => Handling(p)
    BY <2>1 DEF Handling
  <2>4. /\ ViewKept /\ Live' \ asked' \subseteq Live \ asked /\ Live \ deleting \subseteq Live' \ deleting'
        /\ pc' = "register" => pc = "register" /\ UNCHANGED <<asset, job>>
        /\ pc = "register" => pc' = "register" \/ stray' # 0
    BY <2>1, <2>2 DEF SameRows, ViewKept
  <2>. QED
    BY <2>1, <2>3, <2>4, OwnersStay
<1>2. ASSUME NEW i \in Ids, CommitDelete(i) PROVE Sole' /\ Served' /\ Owned'
  <2>1. /\ UNCHANGED <<objects, stray, job>> /\ deleting' = deleting \ {i} /\ asked' = asked \ {i}
        /\ i \in deleting
        /\ UNCHANGED <<pc, asset>> \/ (pc = "cleaning" /\ pc' = "clean")
    BY <1>2 DEF CommitDelete
  <2>2. Live' = Live \ {i} /\ \A k \in Live' : Wanted(k)' = Wanted(k)
    BY <1>2, CommitDeleteView
  <2>3. \A p : Handling(p)' => Handling(p)
    BY <2>1 DEF Handling
  <2>4. ViewKept
    BY <2>2 DEF ViewKept
  <2>5. /\ Live' \ asked' \subseteq Live \ asked /\ Live \ deleting \subseteq Live' \ deleting'
        /\ pc' = "register" => pc = "register" /\ UNCHANGED <<asset, job>>
        /\ pc = "register" => pc' = "register" \/ stray' # 0
    BY <2>1, <2>2
  <2>. QED
    BY <2>1, <2>3, <2>4, <2>5, OwnersStay
<1>3. CASE ApiCrash
  <2>1. /\ UNCHANGED <<objects, asked, job>> /\ stray' = stray + Cardinality(inserting) /\ deleting' = {}
        /\ UNCHANGED <<pc, asset>> \/ pc' \in {"asset", "clean"}
        /\ pc = "register" => pc' = "register"
    BY <1>3 DEF ApiCrash
  <2>2. IsFiniteSet(inserting) /\ Cardinality(inserting) \in Nat
    BY InsertsAreIds, FiniteIds, FS_Subset, FS_CardinalityType
  <2>3. stray' = 0 => inserting = {}
    <3>1. stray' = 0 => Cardinality(inserting) = 0
      BY <2>1, <2>2
    <3>. QED
      BY <2>2, <3>1, FS_EmptySet
  <2>4. ViewKept /\ Live' = Kept
    BY <1>3, ApiCrashView DEF ViewKept, Live
  <2>5. \A p : Handling(p)' => Handling(p)
    BY <2>1 DEF Handling
  <2>6. /\ Live' \ asked' \subseteq Live \ asked
        /\ stray' = 0 => Live \ deleting \subseteq Live' \ deleting'
        /\ pc' = "register" => pc = "register" /\ UNCHANGED <<asset, job>>
        /\ pc = "register" => pc' = "register" \/ stray' # 0
    BY <2>1, <2>3, <2>4 DEF Live
  <2>. QED
    BY <2>1, <2>4, <2>5, <2>6, OwnersStay
<1>4. CASE UploadImage
  <2>. DEFINE q == FreshPath
  <2>1. /\ UNCHANGED <<deleting, asked, stray, pc, asset, job>>
    BY <1>4 DEF UploadImage, worker, ghosts
  <2>2. /\ q \in Fresh /\ q \in Paths /\ objects[q] = Nothing /\ \A k \in Live : Wanted(k).path # q
        /\ n \notin Live /\ Live' = Live \cup {n} /\ \A k \in Live : Wanted(k)' = Wanted(k)
        /\ Wanted(n)'.path = q /\ Wanted(n)'.size = Upload
        /\ objects' = [objects EXCEPT ![q] = Upload]
    BY <1>4, UploadView, Sentinels
  <2>. HIDE DEF q
  <2>3. objects'[q] = Upload /\ \A p \in Paths : p # q => objects'[p] = objects[p]
    BY <2>2 DEF RowTypes
  <2>4. ~Handling(q) /\ \A p : Handling(p)' => Handling(p)
    BY <2>1, <2>2 DEF Handling, Served, Fits, LibraryTypes, WorkerTypes
  <2>5. Sole'
    BY <2>2, <2>4 DEF Sole
  <2>6. \A k \in Live : Wanted(k).path \in Paths
    BY LiveRows
  <2>7. ASSUME NEW k \in Live' \ asked' PROVE Fits(objects[Wanted(k).path], Wanted(k).size)'
    <3>1. CASE k = n
      BY <2>2, <2>3, <3>1 DEF Fits
    <3>2. CASE k \in Live
      <4>1. Fits(objects[Wanted(k).path], Wanted(k).size) /\ Wanted(k)' = Wanted(k)
        BY <2>1, <2>2, <2>7, <3>2 DEF Served
      <4>2. objects'[Wanted(k).path] = objects[Wanted(k).path]
        BY <2>2, <2>3, <2>6, <3>2
      <4>. QED
        BY <2>1, <4>1, <4>2 DEF Fits
    <3>. QED
      BY <2>2, <2>7, <3>1, <3>2
  <2>8. pc' = "register" => Fits(objects[asset], job)'
    <3>1. pc = "register" => asset \in Paths /\ asset # q
      BY <2>4, Sentinels DEF Handling, LibraryTypes, WorkerTypes
    <3>. QED
      BY <2>1, <2>3, <3>1 DEF Served, Fits
  <2>9. Owned'
    <3>. SUFFICES ASSUME stray' = 0, NEW p \in Paths, objects'[p] # Nothing
                  PROVE  \/ \E k \in Live' \ deleting' : Wanted(k)'.path = p
                         \/ pc' = "register" /\ asset' = p
      BY DEF Owned
    <3>1. n \notin deleting
      BY <2>2 DEF RowTypes, Live
    <3>2. CASE p = q
      BY <2>1, <2>2, <3>1, <3>2
    <3>3. CASE p # q
      BY <2>1, <2>2, <2>3, <3>3 DEF Owned
    <3>. QED
      BY <3>2, <3>3
  <2>. QED
    BY <2>5, <2>7, <2>8, <2>9 DEF Served
<1>5. CASE Registered
  <2>. DEFINE q == asset
  <2>1. /\ pc = "register" /\ pc' = "answer" /\ UNCHANGED <<objects, deleting, asked, stray>>
    BY <1>5 DEF Registered, Register
  <2>2. /\ n \notin Live /\ Live' = Live \cup {n} /\ \A k \in Live : Wanted(k)' = Wanted(k)
        /\ Wanted(n)'.path = asset /\ Wanted(n)'.size = job
    BY <1>5, RegisterView
  <2>3. \A k \in Live : Wanted(k).path # asset
    BY <2>1 DEF Sole, Handling
  <2>4. Sole'
    BY <2>1, <2>2, <2>3 DEF Sole, Handling
  <2>5. ASSUME NEW k \in Live' \ asked' PROVE Fits(objects[Wanted(k).path], Wanted(k).size)'
    <3>1. CASE k = n
      BY <2>1, <2>2, <3>1 DEF Fits, Served
    <3>2. CASE k \in Live
      BY <2>1, <2>2, <2>5, <3>2 DEF Fits, Served
    <3>. QED
      BY <2>2, <2>5, <3>1, <3>2
  <2>6. n \notin deleting
    BY <2>2 DEF RowTypes, Live
  <2>7. Owned'
    BY <2>1, <2>2, <2>6 DEF Owned
  <2>. QED
    BY <2>1, <2>4, <2>5, <2>7 DEF Served
<1>6. ASSUME NEW i \in Ids, DeleteImage(i) PROVE Sole' /\ Served' /\ Owned'
  <2>1. RemoveObject(i) /\ UNCHANGED <<rows, inserting, entry, job, pc, asset>>
    BY <1>6 DEF DeleteImage, worker
  <2>. QED
    BY <2>1, RemovalKeepsOwners
<1>7. ASSUME UNCHANGED <<rows, inserting, entry, objects, deleting, asked>>,
             \A p : Handling(p)' => Handling(p),
             pc' = "register" => pc = "register" /\ UNCHANGED <<asset, job>>,
             pc = "register" => pc' = "register" \/ stray' # 0
      PROVE  Sole' /\ Served' /\ Owned'
  <2>1. SameRows
    BY <1>7, UntouchedView
  <2>2. /\ ViewKept /\ Live' \ asked' \subseteq Live \ asked /\ Live \ deleting \subseteq Live' \ deleting'
    BY <1>7, <2>1 DEF SameRows, ViewKept
  <2>. QED
    BY <1>7, <2>2, OwnersStay
<1>8. ASSUME NEW i \in Ids, CleanOne(i) PROVE Sole' /\ Served' /\ Owned'
  <2>1. /\ UNCHANGED <<rows, inserting, entry, job>> /\ pc = "clean"
        /\ \/ RemoveObject(i) /\ pc' = "cleaning" /\ asset' = i
           \/ UNCHANGED <<objects, deleting, asked, pc, asset>>
    BY <1>8 DEF CleanOne
  <2>2. CASE RemoveObject(i) /\ pc' = "cleaning" /\ asset' = i
    BY <2>1, <2>2, RemovalKeepsOwners
  <2>3. CASE UNCHANGED <<objects, deleting, asked, pc, asset>>
    BY <1>7, <2>1, <2>3 DEF Handling
  <2>. QED
    BY <2>1, <2>2, <2>3
<1>9. ASSUME NEW i \in Ids, Expire(i) PROVE Sole' /\ Served' /\ Owned'
  <2>1. UNCHANGED <<objects, deleting, asked, stray, pc, asset, job>>
    BY <1>9 DEF Expire, worker, ghosts
  <2>2. Live' = Live /\ ViewKept
    BY <1>9, ExpireView DEF ViewKept
  <2>3. \A p : Handling(p)' => Handling(p)
    BY <2>1 DEF Handling
  <2>4. Live' \ asked' \subseteq Live \ asked /\ Live \ deleting \subseteq Live' \ deleting'
    BY <2>1, <2>2
  <2>. QED
    BY <2>1, <2>2, <2>3, <2>4, OwnersStay
<1>10. ASSUME NEW i \in Ids, NEW d \in Devices, Show(d, i) PROVE Sole' /\ Served' /\ Owned'
  BY <1>7, <1>10 DEF Show, library, worker, Handling
<1>11. ASSUME NEW a \in Assets, NextAsset(a) PROVE Sole' /\ Served' /\ Owned'
  <2>1. /\ UNCHANGED <<rows, inserting, entry, objects, deleting, asked, job>> /\ pc = "asset"
        /\ \/ UNCHANGED <<pc, asset>>
           \/ ~Existing(a) /\ pc' = "fetch" /\ asset' = a
    BY <1>11 DEF NextAsset, library, ghosts
  <2>2. CASE UNCHANGED <<pc, asset>>
    BY <1>7, <2>1, <2>2 DEF Handling
  <2>3. CASE ~Existing(a) /\ pc' = "fetch" /\ asset' = a
    <3>1. SameRows
      BY <2>1, UntouchedView
    <3>2. ASSUME NEW k \in Live, Wanted(k).path = a PROVE FALSE
      <4>1. Wanted(k).job \in ImmichJobs /\ k \in Ids
        BY <3>2, LiveRows DEF LibraryTypes, AssetRows
      <4>2. CASE k \in inserting
        BY <2>1, <4>1, <4>2, NoLateInsert DEF Wanted, Jobs
      <4>3. CASE k \in Kept /\ k \notin inserting
        BY <2>3, <3>2, <4>1, <4>3 DEF Existing, FromImmich, Wanted
      <4>. QED
        BY <4>2, <4>3 DEF Live
    <3>3. Sole'
      BY <2>3, <3>1, <3>2 DEF SameRows, Sole, Handling
    <3>4. Served' /\ Owned'
      BY <2>1, <2>3, <3>1 DEF SameRows, Served, Owned, Fits, LibraryTypes, Counters
    <3>. QED
      BY <3>3, <3>4
  <2>. QED
    BY <2>1, <2>2, <2>3
<1>12. CASE FetchAsset
  <2>. DEFINE q == asset
  <2>1. /\ pc = "fetch" /\ job \in ImmichJobs /\ job \in Jobs /\ pc' = "register" /\ asset' = asset
        /\ UNCHANGED <<rows, inserting, entry, deleting, asked, stray, job>>
        /\ objects' = IF objects[asset] = Nothing THEN [objects EXCEPT ![asset] = job] ELSE objects
    BY <1>12 DEF FetchAsset, Stored, ghosts, Jobs
  <2>2. \A k \in Live : Wanted(k).path # asset
    BY <2>1 DEF Sole, Handling
  <2>3. asset \in Paths
    BY <2>1, Sentinels DEF LibraryTypes, WorkerTypes
  <2>4. objects[asset] # Nothing => Fits(objects[asset], job)
    BY <2>1, <2>2, <2>3 DEF Owned, Fits
  <2>5. objects' = [objects EXCEPT ![asset] = job] \/ (UNCHANGED objects /\ Fits(objects[asset], job))
    BY <2>1, <2>4
  <2>6. job # Nothing
    BY <2>1
  <2>. QED
    BY <2>1, <2>2, <2>3, <2>5, <2>6, NewObjectIsOwned
<1>13. CASE GenerateOne
  <2>1. /\ pc = "fetch" /\ job \in GenJobs /\ job \in Jobs /\ pc' = "register" /\ asset' = FreshPath
        /\ UNCHANGED <<rows, inserting, entry, deleting, asked, stray, job>> /\ made < MaxRows
        /\ objects' = [objects EXCEPT ![FreshPath] = job]
    BY <1>13 DEF GenerateOne, Stored, ghosts, Jobs
  <2>2. /\ FreshPath \in Paths /\ \A k \in Live : Wanted(k).path # FreshPath
    BY <2>1, FreshPathIsFresh, Sentinels DEF InHand, RowTypes
  <2>3. job # Nothing
    BY <2>1
  <2>. QED
    BY <2>1, <2>2, <2>3, NewObjectIsOwned
<1>14. CASE Register /\ ~Registered
  <2>1. /\ UNCHANGED <<rows, inserting, entry, objects, deleting, asked>> /\ pc' = "asset" /\ stray' = stray + 1
    BY <1>14 DEF Register, Registered
  <2>. QED
    BY <1>7, <2>1 DEF Handling
<1>15. CASE GiveUp
  BY <1>7, <1>15 DEF GiveUp, library, Handling
<1>16. CASE WorkerCrash
  <2>1. /\ UNCHANGED <<rows, inserting, entry, objects, deleting, asked>> /\ pc' = "idle"
        /\ pc = "register" => stray' = stray + 1
    BY <1>16 DEF WorkerCrash, library
  <2>. QED
    BY <1>7, <2>1 DEF Handling
<1>17. CASE NextPicture
  <2>1. /\ UNCHANGED <<rows, inserting, entry, objects, deleting, asked, job>> /\ pc' = "fetch" /\ pc = "asset"
        /\ job \notin ImmichJobs
    BY <1>17, LibraryAssumption DEF NextPicture, library, ghosts
  <2>. QED
    BY <1>7, <2>1 DEF Handling
<1>18. CASE \/ Pass \/ ReadDevices \/ CleanDone \/ EndJob \/ EndPass \/ AssetFails
            \/ (\E j \in Jobs : BeginImmichJob(j) \/ BeginGenJob(j))
  <2>1. /\ UNCHANGED <<rows, inserting, entry, objects, deleting, asked>>
        /\ pc # "register" /\ pc' \notin {"register", "fetch"}
    BY <1>18 DEF Pass, StartPass, ReadDevices, CleanDone, EndJob, EndPass, AssetFails,
                 BeginImmichJob, BeginGenJob, library, ghosts
  <2>. QED
    BY <1>7, <2>1 DEF Handling
<1>19. CASE UNCHANGED vars
  BY <1>7, <1>19 DEF vars, library, worker, ghosts, Handling
<1>. QED
  BY <1>1, <1>2, <1>3, <1>4, <1>5, <1>6, <1>8, <1>9, <1>10, <1>11, <1>12, <1>13, <1>14, <1>15, <1>16,
     <1>17, <1>18, <1>19 DEF Next, Api, Clean, Process

-----------------------------------------------------------------------------
(* The invariant.                                                               *)

LEMMA InitHolds ==
  ASSUME Init
  PROVE  LibraryInv
<1>1. Kept = {} /\ Live = {} /\ Pending = {} /\ Used = {}
  BY DEF Init, Kept, Live, Pending, Used, Fresh, Paths
<1>2. Cardinality({}) = 0
  BY FS_EmptySet
<1>3. RowTypes
  <2>1. /\ rows \in [Ids -> Row \cup {Absent}] /\ entry \in [Ids -> Row \cup {Absent}]
        /\ objects \in [Paths -> Jobs \cup {Upload, Nothing}]
        /\ made = 0 /\ inserting = {} /\ deleting = {} /\ asked = {}
    BY DEF Init
  <2>2. 0 \in 0..MaxRows /\ showing \in [Devices -> 0..made]
    BY LibraryAssumption DEF Init
  <2>. QED
    BY <1>1, <2>1, <2>2 DEF RowTypes
<1>4. WorkerTypes
  BY Sentinels DEF Init, WorkerTypes, InJob, Stages
<1>5. Counters
  BY LibraryAssumption DEF Init, Counters
<1>6. AssetRows /\ PathsLeft /\ Awaited /\ PendingCounted /\ CleanupKnows
  BY <1>1, <1>2 DEF Init, AssetRows, PathsLeft, InHand, Awaited, PendingCounted, CleanupKnows
<1>7. Ownership
  BY <1>1 DEF Init, Ownership, Sole, Served, Owned
<1>8. CapLeft
  <2>1. \A j \in Capped : Taken(j) = {} /\ ToCome(j) = 0
    BY <1>1 DEF Taken, RowsOf, ToCome, Init
  <2>2. Cap \in Nat /\ abandoned = 0
    BY LibraryAssumption DEF Init
  <2>3. \A j \in Capped : Cardinality(Taken(j)) = 0
    BY <1>2, <2>1
  <2>4. \A j \in Capped : Cardinality(Taken(j)) + ToCome(j) <= Cap + abandoned
    BY <2>1, <2>2, <2>3
  <2>. QED
    BY <2>4 DEF CapLeft
<1>. QED
  BY <1>3, <1>4, <1>5, <1>6, <1>7, <1>8 DEF LibraryInv, LibraryTypes

LEMMA StepHolds ==
  ASSUME LibraryInv, [Next]_vars
  PROVE  LibraryInv'
  BY TypesStep, PathsLeftStep, AwaitedStep, PendingCountedStep, OwnershipStep, CapLeftStep, CleanupStep
  DEF LibraryInv

LEMMA Invariant == Spec => []LibraryInv
<1>1. Init => LibraryInv
  BY InitHolds
<1>2. LibraryInv /\ [Next]_vars => LibraryInv'
  BY StepHolds
<1>. QED
  BY <1>1, <1>2, PTL DEF Spec

(* Every variable keeps its type: identities are never used twice, a deletion   *)
(* in flight is of a row, and the worker waits for requests that are under way. *)
THEOREM TypeCorrect == Spec => []TypeOK
<1>1. ASSUME LibraryInv PROVE TypeOK
  <2>1. RowTypes /\ WorkerTypes /\ Counters /\ doomed \subseteq 1..made
    BY <1>1 DEF LibraryInv, LibraryTypes, CleanupKnows
  <2>2. doomed \subseteq Ids /\ deleting \subseteq Kept /\ {faults, abandoned, stray} \subseteq Nat
    BY <2>1, InsertsAreIds, LibraryAssumption DEF RowTypes, Counters
  <2>3. /\ pc \in Stages /\ todo \subseteq Jobs /\ pool \subseteq Assets
        /\ pc \in {"asset", "fetch", "register", "answer"} <=> job \in Jobs
        /\ pc = "cleaning" => asset \in deleting
        /\ pc = "answer" => asset \in inserting
        /\ left \in {Unlimited} \cup Nat
    BY <2>1 DEF WorkerTypes, InJob
  <2>. QED
    BY <2>1, <2>2, <2>3 DEF RowTypes, TypeOK
<1>. QED
  BY <1>1, Invariant, PTL

(* Where existing images are skipped (SKIP_EXISTING), a row nobody asked to     *)
(* delete has its object, in its size as long as no object was left behind:     *)
(* unless the worker stopped waiting for a registration.                        *)
THEOREM RowsHaveObjects ==
  ASSUME SkipExisting
  PROVE  Spec => []RowsMatchObjects
<1>1. LibraryInv => RowsMatchObjects
  <2>. SUFFICES ASSUME LibraryInv, abandoned = 0, NEW i \in Kept \ asked
                PROVE  Fits(objects[rows[i].path], rows[i].size)
    BY DEF RowsMatchObjects, Fits
  <2>1. i \in Live \ asked /\ Wanted(i) = rows[i]
    BY DEF LibraryInv, LibraryTypes, RowTypes, Live, Wanted
  <2>. QED
    BY <2>1 DEF LibraryInv, Ownership, Served
<1>. QED
  BY <1>1, Invariant, PTL

(* A job exceeds its max_images by no more rows than registrations were given   *)
(* up on, where one page of a listing can show as many as the cap allows.       *)
THEOREM CapsHold == Spec => []CapHolds
<1>1. LibraryInv => CapHolds
  <2>. SUFFICES ASSUME LibraryInv, Cap <= ListLimit, NEW j \in Capped
                PROVE  Cardinality(RowsOf(j)) <= Cap + abandoned
    BY DEF CapHolds
  <2>1. LibraryTypes
    BY DEF LibraryInv
  <2>2. IsFiniteSet(Taken(j)) /\ Cardinality(Taken(j)) \in Nat /\ ToCome(j) \in Nat
    BY <2>1, TakenIsFinite, ToComeIsKnown
  <2>3. RowsOf(j) \subseteq Taken(j)
    BY DEF Taken
  <2>4. Cardinality(RowsOf(j)) \in Nat /\ Cardinality(RowsOf(j)) <= Cardinality(Taken(j))
    BY <2>2, <2>3, FS_Subset, FS_CardinalityType
  <2>5. Cardinality(Taken(j)) + ToCome(j) <= Cap + abandoned
    BY DEF LibraryInv, CapLeft
  <2>6. Cap \in Nat /\ abandoned \in Nat
    BY <2>1, LibraryAssumption DEF LibraryTypes, Counters
  <2>. QED
    BY <2>2, <2>4, <2>5, <2>6
<1>. QED
  BY <1>1, Invariant, PTL

(* The cleanup of an Immich pass deletes expired images of Immich only, and     *)
(* none that a panel has been showing since before it read the devices.         *)
THEOREM ShownAreSpared == Spec => CleanupSparesShown
<1>. DEFINE Spared == \A i \in Ids : pc = "clean" /\ pc' = "cleaning" /\ asset' = i =>
                        /\ FromImmich(i) /\ rows[i].expires = "past"
                        /\ \A d \in Devices : showing[d] = i => d \in fresh
<1>1. ASSUME LibraryInv, [Next]_vars PROVE [Spared]_vars
  <2>1. pc = "clean" /\ pc' = "cleaning" => \E k \in Ids : CleanOne(k) /\ k \in Kept /\ asset' = k
    <3>1. ASSUME NEW k \in Ids, pc = "clean", pc' = "cleaning", CleanOne(k)
          PROVE  k \in Kept /\ asset' = k
      BY <3>1 DEF CleanOne, RemoveObject
    <3>2. ASSUME NEW k \in Ids, \/ CommitInsert(k) \/ CommitDelete(k) \/ DeleteImage(k) \/ Expire(k)
                                \/ \E d \in Devices : Show(d, k)
          PROVE  ~(pc = "clean" /\ pc' = "cleaning")
      BY <3>2 DEF CommitInsert, CommitDelete, DeleteImage, Expire, Show, worker
    <3>3. \/ ApiCrash \/ UploadImage \/ Pass \/ ReadDevices \/ CleanDone \/ EndJob \/ EndPass
          \/ NextPicture \/ AssetFails \/ FetchAsset \/ GenerateOne \/ Register \/ GiveUp \/ WorkerCrash
          \/ (\E j \in Jobs : BeginImmichJob(j) \/ BeginGenJob(j)) \/ (\E a \in Assets : NextAsset(a))
          \/ UNCHANGED vars
          => ~(pc = "clean" /\ pc' = "cleaning")
      BY DEF ApiCrash, UploadImage, Pass, StartPass, ReadDevices, CleanDone, EndJob, EndPass, NextPicture,
             AssetFails, FetchAsset, GenerateOne, Stored, Register, GiveUp, WorkerCrash, BeginImmichJob,
             BeginGenJob, NextAsset, vars, worker
    <3>4. pc = "clean" /\ pc' = "cleaning" => \E k \in Ids : CleanOne(k)
      BY <1>1, <3>2, <3>3 DEF Next, Api, Clean, Process
    <3>. QED
      BY <3>1, <3>4
  <2>. QED
    BY <1>1, <2>1 DEF CleanOne, LibraryInv, CleanupKnows
<1>2. Spec => [][Spared]_vars
  <2>. HIDE DEF Spared
  <2>. QED
    BY <1>1, Invariant, PTL DEF Spec
<1>. QED
  BY <1>2 DEF CleanupSparesShown
=============================================================================
