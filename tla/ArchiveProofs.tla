---------------------------- MODULE ArchiveProofs ----------------------------
(***************************************************************************)
(* Proofs about the replay store: no row is ever left without its content, *)
(* at whatever step of a boot, of a migration or of a settlement the       *)
(* machine stops, and whichever upload fails.  And about what comes out of *)
(* it: a recording plays back as it was played.                            *)
(***************************************************************************)
EXTENDS Archive, ReplayProofs

-----------------------------------------------------------------------------
(* The inductive invariant.                                                *)

\* A row is updated by the migration only once its blob is there.
MovesBlobs == moving # None => moving \in blobs

\* The migration runs only with a bucket.
MigratesToBucket == stage = "migrate" => bucket

\* The settlement of a match is a matter of one boot, and its blob is there
\* before its row.
WritesInOrder == write = "row" => Up /\ (bucket => MatchReplay \in blobs)

\* A row says whether it holds the json.
RowsTyped == rows \in [DOMAIN rows -> BOOLEAN] /\ bucket \in BOOLEAN

AInv ==
    /\ RowsTyped
    /\ MovesBlobs
    /\ MigratesToBucket
    /\ WritesInOrder
    /\ RowsResolve

-----------------------------------------------------------------------------
(* Rows.                                                                   *)

\* Nothing takes a blob out of the bucket, or the bucket away: what resolved
\* and was not rewritten goes on resolving.
LEMMA StillResolve ==
    ASSUME RowsResolve, RowsTyped, bucket => bucket', blobs \subseteq blobs',
           rows' \in [DOMAIN rows' -> BOOLEAN],
           \A id \in DOMAIN rows' :
              \/ rows'[id]
              \/ id \in DOMAIN rows /\ rows'[id] = rows[id]
              \/ bucket' /\ id \in blobs'
    PROVE  RowsResolve'
BY DEF RowsResolve, Resolves, HasRow

\* What a write of one row does to the others.
LEMMA HoldsFacts ==
    ASSUME RowsTyped, NEW id, NEW json \in BOOLEAN
    PROVE  /\ DOMAIN Holds(id, json) = DOMAIN rows \cup {id}
           /\ Holds(id, json) \in [DOMAIN Holds(id, json) -> BOOLEAN]
           /\ Holds(id, json)[id] = json
           /\ \A x \in DOMAIN rows : x # id => Holds(id, json)[x] = rows[x]
BY DEF Holds, RowsTyped

\* INSERT OR IGNORE of a row that holds its json, or whose blob is there.
LEMMA InsertResolves ==
    ASSUME AInv, NEW id, NEW json \in BOOLEAN, Insert(id, json),
           json \/ (bucket /\ id \in blobs), UNCHANGED <<bucket, blobs>>
    PROVE  RowsTyped' /\ RowsResolve'
<1>1. CASE rows' = rows
  BY <1>1 DEF AInv, RowsTyped, RowsResolve, Resolves, HasRow
<1>2. CASE rows' = Holds(id, json)
  <2>1. RowsTyped'
    BY <1>2, HoldsFacts DEF AInv, RowsTyped
  <2>2. ASSUME NEW x \in DOMAIN rows'
        PROVE  \/ rows'[x]
               \/ x \in DOMAIN rows /\ rows'[x] = rows[x]
               \/ bucket' /\ x \in blobs'
    <3>1. /\ DOMAIN rows' = DOMAIN rows \cup {id}
          /\ \A y \in DOMAIN rows : y # id => rows'[y] = rows[y]
      BY <1>2 DEF Holds
    <3>2. CASE x = id
      <4>1. rows'[id] = json
        BY <1>2 DEF Holds
      <4>2. json => rows'[id]
        BY <4>1
      <4> QED
        BY <4>2, <3>2
    <3>3. CASE x # id
      BY <3>1, <3>3
    <3> QED
      BY <3>2, <3>3
  <2> QED
    BY <2>1, <2>2, StillResolve DEF AInv, RowsTyped
<1> QED
  BY <1>1, <1>2 DEF Insert

-----------------------------------------------------------------------------
(* The steps.                                                              *)

\* The store starts with rows that hold their json.
LEMMA AInit == Init => AInv
<1> SUFFICES ASSUME Init PROVE AInv
  OBVIOUS
<1>1. /\ rows = [id \in Legacy |-> TRUE] /\ moving = None /\ write = None
      /\ bucket \in BOOLEAN /\ stage \in {"off", "down"}
  BY DEF Init, GameInit, ArchiveInit
<1> QED
  BY <1>1 DEF AInv, RowsTyped, MovesBlobs, MigratesToBucket, WritesInOrder,
              RowsResolve, Resolves, HasRow, None

\* A step that leaves the store alone.
LEMMA AIdle ==
    ASSUME AInv, UNCHANGED <<rows, blobs, bucket, moving, write>>,
           stage' = stage
    PROVE  AInv'
BY DEF AInv, RowsTyped, MovesBlobs, MigratesToBucket, WritesInOrder,
       RowsResolve, Resolves, HasRow, Up

\* The steps of a boot.
LEMMA ABoot ==
    ASSUME AInv, BootStep
    PROVE  AInv'
<1> USE DEF MovesBlobs, MigratesToBucket, WritesInOrder, Up, OffDisk, Boot
<1>1. CASE OpenDb
  <2>1. /\ stage = "down" /\ stage' = "prune" /\ bucket' \in {bucket, TRUE}
        /\ moving' = None /\ UNCHANGED <<rows, blobs, write>>
    BY <1>1 DEF OpenDb
  <2>2. RowsTyped'
    BY <2>1 DEF AInv, RowsTyped
  <2>3. RowsResolve'
    BY <2>1, <2>2, StillResolve DEF AInv, RowsTyped
  <2> QED
    BY <2>1, <2>2, <2>3 DEF AInv
<1>2. CASE Prune
  <2>1. /\ stage = "prune" /\ stage' = "relax"
        /\ UNCHANGED <<blobs, bucket, moving, write>>
    BY <1>2 DEF Prune
  <2>2. \/ rows' = rows
        \/ \E D \in SUBSET DOMAIN rows : rows' = [x \in D |-> rows[x]]
    BY <1>2 DEF Prune, Restrict
  <2>3. RowsTyped' /\ \A x \in DOMAIN rows' : x \in DOMAIN rows /\ rows'[x] = rows[x]
    BY <2>1, <2>2 DEF AInv, RowsTyped
  <2>4. RowsResolve'
    BY <2>1, <2>3, StillResolve DEF AInv, RowsTyped
  <2> QED
    BY <2>1, <2>3, <2>4 DEF AInv
<1>3. CASE RelaxAgain
  <2>1. /\ stage = "relax" /\ stage' = IF bucket THEN "migrate" ELSE "import"
        /\ UNCHANGED <<rows, blobs, bucket, moving, write>>
    BY <1>3 DEF RelaxAgain
  <2>2. RowsTyped' /\ RowsResolve'
    BY <2>1 DEF AInv, RowsTyped, RowsResolve, Resolves, HasRow
  <2> QED
    BY <2>1, <2>2 DEF AInv
<1>4. ASSUME NEW id \in Ids, MigratePut(id)
      PROVE  AInv'
  <2>1. /\ blobs' = blobs \cup {id} /\ moving' = id
        /\ UNCHANGED <<stage, rows, bucket, write>>
    BY <1>4 DEF MigratePut
  <2>2. RowsTyped'
    BY <2>1 DEF AInv, RowsTyped
  <2>3. RowsResolve'
    BY <2>1, <2>2, StillResolve DEF AInv, RowsTyped
  <2> QED
    BY <2>1, <2>2, <2>3 DEF AInv
<1>5. CASE MigrateNull
  <2>1. /\ stage = "migrate" /\ moving # None
        /\ rows' = Holds(moving, FALSE) /\ moving' = None
        /\ UNCHANGED <<stage, blobs, bucket, write>>
    BY <1>5 DEF MigrateNull
  <2>2. bucket /\ moving \in blobs
    BY <2>1 DEF AInv
  <2>3. RowsTyped'
    BY <2>1, HoldsFacts DEF AInv, RowsTyped
  <2>4. ASSUME NEW x \in DOMAIN rows'
        PROVE  \/ rows'[x]
               \/ x \in DOMAIN rows /\ rows'[x] = rows[x]
               \/ bucket' /\ x \in blobs'
    <3>1. /\ DOMAIN rows' = DOMAIN rows \cup {moving}
          /\ \A y \in DOMAIN rows : y # moving => rows'[y] = rows[y]
      BY <2>1, HoldsFacts DEF AInv
    <3>2. CASE x = moving
      BY <2>1, <2>2, <3>2
    <3>3. CASE x # moving
      BY <3>1, <3>3
    <3> QED
      BY <3>2, <3>3
  <2>5. RowsResolve'
    BY <2>1, <2>3, <2>4, StillResolve DEF AInv, RowsTyped
  <2> QED
    BY <2>1, <2>3, <2>5 DEF AInv
<1>6. CASE MigrateEnds
  <2>1. /\ stage = "migrate" /\ stage' = "import" /\ moving' = None
        /\ UNCHANGED <<rows, blobs, bucket, write>>
    BY <1>6 DEF MigrateEnds, diskVars
  <2>2. RowsTyped' /\ RowsResolve'
    BY <2>1 DEF AInv, RowsTyped, RowsResolve, Resolves, HasRow
  <2> QED
    BY <2>1, <2>2 DEF AInv
<1>7. CASE Import
  <2>1. /\ stage = "import" /\ stage' = "up"
        /\ UNCHANGED <<blobs, bucket, moving, write>>
    BY <1>7 DEF Import
  <2>2. \/ rows' = rows
        \/ rows' = [id \in DOMAIN rows \cup Imported |->
                       IF HasRow(id) THEN rows[id] ELSE TRUE]
    BY <1>7 DEF Import
  <2>3. RowsTyped'
    BY <2>1, <2>2 DEF AInv, RowsTyped, HasRow
  <2>4. ASSUME NEW x \in DOMAIN rows'
        PROVE  rows'[x] \/ (x \in DOMAIN rows /\ rows'[x] = rows[x])
    BY <2>2 DEF HasRow
  <2>5. RowsResolve'
    BY <2>1, <2>3, <2>4, StillResolve DEF AInv, RowsTyped
  <2> QED
    BY <2>1, <2>3, <2>5 DEF AInv
<1> QED
  BY <1>1, <1>2, <1>3, <1>4, <1>5, <1>6, <1>7 DEF BootStep

\* What a serving machine does, and its stop.
LEMMA AServe ==
    ASSUME AInv,
           \/ \E id \in Posted : PostReplay(id)
           \/ PrepareReplayWrite \/ InsertVersus
           \/ GetReplay \/ ExportReplay
           \/ Crash \/ VolumeFills
    PROVE  AInv'
<1> USE DEF MovesBlobs, MigratesToBucket, WritesInOrder, OffDisk
<1>1. ASSUME NEW id \in Posted, PostReplay(id)
      PROVE  AInv'
  <2>1. /\ Insert(id, TRUE) /\ UNCHANGED <<stage, blobs, bucket, moving, write>>
    BY <1>1 DEF PostReplay
  <2>2. RowsTyped' /\ RowsResolve'
    BY <2>1, InsertResolves
  <2> QED
    BY <2>1, <2>2 DEF AInv, Up
<1>2. CASE PrepareReplayWrite
  <2>1. /\ Up /\ UNCHANGED <<stage, rows, bucket, moving>>
        /\ \/ write' = "skipped" /\ UNCHANGED blobs
           \/ write' = "row" /\ UNCHANGED blobs /\ ~bucket
           \/ write' = "row" /\ blobs' = blobs \cup {MatchReplay}
    BY <1>2 DEF PrepareReplayWrite, Upload
  <2>2. blobs \subseteq blobs' /\ RowsTyped'
    BY <2>1 DEF AInv, RowsTyped
  <2>3. RowsResolve'
    BY <2>1, <2>2, StillResolve DEF AInv, RowsTyped
  <2>4. MovesBlobs' /\ MigratesToBucket'
    BY <2>1, <2>2 DEF AInv
  <2>5. WritesInOrder'
    BY <2>1 DEF Up
  <2> QED
    BY <2>2, <2>3, <2>4, <2>5 DEF AInv
<1>3. CASE InsertVersus
  <2>1. /\ Up /\ write = "row" /\ Insert(MatchReplay, ~bucket) /\ write' = "done"
        /\ UNCHANGED <<stage, blobs, bucket, moving>>
    BY <1>3 DEF InsertVersus
  <2>2. ~bucket \/ (bucket /\ MatchReplay \in blobs)
    BY <2>1 DEF AInv
  <2>3. (~bucket) \in BOOLEAN
    OBVIOUS
  <2>4. RowsTyped' /\ RowsResolve'
    BY <2>1, <2>2, <2>3, InsertResolves
  <2> QED
    BY <2>1, <2>4 DEF AInv
<1>4. CASE GetReplay \/ ExportReplay \/ VolumeFills
  <2>1. stage' = stage /\ UNCHANGED <<rows, blobs, bucket, moving, write>>
    BY <1>4 DEF GetReplay, ExportReplay, VolumeFills, diskVars
  <2> QED
    BY <2>1, AIdle
<1>5. CASE Crash
  <2>1. /\ stage' = "down" /\ write' = IF write = "row" THEN "lost" ELSE write
        /\ UNCHANGED <<rows, blobs, bucket, moving>>
    BY <1>5 DEF Crash, diskVars
  <2>2. RowsTyped' /\ RowsResolve'
    BY <2>1 DEF AInv, RowsTyped, RowsResolve, Resolves, HasRow
  <2> QED
    BY <2>1, <2>2 DEF AInv
<1> QED
  BY <1>1, <1>2, <1>3, <1>4, <1>5

-----------------------------------------------------------------------------
(* The theorems.                                                           *)

\* Every step keeps the invariant.
LEMMA ANext ==
    ASSUME AInv, [Next]_vars
    PROVE  AInv'
<1>1. CASE UNCHANGED vars
  BY <1>1, AIdle DEF vars, diskVars
<1>2. CASE Game \/ Watch
  BY <1>2, AIdle DEF Game, Watch, Idle, diskVars
<1>3. CASE BootStep
  BY <1>3, ABoot
<1> QED
  BY <1>1, <1>2, <1>3, AServe DEF Next

\* "A metadata row that points at a missing blob" never happens: every row
\* resolves, in every state any order of boots, uploads, settlements, full
\* volumes and stops of the machine leads to.
THEOREM EveryRowResolves == Spec => []RowsResolve
<1>1. Init => AInv
  BY AInit
<1>2. AInv /\ [Next]_vars => AInv'
  BY ANext
<1>3. AInv => RowsResolve
  BY DEF AInv
<1> QED
  BY <1>1, <1>2, <1>3, PTL DEF Spec

-----------------------------------------------------------------------------
(* Recordings, in and out of the archive.                                  *)

\* A match that is over, of which only the ticks are looked at.
LEMMA MatchBegins ==
    ASSUME ArchiveInit
    PROVE  RInv
<1>1. /\ MaxTicks \in Nat /\ live = [i \in 1 .. MaxTicks |-> Tock]
      /\ rec = [tick |-> MaxTicks, frames |-> <<>>] /\ playback = {}
  BY ReplayAssumption DEF ArchiveInit
<1>2. /\ live \in [1 .. MaxTicks -> Entry]
      /\ \A i \in 1 .. MaxTicks : live[i] = Tock
  BY <1>1, HearableIsNoTick
<1>3. live \in Seq(Entry) /\ Len(live) = MaxTicks
  BY <1>1, <1>2
<1>4. rec.tick = MaxTicks /\ rec.frames = <<>> /\ Len(rec.frames) = 0
  BY <1>1
<1>5. ReplayTyped
  BY <1>1, <1>3 DEF ReplayTyped
<1>6. \A n \in 0 .. MaxTicks : Cut(n, 0)
  <2> SUFFICES ASSUME NEW n \in 0 .. MaxTicks
               PROVE  Cut(n, 0)
    OBVIOUS
  <2>1. n > 0 => live[0 + n] = Tock
    BY <1>1, <1>2
  <2> QED
    BY <2>1, <1>4 DEF Cut
<1>7. InStep
  <2>1. ASSUME NEW j \in 1 .. Len(live)
        PROVE  \E n \in 1 .. rec.tick : Cut(n, j - n)
    <3>1. j \in 1 .. MaxTicks /\ j - j = 0
      BY <1>1, <1>3
    <3> QED
      BY <3>1, <1>4, <1>6
  <2> QED
    BY <2>1, <1>1, <1>3, <1>4, <1>6 DEF InStep
<1> QED
  BY <1>1, <1>5, <1>7 DEF RInv, Recorded

\* Every step of the game, of the archive and of a viewer.
LEMMA RNext ==
    ASSUME RInv, [Next]_vars
    PROVE  RInv'
<1>1. CASE UNCHANGED replayVars
  BY <1>1 DEF replayVars, RInv, Recorded, ReplayTyped, InStep, Cut, Playing, Exported
<1>2. CASE Game
  BY <1>2, RecordingKeeps DEF Game
<1>3. CASE Watch
  BY <1>3, ViewKeeps, ReplayAssumption DEF Watch
<1>4. CASE GetReplay \/ ExportReplay
  <2>1. UNCHANGED <<mode, live, rec>> /\ playback' = {NewPlayer(ToReplay(rec))}
    BY <1>4 DEF GetReplay, ExportReplay
  <2>2. Playing(NewPlayer(ToReplay(rec)))
    BY ToReplayExports, NewPlays DEF RInv
  <2>3. \A p : Playing(p)' <=> Playing(p)
    BY <2>1 DEF Playing, Exported, Cut
  <2>4. Recorded'
    BY <2>1 DEF RInv, Recorded, ReplayTyped, InStep, Cut
  <2> QED
    BY <2>1, <2>2, <2>3, <2>4 DEF RInv
<1>5. CASE UNCHANGED vars
  BY <1>1, <1>5 DEF vars
<1>6. CASE BootStep
  BY <1>1, <1>6 DEF BootStep, OpenDb, Prune, RelaxAgain, MigratePut, MigrateNull,
                    MigrateEnds, Import, OffDisk
<1>7. CASE PrepareReplayWrite \/ InsertVersus \/ Crash \/ VolumeFills
           \/ \E id \in Posted : PostReplay(id)
  BY <1>1, <1>7 DEF PrepareReplayWrite, InsertVersus, Crash, VolumeFills, PostReplay,
                    OffDisk
<1> QED
  BY <1>2, <1>3, <1>4, <1>5, <1>6, <1>7 DEF Next

\* However a viewer steps and seeks through a recording, out of the archive or
\* exported in mid-game, it shows at each tick the game as it was played at that
\* tick, input for input, for recordings of any length.
THEOREM EveryPlaybackAgrees == Spec => []PlaybackAgrees
<1>1. Init => RInv
  BY ReplayBegins, MatchBegins DEF Init, GameInit
<1>2. RInv /\ [Next]_vars => RInv'
  BY RNext
<1>3. RInv => PlaybackAgrees
  BY RInvAgrees
<1> QED
  BY <1>1, <1>2, <1>3, PTL DEF Spec
=============================================================================
