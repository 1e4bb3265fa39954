------------------------------ MODULE Archive ------------------------------
(***************************************************************************)
(* Where bt-server keeps its replays: rows of an SQLite database, and, once *)
(* a bucket is configured, blobs outside it.  A machine boots (schema,     *)
(* prune, migration, import), serves, and may stop between any two steps;  *)
(* the volume may fill up; an upload may fail.  Composed with the          *)
(* recording of a match that settles into the archive and is played back   *)
(* from it.                                                                *)
(*                                                                         *)
(* A replay's id is the hash of its content: the match's is MatchReplay.   *)
(***************************************************************************)
EXTENDS Replay

CONSTANTS
    Legacy,      \* ids of the rows there are to begin with
    Posted,      \* ids of recordings clients upload
    Imported,    \* ids of the recordings in REPLAYS_DIR
    MatchReplay, \* the id the match's recording will have
    MatchId,     \* the wire id of the match
    Players,     \* Players[id]: the classes of the two names of a versus replay
    MaxCrashes   \* bound: stops of the machine

Ids == Legacy \cup Posted \cup Imported \cup {MatchReplay}
NameClass == {"bot",       \* is_bot_name
              "likebot",   \* "-bert" or "-ernie" in another case
              "human",     \* any other name
              "none"}      \* no names: not a versus replay

ASSUME ArchiveAssumption ==
    /\ Players \in [Ids -> NameClass \X NameClass]
    /\ MatchReplay \notin Legacy \cup Posted \cup Imported /\ MatchId \notin Ids
    /\ MaxCrashes \in Nat

VARIABLES
    stage,     \* "down", the steps of the boot, "up", or "off": a game without it
    rows,      \* the ids with a row -> whether the row holds the json
    blobs,     \* the ids with a blob in the bucket
    bucket,    \* BUCKET_NAME is configured
    notNull,   \* the json column still has its original constraint
    full,      \* the volume has no room
    moving,    \* the row the migration has uploaded and not yet updated
    write,     \* the match's ReplayWrite on its way from the upload to the row
    retained,  \* the keys replay_retained keeps
    announced, \* the id the players were told of, if any
    crashes    \* stops so far

diskVars == <<rows, blobs, notNull>>
vars == <<replayVars, stage, diskVars, bucket, full, moving, write, retained,
          announced, crashes>>

None == "none"
Up == stage = "up"
HasRow(id) == id \in DOMAIN rows
Inline == {id \in DOMAIN rows : rows[id]}
Holds(id, json) == [i \in DOMAIN rows \cup {id} |-> IF i = id THEN json ELSE rows[i]]

-----------------------------------------------------------------------------
(* Booting.                                                                *)

Boot(from, to) == stage = from /\ stage' = to
OffDisk == <<replayVars, write, retained, announced, crashes>>

\* Mutant: a full volume ends the boot.
RelaxStrictly == ~(notNull /\ full) /\ notNull' = FALSE
\* relax_replays_json_not_null: put off while the volume is full.
Relax == notNull' = (notNull /\ full)

\* open_db, and the bucket if this boot is the first to have one.
OpenDb ==
    /\ Boot("down", "prune")
    /\ Relax
    /\ bucket' \in {bucket, TRUE}
    /\ moving' = None
    /\ UNCHANGED <<OffDisk, rows, blobs, full>>

\* db_prune_bot_replays: LIKE does not tell upper from lower case.
LooksLikeBot(class) == class \in {"bot", "likebot"}
Filler(id) == LooksLikeBot(Players[id][1]) /\ LooksLikeBot(Players[id][2])
Prune ==
    LET doomed == {id \in DOMAIN rows : Filler(id) /\ id \notin retained} IN
    /\ Boot("prune", "relax")
    /\ \/ rows' = Restrict(rows, DOMAIN rows \ doomed) /\ full' \in {full, FALSE}
       \/ full /\ UNCHANGED <<rows, full>>
    /\ UNCHANGED <<OffDisk, blobs, notNull, bucket, moving>>

RelaxAgain ==
    /\ Boot("relax", IF bucket THEN "migrate" ELSE "import")
    /\ Relax
    /\ UNCHANGED <<OffDisk, rows, blobs, bucket, full, moving>>

\* Mutant: the column is emptied before the upload.
EmptyFirst(id) ==
    /\ stage = "migrate" /\ moving = None /\ id \in Inline /\ ~notNull
    /\ rows' = Holds(id, FALSE) /\ moving' = id
    /\ UNCHANGED <<OffDisk, stage, blobs, notNull, bucket, full>>
\* migrate_replay_blobs: the upload of a row's blob,
MigratePut(id) ==
    /\ stage = "migrate" /\ moving = None /\ id \in Inline
    /\ blobs' = blobs \cup {id} /\ moving' = id
    /\ UNCHANGED <<OffDisk, stage, rows, notNull, bucket, full>>

\* then the update of its row, which the old constraint refuses.
MigrateNull ==
    /\ stage = "migrate" /\ moving # None /\ ~notNull
    /\ rows' = Holds(moving, FALSE) /\ moving' = None
    /\ UNCHANGED <<OffDisk, stage, blobs, notNull, bucket, full>>

\* Nothing is left to move, or an upload or an update failed.
MigrateEnds ==
    /\ Boot("migrate", "import")
    /\ moving' = None
    /\ UNCHANGED <<OffDisk, diskVars, bucket, full>>

\* import_dir: each file is inserted unless its id has a row, or it fails.
Import ==
    /\ Boot("import", "up")
    /\ rows' = IF full THEN rows
               ELSE [id \in DOMAIN rows \cup Imported |-> IF HasRow(id) THEN rows[id] ELSE TRUE]
    /\ UNCHANGED <<OffDisk, blobs, notNull, bucket, full, moving>>

-----------------------------------------------------------------------------
(* Serving.                                                                *)

\* INSERT OR IGNORE, with the json or a NULL: nothing for an id that has a
\* row, nothing for a NULL the constraint refuses, an error on a full volume.
Insert(id, json) ==
    rows' = IF full \/ HasRow(id) \/ (~json /\ notNull) THEN rows ELSE Holds(id, json)

\* post_replay: always inline.
PostReplay(id) ==
    /\ Up /\ ~HasRow(id)
    /\ Insert(id, TRUE)
    /\ UNCHANGED <<OffDisk, stage, blobs, notNull, bucket, full, moving>>

Over == rec.tick = MaxTicks
FillerMatch == Players[MatchReplay] = <<"bot", "bot">>

Upload ==
    \/ write' = "row" /\ blobs' = blobs \cup {MatchReplay}
    \/ write' = "skipped" /\ UNCHANGED blobs

\* prepare_replay_write: sampled out, kept inline, or uploaded.
PrepareReplayWrite ==
    /\ Up /\ mode = "Online" /\ Over /\ write = None
    /\ CASE FillerMatch /\ MatchId \notin retained -> write' = "skipped" /\ UNCHANGED blobs
         [] ~bucket -> write' = "row" /\ UNCHANGED blobs
         [] OTHER -> Upload
    /\ UNCHANGED <<replayVars, stage, rows, notNull, bucket, full, moving, retained,
                   announced, crashes>>

\* The settle section: the row, and the announcement whatever came of it.
InsertVersus ==
    /\ Up /\ write = "row"
    /\ Insert(MatchReplay, ~bucket)
    /\ write' = "done" /\ announced' = MatchReplay
    /\ UNCHANGED <<replayVars, stage, blobs, notNull, bucket, full, moving, retained, crashes>>

\* get_replay: the row's json, or else the blob; an error if there is neither.
Resolves(id) == HasRow(id) /\ (rows[id] \/ (bucket /\ id \in blobs))
GetReplay ==
    /\ Up /\ Resolves(MatchReplay) /\ playback = {}
    /\ playback' = {NewPlayer(ToReplay(rec))}
    /\ UNCHANGED <<mode, live, rec, stage, diskVars, bucket, full, moving, write, retained,
                   announced, crashes>>

\* A recording that is exported, not archived: of a game off line at any
\* moment, of a match at its end.
ExportReplay ==
    /\ stage = "off" /\ playback = {} /\ (mode = "Online" => Over)
    /\ playback' = {NewPlayer(ToReplay(rec))}
    /\ UNCHANGED <<mode, live, rec, stage, diskVars, bucket, full, moving, write, retained,
                   announced, crashes>>

\* The machine stops; a match it was running is lost with what it had written.
Crash ==
    /\ stage \notin {"down", "off"} /\ crashes < MaxCrashes
    /\ stage' = "down" /\ crashes' = crashes + 1
    /\ write' = IF write = "row" THEN "lost" ELSE write
    /\ UNCHANGED <<replayVars, diskVars, bucket, full, moving, retained, announced>>

VolumeFills ==
    /\ Up /\ ~full
    /\ full' = TRUE
    /\ UNCHANGED <<OffDisk, stage, diskVars, bucket, moving>>

\* A game that is played and watched, away from the archive.
GameInit == ReplayInit /\ stage = "off"

\* The archive, with a match that is over: it never looks into a recording, so
\* one stands for all.
ArchiveInit ==
    /\ mode = "Online"
    /\ live = [i \in 1 .. MaxTicks |-> Tock]
    /\ rec = [tick |-> MaxTicks, frames |-> <<>>]
    /\ playback = {}
    /\ stage = "down"

Init ==
    /\ rows = [id \in Legacy |-> TRUE]
    /\ blobs = {} /\ notNull = TRUE
    /\ moving = None /\ write = None /\ announced = None /\ crashes = 0
    /\ \/ GameInit /\ bucket = FALSE /\ full = FALSE /\ retained = {}
       \/ /\ ArchiveInit
          /\ bucket \in BOOLEAN /\ full \in BOOLEAN
          /\ retained \in SUBSET (Legacy \cup {MatchId, MatchReplay})

Idle == <<stage, diskVars, bucket, full, moving, write, retained, announced, crashes>>
Game == stage = "off" /\ Recording /\ UNCHANGED Idle
Watch == View /\ UNCHANGED Idle

BootStep ==
    \/ OpenDb \/ Prune \/ RelaxAgain
    \/ \E id \in Ids : MigratePut(id)
    \/ MigrateNull \/ MigrateEnds
    \/ Import

Next ==
    \/ Game \/ Watch
    \/ BootStep
    \/ \E id \in Posted : PostReplay(id)
    \/ PrepareReplayWrite \/ InsertVersus
    \/ GetReplay \/ ExportReplay
    \/ Crash \/ VolumeFills

Spec == Init /\ [][Next]_vars
\* A boot runs on by itself.
FairSpec == Spec /\ WF_vars(BootStep)

-----------------------------------------------------------------------------
(* Properties.                                                             *)

\* "A metadata row that points at a missing blob is the failure mode blob
\* storage is designed to make impossible": every row resolves to its content,
\* whatever step of a migration or of a settlement the machine stopped at, and
\* whichever upload failed.
RowsResolve == \A id \in DOMAIN rows : Resolves(id)

\* A boot ends in serving, whatever the volume and the bucket do: "a full disk
\* degrades to serving instead of crash-looping the boot".
BootServes == stage \notin {"off", "up"} ~> Up

\* "The name predicate mirrors is_bot_name directly in SQL": the prune takes
\* only games of two bots, since "a replay with a human on either side is
\* precious".  (LIKE matches "-bert" as well as "-Bert".)
HumanGamesKept ==
    [][\A id \in DOMAIN rows \ DOMAIN rows' : Players[id] = <<"bot", "bot">>]_vars
=============================================================================
