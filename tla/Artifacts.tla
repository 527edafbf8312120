------------------------------ MODULE Artifacts ------------------------------
(***************************************************************************)
(* The rows of build artifacts: uploads record them, clients delete them,  *)
(* and cleanup_old_builds deletes those of old builds with the builds.     *)
(* Upload and cleanup read first and commit later, in handlers that run    *)
(* side by side.  There is no store of objects in this module: every call  *)
(* of it raises (create_client is awaited, which is no coroutine), the     *)
(* upload swallows that and records the row all the same, and a download   *)
(* is answered 404 or 500.                                                 *)
(***************************************************************************)
EXTENDS Naturals

CONSTANTS
    ArtifactBuild,   \* builds that exist at first
    Uploader,        \* upload handlers at work at a time
    Cleaner,         \* cleanup handlers at work at a time
    MaxUploads       \* bound: uploads begun, which is also the ids of rows

ASSUME ArtifactAssumption == MaxUploads \in Nat /\ 0 \notin ArtifactBuild

VARIABLES
    liveBuilds,    \* builds with a row
    artifactRows,  \* [id -> build of the row, 0: no row]
    upload,        \* [Uploader -> the upload its handler holds and its build]
    cleanup,       \* [Cleaner -> the builds it deletes, those whose rows it has listed, the rows]
    enforced,      \* the database refuses rows of missing builds (PostgreSQL; SQLite does not)
    uploads,       \* uploads begun
    exposed        \* history: uploads under way after a cleanup listed the rows of their build

artifactVars == <<liveBuilds, artifactRows, upload, cleanup, enforced, uploads, exposed>>

ArtifactId == 1 .. MaxUploads
NoUpload == [id |-> 0, build |-> 0]
NoCleanup == [builds |-> {}, listed |-> {}, rows |-> {}]

ArtifactInit ==
    /\ liveBuilds = ArtifactBuild
    /\ artifactRows = [i \in ArtifactId |-> 0]
    /\ upload = [u \in Uploader |-> NoUpload]
    /\ cleanup = [c \in Cleaner |-> NoCleanup]
    /\ enforced \in BOOLEAN /\ uploads = 0 /\ exposed = {}

\* The build is looked up before the file is read, and not again.
BeginUpload(u) ==
    /\ upload[u] = NoUpload /\ uploads < MaxUploads /\ uploads' = uploads + 1
    /\ \E b \in liveBuilds :
          /\ upload' = [upload EXCEPT ![u] = [id |-> uploads + 1, build |-> b]]
          /\ exposed' = IF \E c \in Cleaner : b \in cleanup[c].listed
                           THEN exposed \union {uploads + 1} ELSE exposed
    /\ UNCHANGED <<liveBuilds, artifactRows, cleanup, enforced>>

\* The row is committed, of a build that may be gone, unless the database looks.
RecordArtifact(u) ==
    /\ upload[u] # NoUpload
    /\ artifactRows' = IF enforced /\ upload[u].build \notin liveBuilds THEN artifactRows
                          ELSE [artifactRows EXCEPT ![upload[u].id] = upload[u].build]
    /\ upload' = [upload EXCEPT ![u] = NoUpload]
    /\ UNCHANGED <<liveBuilds, cleanup, enforced, uploads, exposed>>

DeleteArtifact(i) ==
    /\ artifactRows[i] # 0
    /\ artifactRows' = [artifactRows EXCEPT ![i] = 0]
    /\ UNCHANGED <<liveBuilds, upload, cleanup, enforced, uploads, exposed>>

\* cleanup_old_builds: some builds are old enough,
BeginCleanup(c) ==
    /\ cleanup[c] = NoCleanup
    /\ \E old \in SUBSET liveBuilds \ {{}} : cleanup' = [cleanup EXCEPT ![c].builds = old]
    /\ UNCHANGED <<liveBuilds, artifactRows, upload, enforced, uploads, exposed>>

\* the rows of each are listed in turn,
NoRowsOf(b) == {}
RowsOf(b) == {i \in ArtifactId : artifactRows[i] = b}

ListArtifacts(c, b) ==
    /\ b \in cleanup[c].builds \ cleanup[c].listed
    /\ cleanup' = [cleanup EXCEPT ![c] = [builds |-> @.builds, listed |-> @.listed \union {b},
                                          rows |-> @.rows \union RowsOf(b)]]
    /\ exposed' = exposed \union {upload[u].id : u \in {v \in Uploader : upload[v].build = b}}
    /\ UNCHANGED <<liveBuilds, artifactRows, upload, enforced, uploads>>

\* and one commit deletes what was listed, or nothing, when the database finds
\* that a row of a deleted build would stay.
Spared(c) == [i \in ArtifactId |-> IF i \in cleanup[c].rows THEN 0 ELSE artifactRows[i]]
WouldDangle(c) == \E i \in ArtifactId : Spared(c)[i] \in cleanup[c].builds

CommitCleanup(c) ==
    /\ cleanup[c] # NoCleanup /\ cleanup[c].listed = cleanup[c].builds
    /\ cleanup' = [cleanup EXCEPT ![c] = NoCleanup]
    /\ IF enforced /\ WouldDangle(c)
          THEN UNCHANGED <<liveBuilds, artifactRows>>
          ELSE artifactRows' = Spared(c) /\ liveBuilds' = liveBuilds \ cleanup[c].builds
    /\ UNCHANGED <<upload, enforced, uploads, exposed>>

\* A restart ends the handlers.
RestartArtifacts ==
    /\ upload' = [u \in Uploader |-> NoUpload] /\ cleanup' = [c \in Cleaner |-> NoCleanup]
    /\ UNCHANGED <<liveBuilds, artifactRows, enforced, uploads, exposed>>

ArtifactNext ==
    \/ \E u \in Uploader : BeginUpload(u) \/ RecordArtifact(u)
    \/ \E i \in ArtifactId : DeleteArtifact(i)
    \/ \E c \in Cleaner :
          BeginCleanup(c) \/ (\E b \in ArtifactBuild : ListArtifacts(c, b)) \/ CommitCleanup(c)
    \/ RestartArtifacts

ArtifactSpec == ArtifactInit /\ [][ArtifactNext]_artifactVars

-----------------------------------------------------------------------------
(* Properties. *)

ArtifactTypeOK ==
    /\ liveBuilds \subseteq ArtifactBuild /\ enforced \in BOOLEAN
    /\ artifactRows \in [ArtifactId -> ArtifactBuild \union {0}]
    /\ upload \in [Uploader -> [id : 0 .. MaxUploads, build : ArtifactBuild \union {0}]]
    /\ cleanup \in [Cleaner -> [builds : SUBSET ArtifactBuild, listed : SUBSET ArtifactBuild,
                                rows : SUBSET ArtifactId]]
    /\ uploads \in 0 .. MaxUploads /\ exposed \subseteq 0 .. MaxUploads

\* A row outlives its build only where the database does not look, and only if
\* its upload was under way after a cleanup had listed the rows of that build:
\* whatever was recorded before goes with the build, whichever cleanups, uploads
\* and deletions run side by side.
OrphansWereExposed ==
    \A i \in ArtifactId :
        artifactRows[i] \notin liveBuilds \union {0} => ~enforced /\ i \in exposed
=============================================================================
