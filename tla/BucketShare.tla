---------------------------- MODULE BucketShare ----------------------------
(***************************************************************************)
(* Transfer buckets: several files behind one slug, each stored under a    *)
(* storage key of its own.  A bucket is a row in buckets and one row per   *)
(* file in bucket_files, written one statement at a time without a         *)
(* transaction and read by two queries; deleting the bucket row cascades.  *)
(* Requests, the bucket sweep of the cleanup worker, the clock and mishaps *)
(* interleave as in FileShare.  net/http routes HEAD to the handlers of    *)
(* GET and throws the body away; view, zip and file stand for both here,   *)
(* and no property says that an archive has arrived.                       *)
(***************************************************************************)
EXTENDS ShareRow

CONSTANTS
    Slugs,       \* bucket slugs slug.New may draw
    Keys,        \* storage keys slug.New may draw
    Requests,    \* HTTP requests, each answered at most once
    NoSlug,      \* "no slug yet"
    MaxTime,     \* bound: the last tick of the clock
    Faults,      \* the kinds of mishap that may happen
    MaxMishaps   \* bound: how many of them may happen

ASSUME SlugAssumption == NoSlug \notin Slugs
ASSUME BoundAssumption == MaxTime \in Nat /\ MaxMishaps \in Nat
ASSUME FaultAssumption == Faults \subseteq {"dbRead", "dbWrite", "dbLost", "disk", "crash"}

VARIABLES
    buckets,  \* the buckets table: slug -> row
    members,  \* the bucket_files table: slug -> storage keys
    blobs,    \* the storage keys that have bytes on disk
    now,      \* the clock, in ticks
    op,       \* what each request asks for
    slug,     \* the bucket it is about
    right,    \* whether it carries the right password or delete secret
    row,      \* the row it built or looked up
    keys,     \* the storage keys it has written, or whose bytes it has sent
    left,     \* the storage keys its loop still has to visit
    pc,       \* the call each request is about to make
    reply,    \* its answer
    listed,   \* expired buckets whose files the sweep still has to list
    plan,     \* the storage keys the sweep will delete for a bucket
    todo,     \* buckets the sweep still has to visit
    cur,      \* the bucket the sweep is visiting
    mishaps   \* how many mishaps have happened

table   == <<buckets, members, blobs>>
request == <<op, slug, right>>
sweeper == <<listed, plan, todo, cur>>
vars    == <<buckets, members, blobs, now, op, slug, right, row, keys, left, pc, reply,
             listed, plan, todo, cur, mishaps>>

Ops     == {"none", "upload", "view", "zip", "file", "delete"}
Calls   == {"new", "write", "add", "undo", "find", "list", "mark", "stream", "read",
            "unlink", "done"}
Replies == {"none", "created", "ok", "refused", "notFound", "expired", "consumed",
            "wrongPassword", "badSecret", "failed", "lost"}

TypeOK ==
    /\ buckets \in [Slugs -> Rows \cup {NoRow}]
    /\ members \in [Slugs -> SUBSET Keys]
    /\ blobs \in SUBSET Keys
    /\ now \in Nat
    /\ op \in [Requests -> Ops]
    /\ slug \in [Requests -> Slugs \cup {NoSlug}]
    /\ right \in [Requests -> BOOLEAN]
    /\ row \in [Requests -> Rows \cup {NoRow}]
    /\ keys \in [Requests -> SUBSET Keys]
    /\ left \in [Requests -> SUBSET Keys]
    /\ pc \in [Requests -> Calls]
    /\ reply \in [Requests -> Replies]
    /\ listed \in SUBSET Slugs
    /\ plan \in [Slugs -> SUBSET Keys]
    /\ todo \in SUBSET Slugs
    /\ cur \in Slugs \cup {NoSlug}
    /\ mishaps \in Nat

Init ==
    /\ buckets = [s \in Slugs |-> NoRow]
    /\ members = [s \in Slugs |-> {}]
    /\ blobs = {}
    /\ now = 0
    /\ op = [r \in Requests |-> "none"]
    /\ slug = [r \in Requests |-> NoSlug]
    /\ right = [r \in Requests |-> FALSE]
    /\ row = [r \in Requests |-> NoRow]
    /\ keys = [r \in Requests |-> {}]
    /\ left = [r \in Requests |-> {}]
    /\ pc = [r \in Requests |-> "new"]
    /\ reply = [r \in Requests |-> "none"]
    /\ listed = {} /\ todo = {} /\ cur = NoSlug
    /\ plan = [s \in Slugs |-> {}]
    /\ mishaps = 0

-----------------------------------------------------------------------------
(* Steps of a request. *)

Goto(r, call) == /\ pc' = [pc EXCEPT ![r] = call]
                 /\ reply' = reply

Stay == UNCHANGED <<pc, reply>>

Reply(r, code) == /\ pc' = [pc EXCEPT ![r] = "done"]
                  /\ reply' = [reply EXCEPT ![r] = code]

Fault(kind) == /\ kind \in Faults
               /\ mishaps < MaxMishaps
               /\ mishaps' = mishaps + 1

NoFault == mishaps' = mishaps

Expired(f) == ExpiredAt(f, now)

(* An upload was answered with its links: the promise the server made. *)
Issued(u) == op[u] = "upload" /\ reply[u] = "created"

Published(s) == \E u \in Requests : Issued(u) /\ slug[u] = s

(* The loops over storage keys: what is still to be visited. *)
Visit(r, K) == left' = [left EXCEPT ![r] = K]

-----------------------------------------------------------------------------
(* POST /api/upload?type=bucket *)

(* Every early return before a byte is stored. *)
RefuseUpload(r) ==
    /\ pc[r] = "new"
    /\ op' = [op EXCEPT ![r] = "upload"]
    /\ Reply(r, "refused")
    /\ UNCHANGED <<table, now, slug, right, row, keys, left, sweeper, mishaps>>

(* The slug, the entity and its expiry; K are the keys its files will get. *)
Create(r, s, K, oneUse, protected, d) ==
    /\ pc[r] = "new"
    /\ K # {}
    /\ \A q \in Requests : slug[q] # s /\ (op[q] = "upload" => (keys[q] \cup left[q]) \cap K = {})
    /\ K \cap blobs = {}
    /\ op' = [op EXCEPT ![r] = "upload"]
    /\ slug' = [slug EXCEPT ![r] = s]
    /\ row' = [row EXCEPT ![r] = NewRow(oneUse, protected, d, now)]
    /\ Visit(r, K)
    /\ Goto(r, "write")
    /\ UNCHANGED <<table, now, right, keys, sweeper, mishaps>>

(* Mutant: the bytes are stored under the bucket's slug. *)
WriteUnderBucketSlug(r) ==
    /\ pc[r] = "write"
    /\ \E k \in left[r] :
        /\ blobs' = blobs \cup {slug[r]}
        /\ keys' = [keys EXCEPT ![r] = @ \cup {k}]
        /\ Visit(r, left[r] \ {k})
    /\ UNCHANGED <<buckets, members, now, request, row, pc, reply, sweeper, mishaps>>

(* One file after the other; a failure undoes the ones already stored. *)
StoreWrite(r) ==
    /\ pc[r] = "write"
    /\ \E k \in left[r] :
        \/ /\ blobs' = blobs \cup {k}
           /\ keys' = [keys EXCEPT ![r] = @ \cup {k}]
           /\ Visit(r, left[r] \ {k})
           /\ Stay /\ NoFault
        \/ /\ Visit(r, keys[r])
           /\ Goto(r, "undo") /\ Fault("disk")
           /\ UNCHANGED <<blobs, keys>>
    /\ UNCHANGED <<buckets, members, now, request, row, sweeper>>

Insert(r) == buckets' = [buckets EXCEPT ![slug[r]] = row[r]]

RepoCreate(r) ==
    /\ pc[r] = "write" /\ left[r] = {}
    /\ Visit(r, keys[r])
    /\ \/ Insert(r) /\ Goto(r, "add") /\ NoFault
       \/ buckets' = buckets /\ Goto(r, "undo") /\ Fault("dbWrite")
       \/ Insert(r) /\ Goto(r, "undo") /\ Fault("dbLost")
    /\ UNCHANGED <<members, blobs, now, request, row, keys, sweeper>>

(* Best effort: errors of these Deletes are ignored. *)
UploadUndo(r) ==
    /\ pc[r] = "undo"
    /\ \/ left[r] = {} /\ Reply(r, "failed") /\ NoFault /\ UNCHANGED <<blobs, left>>
       \/ \E k \in left[r] :
            /\ Visit(r, left[r] \ {k})
            /\ Stay
            /\ \/ blobs' = blobs \ {k} /\ NoFault
               \/ blobs' = blobs /\ Fault("disk")
    /\ UNCHANGED <<buckets, members, now, request, row, keys, sweeper>>

InsertMember(r, k) == members' = [members EXCEPT ![slug[r]] = @ \cup {k}]

(* Mutant: only the first file is added. *)
AddFirstFile(r) ==
    /\ pc[r] = "add"
    /\ \E k \in left[r] : InsertMember(r, k)
    /\ Visit(r, {})
    /\ Reply(r, "created")
    /\ UNCHANGED <<buckets, blobs, now, request, row, keys, sweeper, mishaps>>

(* A bucket_files row needs its bucket row (foreign_keys is ON).  An error *)
(* leaves everything stored so far as it is.  The answer reaches the       *)
(* client only within the server's WriteTimeout of 60 seconds, which is    *)
(* shorter than every expiry preset.                                       *)
AddFile(r) ==
    /\ pc[r] = "add"
    /\ \E k \in left[r] :
        \/ /\ buckets[slug[r]] # NoRow
           /\ InsertMember(r, k)
           /\ IF left[r] = {k}
              THEN Reply(r, IF Expired(row[r]) THEN "lost" ELSE "created")
              ELSE Stay
           /\ Visit(r, left[r] \ {k})
           /\ NoFault
        \/ /\ \/ buckets[slug[r]] = NoRow /\ members' = members /\ NoFault
              \/ members' = members /\ Fault("dbWrite")
              \/ buckets[slug[r]] # NoRow /\ InsertMember(r, k) /\ Fault("dbLost")
           /\ Reply(r, "failed")
           /\ Visit(r, {})
    /\ UNCHANGED <<buckets, blobs, now, request, row, keys, sweeper>>

-----------------------------------------------------------------------------
(* GET /b/{slug}, /b/{slug}/zip, /b/{slug}/file/{storageKey} and           *)
(* /b/delete/{slug}/{secret} all start with GetBySlug: two queries.        *)

(* A request arrives for a published bucket, for the files K of it. *)
Arrive(r, what, s, good, K) ==
    /\ pc[r] = "new"
    /\ Published(s)
    /\ op' = [op EXCEPT ![r] = what]
    /\ slug' = [slug EXCEPT ![r] = s]
    /\ right' = [right EXCEPT ![r] = good]
    /\ Visit(r, K)
    /\ Goto(r, "find")
    /\ UNCHANGED <<table, now, row, keys, sweeper, mishaps>>

GetBucketRow(r) ==
    /\ pc[r] = "find"
    /\ LET b == buckets[slug[r]]
       IN \/ b = NoRow /\ Reply(r, "notFound") /\ NoFault /\ row' = row
          \/ b # NoRow /\ Goto(r, "list") /\ NoFault /\ row' = [row EXCEPT ![r] = b]
          \/ Reply(r, "failed") /\ Fault("dbRead") /\ row' = row
    /\ UNCHANGED <<table, now, request, keys, left, sweeper>>

(* Mutant: the password is not asked for. *)
BucketAdmissionWithoutPassword(r) == Admission(row[r], TRUE, now)

(* The checks on what the first query returned. *)
BucketAdmission(r) == Admission(row[r], right[r], now)

(* The second query of GetBySlug: the files it returns and the row may be  *)
(* from different moments.  Each handler goes on with both.                *)
GetBucketFiles(r, step) ==
    /\ pc[r] = "list"
    /\ \/ step /\ NoFault
       \/ Reply(r, "failed") /\ Fault("dbRead") /\ left' = left
    /\ UNCHANGED <<table, now, request, row, keys, sweeper>>

(* GET /b/{slug}: the page with the list of files. *)
View(r) ==
    /\ op[r] = "view"
    /\ GetBucketFiles(r, Reply(r, BucketAdmission(r)) /\ left' = left)

(* GET /b/{slug}/zip, up to the first write. *)
DownloadZIP(r) ==
    /\ op[r] = "zip"
    /\ GetBucketFiles(r,
         \/ /\ BucketAdmission(r) # "ok"
            /\ Reply(r, BucketAdmission(r)) /\ left' = left
         \/ /\ BucketAdmission(r) = "ok"
            /\ Goto(r, IF row[r].oneUse THEN "mark" ELSE "stream")
            /\ Visit(r, members[slug[r]]))

(* GET /b/{slug}/file/{storageKey}, up to opening the bytes. *)
DownloadFile(r) ==
    /\ op[r] = "file"
    /\ GetBucketFiles(r,
         /\ left' = left
         /\ \/ BucketAdmission(r) # "ok" /\ Reply(r, BucketAdmission(r))
            \/ /\ BucketAdmission(r) = "ok"
               /\ IF left[r] \subseteq members[slug[r]]
                  THEN Goto(r, "read") ELSE Reply(r, "notFound"))

(* GET /b/delete/{slug}/{secret}, up to the first deletion. *)
DeleteBucket(r) ==
    /\ op[r] = "delete"
    /\ GetBucketFiles(r,
         \/ right[r] /\ Goto(r, "unlink") /\ Visit(r, members[slug[r]])
         \/ ~right[r] /\ Reply(r, "badSecret") /\ left' = left)

Mark(s) == buckets' = IF Fresh(buckets[s]) THEN [buckets EXCEPT ![s] = Downloaded(@)] ELSE buckets

MarkDownloaded(r) ==
    /\ pc[r] = "mark"
    /\ LET fresh == Fresh(buckets[slug[r]])
       IN \/ fresh /\ Mark(slug[r]) /\ Goto(r, "stream") /\ NoFault
          \/ ~fresh /\ buckets' = buckets /\ Reply(r, "consumed") /\ NoFault
          \/ buckets' = buckets /\ Reply(r, "failed") /\ Fault("dbWrite")
          \/ Mark(slug[r]) /\ Reply(r, "failed") /\ Fault("dbLost")
    /\ UNCHANGED <<members, blobs, now, request, row, keys, left, sweeper>>

(* Mutant: the loop stops one file early. *)
StreamAllButOne(r) ==
    /\ pc[r] = "stream"
    /\ \/ (\E k \in Keys : left[r] = {k}) /\ Reply(r, "ok") /\ UNCHANGED <<keys, left>>
       \/ \E k \in left[r] \cap blobs :
            /\ left[r] # {k}
            /\ keys' = [keys EXCEPT ![r] = @ \cup {k}]
            /\ Visit(r, left[r] \ {k})
            /\ Stay
    /\ UNCHANGED <<table, now, request, row, sweeper, mishaps>>

(* The archive is streamed with status 200.  When a file cannot be read    *)
(* the deferred Close still finishes the archive: the client gets a valid, *)
(* shorter one, and the status is already sent.                            *)
StreamZIP(r) ==
    /\ pc[r] = "stream"
    /\ \/ left[r] = {} /\ Reply(r, "ok") /\ NoFault /\ UNCHANGED <<keys, left>>
       \/ \E k \in left[r] :
            \/ /\ k \in blobs
               /\ keys' = [keys EXCEPT ![r] = @ \cup {k}]
               /\ Visit(r, left[r] \ {k})
               /\ Stay /\ NoFault
            \/ /\ (k \notin blobs /\ NoFault) \/ Fault("disk")
               /\ Reply(r, "ok")
               /\ UNCHANGED <<keys, left>>
    /\ UNCHANGED <<table, now, request, row, sweeper>>

(* A single file: the one-use mark is neither looked at nor set. *)
GetFile(r) ==
    /\ pc[r] = "read"
    /\ \/ /\ left[r] \subseteq blobs
          /\ keys' = [keys EXCEPT ![r] = left[r]]
          /\ Reply(r, "ok") /\ NoFault
       \/ /\ (~(left[r] \subseteq blobs) /\ NoFault) \/ Fault("disk")
          /\ Reply(r, "failed") /\ keys' = keys
    /\ UNCHANGED <<table, now, request, row, left, sweeper>>

(* Mutant: the loop over the files is forgotten. *)
StoreDeleteNothing(r) ==
    /\ pc[r] = "unlink" /\ left[r] # {}
    /\ Visit(r, {})
    /\ UNCHANGED <<table, now, request, row, keys, pc, reply, sweeper, mishaps>>

(* Best effort per file, then the row. *)
StoreDelete(r) ==
    /\ pc[r] = "unlink"
    /\ \E k \in left[r] :
        /\ Visit(r, left[r] \ {k})
        /\ \/ blobs' = blobs \ {k} /\ NoFault
           \/ blobs' = blobs /\ Fault("disk")
    /\ UNCHANGED <<buckets, members, now, request, row, keys, pc, reply, sweeper>>

(* DELETE FROM buckets, cascading to bucket_files. *)
DropBucket(s) == /\ buckets' = [buckets EXCEPT ![s] = NoRow]
                 /\ members' = [members EXCEPT ![s] = {}]

KeepBucket == UNCHANGED <<buckets, members>>

RepoDelete(r) ==
    /\ pc[r] = "unlink" /\ left[r] = {}
    /\ \/ DropBucket(slug[r]) /\ Reply(r, "ok") /\ NoFault
       \/ KeepBucket /\ Reply(r, "failed") /\ Fault("dbWrite")
       \/ DropBucket(slug[r]) /\ Reply(r, "failed") /\ Fault("dbLost")
    /\ UNCHANGED <<blobs, now, request, row, keys, left, sweeper>>

-----------------------------------------------------------------------------
(* The cleanup worker's bucket sweep. *)

(* ListExpired: the expired rows, then the files of each; any error ends   *)
(* the sweep.                                                              *)
SweepList ==
    /\ listed = {} /\ todo = {} /\ cur = NoSlug
    /\ LET expired == {s \in Slugs : SweepableAt(buckets[s], now)}
       IN \/ expired # {} /\ listed' = expired /\ NoFault
          \/ listed' = {} /\ Fault("dbRead")
    /\ UNCHANGED <<table, now, request, row, keys, left, pc, reply, plan, todo, cur>>

SweepListFiles ==
    /\ \/ \E s \in listed :
            /\ plan' = [plan EXCEPT ![s] = members[s]]
            /\ listed' = listed \ {s}
            /\ todo' = todo \cup {s}
            /\ NoFault
       \/ /\ listed # {}
          /\ listed' = {} /\ todo' = {} /\ plan' = [s \in Slugs |-> {}]
          /\ Fault("dbRead")
    /\ UNCHANGED <<table, now, request, row, keys, left, pc, reply, cur>>

SweepPick ==
    /\ listed = {} /\ cur = NoSlug
    /\ \E s \in todo : cur' = s /\ todo' = todo \ {s}
    /\ UNCHANGED <<table, now, request, row, keys, left, pc, reply, listed, plan, mishaps>>

(* Mutant: a missing file is an error, and the row is skipped. *)
SweepGivesUp ==
    /\ cur # NoSlug
    /\ \E k \in plan[cur] :
        /\ blobs' = blobs \ {k}
        /\ plan' = [plan EXCEPT ![cur] = IF k \in blobs THEN @ \ {k} ELSE {}]
        /\ cur' = IF k \in blobs THEN cur ELSE NoSlug
    /\ UNCHANGED <<buckets, members, now, request, row, keys, left, pc, reply,
                   listed, todo, mishaps>>

SweepStoreDelete ==
    /\ cur # NoSlug
    /\ \E k \in plan[cur] :
        /\ plan' = [plan EXCEPT ![cur] = @ \ {k}]
        /\ \/ blobs' = blobs \ {k} /\ NoFault
           \/ blobs' = blobs /\ Fault("disk")
    /\ UNCHANGED <<buckets, members, now, request, row, keys, left, pc, reply,
                   listed, todo, cur>>

(* Mutant: the row is dropped without waiting for its files. *)
SweepRowFirst ==
    /\ cur # NoSlug
    /\ cur' = NoSlug
    /\ plan' = [plan EXCEPT ![cur] = {}]
    /\ DropBucket(cur)
    /\ UNCHANGED <<blobs, now, request, row, keys, left, pc, reply, listed, todo, mishaps>>

SweepRepoDelete ==
    /\ cur # NoSlug /\ plan[cur] = {}
    /\ cur' = NoSlug
    /\ \/ DropBucket(cur) /\ NoFault
       \/ KeepBucket /\ Fault("dbWrite")
       \/ DropBucket(cur) /\ Fault("dbLost")
    /\ UNCHANGED <<blobs, now, request, row, keys, left, pc, reply, listed, plan, todo>>

-----------------------------------------------------------------------------
(* The process dies and is started again: requests in flight get no answer,*)
(* the tables and the bytes stay as they are.                              *)
Crash ==
    /\ Fault("crash")
    /\ LET inFlight == {r \in Requests : pc[r] \notin {"new", "done"}}
       IN /\ pc' = [r \in Requests |-> IF r \in inFlight THEN "done" ELSE pc[r]]
          /\ reply' = [r \in Requests |-> IF r \in inFlight THEN "lost" ELSE reply[r]]
    /\ listed' = {} /\ todo' = {} /\ cur' = NoSlug
    /\ plan' = [s \in Slugs |-> {}]
    /\ UNCHANGED <<table, now, request, row, keys, left>>

Tick ==
    /\ now < MaxTime
    /\ now' = now + 1
    /\ UNCHANGED <<table, request, row, keys, left, pc, reply, sweeper, mishaps>>

Handle(r) ==
    \/ RefuseUpload(r) \/ StoreWrite(r) \/ RepoCreate(r) \/ UploadUndo(r) \/ AddFile(r)
    \/ GetBucketRow(r) \/ View(r) \/ DownloadZIP(r) \/ DownloadFile(r) \/ DeleteBucket(r)
    \/ MarkDownloaded(r) \/ StreamZIP(r) \/ GetFile(r)
    \/ StoreDelete(r) \/ RepoDelete(r)
    \/ \E s \in Slugs :
        \/ \E K \in SUBSET Keys, oneUse, protected \in BOOLEAN, d \in Expiries :
             Create(r, s, K, oneUse, protected, d)
        \/ \E good \in BOOLEAN :
             \/ \E what \in {"view", "zip", "delete"} : Arrive(r, what, s, good, {})
             \/ \E k \in Keys : Arrive(r, "file", s, good, {k})

Sweep == SweepList \/ SweepListFiles \/ SweepPick \/ SweepStoreDelete \/ SweepRepoDelete

Next == (\E r \in Requests : Handle(r)) \/ Sweep \/ Crash \/ Tick

Spec == Init /\ [][Next]_vars

(* As in FileShare: the clock and the worker run, clients may do nothing.  *)
Fairness == /\ WF_vars(Tick)
            /\ WF_vars(SweepList)
            /\ WF_vars(SweepListFiles)
            /\ WF_vars(SweepPick)
            /\ WF_vars(SweepStoreDelete)
            /\ WF_vars(SweepRepoDelete)

FairSpec == Spec /\ Fairness

-----------------------------------------------------------------------------
(* Properties *)

AskedToDelete(s) ==
    \E r \in Requests : op[r] = "delete" /\ slug[r] = s /\ right[r]

(* The promise of upload u may be over. *)
Withdrawn(u) == AskedToDelete(slug[u]) \/ Expired(row[u])

(* Request r was answered with content of the bucket of upload u. *)
Downloads(r, u) == op[r] \in {"zip", "file"} /\ slug[r] = slug[u] /\ reply[r] = "ok"

(* A published bucket has, until it expires or is asked to be deleted, its *)
(* row, exactly its files in bucket_files, and the bytes of each of them.  *)
BucketKept ==
    \A u \in Requests : Issued(u) /\ ~Withdrawn(u) =>
        /\ buckets[slug[u]] \in {row[u], Downloaded(row[u])}
        /\ members[slug[u]] = keys[u]
        /\ keys[u] \subseteq blobs

(* The archive of a one-use bucket is streamed to at most one request.     *)
OneUseZipOnce ==
    \A u, r, q \in Requests :
        /\ Issued(u) /\ row[u].oneUse
        /\ Downloads(r, u) /\ Downloads(q, u) /\ op[r] = "zip" /\ op[q] = "zip"
        => r = q

(* Without mishaps an archive answered with 200 holds every file of the    *)
(* bucket, unless the bucket was withdrawn while it was being streamed.    *)
ZipComplete ==
    \A u, r \in Requests :
        mishaps = 0 /\ Issued(u) /\ Downloads(r, u) /\ op[r] = "zip" =>
            keys[r] = keys[u] \/ Withdrawn(u)

(* Nobody without the password gets content of a protected bucket.         *)
PasswordGuards ==
    \A u, r \in Requests :
        Issued(u) /\ row[u].protected /\ Downloads(r, u) => right[r]

(* A deletion answered with success leaves no row, no file row and, when   *)
(* no file operation failed, no bytes.                                     *)
DeletedIsGone ==
    \A u, r \in Requests :
        Issued(u) /\ op[r] = "delete" /\ slug[r] = slug[u] /\ reply[r] = "ok" =>
            /\ buckets[slug[u]] = NoRow
            /\ members[slug[u]] = {}
            /\ "disk" \notin Faults => keys[u] \cap blobs = {}

(* When no file operation failed, a published bucket whose row is gone has *)
(* left no bytes behind, even if the sweep failed or crashed on the way.   *)
NoBytesLeftBehind ==
    \A u \in Requests : Issued(u) /\ buckets[slug[u]] = NoRow => keys[u] \cap blobs = {}

(* A published bucket whose expiry the clock can pass is swept away, with  *)
(* its bytes, even if sweeps fail or the process crashes half way.         *)
ExpiredReclaimed ==
    \A u \in Requests, s \in Slugs :
        (/\ Issued(u) /\ slug[u] = s
         /\ row[u].expiresAt # Never /\ row[u].expiresAt < Unix(MaxTime))
            ~> (buckets[s] = NoRow /\ keys[u] \cap blobs = {})

(* A second download of a one-use bucket is refused: every file of it is   *)
(* handed out at most once.                                                *)
OneUseBucketOnce ==
    \A u, r, q \in Requests :
        /\ Issued(u) /\ row[u].oneUse
        /\ Downloads(r, u) /\ Downloads(q, u) /\ keys[r] \cap keys[q] # {}
        => r = q

-----------------------------------------------------------------------------
(* Why BucketKept holds: the inductive invariant of its proof. *)

(* The bucket row of upload u was inserted, and u has not failed. *)
Stored(u) == op[u] = "upload" /\ (pc[u] = "add" \/ reply[u] = "created")

(* The buckets in the hands of the sweep. *)
Swept == listed \cup todo \cup {cur}

(* What the place of a request says about its kind, its loop and its       *)
(* answer.                                                                 *)
RequestInv ==
    \A r \in Requests :
        /\ pc[r] = "new" => op[r] = "none" /\ slug[r] = NoSlug /\ keys[r] = {} /\ left[r] = {}
        /\ op[r] = "none" => pc[r] = "new"
        /\ reply[r] = "none" <=> pc[r] # "done"
        /\ pc[r] \in {"write", "add", "undo"} => op[r] = "upload"
        /\ pc[r] \in {"find", "list"} => op[r] \in {"view", "zip", "file", "delete"}
        /\ pc[r] \in {"mark", "stream"} => op[r] = "zip"
        /\ pc[r] = "read" => op[r] = "file"
        /\ pc[r] = "unlink" => op[r] = "delete" /\ right[r]
        /\ pc[r] \in {"find", "list", "mark"} => keys[r] = {}
        /\ pc[r] \in {"add", "undo"} => left[r] \subseteq keys[r]
        /\ op[r] = "upload" /\ reply[r] \in {"none", "created"} =>
             slug[r] \in Slugs /\ row[r] \in Rows
        /\ Issued(r) => left[r] = {}

(* Other requests are about buckets that were published. *)
VisitInv ==
    \A r \in Requests : op[r] \in {"view", "zip", "file", "delete"} =>
        slug[r] \in Slugs /\ Published(slug[r])

(* Uploads draw distinct slugs and disjoint storage keys; before its first *)
(* insert nobody else knows them, and the bytes it has stored are there.   *)
UploadInv ==
    /\ \A u, v \in Requests : op[u] = "upload" /\ op[v] = "upload" /\ u # v =>
         /\ slug[u] = slug[v] => slug[u] = NoSlug
         /\ (keys[u] \cup left[u]) \cap (keys[v] \cup left[v]) = {}
    /\ \A u \in Requests : pc[u] = "write" =>
         /\ buckets[slug[u]] = NoRow /\ members[slug[u]] = {} /\ slug[u] \notin Swept
         /\ keys[u] \subseteq blobs

(* The tables and the sweep know no slug but the ones uploads have drawn,  *)
(* and under each of them only keys its upload has written.                *)
KnownInv ==
    /\ \A s \in Slugs :
         /\ buckets[s] # NoRow \/ members[s] # {} \/ plan[s] # {} \/ s \in Swept =>
              \E u \in Requests : op[u] = "upload" /\ slug[u] = s
         /\ buckets[s] = NoRow => members[s] = {}
    /\ \A u \in Requests : op[u] = "upload" /\ slug[u] \in Slugs =>
         members[slug[u]] \cup plan[slug[u]] \subseteq keys[u]

(* A stored bucket that has its row has it as promised, and its file rows  *)
(* are the ones its upload has come to.                                    *)
RowInv ==
    \A u \in Requests : Stored(u) /\ buckets[slug[u]] # NoRow =>
        /\ buckets[slug[u]] \in {row[u], Downloaded(row[u])}
        /\ members[slug[u]] = keys[u] \ left[u]

(* The sweep only holds stored buckets whose promised expiry has passed.   *)
SweepInv ==
    \A u \in Requests : Stored(u) /\ slug[u] \in Swept => Expired(row[u])

(* A deletion only removes bytes of its own bucket. *)
HoldInv ==
    \A u, r \in Requests : Issued(u) /\ slug[r] = slug[u] /\ pc[r] = "unlink" =>
        left[r] \subseteq keys[u]

(* BucketKept from the first insert on. *)
StoredKept ==
    \A u \in Requests : Stored(u) /\ ~Withdrawn(u) =>
        /\ buckets[slug[u]] \in {row[u], Downloaded(row[u])}
        /\ members[slug[u]] = keys[u] \ left[u]
        /\ keys[u] \subseteq blobs

BucketInv == /\ TypeOK /\ RequestInv /\ VisitInv /\ UploadInv /\ KnownInv
             /\ RowInv /\ SweepInv /\ HoldInv /\ StoredKept

-----------------------------------------------------------------------------
(* Why the other properties hold, given BucketInv. *)

(* The row a reader has looked up is the promised one, so who goes on to   *)
(* content of a protected bucket has passed the check of its password.     *)
PassInv ==
    \A u, r \in Requests : Issued(u) /\ slug[r] = slug[u] /\ op[r] # "upload" =>
        /\ pc[r] = "list" => row[r] \in {row[u], Downloaded(row[u])}
        /\ row[u].protected /\ (pc[r] \in {"mark", "stream", "read"} \/ Downloads(r, u)) => right[r]

(* r is being streamed the archive of the bucket of u, or was. *)
Streams(r, u) ==
    op[r] = "zip" /\ slug[r] = slug[u] /\ (pc[r] = "stream" \/ reply[r] = "ok")

(* While a one-use bucket is unmarked nobody streams it; later one does.   *)
HolderInv ==
    \A u \in Requests : Issued(u) /\ row[u].oneUse =>
        /\ Fresh(buckets[slug[u]]) => \A r \in Requests : ~Streams(r, u)
        /\ \A r, q \in Requests : Streams(r, u) /\ Streams(q, u) => r = q

(* An archive in the making has sent, or will come to, every file. *)
ZipInv ==
    \A u, r \in Requests : Issued(u) /\ slug[r] = slug[u] /\ pc[r] \in {"mark", "stream"} =>
        keys[r] \cup left[r] = keys[u] \/ Withdrawn(u)

(* A row that was deleted does not come back. *)
GoneInv ==
    \A r \in Requests : op[r] = "delete" /\ reply[r] = "ok" => buckets[slug[r]] = NoRow

(* Bytes go before their row: whoever is about to delete the row has in    *)
(* its loop whatever bytes are left; the sweep visits once it has listed.  *)
BytesInv ==
    "disk" \notin Faults =>
        /\ \A u, r \in Requests : Issued(u) /\ slug[r] = slug[u] /\ pc[r] = "unlink" =>
             keys[u] \cap blobs \subseteq left[r]
        /\ \A u \in Requests : Issued(u) /\ slug[u] \in todo \cup {cur} =>
             keys[u] \cap blobs \subseteq plan[slug[u]]
        /\ listed # {} => cur = NoSlug
        /\ NoBytesLeftBehind

PromiseInv == PassInv /\ HolderInv /\ ZipInv /\ ZipComplete /\ GoneInv /\ BytesInv
=============================================================================
