----------------------------- MODULE FileShare -----------------------------
(***************************************************************************)
(* Single-file shares of pbin: the HTTP handlers and the slug dispatcher,  *)
(* the file service, the files table, the byte store and the cleanup       *)
(* worker's file sweep.  Every HTTP request is a goroutine of its own, so  *)
(* each call on the table or on the store is a step of its own, and the    *)
(* steps of requests, of the sweep and of the clock interleave freely.     *)
(* net/http routes HEAD to the handlers of GET and throws the body away:   *)
(* where a body matters, at GET /{slug}, HEAD is an operation of its own.  *)
(*                                                                         *)
(* Mishaps are the failures the code has branches for: a query that fails, *)
(* a write that fails without effect, a write that takes effect but is     *)
(* reported as failed (the request's context ends while SQLite commits), a *)
(* file operation that fails, and a crash of the process.                  *)
(***************************************************************************)
EXTENDS ShareRow

CONSTANTS
    Slugs,           \* slugs slug.New may draw; also the storage keys
    Requests,        \* HTTP requests, each answered at most once
    NoSlug,          \* "no slug yet"
    MaxTime,         \* bound: the last tick of the clock
    Faults,          \* the kinds of mishap that may happen
    MaxMishaps       \* bound: how many of them may happen

ASSUME SlugAssumption == NoSlug \notin Slugs
ASSUME BoundAssumption == MaxTime \in Nat /\ MaxMishaps \in Nat
ASSUME FaultAssumption == Faults \subseteq {"dbRead", "dbWrite", "dbLost", "disk", "crash"}

VARIABLES
    files,    \* the files table: slug -> row
    blobs,    \* the storage keys that have bytes on disk
    now,      \* the clock, in ticks
    op,       \* what each request asks for
    slug,     \* the slug it is about
    right,    \* whether it carries the right password or delete secret
    row,      \* the row an upload builds: what its answer promises
    pc,       \* the call each request is about to make
    reply,    \* its answer
    todo,     \* expired slugs the sweep still has to visit
    cur,      \* the slug whose bytes the sweep has just deleted
    mishaps   \* how many mishaps have happened

table   == <<files, blobs>>
request == <<op, slug, right, row>>
sweeper == <<todo, cur>>
vars    == <<files, blobs, now, op, slug, right, row, pc, reply, todo, cur, mishaps>>

Reads   == {"get", "head"}
Ops     == {"none", "upload", "info", "delete"} \cup Reads
Calls   == {"new", "write", "create", "undo", "get", "mark", "read",
            "delete", "unlink", "drop", "done"}
Replies == {"none", "created", "ok", "refused", "notFound", "expired", "consumed",
            "wrongPassword", "badSecret", "failed", "lost"}

TypeOK ==
    /\ files \in [Slugs -> Rows \cup {NoRow}]
    /\ blobs \in SUBSET Slugs
    /\ now \in Nat
    /\ op \in [Requests -> Ops]
    /\ slug \in [Requests -> Slugs \cup {NoSlug}]
    /\ right \in [Requests -> BOOLEAN]
    /\ row \in [Requests -> Rows \cup {NoRow}]
    /\ pc \in [Requests -> Calls]
    /\ reply \in [Requests -> Replies]
    /\ todo \in SUBSET Slugs
    /\ cur \in Slugs \cup {NoSlug}
    /\ mishaps \in Nat

Init ==
    /\ files = [s \in Slugs |-> NoRow]
    /\ blobs = {}
    /\ now = 0
    /\ op = [r \in Requests |-> "none"]
    /\ slug = [r \in Requests |-> NoSlug]
    /\ right = [r \in Requests |-> FALSE]
    /\ row = [r \in Requests |-> NoRow]
    /\ pc = [r \in Requests |-> "new"]
    /\ reply = [r \in Requests |-> "none"]
    /\ todo = {}
    /\ cur = NoSlug
    /\ mishaps = 0

-----------------------------------------------------------------------------
(* Steps of a request. *)

Goto(r, call) == /\ pc' = [pc EXCEPT ![r] = call]
                 /\ reply' = reply

Reply(r, code) == /\ pc' = [pc EXCEPT ![r] = "done"]
                  /\ reply' = [reply EXCEPT ![r] = code]

Fault(kind) == /\ kind \in Faults
               /\ mishaps < MaxMishaps
               /\ mishaps' = mishaps + 1

NoFault == mishaps' = mishaps

(* An upload was answered with its links: the promise the server made. *)
Issued(u) == op[u] = "upload" /\ reply[u] = "created"

Published(s) == \E u \in Requests : Issued(u) /\ slug[u] = s

(* A request arrives for a slug somebody was told about. *)
Arrive(r, what, s, good) ==
    /\ pc[r] = "new"
    /\ Published(s)
    /\ op' = [op EXCEPT ![r] = what]
    /\ slug' = [slug EXCEPT ![r] = s]
    /\ right' = [right EXCEPT ![r] = good]
    /\ row' = row

Expired(f) == ExpiredAt(f, now)

-----------------------------------------------------------------------------
(* POST /api/upload *)

(* Every early return before a byte is stored: body too large, bad form,   *)
(* unknown expiry preset, slug or hash generation failing.                 *)
RefuseUpload(r) ==
    /\ pc[r] = "new"
    /\ op' = [op EXCEPT ![r] = "upload"]
    /\ Reply(r, "refused")
    /\ UNCHANGED <<files, blobs, now, slug, right, row, todo, cur, mishaps>>

(* Mutant: the bytes are stored under an empty slug. *)
UploadUnderNoSlug(r, s, oneUse, protected, d) ==
    /\ pc[r] = "new"
    /\ op' = [op EXCEPT ![r] = "upload"]
    /\ row' = [row EXCEPT ![r] = NewRow(oneUse, protected, d, now)]
    /\ Goto(r, "write")
    /\ UNCHANGED <<files, blobs, now, slug, right, todo, cur, mishaps>>

(* The slug is drawn, the entity built and the expiry computed. *)
Upload(r, s, oneUse, protected, d) ==
    /\ pc[r] = "new"
    /\ \A q \in Requests : slug[q] # s
    /\ op' = [op EXCEPT ![r] = "upload"]
    /\ slug' = [slug EXCEPT ![r] = s]
    /\ row' = [row EXCEPT ![r] = NewRow(oneUse, protected, d, now)]
    /\ Goto(r, "write")
    /\ UNCHANGED <<files, blobs, now, right, todo, cur, mishaps>>

StoreWrite(r) ==
    /\ pc[r] = "write"
    /\ \/ blobs' = blobs \cup {slug[r]} /\ Goto(r, "create") /\ NoFault
       \/ blobs' = blobs /\ Reply(r, "failed") /\ Fault("disk")
    /\ UNCHANGED <<files, now, request, sweeper>>

Insert(r) == files' = [files EXCEPT ![slug[r]] = row[r]]

RepoCreate(r) ==
    /\ pc[r] = "create"
    /\ \/ Insert(r) /\ Reply(r, "created") /\ NoFault
       \/ files' = files /\ Goto(r, "undo") /\ Fault("dbWrite")
       \/ Insert(r) /\ Goto(r, "undo") /\ Fault("dbLost")
    /\ UNCHANGED <<blobs, now, request, sweeper>>

(* Best effort: an error of this Delete is ignored. *)
UploadUndo(r) ==
    /\ pc[r] = "undo"
    /\ \/ blobs' = blobs \ {slug[r]} /\ NoFault
       \/ blobs' = blobs /\ Fault("disk")
    /\ Reply(r, "failed")
    /\ UNCHANGED <<files, now, request, sweeper>>

-----------------------------------------------------------------------------
(* GET and HEAD /{slug} *)

(* What the metadata lookup says of a slug: it checks the expiry only. *)
GetMeta(s) == IF files[s] = NoRow THEN "notFound"
              ELSE IF Expired(files[s]) THEN "expired" ELSE "ok"

(* The dispatcher asks the file service for the slug.  It goes on to the   *)
(* file handler when the file exists, expired or not; otherwise, and on an *)
(* error too, to the paste handler, which knows no such slug or fails too. *)
DispatchGet(r, s, what, good) ==
    /\ Arrive(r, what, s, good)
    /\ \/ GetMeta(s) \in {"ok", "expired"} /\ Goto(r, "get") /\ NoFault
       \/ GetMeta(s) = "notFound" /\ Reply(r, "notFound") /\ NoFault
       \/ \E code \in {"notFound", "failed"} : Reply(r, code) /\ Fault("dbRead")
    /\ UNCHANGED <<table, now, sweeper>>

(* Get looks the row up again and checks it. *)
Get(r) ==
    /\ pc[r] = "get"
    /\ LET f == files[slug[r]]
           verdict == Admission(f, right[r], now)
       IN \/ verdict = "ok" /\ Goto(r, IF f.oneUse THEN "mark" ELSE "read") /\ NoFault
          \/ verdict # "ok" /\ Reply(r, verdict) /\ NoFault
          \/ Reply(r, "failed") /\ Fault("dbRead")
    /\ UNCHANGED <<table, now, request, sweeper>>

Mark(s) == files' = IF Fresh(files[s]) THEN [files EXCEPT ![s] = Downloaded(@)] ELSE files

(* Mutant: the result of MarkDownloaded is read the wrong way round. *)
MarkDownloadedInverted(r) ==
    /\ pc[r] = "mark"
    /\ \/ Fresh(files[slug[r]]) /\ Mark(slug[r]) /\ Reply(r, "consumed")
       \/ ~Fresh(files[slug[r]]) /\ files' = files /\ Goto(r, "read")
    /\ UNCHANGED <<blobs, now, request, sweeper, mishaps>>

(* Mutant: an error of MarkDownloaded is ignored. *)
MarkDownloadedUnchecked(r) ==
    /\ pc[r] = "mark"
    /\ \/ Fresh(files[slug[r]]) /\ Mark(slug[r]) /\ Goto(r, "read") /\ NoFault
       \/ ~Fresh(files[slug[r]]) /\ files' = files /\ Reply(r, "consumed") /\ NoFault
       \/ files' = files /\ Goto(r, "read") /\ Fault("dbWrite")
    /\ UNCHANGED <<blobs, now, request, sweeper>>

MarkDownloaded(r) ==
    /\ pc[r] = "mark"
    /\ \/ Fresh(files[slug[r]]) /\ Mark(slug[r]) /\ Goto(r, "read") /\ NoFault
       \/ ~Fresh(files[slug[r]]) /\ files' = files /\ Reply(r, "consumed") /\ NoFault
       \/ files' = files /\ Reply(r, "failed") /\ Fault("dbWrite")
       \/ Mark(slug[r]) /\ Reply(r, "failed") /\ Fault("dbLost")
    /\ UNCHANGED <<blobs, now, request, sweeper>>

(* Opening the bytes; once open they stream to the client even if they are *)
(* unlinked meanwhile.                                                     *)
StoreRead(r) ==
    /\ pc[r] = "read"
    /\ \/ slug[r] \in blobs /\ Reply(r, "ok") /\ NoFault
       \/ slug[r] \notin blobs /\ Reply(r, "failed") /\ NoFault
       \/ Reply(r, "failed") /\ Fault("disk")
    /\ UNCHANGED <<table, now, request, sweeper>>

-----------------------------------------------------------------------------
(* GET /{slug}/info *)
Info(r, s) ==
    /\ Arrive(r, "info", s, FALSE)
    /\ \/ Reply(r, GetMeta(s)) /\ NoFault
       \/ Reply(r, "failed") /\ Fault("dbRead")
    /\ UNCHANGED <<table, now, sweeper>>

-----------------------------------------------------------------------------
(* GET /delete/{slug}/{secret} *)

(* Here the dispatcher leaves the file handler only for ErrNotFound. *)
DispatchDelete(r, s, good) ==
    /\ Arrive(r, "delete", s, good)
    /\ \/ GetMeta(s) # "notFound" /\ Goto(r, "delete") /\ NoFault
       \/ GetMeta(s) = "notFound" /\ Reply(r, "notFound") /\ NoFault
       \/ Goto(r, "delete") /\ Fault("dbRead")
       \/ files[s] = NoRow /\ Reply(r, "failed") /\ Fault("dbRead")
    /\ UNCHANGED <<table, now, sweeper>>

(* Mutant: only the row is deleted. *)
DeleteRowOnly(r) ==
    /\ pc[r] = "delete"
    /\ LET f == files[slug[r]]
       IN \/ f = NoRow /\ Reply(r, "notFound")
          \/ f # NoRow /\ ~right[r] /\ Reply(r, "badSecret")
          \/ f # NoRow /\ right[r] /\ Goto(r, "drop")
    /\ UNCHANGED <<table, now, request, sweeper, mishaps>>

Delete(r) ==
    /\ pc[r] = "delete"
    /\ LET f == files[slug[r]]
       IN \/ f = NoRow /\ Reply(r, "notFound") /\ NoFault
          \/ f # NoRow /\ ~right[r] /\ Reply(r, "badSecret") /\ NoFault
          \/ f # NoRow /\ right[r] /\ Goto(r, "unlink") /\ NoFault
          \/ Reply(r, "failed") /\ Fault("dbRead")
    /\ UNCHANGED <<table, now, request, sweeper>>

(* Mutant: a failure to delete the bytes is ignored. *)
StoreDeleteUnchecked(r) ==
    /\ pc[r] = "unlink"
    /\ \/ blobs' = blobs \ {slug[r]} /\ NoFault
       \/ blobs' = blobs /\ Fault("disk")
    /\ Goto(r, "drop")
    /\ UNCHANGED <<files, now, request, sweeper>>

StoreDelete(r) ==
    /\ pc[r] = "unlink"
    /\ \/ blobs' = blobs \ {slug[r]} /\ Goto(r, "drop") /\ NoFault
       \/ blobs' = blobs /\ Reply(r, "failed") /\ Fault("disk")
    /\ UNCHANGED <<files, now, request, sweeper>>

DropRow(s) == files' = [files EXCEPT ![s] = NoRow]

RepoDelete(r) ==
    /\ pc[r] = "drop"
    /\ \/ DropRow(slug[r]) /\ Reply(r, "ok") /\ NoFault
       \/ files' = files /\ Reply(r, "failed") /\ Fault("dbWrite")
       \/ DropRow(slug[r]) /\ Reply(r, "failed") /\ Fault("dbLost")
    /\ UNCHANGED <<blobs, now, request, sweeper>>

-----------------------------------------------------------------------------
(* The cleanup worker's file sweep, one ticker event after another. *)

ListExpired == {s \in Slugs : SweepableAt(files[s], now)}

SweepList ==
    /\ todo = {} /\ cur = NoSlug
    /\ \/ ListExpired # {} /\ todo' = ListExpired /\ NoFault
       \/ todo' = {} /\ Fault("dbRead")
    /\ UNCHANGED <<table, now, request, pc, reply, cur>>

(* Mutant: a missing file is an error, and the row is skipped. *)
SweepSkipsMissing ==
    /\ cur = NoSlug
    /\ \E s \in todo :
        /\ cur' = IF s \in blobs THEN s ELSE NoSlug
        /\ todo' = todo \ {s}
        /\ blobs' = blobs \ {s}
    /\ UNCHANGED <<files, now, request, pc, reply, mishaps>>

(* The row is visited next whether or not deleting the bytes succeeds. *)
SweepStoreDelete ==
    /\ cur = NoSlug
    /\ \E s \in todo :
        /\ cur' = s
        /\ todo' = todo \ {s}
        /\ \/ blobs' = blobs \ {s} /\ NoFault
           \/ blobs' = blobs /\ Fault("disk")
    /\ UNCHANGED <<files, now, request, pc, reply>>

SweepRepoDelete ==
    /\ cur # NoSlug
    /\ cur' = NoSlug
    /\ \/ DropRow(cur) /\ NoFault
       \/ files' = files /\ Fault("dbWrite")
       \/ DropRow(cur) /\ Fault("dbLost")
    /\ UNCHANGED <<blobs, now, request, pc, reply, todo>>

-----------------------------------------------------------------------------
(* The process dies and is started again: requests in flight get no answer,*)
(* the table and the bytes stay as they are.                               *)
Crash ==
    /\ Fault("crash")
    /\ LET inFlight == {r \in Requests : pc[r] \notin {"new", "done"}}
       IN /\ pc' = [r \in Requests |-> IF r \in inFlight THEN "done" ELSE pc[r]]
          /\ reply' = [r \in Requests |-> IF r \in inFlight THEN "lost" ELSE reply[r]]
    /\ todo' = {}
    /\ cur' = NoSlug
    /\ UNCHANGED <<table, now, request>>

Tick ==
    /\ now < MaxTime
    /\ now' = now + 1
    /\ UNCHANGED <<table, request, pc, reply, sweeper, mishaps>>

Handle(r) ==
    \/ RefuseUpload(r) \/ StoreWrite(r) \/ RepoCreate(r) \/ UploadUndo(r)
    \/ Get(r) \/ MarkDownloaded(r) \/ StoreRead(r)
    \/ Delete(r) \/ StoreDelete(r) \/ RepoDelete(r)
    \/ \E s \in Slugs :
        \/ \E oneUse, protected \in BOOLEAN, d \in Expiries : Upload(r, s, oneUse, protected, d)
        \/ \E good \in BOOLEAN : \/ \E what \in Reads : DispatchGet(r, s, what, good)
                                 \/ DispatchDelete(r, s, good)
        \/ Info(r, s)

Sweep == SweepList \/ SweepStoreDelete \/ SweepRepoDelete

Next == (\E r \in Requests : Handle(r)) \/ Sweep \/ Crash \/ Tick

Spec == Init /\ [][Next]_vars

(* The clock runs, and the worker's goroutine is scheduled: its ticker     *)
(* fires again after every sweep.  Nothing is assumed of clients.          *)
Fairness == /\ WF_vars(Tick)
            /\ WF_vars(SweepList)
            /\ WF_vars(SweepStoreDelete)
            /\ WF_vars(SweepRepoDelete)

FairSpec == Spec /\ Fairness

-----------------------------------------------------------------------------
(* Properties *)

AskedToDelete(s) ==
    \E r \in Requests : op[r] = "delete" /\ slug[r] = s /\ right[r]

(* The promise of upload u may be over: the uploader asked for deletion,   *)
(* or the expiry the upload's answer stated has passed.                    *)
Withdrawn(u) == AskedToDelete(slug[u]) \/ Expired(row[u])

(* The handler wrote the bytes out for the request. *)
Served(r, s) == op[r] \in Reads /\ slug[r] = s /\ reply[r] = "ok"

(* The visitor really has them: the body of a HEAD is dropped. *)
Received(r, s) == Served(r, s) /\ op[r] # "head"

(* The request has been let in and is about to open the bytes. *)
Reading(r, s) == op[r] \in Reads /\ slug[r] = s /\ pc[r] = "read"

(* A file whose upload was answered with links, that is neither past its   *)
(* expiry nor asked to be deleted, has its row, as promised, and its bytes:*)
(* no sweep, no failed or undone upload, no crash takes it away early.     *)
KeptUntilWithdrawn ==
    \A u \in Requests : Issued(u) /\ ~Withdrawn(u) =>
        /\ slug[u] \in blobs
        /\ files[slug[u]] \in {row[u], Downloaded(row[u])}

(* A one-use file is served to at most one request, however many race for  *)
(* it and whatever fails or crashes in between.                            *)
OneUseServedOnce ==
    \A u, r, q \in Requests :
        Issued(u) /\ row[u].oneUse /\ Served(r, slug[u]) /\ Served(q, slug[u]) => r = q

(* A one-use file is spent in vain, without anybody having received it or  *)
(* being about to, only by a mishap, by a HEAD request, or when the bytes  *)
(* were withdrawn between the mark and their opening.                      *)
SpentInVainOnlyBy ==
    \A u \in Requests :
        /\ Issued(u) /\ files[slug[u]] # NoRow /\ files[slug[u]].downloaded
        /\ mishaps = 0
        => \E r \in Requests :
             \/ Received(r, slug[u]) \/ Reading(r, slug[u])
             \/ op[r] = "head" /\ slug[r] = slug[u] /\ reply[r] = "ok"
             \/ op[r] \in Reads /\ slug[r] = slug[u] /\ reply[r] = "failed" /\ Withdrawn(u)

(* A request with a wrong password neither gets a protected file nor uses  *)
(* up its single download.                                                 *)
PasswordGuards ==
    \A u \in Requests : Issued(u) /\ row[u].protected =>
        /\ \A r \in Requests : Served(r, slug[u]) => right[r]
        /\ files[slug[u]] # NoRow /\ files[slug[u]].downloaded =>
             \E r \in Requests : op[r] \in Reads /\ slug[r] = slug[u] /\ right[r]

(* When a deletion has been answered with success, the row and the bytes   *)
(* are gone and stay gone, whatever fails and whoever deletes too.         *)
DeletedIsGone ==
    \A r \in Requests : op[r] = "delete" /\ reply[r] = "ok" =>
        files[slug[r]] = NoRow /\ slug[r] \notin blobs

(* There is a reason for "already downloaded": a request, GET or HEAD, was *)
(* let in, something went wrong, or the file was withdrawn.                *)
UsedUp(u) ==
    \/ mishaps > 0 \/ Withdrawn(u)
    \/ \E q \in Requests : Served(q, slug[u]) \/ Reading(q, slug[u])

(* What a refusal may be given for.  Expiry is only ever claimed after the *)
(* promised time; the other refusals need a withdrawal or, for "already    *)
(* downloaded", another visit, as long as nothing has failed.              *)
Justified(u, r) ==
    /\ reply[r] = "expired" => Expired(row[u])
    /\ reply[r] = "notFound" /\ (op[r] \notin Reads \/ mishaps = 0) => Withdrawn(u)
    /\ reply[r] = "failed" /\ mishaps = 0 => Withdrawn(u)
    /\ reply[r] = "consumed" => row[u].oneUse /\ UsedUp(u)

(* Every request for a published file that is turned down is turned down   *)
(* for such a reason.                                                      *)
RefusalsJustified ==
    \A u, r \in Requests :
        Issued(u) /\ slug[r] = slug[u] /\ op[r] \in Reads \cup {"info", "delete"} => Justified(u, r)

(* Bytes are deleted before the row, so a published file never leaves      *)
(* bytes behind that no row leads to.                                      *)
NoBytesLeftBehind ==
    \A u \in Requests : Issued(u) /\ files[slug[u]] = NoRow => slug[u] \notin blobs

(* A row with an expiry the clock can pass is swept away, with its bytes,  *)
(* even if sweeps fail or the process crashes half way.                    *)
ExpiredReclaimed ==
    \A s \in Slugs :
        (files[s] # NoRow /\ files[s].expiresAt # Never /\ files[s].expiresAt < Unix(MaxTime))
            ~> (files[s] = NoRow /\ s \notin blobs)

(* The 404 of GET /{slug} means that the file is not there any more.       *)
NotFoundMeansWithdrawn ==
    \A u, r \in Requests :
        Issued(u) /\ slug[r] = slug[u] /\ op[r] \in Reads /\ reply[r] = "notFound" => Withdrawn(u)

-----------------------------------------------------------------------------
(* Why KeptUntilWithdrawn holds: the inductive invariant of its proof. *)

(* What the place of a request says about its kind and its answer. *)
RequestInv ==
    \A r \in Requests :
        /\ pc[r] = "new" => op[r] = "none" /\ slug[r] = NoSlug
        /\ op[r] = "none" => pc[r] = "new"
        /\ reply[r] = "none" <=> pc[r] # "done"
        /\ pc[r] \in {"write", "create", "undo"} => op[r] = "upload"
        /\ pc[r] \in {"get", "mark", "read"} => op[r] \in Reads
        /\ pc[r] \in {"delete", "unlink", "drop"} => op[r] = "delete"
        /\ pc[r] \in {"unlink", "drop"} => right[r]
        /\ op[r] = "upload" /\ reply[r] \in {"none", "created"} =>
             slug[r] \in Slugs /\ row[r] \in Rows

(* Other requests are about slugs that were published. *)
VisitInv ==
    \A r \in Requests : op[r] \in Reads \cup {"info", "delete"} =>
        slug[r] \in Slugs /\ Published(slug[r])

(* Uploads draw distinct slugs; before its insert nobody else knows one.   *)
UploadInv ==
    /\ \A u, v \in Requests :
         op[u] = "upload" /\ op[v] = "upload" /\ slug[u] = slug[v] /\ slug[u] # NoSlug => u = v
    /\ \A u \in Requests :
         /\ pc[u] \in {"write", "create"} =>
              files[slug[u]] = NoRow /\ slug[u] \notin todo /\ slug[u] # cur
         /\ pc[u] = "create" => slug[u] \in blobs

(* The table and the sweep know no slug but the ones uploads have drawn.   *)
KnownInv ==
    \A s \in Slugs : files[s] # NoRow \/ s \in todo \/ s = cur =>
        \E u \in Requests : slug[u] = s

(* The row of a published file is the one its upload built.                *)
RowInv ==
    \A u \in Requests : Issued(u) /\ files[slug[u]] # NoRow =>
        files[slug[u]] \in {row[u], Downloaded(row[u])}

(* The sweep only holds published slugs whose promised expiry has passed.  *)
SweepInv ==
    \A u \in Requests : Issued(u) /\ slug[u] \in todo \cup {cur} => Expired(row[u])

FileInv == /\ TypeOK /\ RequestInv /\ VisitInv /\ UploadInv
           /\ KnownInv /\ RowInv /\ SweepInv /\ KeptUntilWithdrawn

-----------------------------------------------------------------------------
(* Why the other properties hold, given FileInv. *)

(* Rows are built unmarked; a request that Get let in has found a one-use  *)
(* row if it is to mark it, and carries the password if there is one.      *)
PassInv ==
    /\ \A u \in Requests : row[u] # NoRow => ~row[u].downloaded
    /\ \A u, r \in Requests : Issued(u) /\ slug[r] = slug[u] =>
         /\ pc[r] = "mark" => row[u].oneUse
         /\ row[u].protected /\ (pc[r] \in {"mark", "read"} \/ Served(r, slug[u])) => right[r]

(* A deletion that has come to the row has removed the bytes, and nobody   *)
(* brings them back.                                                       *)
GoneInv == \A r \in Requests : pc[r] = "drop" => slug[r] \notin blobs

(* So has the sweep, when no file operation fails. *)
BytesInv ==
    "disk" \notin Faults =>
        /\ \A u \in Requests : Issued(u) /\ slug[u] = cur => cur \notin blobs
        /\ NoBytesLeftBehind

PromiseInv == /\ PassInv /\ PasswordGuards /\ GoneInv /\ DeletedIsGone /\ BytesInv
              /\ SpentInVainOnlyBy /\ RefusalsJustified

-----------------------------------------------------------------------------
(* A file share is a share link. *)

LinkStatus(s) ==
    IF ~Published(s) THEN "none"
    ELSE IF files[s] = NoRow THEN "gone"
    ELSE IF ~files[s].oneUse THEN "open"
    ELSE IF files[s].downloaded THEN "spent" ELSE "fresh"

Link == INSTANCE ShareLink WITH
    Links  <- Slugs,
    Visits <- Requests,
    NoLink <- NoSlug,
    status <- [s \in Slugs |-> LinkStatus(s)],
    once   <- {s \in Slugs : \E u \in Requests : Issued(u) /\ slug[u] = s /\ row[u].oneUse},
    ticket <- [r \in Requests |-> IF pc[r] = "read" THEN slug[r] ELSE NoSlug],
    served <- [s \in Slugs |-> {r \in Requests : Served(r, s)}]

(* Whatever happens behind it, a file share behaves as a share link.       *)
ImplementsShareLink == Link!Spec
=============================================================================
