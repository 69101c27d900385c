# pbin: a TLA+ verification project

pbin is a self-hosted share server in Go: an upload is answered with a link
under which a file, a bucket of files or a paste can be fetched until it
expires, is downloaded once (one-use) or is deleted with a secret link. One
process serves HTTP, keeps metadata in SQLite and bytes in a directory, and a
background worker removes what has expired. This project models the parts
whose correctness depends on interleavings, failures and time.

## 1. Inventory

| Component | Source | State | Operations | Hard part |
|---|---|---|---|---|
| File shares | `internal/domain/file`, `internal/storage/file_repo.go`, `internal/handler/file.go` | a row in `files`, bytes under the slug | upload, get, info, delete | bytes and row are two writes; one-use is decided by one UPDATE; any request may race any other and the sweep |
| Buckets | `internal/domain/bucket`, `internal/storage/bucket_repo.go`, `internal/handler/bucket.go` | a row in `buckets`, rows in `bucket_files`, bytes under one key per file | create, view, zip, single file, delete | several inserts without a transaction, reads by two queries, deletion file by file |
| Pastes | `internal/domain/paste`, `internal/storage/paste_repo.go`, `internal/handler/paste.go` | a row in `pastes`, with the content in it | create, view, raw, delete | two routes, and HEAD, consume the same one-use mark before the page is made; shares the dispatcher with files |
| Cleanup worker | `internal/worker/cleanup.go` | ticker, channels `stop` and `done`, the list of a sweep | sweep files, buckets, pastes; start, stop, recover | runs against live requests on a list that ages; panics |
| Process | `cmd/pbin/main.go`, `internal/storage/db.go` | listener, worker, database handles | start, signal, stop, drain, close | order of shutdown, deadline, a worker that does not answer |
| Slug dispatcher | `cmd/pbin/main.go` 121-210 | none | GET `/{slug}`, `/delete/{slug}/{secret}` | its lookup is stale or failed when the handler acts on it |
| Byte store | `internal/filestore` | a directory | write (temporary file and rename), read, delete, exists | concurrent writers and readers of one path; failure or crash between the steps of a write |
| Server's edge | `internal/config`, `internal/middleware`, `internal/handler/baseurl.go`, routes of `cmd/pbin/main.go`, types of `internal/handler/file.go` | the configuration | load, authenticate, route, build links, type an upload | precedence and names of settings, proxies, overlapping route patterns |
| Web UI | `internal/handler/ui.go` | the page in the browser: selection, fetch, result card, banner | select, remove, submit, receive, fail | the selection changes while an upload is under way; answers are lost |
| Slug generator, database opening, health, HTML helpers | `internal/slug`, `internal/storage/db.go`, `internal/handler` | none | straight-line code | little |

Components interact through the two tables-and-bytes pairs only: handlers call
services, services call a repository and the byte store one call at a time, and
the worker calls the same repositories and the same store. Nothing holds a lock
across two calls. Writes go through a pool of one connection, so every SQL
statement is atomic and sees the latest commit; two statements are never atomic
together.

What makes each part correct:

- a published share stays complete until its expiry passes or its deletion is
  asked for, and is refused only for a reason its owner would accept;
- one-use content is handed out at most once, also when marks are lost or races
  are tight;
- a deletion answered with success is complete, and what expired is removed,
  with its bytes, even after failures;
- a signal ends the process in good order, and a panic of the worker does not
  end it or stop the sweeping;
- content appears under a key as a whole or not at all, and a reader gets all of
  one upload;
- the page shows the outcome of the last submission, and every link it shows
  leads to the handler and the share it is meant for, under the origin the
  operator or the browser knows the server by.

`PROJECT.json` lists under `hazards` the places where this can go wrong, each
with the properties that would notice.

## 2. Modules

| Module | Models | Extends |
|---|---|---|
| `ShareLink` | abstract: what any share link promises | |
| `ShareRow` | the row all three kinds have in common, and how it is judged at a time | |
| `FileShare` | file service, repository, handlers, dispatcher, file sweep | `ShareRow`, instance of `ShareLink` |
| `BucketShare` | bucket service, repository, handlers, bucket sweep | `ShareRow` |
| `PasteShare` | paste service, repository, handlers, dispatcher, paste sweep | `ShareRow`, instance of `ShareLink` |
| `Lifecycle` | main, the worker's goroutine, server and database handles | |
| `ByteStore` | abstract: what `filestore.Backend` promises its callers | |
| `LocalStore` | `LocalFS`, system call by system call | instance of `ByteStore` |
| `Front` | pure operators: configuration, basic auth, base URL, routes, content type | |
| `UploadPage` | the scripts of the upload and the paste form against the server's edge | `Front` |
| `ShareLinkProofs`, `FileShareProofs`, `PasteShareProofs`, `BucketShareProofs`, `LocalStoreProofs`, `LifecycleProofs`, `UploadPageProofs` | theorems and proofs | the module they are about, `TLAPS` |
| `FilePromiseProofs` | the one-use, password, deletion and refinement theorems of `FileShare` | `FileShareProofs` |
| `MC...` | instances for TLC | the module they instantiate |

Operators named in a comment as *Mutant* are wrong versions of the definition
after them. No specification uses them; each is a bug that one property is
known to catch (`mutants` in `PROJECT.json`).

### 2.1 State and steps of the share modules

Every HTTP request is a process with a program counter `pc` naming the call it
makes next; each call on a table or on the store is one step. `op`, `slug` and
`right` are what the request asks for and whether it carries the right password
or secret; `row` is the row an upload builds (in `BucketShare` also the row a
request has read); `reply` is its answer. `files` / `buckets`, `members` and
`blobs` are the tables and the directory. `todo` and `cur` are the sweep's list
and the entry it is at; `BucketShare` adds `listed` and `plan`, because its list
is built by one query per bucket, and `keys` and `left`, the loops over files.

Time is a clock of ticks, `TicksPerSecond` of them in a second. Rows keep whole
seconds, as the tables do (`Unix` is the truncation of `expiresAt.Unix()`),
readers compare ticks (`time.Now().After`), the sweep compares seconds
(`expires_at < unixepoch()`). This is where an expiry can be off by one, and it
is why the clock has two ticks a second in `file_faults` and the bucket runs.

Mishaps are the failures the code has branches for, counted by `mishaps`:

- `dbRead`: a query fails;
- `dbWrite`: a statement fails without effect;
- `dbLost`: a statement takes effect and is reported as failed, as when the
  request's context ends while SQLite commits;
- `disk`: an operation of the byte store fails;
- `rand`: no nonce can be drawn (pastes only);
- `crash`: the process dies and is started again; requests in flight are never
  answered, tables and bytes stay.

Decisions worth knowing:

- Requests arrive for published slugs only: others are not found. A request
  is used once; a retry is another request.
- Uploads draw slugs and keys nobody else has drawn. With 56^12 slugs a
  collision is negligible; the code has no retry for it.
- `RefuseUpload` stands for every early return before a byte is stored.
- The dispatcher's lookup and the handler's are separate steps. When the
  dispatcher turns to the paste handler, that handler knows no such slug, or
  fails.
- The routes for GET take HEAD too, with the same handlers; `net/http` drops the
  body. At `GET /{slug}` the operation "head" is therefore one of its own in
  `FileShare` and `PasteShare`: it marks one-use content, and nobody receives it
  (`Received` against `Served`). In `BucketShare` the operations view, zip and
  file stand for GET and HEAD alike, because none of its properties says that a
  body arrived; a HEAD of the archive spends a one-use bucket too.
- Opened bytes are read to the end even if they are unlinked meanwhile, so
  `StoreRead` is the moment of serving.
- The file that the ZIP stream cannot read ends the archive, but its deferred
  `Close` completes it: the request is answered `ok` with fewer `keys`.
- A bucket upload that finishes after its own expiry is answered, but the
  answer is `lost`: the server's WriteTimeout of 60 seconds is shorter than the
  shortest preset of ten minutes.

In `PasteShare` there is no byte store: `Get` returns the row with its content,
so a request holds what it will write out from `get` on, and a deletion cannot
take it back. `MarkViewed` decides who may go on. `View` then draws a nonce,
`Raw` writes the text at once; a HEAD request runs `View` and its body is thrown
away by `net/http`. `handler.View` has a branch for a nonce that cannot be
drawn, so the model has the mishap `rand` (since Go 1.24 `rand.Read` does not
return an error). The dispatcher's lookup of the file table comes first: for GET
every failure of it leads on to the paste handler, for a deletion a failure
other than "not found" leads to the file handler, which knows no such slug.

### 2.2 Lifecycle

`main` moves through serving, stopping (in `Cleanup.Stop`), draining (in
`Shutdown`), closing and returned; `worker` is in its `select`, in one of the
three sweeps, asleep after a panic, or has exited. Leaving the loop, by a return
or a panic, runs the deferred `close(done)`; closing it again ends the process.
`Shutdown` may return while requests are active: that is its deadline, recorded
in `timedOut`. `ServeFails` is the `os.Exit` of the serving goroutine.

### 2.3 LocalStore

A call is a process; `pc` names its next system call: create the temporary file,
copy a chunk, close, rename, and the deferred remove for `Write`; open and read
a chunk for `Read`; remove; stat. A file is named by the `Write` that made it,
`size` is how much of it is written, `dir` is what a key's path leads to,
`temps` the temporary names that exist. `reply` is settled before the deferred
remove runs. Each system call may fail (`disk`), and the process may die between
two of them (`crash`): what was renamed stays, a temporary file stays for ever,
because nothing looks for one at start. Two facts of the outside are assumed:
`os.CreateTemp` does not draw a name that a running `Write` is using, and an open
file stays readable when its path is removed or replaced.

`ByteStore` is what the services rely on: content is put, removed and opened in
one step and read as a whole. `FileShare` and `BucketShare` use the store this
way, so the refinement justifies their steps. `seen` is mapped to `Torn` when a
reader came to the end of less than a whole content; no step of `ByteStore`
produces it.

### 2.4 Front and UploadPage

`Front` holds the functions between a request and the handlers. Settings, URLs
and paths are sequences of their parts, because the code splits and joins them:
`EnvKey` turns the first underscore of a variable's name into a dot, `TrimRight`
drops trailing slashes, `Route` is the order in which `ServeMux` patterns and
the dispatchers decide. `Parse` is the loading of the settings: environment
before file before default, except that a variable such as `PBIN_AUTH` becomes
the bare key of a section and replaces its whole table in koanf's merge, so that
no setting of the section exists any more and the defaults hold. The properties
take `Operator` for what the operator has set. Files are classes of first bytes. `DetectContentType`
returns text types with their charset, so the comparison with a bare
`text/html` does not meet them; browsers are served such files as attachments.

`UploadPage` is one browser and that edge. `chosen` is `selectedFiles`, `rows`
the displayed list, `net` the fetch and the disabled button in one, `post` what
the submission captured (`isBucket`, the form data), `result`, `error` the card
and the banner. The user may change the selection, dismiss the banner or leave
the page at any time; the server accepts, refuses (401, 413, 500), or the
request or its answer is lost after the server may already have stored the
share. `last` records how the last submission ended, for the properties only.
Storing a share is one step here (`Store`); the share modules take it apart.

## 3. Runs

Bounds: one slug is enough for TLC, because operations on different slugs touch
different rows and bytes; that files do not disturb one another is part of what
`FileKept` proves for any set of slugs. One preset of a second and "never", and
in the safety runs two ticks a second and four ticks, let an expiry be reached, passed within its
second, and swept. The number of requests is what the longest interesting story
needs: an upload, two rivals and a deletion (four); three for buckets, whose
files are visited in steps of their own, and two, an upload and a deletion
racing the sweep, where liveness of buckets is checked. Requests and keys are
interchangeable, so the invariant runs use symmetry; the runs with liveness
properties do not. `file_reclaim` has one tick a second and two ticks, because
liveness and refinement are checked in it with three requests and two mishaps;
the rounding is checked in `file_faults`. Pastes are checked with three requests (a creation and two
rivals), one mishap, one tick a second and two ticks, because that run has
liveness and refinement in it: an expiry of a second is reached and passed, and
the rounding within a second is the files' `ShareRow`, checked there. The store
has three calls on one key, a Write racing a second Write or a Delete under a
reader, contents of two chunks, so that a file can be half written, and two
mishaps, so that an error path can fail too. The page has two slugs, so that an
older upload's card can be taken for a newer one's, three selections (an image,
a file too short to be one, two files), six environments (two of them with a
variable that names a section), two config files and two ways to reach the server.

Deadlock is checked for `ShareLink`, which never stops. In the other runs the
system rightly may: all requests are answered and the clock stands at its bound,
the process has ended, every call has returned, or a browser without
credentials can open nothing.

| Run | Checks | Shows |
|---|---|---|
| `link` | `AtMostOnce` | the abstract link keeps its promise |
| `file_faults` | `TypeOK`, `KeptUntilWithdrawn`, `OneUseServedOnce`, `PasswordGuards`, `DeletedIsGone`, `RefusalsJustified`, `SpentInVainOnlyBy` | one file, four requests, any two mishaps: the promises hold; without mishaps a one-use file is spent in vain only by a HEAD request, or by a visitor who finds the bytes withdrawn between the mark and their opening |
| `file_reclaim` | `NoBytesLeftBehind`, `ExpiredReclaimed`, `ImplementsShareLink` | in spite of any two database failures or crashes, expired files go with their bytes, and `FileShare` implements `ShareLink` |
| `bucket_faults` | `TypeOK`, `BucketKept`, `OneUseZipOnce`, `PasswordGuards`, `ZipComplete` | the same for buckets of up to two files |
| `bucket_reclaim` | `NoBytesLeftBehind`, `DeletedIsGone`, `ExpiredReclaimed` | buckets go with the bytes of every file |
| `paste` | `TypeOK`, `PasteKept`, `SpentInVainOnlyBy`, `PasswordGuards`, `RefusalsJustified`, `NoEntryAfterDelete`, `ExpiredReclaimed`, `ImplementsShareLink` | the same for pastes; a one-use paste can be spent without being shown only by a HEAD request or a mishap; `PasteShare` implements `ShareLink` |
| `store` | `WholeOrNothing`, `NoTempsLeft`, `ImplementsByteStore` | three concurrent calls, any two mishaps: no half-written file is visible, every error path removes its temporary file, `LocalStore` implements `ByteStore` |
| `page` | `TypeOK`, `ShowsOwnOutcome`, `LinksLeadBack`, `SettingsHold`, `ButtonReturns` | what the forms show is what was submitted and stored, links lead back to it, and settings hold whether they were given in the environment or in the file |
| `lifecycle` | `StopMeansStopped`, `NoWorkOnClosedDB`, `DrainOnlyShrinks`, `ShutdownCompletes`, `SweepsAgain` | a signal ends the process, in good order unless the worker panicked; nobody comes in once the drain has begun; the worker survives one panic and sweeps on |

That a one-use paste is answered for at most once is not a property of its own:
it is `AtMostOnce` of `ShareLink`, which `PasteShare` implements (theorem
`PasteAnsweredOnce`).

Three runs state what a document or a comment says and find that the code does
otherwise (`findings` has the quotations):

| Run | Property | What happens |
|---|---|---|
| `panics_crash` | `PanicsSurvived` | the panic closes `done`, so `Stop` no longer waits; the restarted loop closes it again when it ends, and the process dies |
| `file_not_found` | `NotFoundMeansWithdrawn` | a failed lookup turns GET of an existing file into 404 |
| `bucket_one_use` | `OneUseBucketOnce` | the single-file route ignores the one-use mark |

Behaviours a maintainer should know that the properties leave room for:

- A downloaded one-use file or a viewed one-use paste keeps its row, and the
  file its bytes, until it expires; without an expiry nothing deletes it.
- The sweep drops a row although deleting the bytes failed, and an `AddFile`
  that fails leaves the bucket's bytes and row. `NoBytesLeftBehind` is therefore
  checked without `disk` mishaps and is about what was published.
- A HEAD request, such as that of a link preview, spends a one-use file, bucket
  archive or paste (`SpentInVainOnlyBy` and `RefusalsJustified` allow it).
- A one-use file that is deleted, or swept, between a visitor's mark and the
  opening of its bytes is answered with an error.
- An archive is answered 200 although a file of it could not be read
  (`ZipComplete` is about downloads without a mishap or a withdrawal).
- A request that is still running ten seconds after the signal loses its
  database (`NoWorkOnClosedDB` allows it; `DrainOnlyShrinks` says which requests
  these can be).
- A variable such as `PBIN_AUTH=x` silently drops the `[auth]` table of the
  config file and every `PBIN_AUTH_...` variable: authentication is off
  (`SettingsHold` takes the defaults for what was set).
- A temporary file outlives a crash (`NoTempsLeft` allows it).
- The uploader who deletes a paste can be told "not found" after a failed lookup
  of the file table (`RefusalsJustified` allows it).

Fairness. The share modules assume that the clock advances and that the worker
is scheduled (`WF` on `Tick` and on each step of the sweep): its ticker fires
every 15 minutes as long as the process lives. Mishaps are bounded, and nothing
is assumed of clients or handlers. `Lifecycle` assumes that the worker and main
are scheduled (`WF`), that `Shutdown` returns, which its deadline guarantees,
and strong fairness of the `stop` case: Go's `select` picks among ready cases at
random, so a closed `stop` channel is taken in the end although ticks compete.
Requests may hang for ever. `UploadPage` assumes that a fetch settles: the server
answers, or its read and write timeouts close the connection and the fetch
fails; the user does as he likes. `LocalStore` needs no fairness.

## 4. Proofs

Every invariant and every action property that a run checks is also a theorem.
All proofs are for arbitrary constants: any sets of slugs, storage keys and
requests, any presets, any clock resolution, any set of fault kinds and any
bounds. They use the named assumptions of the modules only:

- `NoSlug`, `NoLink`, `NoRow` and `None` are not slugs, links or rows; `Nothing`
  and `Torn` are not calls; valid and invalid keys are different; the bounds
  are naturals; presets are naturals and a second has at least one tick;
- faults are of the kinds listed in 2.1;
- of the page: a selection is a non-empty list of files; the name of an
  environment variable has a word at least, and its words after the first are not
  just the name of a section (a `PBIN_X_AUTH` is not modelled); a size limit is an integer
  (`k.Int64` reads what is none as 0); a public URL is one part
  before its trailing slashes (`IsURL`); a slug is none of the words of the
  routes, since it has 12 characters; and the first proxy, or the server if there
  is none, sees the scheme the browser uses (`OriginAssumption`).

Each module of proofs has one inductive invariant, `...Inv`, whose parts stand at
the end of the component's module; TLC has checked them on the runs' instances.
In the share modules a second one, `PromiseInv`, is inductive relative to the
first.

| Property | Theorem | Property | Theorem |
|---|---|---|---|
| `AtMostOnce` | `LinkAtMostOnce` | `PasteKept` | `PasteIsKept` |
| `KeptUntilWithdrawn` | `FileKept` | `SpentInVainOnlyBy` (paste) | `PasteSpent` |
| `OneUseServedOnce` | `FileServedOnce` | `PasswordGuards` (paste) | `PastePassword` |
| `PasswordGuards` (file) | `FilePassword` | `RefusalsJustified` (paste) | `PasteRefusals` |
| `DeletedIsGone` (file) | `FileDeleted` | `NoEntryAfterDelete` | `PasteClosed` |
| `RefusalsJustified` (file) | `FileRefusals` | `ImplementsShareLink` (paste) | `PasteIsShareLink` |
| `SpentInVainOnlyBy` (file) | `FileSpent` | `WholeOrNothing` | `StoreWhole` |
| `NoBytesLeftBehind` (file) | `FileBytes` | `NoTempsLeft` | `StoreCleansUp` |
| `ImplementsShareLink` (file) | `FileIsShareLink` | `ImplementsByteStore` | `StoreRefines` |
| `BucketKept` | `BucketIsKept` | `StopMeansStopped` | `LifecycleStops` |
| `OneUseZipOnce` | `BucketZipOnce` | `NoWorkOnClosedDB` | `LifecycleDB` |
| `PasswordGuards` (bucket) | `BucketPassword` | `ShowsOwnOutcome` | `PageShowsOutcome` |
| `ZipComplete` | `BucketZip` | `LinksLeadBack` | `PageLinks` |
| `DeletedIsGone` (bucket) | `BucketDeleted` | `SettingsHold` | `PageSettings` |
| `NoBytesLeftBehind` (bucket) | `BucketBytes` | `TypeOK` | `...Types` |
| `DrainOnlyShrinks` | `LifecycleDrains` | | |

**`ShareLinkProofs`**. `LinkAtMostOnce` proves `Spec => []AtMostOnce`. The
property alone is not inductive: a second visit might hold a ticket. `LinkInv`
adds that a fresh one-use link has no holder and has served nobody, and that
afterwards at most one visit has the ticket or was served (`OneHolder`), and
that an unpublished link has no holder (`Unpublished`).

**`FileShareProofs`**. `FileKept` proves `Spec => []KeptUntilWithdrawn`, and
`FileTypes` type correctness, both from `FileSafe`: `Spec => []FileInv`. The
danger is every step that removes bytes or a row: the undo of a failed upload, a
deletion and the sweep. `FileInv` says why none of them meets a published file
that is not withdrawn:

- `RequestInv`: the place of a request determines its kind, and a deletion past
  its check carries the right secret, so its file is withdrawn;
- `UploadInv`: uploads have distinct slugs, and before the insert neither table
  nor sweep knows the slug, so an undo is never about another upload's file;
- `VisitInv`, `KnownInv`: every slug in use was drawn by an upload;
- `RowInv`: the row of a published file is the one its upload built, at most
  marked as downloaded, so the expiry in the table is the promised one;
- `SweepInv`: what the sweep holds has expired for readers too. Lemma
  `SweptIsExpired` is the arithmetic: `expires_at < unixepoch()` in whole
  seconds implies `now > expires_at` in ticks.

`FileInvStep` treats the steps of a request conjunct by conjunct (the lemmas
`Handle...`), then the sweep, the crash and the clock. Lemma `Unshared` is the
frame: a request's step leaves the slugs of other uploads alone.

**`FilePromiseProofs`**. `FilePromises` proves that `FileInv` and `PromiseInv`
hold together. A request decides on what it has read and acts on it several
steps later; `PromiseInv` records what it may rely on in between:

- `PassInv`: a request on its way to the mark or to the bytes has found a one-use
  row if it is to mark one, and carries the password of a protected one. Nothing
  is looked up again later, so this is carried from the check to the answer;
- `GoneInv`: a deletion that has come to the row has removed the bytes. Nobody
  writes them again, because only the upload of a slug writes, and it is over;
- `BytesInv`: the sweep too removes bytes before rows, so that a row that is gone
  has left none. This needs file operations that work, since the sweep goes on
  after a failed one; `FileBytes` therefore is about `"disk" \notin Faults`, as
  the run is;
- `SpentInVainOnlyBy` and `RefusalsJustified` themselves. The mark of a one-use
  file is followed by its reader, a HEAD or GET that was answered, or one that
  found the bytes gone, which without a mishap only a withdrawal can do. Lemma `ReasonsStay`
  is the point of the latter: a reason to refuse (expiry, withdrawal, another
  download, a mishap) never goes away, so an answer justified when it was decided
  is justified for ever.

`FileIsShareLink` is the refinement. A link is fresh while its row is unmarked,
spent when it is marked, and a visit holds a ticket from its successful mark (or
from `Get`, if the file is not one-use) until it is served. The insert is
`Publish`; `Get` of a reusable file is `Admit`; the mark of a one-use file is
`Spend`, or `SpendInVain` when it takes effect and is reported as failed; opening
the bytes is `Redeem` or, if that fails, `Forfeit`; removing the row is
`Withdraw`. A crash drops the tickets. All other steps leave the promises and the
visits as they are (`SamePromises`, `SameVisits`). `FileServedOnce` then takes
`LinkAtMostOnce` through an instance of `ShareLinkProofs` with the same mapping:
one-use is proved once, for the abstract link.

**`PasteShareProofs`**. The same for pastes, which have no bytes: `PasteInv` is
`FileInv` without them, `PromiseInv` has the `PassInv` and `GoneInv` of pastes and
the properties. A request that was let in holds the text, so `PasteClosed` speaks
of entries: no step lets a request in after a deletion was answered. `PasteSpent`
needs that a mark without an answer is followed by a HEAD's answer or a mishap.
`PasteIsShareLink` maps the steps as above; the answer is `Redeem`, a nonce that
cannot be drawn `Forfeit`. `PasteAnsweredOnce` follows as for files.

**`BucketShareProofs`**. `BucketKept` is about several rows and several bytes
that are inserted and removed one at a time, so `BucketInv` is about ownership:

- uploads have distinct slugs and disjoint sets of keys, and the tables, the
  sweep's list and its `plan` know under a slug only keys of its upload
  (`UploadInv`, `KnownInv`);
- whoever removes bytes, an upload that undoes, a deletion in its loop or the
  sweep, holds only keys of its own bucket (`HoldInv`), which is not published,
  withdrawn or expired (`SweepInv`);
- `StoredKept` strengthens `BucketKept` to buckets whose upload has inserted the
  row and is still inserting file rows: `members` is what the loop has done.

That an upload overtaken by its own expiry is answered `lost` (2.1) is what makes
`StoredKept` inductive at the last insert. `PromiseInv` adds `HolderInv` (an
unmarked one-use bucket is streamed to nobody, a marked one to at most one),
`ZipInv` (what an archive has sent and what is in its loop is everything),
`PassInv`, `GoneInv`, and `BytesInv` (whoever is about to delete the row has the
bytes that are left in its loop). Buckets do not implement `ShareLink`: the
single-file route ignores the one-use mark (`bucket_one_use`).

The lemmas come in two layers: frames (`UploadFrame`, `VisitorFrame`: what a step
of a request leaves alone) and one lemma per group of steps and conjunct.

**`LocalStoreProofs`**. `StoreWhole` proves `Spec => []WholeOrNothing`,
`StoreReaders` that a reader which came to the end has all of one `Write`, and
`StoreRefines` that `LocalStore` implements `ByteStore`, all from `StoreSafe`:
`Spec => []StoreInv`. `WholeOrNothing` alone is not inductive: `Rename` needs to
know that the file it moves is complete, a reader that its file will not grow.
`StoreInv` adds

- `CallInv`: the place of a call determines its kind, that its key is a valid one
  and whether its result is settled;
- `ContentInv`: a file being closed or renamed has all its chunks, and what a path
  leads to is `Complete`: written to the end by a `Write` that is past its rename;
- `ReaderInv`: the same of every open file, and a reader that was answered `ok`
  has read to that end.

Lemma `CompleteStays` is the heart: no step, not even a crash, makes a complete
file incomplete, since only `Copy` changes a file and only its own `Write` makes
that step. `StoreCleansUp` adds `TempInv`: a temporary name belongs to a `Write`
that has created it and has its remove or rename still before it, and a removal
that fails after another failure has cost two mishaps. In the refinement `Rename`, `Delete`, `Open` and the last `Stream` are
the steps of `ByteStore`; an I/O error and a crash abandon the readers
(`Abandoning`); every other step changes nothing there (`Stutter`).

**`LifecycleProofs`**. `DoneInv` says that `done` is closed, as long as there was
no panic, only by a worker that has exited, and that main is past `Stop` only if
it is closed. `ShutdownInv` is the order of main's steps: the listener is closed
before the drain, requests are done or the deadline has passed before the
database is closed. With `TypeOK` they are `LifecycleInv`, from which the three
safety theorems follow for any number of panics and requests: `DrainOnlyShrinks`
because a request comes in only through an open listener.

**`UploadPageProofs`**. `PageInv` relates the fetch to what was captured when it
was sent: `PostInv` says that the posted files are those then displayed, posted
as a bucket just if there are several, and that an answer's share was made from
them, however the selection has changed since. `ShareInv` and `CardInv` keep this
for the shares and the card. For `SettingsHold` the lemmas `EnvKeyInjective` and
`Loaded` show what the configuration holds: two variables never set the same
setting, so a setting is that of the one variable, or of the file, or the
default; `SectionName` finds the variable that has replaced the section. `PageLinks` needs no further invariant. `TrimRightURL`, `OriginOfLinks`
and the lemmas `...Routes` compute base URL and route for any slug and show that
no earlier pattern takes a link away from its handler.

Left to TLC: `ExpiredReclaimed`, `ShutdownCompletes`, `SweepsAgain` and
`ButtonReturns`, because liveness under fairness is beyond the prover, and the
three counterexamples of section 3.

## 5. Not modelled

- Database opening and migrations run once before anything is concurrent. The
  schema's constraints (primary key, foreign key, cascade) are in the table
  operations.
- Power loss: with `synchronous(NORMAL)` the last commits may be lost, and bytes
  are renamed without a sync. The crash of the models is that of the process.
- Colliding slugs, and `slug.New` itself: one random draw per character.
- Characters: the escaping of names and passwords, the syntax of TOML and JSON,
  syntax highlighting. Passwords and secrets are right or wrong.
- Port, host and directories of the configuration, the health answer, response
  headers, styles, copy buttons, and form fields that are passed through.
- Timing of the constant-time comparisons.

## 6. Plan

The system's state-changing parts are modelled, and their safety properties are
proved. What could follow:

1. More action properties as theorems: a published row changes only by its
   one-use mark, and the steps of a deletion never come back.
2. The progress arguments behind the liveness properties, as far as they are
   safety: what a sweep lists it removes unless a mishap happens.
