----------------------------- MODULE PasteShare -----------------------------
(***************************************************************************)
(* Paste shares of pbin: the HTTP handlers and the slug dispatcher, the    *)
(* paste service, the pastes table and the cleanup worker's paste sweep.   *)
(* The content of a paste is part of its row, so a reader holds it from    *)
(* the moment it has looked the row up, and there is no byte store.  Both  *)
(* the page and the raw text use up a one-use paste, and so does a HEAD    *)
(* request, which net/http routes to the GET handler and whose body it     *)
(* throws away.                                                            *)
(*                                                                         *)
(* Mishaps are the failures the code has branches for: a query that fails, *)
(* a write that fails without effect, a write that takes effect but is     *)
(* reported as failed, a nonce that cannot be drawn, and a crash.          *)
(***************************************************************************)
EXTENDS ShareRow

CONSTANTS
    Slugs,           \* slugs slug.New may draw
    Requests,        \* HTTP requests, each answered at most once
    NoSlug,          \* "no slug yet"
    MaxTime,         \* bound: the last tick of the clock
    Faults,          \* the kinds of mishap that may happen
    MaxMishaps       \* bound: how many of them may happen

ASSUME PasteSlugAssumption == NoSlug \notin Slugs
ASSUME PasteBoundAssumption == MaxTime \in Nat /\ MaxMishaps \in Nat
ASSUME PasteFaultAssumption == Faults \subseteq {"dbRead", "dbWrite", "dbLost", "rand", "crash"}

VARIABLES
    pastes,   \* the pastes table: slug -> row (downloaded: viewed_at is set)
    now,      \* the clock, in ticks
    op,       \* what each request asks for
    slug,     \* the slug it is about
    right,    \* whether it carries the right password or delete secret
    row,      \* the row a creation builds: what its answer promises
    pc,       \* the call each request is about to make
    reply,    \* its answer
    todo,     \* expired slugs the sweep still has to delete
    mishaps   \* how many mishaps have happened

request == <<op, slug, right, row>>
vars    == <<pastes, now, op, slug, right, row, pc, reply, todo, mishaps>>

Reads   == {"view", "raw", "head"}
Ops     == {"none", "create", "delete"} \cup Reads
Calls   == {"new", "create", "get", "mark", "render", "fileDelete", "delete", "drop", "done"}
Replies == {"none", "created", "ok", "refused", "notFound", "expired", "consumed",
            "wrongPassword", "badSecret", "failed", "lost"}

TypeOK ==
    /\ pastes \in [Slugs -> Rows \cup {NoRow}]
    /\ now \in Nat
    /\ op \in [Requests -> Ops]
    /\ slug \in [Requests -> Slugs \cup {NoSlug}]
    /\ right \in [Requests -> BOOLEAN]
    /\ row \in [Requests -> Rows \cup {NoRow}]
    /\ pc \in [Requests -> Calls]
    /\ reply \in [Requests -> Replies]
    /\ todo \in SUBSET Slugs
    /\ mishaps \in Nat

Init ==
    /\ pastes = [s \in Slugs |-> NoRow]
    /\ now = 0
    /\ op = [r \in Requests |-> "none"]
    /\ slug = [r \in Requests |-> NoSlug]
    /\ right = [r \in Requests |-> FALSE]
    /\ row = [r \in Requests |-> NoRow]
    /\ pc = [r \in Requests |-> "new"]
    /\ reply = [r \in Requests |-> "none"]
    /\ todo = {}
    /\ mishaps = 0

-----------------------------------------------------------------------------
(* Steps of a request. *)

Goto(r, call) == /\ pc' = [pc EXCEPT ![r] = call]
                 /\ reply' = reply

Reply(r, code) == /\ pc' = [pc EXCEPT ![r] = "done"]
                  /\ reply' = [reply EXCEPT ![r] = code]

Fault(kind) == /\ kind \in Faults
               /\ mishaps < MaxMishaps
               /\ mishaps' = mishaps + 1

NoFault == mishaps' = mishaps

(* A creation was answered with its links. *)
Issued(c) == op[c] = "create" /\ reply[c] = "created"

Published(s) == \E c \in Requests : Issued(c) /\ slug[c] = s

(* A request arrives for a slug somebody was told about. *)
Arrive(r, what, s, good) ==
    /\ pc[r] = "new"
    /\ Published(s)
    /\ op' = [op EXCEPT ![r] = what]
    /\ slug' = [slug EXCEPT ![r] = s]
    /\ right' = [right EXCEPT ![r] = good]
    /\ row' = row

Expired(p) == ExpiredAt(p, now)

-----------------------------------------------------------------------------
(* POST /api/paste *)

(* Every early return before the insert: bad JSON, empty content, unknown  *)
(* expiry preset, slug or hash generation failing.                         *)
RefuseCreate(r) ==
    /\ pc[r] = "new"
    /\ op' = [op EXCEPT ![r] = "create"]
    /\ Reply(r, "refused")
    /\ UNCHANGED <<pastes, now, slug, right, row, todo, mishaps>>

(* The slug is drawn, the entity built and the expiry computed. *)
Create(r, s, oneUse, protected, d) ==
    /\ pc[r] = "new"
    /\ \A q \in Requests : slug[q] # s
    /\ op' = [op EXCEPT ![r] = "create"]
    /\ slug' = [slug EXCEPT ![r] = s]
    /\ row' = [row EXCEPT ![r] = NewRow(oneUse, protected, d, now)]
    /\ Goto(r, "create")
    /\ UNCHANGED <<pastes, now, right, todo, mishaps>>

(* Mutant: the values of the INSERT are shifted by a column. *)
InsertShifted(r) == pastes' = [pastes EXCEPT ![slug[r]] = slug[r]]

Insert(r) == pastes' = [pastes EXCEPT ![slug[r]] = row[r]]

(* A failed insert is reported; nothing is undone. *)
RepoCreate(r) ==
    /\ pc[r] = "create"
    /\ \/ Insert(r) /\ Reply(r, "created") /\ NoFault
       \/ pastes' = pastes /\ Reply(r, "failed") /\ Fault("dbWrite")
       \/ Insert(r) /\ Reply(r, "failed") /\ Fault("dbLost")
    /\ UNCHANGED <<now, request, todo>>

-----------------------------------------------------------------------------
(* GET and HEAD /{slug}, GET /{slug}/raw *)

(* The dispatcher asks the file service first.  No file has the slug of a  *)
(* paste; "not found" and any failure of that lookup both lead to View.    *)
DispatchView(r, s, what, good) ==
    /\ Arrive(r, what, s, good)
    /\ Goto(r, "get")
    /\ NoFault \/ Fault("dbRead")
    /\ UNCHANGED <<pastes, now, todo>>

(* The raw text has a route of its own. *)
Raw(r, s, good) ==
    /\ Arrive(r, "raw", s, good)
    /\ Goto(r, "get")
    /\ UNCHANGED <<pastes, now, todo, mishaps>>

(* Mutant: an unreadable row is taken for a missing one. *)
GetErrorIsAbsence(r) ==
    /\ pc[r] = "get"
    /\ LET p == pastes[slug[r]]
           verdict == Admission(p, right[r], now)
       IN \/ verdict = "ok" /\ Goto(r, IF p.oneUse THEN "mark" ELSE "render") /\ NoFault
          \/ verdict # "ok" /\ Reply(r, verdict) /\ NoFault
          \/ Reply(r, "notFound") /\ Fault("dbRead")
    /\ UNCHANGED <<pastes, now, request, todo>>

(* Get looks the row up, with its content, and checks it. *)
Get(r) ==
    /\ pc[r] = "get"
    /\ LET p == pastes[slug[r]]
           verdict == Admission(p, right[r], now)
       IN \/ verdict = "ok" /\ Goto(r, IF p.oneUse THEN "mark" ELSE "render") /\ NoFault
          \/ verdict # "ok" /\ Reply(r, verdict) /\ NoFault
          \/ Reply(r, "failed") /\ Fault("dbRead")
    /\ UNCHANGED <<pastes, now, request, todo>>

Mark(s) == pastes' = IF Fresh(pastes[s]) THEN [pastes EXCEPT ![s] = Downloaded(@)] ELSE pastes

(* Mutant: an error of MarkViewed is ignored. *)
MarkViewedUnchecked(r) ==
    /\ pc[r] = "mark"
    /\ \/ Fresh(pastes[slug[r]]) /\ Mark(slug[r]) /\ Goto(r, "render") /\ NoFault
       \/ ~Fresh(pastes[slug[r]]) /\ pastes' = pastes /\ Reply(r, "consumed") /\ NoFault
       \/ pastes' = pastes /\ Goto(r, "render") /\ Fault("dbWrite")
    /\ UNCHANGED <<now, request, todo>>

(* Mutant: the result of MarkViewed is read the wrong way round. *)
MarkViewedInverted(r) ==
    /\ pc[r] = "mark"
    /\ \/ Fresh(pastes[slug[r]]) /\ Mark(slug[r]) /\ Reply(r, "consumed")
       \/ ~Fresh(pastes[slug[r]]) /\ pastes' = pastes /\ Goto(r, "render")
    /\ UNCHANGED <<now, request, todo, mishaps>>

MarkViewed(r) ==
    /\ pc[r] = "mark"
    /\ \/ Fresh(pastes[slug[r]]) /\ Mark(slug[r]) /\ Goto(r, "render") /\ NoFault
       \/ ~Fresh(pastes[slug[r]]) /\ pastes' = pastes /\ Reply(r, "consumed") /\ NoFault
       \/ pastes' = pastes /\ Reply(r, "failed") /\ Fault("dbWrite")
       \/ Mark(slug[r]) /\ Reply(r, "failed") /\ Fault("dbLost")
    /\ UNCHANGED <<now, request, todo>>

(* The content read by Get is written out.  The page needs a nonce first.  *)
Render(r) ==
    /\ pc[r] = "render"
    /\ \/ Reply(r, "ok") /\ NoFault
       \/ op[r] # "raw" /\ Reply(r, "failed") /\ Fault("rand")
    /\ UNCHANGED <<pastes, now, request, todo>>

-----------------------------------------------------------------------------
(* GET /delete/{slug}/{secret} *)

(* "Not found" leads to the paste handler, any other failure of the file   *)
(* lookup to the file handler.                                             *)
DispatchDelete(r, s, good) ==
    /\ Arrive(r, "delete", s, good)
    /\ \/ Goto(r, "delete") /\ NoFault
       \/ Goto(r, "fileDelete") /\ Fault("dbRead")
    /\ UNCHANGED <<pastes, now, todo>>

(* The file handler asked to delete a paste knows no such slug; the mishap *)
(* that sent the request here may make this lookup fail as well.           *)
FileDelete(r) ==
    /\ pc[r] = "fileDelete"
    /\ \E code \in {"notFound", "failed"} : Reply(r, code)
    /\ UNCHANGED <<pastes, now, request, todo, mishaps>>

Delete(r) ==
    /\ pc[r] = "delete"
    /\ LET p == pastes[slug[r]]
       IN \/ p = NoRow /\ Reply(r, "notFound") /\ NoFault
          \/ p # NoRow /\ ~right[r] /\ Reply(r, "badSecret") /\ NoFault
          \/ p # NoRow /\ right[r] /\ Goto(r, "drop") /\ NoFault
          \/ Reply(r, "failed") /\ Fault("dbRead")
    /\ UNCHANGED <<pastes, now, request, todo>>

DropRow(s) == pastes' = [pastes EXCEPT ![s] = NoRow]

(* Mutant: an error of the DELETE statement is ignored. *)
RepoDeleteUnchecked(r) ==
    /\ pc[r] = "drop"
    /\ \/ DropRow(slug[r]) /\ NoFault
       \/ pastes' = pastes /\ Fault("dbWrite")
    /\ Reply(r, "ok")
    /\ UNCHANGED <<now, request, todo>>

RepoDelete(r) ==
    /\ pc[r] = "drop"
    /\ \/ DropRow(slug[r]) /\ Reply(r, "ok") /\ NoFault
       \/ pastes' = pastes /\ Reply(r, "failed") /\ Fault("dbWrite")
       \/ DropRow(slug[r]) /\ Reply(r, "failed") /\ Fault("dbLost")
    /\ UNCHANGED <<now, request, todo>>

-----------------------------------------------------------------------------
(* The cleanup worker's paste sweep, one ticker event after another. *)

(* Mutant: pastes that were viewed are not listed. *)
ListExpiredUnviewed == {s \in Slugs : SweepableAt(pastes[s], now) /\ Fresh(pastes[s])}

ListExpired == {s \in Slugs : SweepableAt(pastes[s], now)}

SweepList ==
    /\ todo = {}
    /\ \/ ListExpired # {} /\ todo' = ListExpired /\ NoFault
       \/ todo' = {} /\ Fault("dbRead")
    /\ UNCHANGED <<pastes, now, request, pc, reply>>

(* An error is logged and the sweep goes on with the next row. *)
SweepRepoDelete ==
    /\ \E s \in todo :
        /\ todo' = todo \ {s}
        /\ \/ DropRow(s) /\ NoFault
           \/ pastes' = pastes /\ Fault("dbWrite")
           \/ DropRow(s) /\ Fault("dbLost")
    /\ UNCHANGED <<now, request, pc, reply>>

-----------------------------------------------------------------------------
(* The process dies and is started again: requests in flight get no answer,*)
(* the table stays as it is.                                               *)
Crash ==
    /\ Fault("crash")
    /\ LET inFlight == {r \in Requests : pc[r] \notin {"new", "done"}}
       IN /\ pc' = [r \in Requests |-> IF r \in inFlight THEN "done" ELSE pc[r]]
          /\ reply' = [r \in Requests |-> IF r \in inFlight THEN "lost" ELSE reply[r]]
    /\ todo' = {}
    /\ UNCHANGED <<pastes, now, request>>

Tick ==
    /\ now < MaxTime
    /\ now' = now + 1
    /\ UNCHANGED <<pastes, request, pc, reply, todo, mishaps>>

Handle(r) ==
    \/ RefuseCreate(r) \/ RepoCreate(r)
    \/ Get(r) \/ MarkViewed(r) \/ Render(r)
    \/ FileDelete(r) \/ Delete(r) \/ RepoDelete(r)
    \/ \E s \in Slugs :
        \/ \E oneUse, protected \in BOOLEAN, d \in Expiries : Create(r, s, oneUse, protected, d)
        \/ \E good \in BOOLEAN :
            \/ \E what \in {"view", "head"} : DispatchView(r, s, what, good)
            \/ Raw(r, s, good) \/ DispatchDelete(r, s, good)

Sweep == SweepList \/ SweepRepoDelete

Next == (\E r \in Requests : Handle(r)) \/ Sweep \/ Crash \/ Tick

Spec == Init /\ [][Next]_vars

(* The clock runs, and the worker's goroutine is scheduled: its ticker     *)
(* fires again after every sweep.  Nothing is assumed of clients.          *)
Fairness == WF_vars(Tick) /\ WF_vars(SweepList) /\ WF_vars(SweepRepoDelete)

FairSpec == Spec /\ Fairness

-----------------------------------------------------------------------------
(* Properties *)

AskedToDelete(s) ==
    \E r \in Requests : op[r] = "delete" /\ slug[r] = s /\ right[r]

(* The promise of creation c may be over: its deletion was asked for, or   *)
(* the expiry its answer stated has passed.                                *)
Withdrawn(c) == AskedToDelete(slug[c]) \/ Expired(row[c])

(* The handler wrote the content out for the request. *)
Answered(r, s) == op[r] \in Reads /\ slug[r] = s /\ reply[r] = "ok"

(* The visitor really has the content: the body of a HEAD is dropped. *)
Shown(r, s) == Answered(r, s) /\ op[r] # "head"

(* The request has been let in and is about to be answered. *)
Admitted(r, s) == op[r] \in Reads /\ slug[r] = s /\ pc[r] = "render"

(* A paste whose creation was answered with links, that is neither past    *)
(* its expiry nor asked to be deleted, has its row as promised: no sweep,  *)
(* no failed request and no crash takes it away early.                     *)
PasteKept ==
    \A c \in Requests : Issued(c) /\ ~Withdrawn(c) =>
        pastes[slug[c]] \in {row[c], Downloaded(row[c])}

(* A one-use paste is spent in vain, without anybody being shown it or     *)
(* about to be, only by a mishap or by a HEAD request.                     *)
SpentInVainOnlyBy ==
    \A c \in Requests :
        /\ Issued(c) /\ pastes[slug[c]] # NoRow /\ pastes[slug[c]].downloaded
        /\ mishaps = 0
        => \E r \in Requests :
             \/ Shown(r, slug[c]) \/ Admitted(r, slug[c])
             \/ op[r] = "head" /\ slug[r] = slug[c] /\ reply[r] = "ok"

(* Only the right password shows a protected paste or uses it up.          *)
PasswordGuards ==
    \A c \in Requests : Issued(c) /\ row[c].protected =>
        /\ \A r \in Requests : Answered(r, slug[c]) \/ Admitted(r, slug[c]) => right[r]
        /\ pastes[slug[c]] # NoRow /\ pastes[slug[c]].downloaded =>
             \E r \in Requests : op[r] \in Reads /\ slug[r] = slug[c] /\ right[r]

(* When a deletion has been answered with success, nobody is let in any    *)
(* more; a reader that already holds the content may still write it out.   *)
NoEntryAfterDelete ==
    [][\A d, r \in Requests :
         op[d] = "delete" /\ reply[d] = "ok" /\ slug[r] = slug[d] /\ pc'[r] = "render"
            => pc[r] = "render"]_vars

(* There is a reason for "already viewed": somebody was let in, something  *)
(* went wrong, or the paste was withdrawn.                                 *)
UsedUp(c) ==
    \/ mishaps > 0 \/ Withdrawn(c)
    \/ \E q \in Requests : Answered(q, slug[c]) \/ Admitted(q, slug[c])

(* What a refusal may be given for.  A reader is told "not found" only     *)
(* after a withdrawal, whatever fails; the uploader who deletes may be     *)
(* told so wrongly, but only after a failed lookup.                        *)
Justified(c, r) ==
    /\ reply[r] = "expired" => Expired(row[c])
    /\ reply[r] = "notFound" /\ (op[r] \in Reads \/ mishaps = 0) => Withdrawn(c)
    /\ reply[r] = "failed" => mishaps > 0
    /\ reply[r] = "consumed" => row[c].oneUse /\ UsedUp(c)

(* Every request for a published paste that is turned down is turned down  *)
(* for such a reason.                                                      *)
RefusalsJustified ==
    \A c, r \in Requests :
        Issued(c) /\ slug[r] = slug[c] /\ op[r] \in Reads \cup {"delete"} => Justified(c, r)

(* A row with an expiry the clock can pass is swept away, even if sweeps   *)
(* fail or the process crashes half way; also the row of a creation that   *)
(* was reported as failed although its insert took effect.                 *)
ExpiredReclaimed ==
    \A s \in Slugs :
        (pastes[s] # NoRow /\ pastes[s].expiresAt # Never /\ pastes[s].expiresAt < Unix(MaxTime))
            ~> (pastes[s] = NoRow)

-----------------------------------------------------------------------------
(* Why PasteKept holds: the inductive invariant of its proof. *)

(* What the place of a request says about its kind and its answer; the     *)
(* file handler is only asked to delete a paste after a failed lookup.     *)
RequestInv ==
    \A r \in Requests :
        /\ pc[r] = "new" => op[r] = "none" /\ slug[r] = NoSlug
        /\ op[r] = "none" => pc[r] = "new"
        /\ reply[r] = "none" <=> pc[r] # "done"
        /\ pc[r] = "create" => op[r] = "create"
        /\ pc[r] \in {"get", "mark", "render"} => op[r] \in Reads
        /\ pc[r] \in {"fileDelete", "delete", "drop"} => op[r] = "delete"
        /\ pc[r] = "drop" => right[r]
        /\ pc[r] = "fileDelete" => mishaps > 0
        /\ op[r] = "create" /\ reply[r] \in {"none", "created"} =>
             slug[r] \in Slugs /\ row[r] \in Rows

(* Other requests are about slugs that were published. *)
VisitInv ==
    \A r \in Requests : op[r] \in Reads \cup {"delete"} =>
        slug[r] \in Slugs /\ Published(slug[r])

(* Creations draw distinct slugs; before its insert nobody else knows one. *)
CreateInv ==
    /\ \A c, d \in Requests :
         op[c] = "create" /\ op[d] = "create" /\ slug[c] = slug[d] /\ slug[c] # NoSlug => c = d
    /\ \A c \in Requests : pc[c] = "create" => pastes[slug[c]] = NoRow /\ slug[c] \notin todo

(* The table and the sweep know no slug but the ones creations have drawn. *)
KnownInv ==
    \A s \in Slugs : pastes[s] # NoRow \/ s \in todo => \E c \in Requests : slug[c] = s

(* The row of a published paste is the one its creation built.             *)
RowInv ==
    \A c \in Requests : Issued(c) /\ pastes[slug[c]] # NoRow =>
        pastes[slug[c]] \in {row[c], Downloaded(row[c])}

(* The sweep only holds published slugs whose promised expiry has passed.  *)
SweepInv ==
    \A c \in Requests : Issued(c) /\ slug[c] \in todo => Expired(row[c])

PasteInv == /\ TypeOK /\ RequestInv /\ VisitInv /\ CreateInv
            /\ KnownInv /\ RowInv /\ SweepInv /\ PasteKept

-----------------------------------------------------------------------------
(* Why the other properties hold, given PasteInv. *)

(* Rows are built unmarked; a request that Get let in has found a one-use  *)
(* row if it is to mark it, and carries the password if there is one.      *)
PassInv ==
    /\ \A c \in Requests : row[c] # NoRow => ~row[c].downloaded
    /\ \A c, r \in Requests : Issued(c) /\ slug[r] = slug[c] =>
         /\ pc[r] = "mark" => row[c].oneUse
         /\ row[c].protected /\ pc[r] = "mark" => right[r]

(* A row that was deleted does not come back.                              *)
GoneInv ==
    \A r \in Requests : op[r] = "delete" /\ reply[r] = "ok" => pastes[slug[r]] = NoRow

PromiseInv == PassInv /\ GoneInv /\ PasswordGuards /\ SpentInVainOnlyBy /\ RefusalsJustified

-----------------------------------------------------------------------------
(* A paste share is a share link. *)

LinkStatus(s) ==
    IF ~Published(s) THEN "none"
    ELSE IF pastes[s] = NoRow THEN "gone"
    ELSE IF ~pastes[s].oneUse THEN "open"
    ELSE IF pastes[s].downloaded THEN "spent" ELSE "fresh"

Link == INSTANCE ShareLink WITH
    Links  <- Slugs,
    Visits <- Requests,
    NoLink <- NoSlug,
    status <- [s \in Slugs |-> LinkStatus(s)],
    once   <- {s \in Slugs : \E c \in Requests : Issued(c) /\ slug[c] = s /\ row[c].oneUse},
    ticket <- [r \in Requests |-> IF pc[r] = "render" THEN slug[r] ELSE NoSlug],
    served <- [s \in Slugs |-> {r \in Requests : Answered(r, s)}]

(* Whatever happens behind it, a paste share behaves as a share link.      *)
ImplementsShareLink == Link!Spec
=============================================================================
