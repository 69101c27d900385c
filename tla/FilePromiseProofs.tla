------------------------- MODULE FilePromiseProofs -------------------------
(* What a file share promises its uploader and its visitors, beyond being  *)
(* kept: PromiseInv is inductive relative to FileInv, for any numbers of   *)
(* slugs and requests, any clock and any mishaps.  Then: a file share is a *)
(* share link, hence serves a one-use file at most once.                   *)
EXTENDS FileShareProofs

(* The row of a published file has the options and the expiry its upload   *)
(* promised.                                                               *)
LEMMA PromisedRow ==
    ASSUME FileInv, NEW u \in Requests, Issued(u)
    PROVE  /\ slug[u] \in Slugs /\ row[u] \in Rows /\ row[u] # NoRow
           /\ files[slug[u]] # NoRow =>
                /\ files[slug[u]].oneUse = row[u].oneUse
                /\ files[slug[u]].protected = row[u].protected
                /\ files[slug[u]].expiresAt = row[u].expiresAt
<1>1. slug[u] \in Slugs /\ row[u] \in Rows BY DEF FileInv, RequestInv, Issued
<1>2. row[u] # NoRow BY <1>1, RowAssumption
<1>3. files[slug[u]] # NoRow => files[slug[u]] \in {row[u], Downloaded(row[u])}
  BY DEF FileInv, RowInv
<1> QED BY <1>1, <1>2, <1>3 DEF Downloaded, Rows

(* MarkDownloaded changes the mark of a row that exists, nothing else.     *)
LEMMA MarkEffect ==
    ASSUME FileInv, NEW s \in Slugs, Mark(s)
    PROVE  /\ \A t \in Slugs : t # s => files'[t] = files[t]
           /\ files'[s] = NoRow <=> files[s] = NoRow
           /\ files[s] # NoRow => files'[s] = Downloaded(files[s]) \/ files'[s] = files[s]
<1>1. CASE Fresh(files[s])
  <2>1. files[s] \in Rows BY <1>1 DEF FileInv, TypeOK, Fresh
  <2>2. Downloaded(files[s]) \in Rows BY <2>1 DEF Downloaded, Rows
  <2>3. Downloaded(files[s]) # NoRow BY <2>2, RowAssumption
  <2>4. files' = [files EXCEPT ![s] = Downloaded(files[s])] BY <1>1 DEF Mark
  <2> QED BY <1>1, <2>3, <2>4 DEF FileInv, TypeOK, Fresh
<1>2. CASE ~Fresh(files[s]) BY <1>2 DEF Mark
<1> QED BY <1>1, <1>2

(* A marked row is a row. *)
LEMMA DownloadedRow == ASSUME NEW f \in Rows PROVE Downloaded(f) \in Rows /\ Downloaded(f) # NoRow
<1>1. Downloaded(f) \in Rows BY DEF Downloaded, Rows
<1> QED BY <1>1, RowAssumption

(* A published file that lacks its row or its bytes is withdrawn. *)
LEMMA GoneIsWithdrawn ==
    ASSUME FileInv, NEW u \in Requests, Issued(u),
           files[slug[u]] = NoRow \/ slug[u] \notin blobs
    PROVE  Withdrawn(u)
<1>1. row[u] # NoRow /\ Downloaded(row[u]) # NoRow BY PromisedRow, DownloadedRow
<1> QED BY <1>1 DEF FileInv, KeptUntilWithdrawn

(* What every step of a request leaves alone. *)
LEMMA HandleFrame ==
    ASSUME FileInv, NEW r \in Requests, Handle(r)
    PROVE  /\ pc[r] # "done" /\ now' = now /\ UNCHANGED sweeper
           /\ mishaps' \in Nat /\ mishaps' >= mishaps
           /\ \A x \in Requests :
                /\ x # r => pc'[x] = pc[x] /\ reply'[x] = reply[x]
                /\ x # r \/ op[r] # "none" =>
                     op'[x] = op[x] /\ slug'[x] = slug[x] /\ right'[x] = right[x] /\ row'[x] = row[x]
<1> DEFINE Q == /\ pc[r] # "done" /\ now' = now /\ UNCHANGED sweeper
                /\ mishaps' \in Nat /\ mishaps' >= mishaps
                /\ \A x \in Requests :
                     /\ x # r => pc'[x] = pc[x] /\ reply'[x] = reply[x]
                     /\ x # r \/ op[r] # "none" =>
                          op'[x] = op[x] /\ slug'[x] = slug[x] /\ right'[x] = right[x] /\ row'[x] = row[x]
<1> SUFFICES Q OBVIOUS
<1> USE DEF FileInv, TypeOK, Reads, RequestInv, request, sweeper, table, Fault, NoFault
<1>1. CASE RefuseUpload(r) BY <1>1 DEF RefuseUpload, Reply
<1>2. CASE StoreWrite(r) BY <1>2 DEF StoreWrite, Goto, Reply
<1>3. CASE RepoCreate(r) BY <1>3 DEF RepoCreate, Insert, Goto, Reply
<1>4. CASE UploadUndo(r) BY <1>4 DEF UploadUndo, Reply
<1>5. CASE Get(r) BY <1>5 DEF Get, Admission, Goto, Reply
<1>6. CASE MarkDownloaded(r) BY <1>6 DEF MarkDownloaded, Mark, Fresh, Downloaded, Goto, Reply
<1>7. CASE StoreRead(r) BY <1>7 DEF StoreRead, Reply
<1>8. CASE Delete(r) BY <1>8 DEF Delete, Goto, Reply
<1>9. CASE StoreDelete(r) BY <1>9 DEF StoreDelete, Goto, Reply
<1>10. CASE RepoDelete(r) BY <1>10 DEF RepoDelete, DropRow, Reply
<1>11. ASSUME NEW s \in Slugs, NEW oneUse \in BOOLEAN, NEW protected \in BOOLEAN,
               NEW d \in Expiries, Upload(r, s, oneUse, protected, d)
       PROVE  Q
  BY <1>11 DEF Upload, Goto
<1>12. ASSUME NEW s \in Slugs, NEW good \in BOOLEAN, NEW what \in Reads,
               DispatchGet(r, s, what, good)
       PROVE  Q
  BY <1>12 DEF DispatchGet, Reads, GetMeta, Arrive, Goto, Reply
<1>13. ASSUME NEW s \in Slugs, NEW good \in BOOLEAN, DispatchDelete(r, s, good)
       PROVE  Q
  BY <1>13 DEF DispatchDelete, GetMeta, Arrive, Goto, Reply
<1>14. ASSUME NEW s \in Slugs, Info(r, s)
       PROVE  Q
  <2>1. /\ pc[r] = "new" /\ right' = [right EXCEPT ![r] = FALSE] /\ row' = row
        /\ op' = [op EXCEPT ![r] = "info"] /\ slug' = [slug EXCEPT ![r] = s]
    BY <1>14 DEF Info, Arrive
  <2>2. \A x \in Requests \ {r} : right'[x] = right[x] BY <2>1, Zenon
  <2>3. /\ now' = now /\ UNCHANGED sweeper /\ mishaps' \in Nat /\ mishaps' >= mishaps
        /\ \A x \in Requests \ {r} : pc'[x] = pc[x] /\ reply'[x] = reply[x]
    BY <1>14 DEF Info, Reply
  <2> QED BY <2>1, <2>2, <2>3
<1> QED BY <1>1, <1>2, <1>3, <1>4, <1>5, <1>6, <1>7, <1>8, <1>9, <1>10, <1>11, <1>12, <1>13, <1>14 DEF Handle

(* Who goes on to mark or to read has passed the checks of Get. *)
LEMMA HandlePass ==
    ASSUME FileInv, PromiseInv, TypeOK', FileInv', NEW r \in Requests, Handle(r)
    PROVE  PassInv'
<1> USE SlugAssumption DEF FileInv, TypeOK, Reads, RequestInv, VisitInv, UploadInv, Issued, request, sweeper, table, PromiseInv, PassInv, RowInv, Served, Published
<1>1. CASE RefuseUpload(r) BY <1>1 DEF RefuseUpload, Reply
<1>2. CASE StoreWrite(r) BY <1>2 DEF StoreWrite, Goto, Reply
<1>3. CASE RepoCreate(r) BY <1>3 DEF RepoCreate, Insert, Goto, Reply
<1>4. CASE UploadUndo(r) BY <1>4 DEF UploadUndo, Reply
<1>5. CASE Get(r)
  <2> SUFFICES ASSUME NEW u \in Requests, NEW q \in Requests, Issued(u)', slug'[q] = slug'[u]
               PROVE  /\ pc'[q] = "mark" => row'[u].oneUse
                      /\ row'[u].protected /\ (pc'[q] \in {"mark", "read"} \/ Served(q, slug[u])')
                           => right'[q]
    BY <1>5 DEF Get
  <2>1. Issued(u) /\ slug[q] = slug[u] /\ UNCHANGED request BY <1>5 DEF Get, Goto, Reply
  <2>2. CASE q # r BY <1>5, <2>1, <2>2 DEF Get, Goto, Reply
  <2>3. CASE q = r /\ pc'[r] \in {"mark", "read"}
    <3>1. Admission(files[slug[r]], right[r], now) = "ok"
          /\ pc'[r] = (IF files[slug[r]].oneUse THEN "mark" ELSE "read")
      BY <1>5, <2>3 DEF Get, Goto, Reply
    <3>2. files[slug[r]] # NoRow /\ (files[slug[r]].protected => right[r])
      BY <3>1 DEF Admission
    <3>3. files[slug[r]].oneUse = row[u].oneUse /\ files[slug[r]].protected = row[u].protected
      BY <2>1, <2>3, <3>2, PromisedRow
    <3> QED BY <2>1, <2>3, <3>1, <3>2, <3>3
  <2>4. CASE q = r /\ pc'[r] \notin {"mark", "read"}
    BY <1>5, <2>1, <2>4 DEF Get, Admission, Goto, Reply
  <2> QED BY <2>2, <2>3, <2>4
<1>6. CASE MarkDownloaded(r) BY <1>6 DEF MarkDownloaded, Mark, Fresh, Downloaded, Goto, Reply
<1>7. CASE StoreRead(r) BY <1>7 DEF StoreRead, Reply
<1>8. CASE Delete(r) BY <1>8 DEF Delete, Goto, Reply
<1>9. CASE StoreDelete(r) BY <1>9 DEF StoreDelete, Goto, Reply
<1>10. CASE RepoDelete(r) BY <1>10 DEF RepoDelete, DropRow, Reply
<1>11. ASSUME NEW s \in Slugs, NEW oneUse \in BOOLEAN, NEW protected \in BOOLEAN,
               NEW d \in Expiries, Upload(r, s, oneUse, protected, d)
       PROVE  PassInv'
  BY <1>11 DEF Upload, Goto, NewRow
<1>12. ASSUME NEW s \in Slugs, NEW good \in BOOLEAN, NEW what \in Reads,
               DispatchGet(r, s, what, good)
       PROVE  PassInv'
  BY <1>12 DEF DispatchGet, Reads, GetMeta, Arrive, Goto, Reply
<1>13. ASSUME NEW s \in Slugs, NEW good \in BOOLEAN, DispatchDelete(r, s, good)
       PROVE  PassInv'
  BY <1>13 DEF DispatchDelete, GetMeta, Arrive, Goto, Reply
<1>14. ASSUME NEW s \in Slugs, Info(r, s)
       PROVE  PassInv'
  BY <1>14 DEF Info, GetMeta, Arrive, Reply
<1> QED BY <1>1, <1>2, <1>3, <1>4, <1>5, <1>6, <1>7, <1>8, <1>9, <1>10, <1>11, <1>12, <1>13, <1>14 DEF Handle

(* The mark is set by nobody without the password. *)
LEMMA HandlePassword ==
    ASSUME FileInv, PromiseInv, TypeOK', FileInv', NEW r \in Requests, Handle(r)
    PROVE  PasswordGuards'
<1> USE SlugAssumption DEF FileInv, TypeOK, Reads, RequestInv, VisitInv, UploadInv, Issued, request, sweeper, table, PromiseInv, PassInv, PasswordGuards, RowInv, Served, Published
<1>1. CASE RefuseUpload(r) BY <1>1 DEF RefuseUpload, Reply
<1>2. CASE StoreWrite(r) BY <1>2 DEF StoreWrite, Goto, Reply
<1>3. CASE RepoCreate(r) BY <1>3 DEF RepoCreate, Insert, Goto, Reply
<1>4. CASE UploadUndo(r) BY <1>4 DEF UploadUndo, Reply
<1>5. CASE Get(r) BY <1>5 DEF Get, Admission, Goto, Reply
<1>6. CASE MarkDownloaded(r) BY <1>6 DEF MarkDownloaded, Mark, Fresh, Downloaded, Goto, Reply
<1>7. CASE StoreRead(r) BY <1>7 DEF StoreRead, Reply
<1>8. CASE Delete(r) BY <1>8 DEF Delete, Goto, Reply
<1>9. CASE StoreDelete(r) BY <1>9 DEF StoreDelete, Goto, Reply
<1>10. CASE RepoDelete(r) BY <1>10 DEF RepoDelete, DropRow, Reply
<1>11. ASSUME NEW s \in Slugs, NEW oneUse \in BOOLEAN, NEW protected \in BOOLEAN,
               NEW d \in Expiries, Upload(r, s, oneUse, protected, d)
       PROVE  PasswordGuards'
  BY <1>11 DEF Upload, Goto
<1>12. ASSUME NEW s \in Slugs, NEW good \in BOOLEAN, NEW what \in Reads,
               DispatchGet(r, s, what, good)
       PROVE  PasswordGuards'
  BY <1>12 DEF DispatchGet, Reads, GetMeta, Arrive, Goto, Reply
<1>13. ASSUME NEW s \in Slugs, NEW good \in BOOLEAN, DispatchDelete(r, s, good)
       PROVE  PasswordGuards'
  BY <1>13 DEF DispatchDelete, GetMeta, Arrive, Goto, Reply
<1>14. ASSUME NEW s \in Slugs, Info(r, s)
       PROVE  PasswordGuards'
  BY <1>14 DEF Info, GetMeta, Arrive, Reply
<1> QED BY <1>1, <1>2, <1>3, <1>4, <1>5, <1>6, <1>7, <1>8, <1>9, <1>10, <1>11, <1>12, <1>13, <1>14 DEF Handle

(* What a deletion has removed stays away. *)
LEMMA HandleGone ==
    ASSUME FileInv, PromiseInv, TypeOK', FileInv', NEW r \in Requests, Handle(r)
    PROVE  GoneInv' /\ DeletedIsGone'
<1> USE SlugAssumption DEF FileInv, TypeOK, Reads, RequestInv, VisitInv, UploadInv, Issued, request, sweeper, table, PromiseInv, GoneInv, DeletedIsGone, Published
<1>1. CASE RefuseUpload(r) BY <1>1 DEF RefuseUpload, Reply
<1>2. CASE StoreWrite(r) BY <1>2 DEF StoreWrite, Goto, Reply
<1>3. CASE RepoCreate(r) BY <1>3 DEF RepoCreate, Insert, Goto, Reply
<1>4. CASE UploadUndo(r) BY <1>4 DEF UploadUndo, Reply
<1>5. CASE Get(r) BY <1>5 DEF Get, Admission, Goto, Reply
<1>6. CASE MarkDownloaded(r) BY <1>6 DEF MarkDownloaded, Mark, Fresh, Downloaded, Goto, Reply
<1>7. CASE StoreRead(r) BY <1>7 DEF StoreRead, Reply
<1>8. CASE Delete(r) BY <1>8 DEF Delete, Goto, Reply
<1>9. CASE StoreDelete(r) BY <1>9 DEF StoreDelete, Goto, Reply
<1>10. CASE RepoDelete(r) BY <1>10 DEF RepoDelete, DropRow, Reply
<1>11. ASSUME NEW s \in Slugs, NEW oneUse \in BOOLEAN, NEW protected \in BOOLEAN,
               NEW d \in Expiries, Upload(r, s, oneUse, protected, d)
       PROVE  GoneInv' /\ DeletedIsGone'
  BY <1>11 DEF Upload, Goto
<1>12. ASSUME NEW s \in Slugs, NEW good \in BOOLEAN, NEW what \in Reads,
               DispatchGet(r, s, what, good)
       PROVE  GoneInv' /\ DeletedIsGone'
  BY <1>12 DEF DispatchGet, Reads, GetMeta, Arrive, Goto, Reply
<1>13. ASSUME NEW s \in Slugs, NEW good \in BOOLEAN, DispatchDelete(r, s, good)
       PROVE  GoneInv' /\ DeletedIsGone'
  BY <1>13 DEF DispatchDelete, GetMeta, Arrive, Goto, Reply
<1>14. ASSUME NEW s \in Slugs, Info(r, s)
       PROVE  GoneInv' /\ DeletedIsGone'
  BY <1>14 DEF Info, GetMeta, Arrive, Reply
<1> QED BY <1>1, <1>2, <1>3, <1>4, <1>5, <1>6, <1>7, <1>8, <1>9, <1>10, <1>11, <1>12, <1>13, <1>14 DEF Handle

(* Bytes go before their row. *)
LEMMA HandleBytes ==
    ASSUME FileInv, PromiseInv, TypeOK', FileInv', NEW r \in Requests, Handle(r)
    PROVE  BytesInv'
<1> USE SlugAssumption DEF FileInv, TypeOK, Reads, RequestInv, VisitInv, UploadInv, Issued, request, sweeper, table, PromiseInv, GoneInv, BytesInv, NoBytesLeftBehind, Published, Fault, NoFault
<1>1. CASE RefuseUpload(r) BY <1>1 DEF RefuseUpload, Reply
<1>2. CASE StoreWrite(r) BY <1>2 DEF StoreWrite, Goto, Reply
<1>3. CASE RepoCreate(r)
  <2>1. \A u \in Requests : Issued(u)' => u = r \/ (Issued(u) /\ slug[u] # slug[r])
    BY <1>3, Unshared DEF RepoCreate, Goto, Reply
  <2>2. \A s \in Slugs : s # slug[r] => files'[s] = files[s]
    BY <1>3 DEF RepoCreate, Insert
  <2>3. Issued(r)' => files'[slug[r]] # NoRow /\ slug[r] # cur
    BY <1>3, RowAssumption DEF RepoCreate, Insert, Goto
  <2> QED BY <1>3, <2>1, <2>2, <2>3 DEF RepoCreate
<1>4. CASE UploadUndo(r) BY <1>4 DEF UploadUndo, Reply
<1>5. CASE Get(r) BY <1>5 DEF Get, Admission, Goto, Reply
<1>6. CASE MarkDownloaded(r)
  <2>1. \A s \in Slugs : files'[s] = NoRow <=> files[s] = NoRow
    BY <1>6, MarkEffect DEF MarkDownloaded
  <2> QED BY <1>6, <2>1 DEF MarkDownloaded, Goto, Reply
<1>7. CASE StoreRead(r) BY <1>7 DEF StoreRead, Reply
<1>8. CASE Delete(r) BY <1>8 DEF Delete, Goto, Reply
<1>9. CASE StoreDelete(r) BY <1>9 DEF StoreDelete, Goto, Reply
<1>10. CASE RepoDelete(r) BY <1>10 DEF RepoDelete, DropRow, Reply
<1>11. ASSUME NEW s \in Slugs, NEW oneUse \in BOOLEAN, NEW protected \in BOOLEAN,
               NEW d \in Expiries, Upload(r, s, oneUse, protected, d)
       PROVE  BytesInv'
  BY <1>11 DEF Upload, Goto
<1>12. ASSUME NEW s \in Slugs, NEW good \in BOOLEAN, NEW what \in Reads,
               DispatchGet(r, s, what, good)
       PROVE  BytesInv'
  BY <1>12 DEF DispatchGet, Reads, GetMeta, Arrive, Goto, Reply
<1>13. ASSUME NEW s \in Slugs, NEW good \in BOOLEAN, DispatchDelete(r, s, good)
       PROVE  BytesInv'
  BY <1>13 DEF DispatchDelete, GetMeta, Arrive, Goto, Reply
<1>14. ASSUME NEW s \in Slugs, Info(r, s)
       PROVE  BytesInv'
  BY <1>14 DEF Info, GetMeta, Arrive, Reply
<1> QED BY <1>1, <1>2, <1>3, <1>4, <1>5, <1>6, <1>7, <1>8, <1>9, <1>10, <1>11, <1>12, <1>13, <1>14 DEF Handle

(* Whoever sets the mark goes on to read, and is answered with the file or *)
(* loses it to a withdrawal or to a mishap.                                *)
LEMMA HandleSpent ==
    ASSUME FileInv, PromiseInv, TypeOK', FileInv', NEW r \in Requests, Handle(r)
    PROVE  SpentInVainOnlyBy'
<1> USE SlugAssumption DEF FileInv, TypeOK, Reads, RequestInv, VisitInv, UploadInv, Issued, request, sweeper, table, PromiseInv, PassInv, SpentInVainOnlyBy, Served, Received, Reading, KeptUntilWithdrawn, Withdrawn, AskedToDelete, Expired, ExpiredAt, Fault, NoFault
<1>1. CASE RefuseUpload(r) BY <1>1 DEF RefuseUpload, Reply
<1>2. CASE StoreWrite(r) BY <1>2 DEF StoreWrite, Goto, Reply
<1>3. CASE RepoCreate(r) BY <1>3 DEF RepoCreate, Insert, Goto, Reply
<1>4. CASE UploadUndo(r) BY <1>4 DEF UploadUndo, Reply
<1>5. CASE Get(r) BY <1>5 DEF Get, Admission, Goto, Reply
<1>6. CASE MarkDownloaded(r) BY <1>6 DEF MarkDownloaded, Mark, Fresh, Downloaded, Goto, Reply
<1>7. CASE StoreRead(r) BY <1>7 DEF StoreRead, Reply
<1>8. CASE Delete(r) BY <1>8 DEF Delete, Goto, Reply
<1>9. CASE StoreDelete(r) BY <1>9 DEF StoreDelete, Goto, Reply
<1>10. CASE RepoDelete(r) BY <1>10 DEF RepoDelete, DropRow, Reply
<1>11. ASSUME NEW s \in Slugs, NEW oneUse \in BOOLEAN, NEW protected \in BOOLEAN,
               NEW d \in Expiries, Upload(r, s, oneUse, protected, d)
       PROVE  SpentInVainOnlyBy'
  BY <1>11 DEF Upload, Goto
<1>12. ASSUME NEW s \in Slugs, NEW good \in BOOLEAN, NEW what \in Reads,
               DispatchGet(r, s, what, good)
       PROVE  SpentInVainOnlyBy'
  BY <1>12 DEF DispatchGet, Reads, GetMeta, Arrive, Goto, Reply
<1>13. ASSUME NEW s \in Slugs, NEW good \in BOOLEAN, DispatchDelete(r, s, good)
       PROVE  SpentInVainOnlyBy'
  BY <1>13 DEF DispatchDelete, GetMeta, Arrive, Goto, Reply
<1>14. ASSUME NEW s \in Slugs, Info(r, s)
       PROVE  SpentInVainOnlyBy'
  BY <1>14 DEF Info, GetMeta, Arrive, Reply
<1> QED BY <1>1, <1>2, <1>3, <1>4, <1>5, <1>6, <1>7, <1>8, <1>9, <1>10, <1>11, <1>12, <1>13, <1>14 DEF Handle

(* A withdrawal is final, and so is the reason for "already downloaded":   *)
(* who is reading an existing file is served, or something goes wrong.     *)
LEMMA ReasonsStay ==
    ASSUME FileInv, NEW r \in Requests, Handle(r), NEW u \in Requests, Issued(u)
    PROVE  /\ Expired(row[u]) => Expired(row[u])'
           /\ Withdrawn(u) => Withdrawn(u)'
           /\ UsedUp(u) => UsedUp(u)'
<1>1. u # r /\ reply[u] # "none" /\ slug[u] \in Slugs BY HandleFrame DEF FileInv, RequestInv, Issued
<1>2. slug'[u] = slug[u] /\ row'[u] = row[u] /\ now' = now BY <1>1, HandleFrame
<1>3. Expired(row[u]) => Expired(row[u])' BY <1>2 DEF Expired, ExpiredAt
<1>4. Withdrawn(u) => Withdrawn(u)'
  <2>1. ASSUME NEW x \in Requests, op[x] = "delete", slug[x] = slug[u], right[x]
        PROVE  op'[x] = "delete" /\ slug'[x] = slug'[u] /\ right'[x]
    BY <2>1, <1>2, HandleFrame
  <2> QED BY <1>2, <1>3, <2>1 DEF Withdrawn, AskedToDelete
<1>5. ASSUME NEW x \in Requests, Served(x, slug[u]) \/ Reading(x, slug[u])
      PROVE  UsedUp(u)'
  <2>1. x # r => Served(x, slug[u])' \/ Reading(x, slug[u])'
    BY <1>2, <1>5, HandleFrame DEF Served, Reading
  <2>2. CASE x = r
    \* r is in StoreRead: it is served, the bytes are gone, or the store fails
    <3>1. pc[r] = "read" /\ op[r] \in Reads BY <1>5, <2>2, HandleFrame DEF Served, Reading, FileInv, RequestInv
    <3>2. StoreRead(r)
      BY <3>1 DEF Handle, RefuseUpload, StoreWrite, RepoCreate, UploadUndo, Get, MarkDownloaded,
                  Delete, StoreDelete, RepoDelete, Upload, DispatchGet, DispatchDelete, Info, Arrive
    <3>3. CASE slug[r] \in blobs /\ Reply(r, "ok") /\ NoFault
      BY <1>2, <1>5, <2>2, <3>1, <3>3, HandleFrame DEF Reply, Reads, Served, Reading, UsedUp, FileInv, TypeOK
    <3>4. CASE slug[r] \notin blobs
      BY <1>4, <1>5, <2>2, <3>4 DEF FileInv, KeptUntilWithdrawn, UsedUp, Served, Reading
    <3>5. CASE Fault("disk") BY <3>5 DEF Fault, UsedUp, FileInv, TypeOK
    <3> QED BY <3>2, <3>3, <3>4, <3>5 DEF StoreRead
  <2> QED BY <2>1, <2>2, <1>2 DEF UsedUp
<1>6. mishaps > 0 => mishaps' > 0 BY HandleFrame DEF FileInv, TypeOK
<1> QED BY <1>3, <1>4, <1>5, <1>6 DEF UsedUp

(* A request is turned down only for a reason. *)
LEMMA HandleRefusals ==
    ASSUME FileInv, PromiseInv, FileInv', NEW r \in Requests, Handle(r)
    PROVE  RefusalsJustified'
<1> SUFFICES ASSUME NEW u \in Requests, NEW q \in Requests, Issued(u)', slug'[q] = slug'[u],
                    op'[q] \in Reads \cup {"info", "delete"}
             PROVE  Justified(u, q)'
  BY DEF RefusalsJustified
<1>1. CASE ~Issued(u)
  \* u is published in this step: nobody else has its slug
  <2>1. u = r BY <1>1, HandleFrame DEF Issued
  <2>2. RepoCreate(r)
    BY <1>1, <2>1 DEF Handle, RefuseUpload, StoreWrite, UploadUndo, Get, MarkDownloaded, StoreRead,
       Delete, StoreDelete, RepoDelete, Upload, DispatchGet, DispatchDelete, Info, Arrive, Goto, Reply,
       Issued, FileInv, TypeOK, RequestInv, GetMeta, Admission
  <2>3. pc[r] = "create" /\ op[r] = "upload" /\ q # r
    BY <2>1, <2>2, HandleFrame DEF RepoCreate, Reads, FileInv, RequestInv
  <2>4. slug[q] = slug[r] /\ op[q] \in Reads \cup {"info", "delete"} BY <2>1, <2>3, HandleFrame
  <2> QED BY <2>3, <2>4, Unshared
<1>2. CASE Issued(u)
  <2>1. u # r /\ slug'[u] = slug[u] /\ row'[u] = row[u] /\ slug[u] \in Slugs
    BY <1>2, HandleFrame DEF FileInv, RequestInv, Issued
  <2>2. CASE q # r \/ op[r] # "none"
    <3>1. op'[q] = op[q] /\ slug[q] = slug[u] BY <2>1, <2>2, HandleFrame
    <3>2. Justified(u, q) BY <1>2, <3>1 DEF PromiseInv, RefusalsJustified
    <3>3. CASE reply'[q] = reply[q]
      BY <1>2, <2>1, <3>1, <3>2, <3>3, ReasonsStay, HandleFrame DEF Justified, FileInv, TypeOK
    <3>4. CASE reply'[q] # reply[q]
      <4>1. q = r BY <3>4, HandleFrame
      <4>2. files[slug[r]] = NoRow \/ slug[r] \notin blobs => Withdrawn(u)'
        BY <1>2, <3>1, <4>1, GoneIsWithdrawn, ReasonsStay
      <4>3. CASE Get(r)
        <5>1. files[slug[r]] # NoRow /\ Expired(files[slug[r]]) => Expired(row[u])'
          BY <1>2, <2>1, <3>1, <4>1, PromisedRow, HandleFrame DEF Expired, ExpiredAt
        <5> QED BY <3>1, <4>1, <4>2, <4>3, <5>1 DEF Get, Admission, Expired, Goto, Reply, Fault,
                   Justified, FileInv, TypeOK, RequestInv
      <4>4. CASE MarkDownloaded(r)
        <5>1. row[u].oneUse BY <1>2, <3>1, <4>1, <4>4 DEF MarkDownloaded, PromiseInv, PassInv
        <5>2. ~Fresh(files[slug[r]]) => UsedUp(u)
          BY <1>2, <3>1, <4>1, GoneIsWithdrawn
             DEF Fresh, UsedUp, PromiseInv, SpentInVainOnlyBy, Reads, Served, Received, FileInv, TypeOK
        <5>3. reply'[r] = "consumed" => UsedUp(u)'
          BY <1>2, <3>4, <4>1, <4>4, <5>2, ReasonsStay DEF MarkDownloaded, Goto, Reply, FileInv, TypeOK
        <5>4. \/ reply'[r] = reply[r] \/ reply'[r] = "consumed"
              \/ reply'[r] = "failed" /\ mishaps' = mishaps + 1
          BY <4>4 DEF MarkDownloaded, Goto, Reply, Fault, FileInv, TypeOK
        <5> QED BY <2>1, <3>4, <4>1, <5>1, <5>3, <5>4 DEF Justified, FileInv, TypeOK
      <4>5. CASE StoreRead(r)
        BY <3>1, <4>1, <4>2, <4>5 DEF StoreRead, Reply, Fault, Justified, FileInv, TypeOK
      <4>6. CASE Delete(r)
        <5>1. \/ reply'[r] = "notFound" /\ files[slug[r]] = NoRow
              \/ reply'[r] = "badSecret" \/ reply'[r] = reply[r]
              \/ reply'[r] = "failed" /\ mishaps' = mishaps + 1
          BY <4>6 DEF Delete, Goto, Reply, Fault, FileInv, TypeOK
        <5> QED BY <3>4, <4>1, <4>2, <5>1 DEF Justified, FileInv, TypeOK
      <4>7. CASE StoreDelete(r)
        <5>1. \/ reply'[r] = reply[r]
              \/ reply'[r] = "failed" /\ mishaps' = mishaps + 1
          BY <4>7 DEF StoreDelete, Goto, Reply, Fault, FileInv, TypeOK
        <5> QED BY <3>4, <4>1, <5>1 DEF Justified, FileInv, TypeOK
      <4>8. CASE RepoDelete(r)
        BY <3>1, <4>1, <4>8 DEF RepoDelete, Reply, Fault, Justified, FileInv, TypeOK
      <4> QED BY <2>2, <3>1, <4>1, <4>3, <4>4, <4>5, <4>6, <4>7, <4>8
             DEF Handle, RefuseUpload, StoreWrite, RepoCreate, UploadUndo, Upload, DispatchGet,
                 DispatchDelete, Info, Arrive, Reads, FileInv, RequestInv
    <3> QED BY <3>3, <3>4
  <2>3. CASE q = r /\ op[r] = "none"
    \* r has just arrived
    <3>1. \A s \in Slugs : s = slug[u] /\ files[s] = NoRow => Withdrawn(u)'
      BY <1>2, GoneIsWithdrawn, ReasonsStay
    <3>2. files[slug[u]] # NoRow /\ Expired(files[slug[u]]) => Expired(row[u])'
      BY <1>2, <2>1, PromisedRow, HandleFrame DEF Expired, ExpiredAt
    <3>3. ASSUME NEW s \in Slugs, NEW good \in BOOLEAN, NEW what \in Reads, DispatchGet(r, s, what, good)
          PROVE  Justified(u, q)'
      BY <2>1, <2>3, <3>1, <3>3 DEF DispatchGet, Reads, GetMeta, Arrive, Goto, Reply, Fault, Justified,
         FileInv, TypeOK, RequestInv
    <3>4. ASSUME NEW s \in Slugs, NEW good \in BOOLEAN, DispatchDelete(r, s, good) PROVE Justified(u, q)'
      BY <2>1, <2>3, <3>1, <3>4 DEF DispatchDelete, GetMeta, Arrive, Goto, Reply, Fault, Justified,
         FileInv, TypeOK, RequestInv
    <3>5. ASSUME NEW s \in Slugs, Info(r, s) PROVE Justified(u, q)'
      BY <2>1, <2>3, <3>1, <3>2, <3>5 DEF Info, GetMeta, Arrive, Reply, Fault, Justified,
         FileInv, TypeOK, RequestInv
    <3> QED BY <2>3, <3>3, <3>4, <3>5 DEF Handle, RefuseUpload, StoreWrite, RepoCreate, UploadUndo, Get,
           MarkDownloaded, StoreRead, Delete, StoreDelete, RepoDelete, Upload, Reads, FileInv, TypeOK, RequestInv
  <2> QED BY <2>2, <2>3
<1> QED BY <1>1, <1>2

-----------------------------------------------------------------------------
(* The sweep answers nobody and marks no row: it only takes away what has  *)
(* expired, the bytes before the row.                                      *)
LEMMA SweepPromises ==
    ASSUME FileInv, PromiseInv, FileInv', Sweep
    PROVE  PromiseInv'
<1> USE DEF FileInv, TypeOK, Sweep, SweepList, SweepStoreDelete, SweepRepoDelete, DropRow, Fault, NoFault
<1>1. UNCHANGED <<now, op, slug, right, row, pc, reply>> /\ mishaps' >= mishaps BY DEF request
<1>2. \A s \in Slugs : files'[s] = files[s] \/ files'[s] = NoRow BY SlugAssumption DEF table
<1>3. blobs' \subseteq blobs BY DEF table
<1>4. \A u \in Requests : (Issued(u)' <=> Issued(u)) /\ (Issued(u) => slug[u] \in Slugs)
  BY <1>1 DEF Issued, RequestInv
<1>5. \A u \in Requests : Withdrawn(u)' <=> Withdrawn(u)
  BY <1>1 DEF Withdrawn, AskedToDelete, Expired, ExpiredAt
<1>6. \A r \in Requests, s \in Slugs :
        (Served(r, s)' <=> Served(r, s)) /\ (Reading(r, s)' <=> Reading(r, s))
  BY <1>1 DEF Served, Reading
<1>7. PassInv' BY <1>1, <1>4, <1>6 DEF PromiseInv, PassInv
<1>8. PasswordGuards' BY <1>1, <1>2, <1>4, <1>6 DEF PromiseInv, PasswordGuards
<1>9. GoneInv' /\ DeletedIsGone'
  BY <1>1, <1>2, <1>3, <1>4 DEF PromiseInv, GoneInv, DeletedIsGone, VisitInv, RequestInv
<1>10. BytesInv'
  <2> SUFFICES ASSUME "disk" \notin Faults
               PROVE  /\ \A u \in Requests : Issued(u) /\ slug[u] = cur' => cur' \notin blobs'
                      /\ \A u \in Requests : Issued(u) /\ files'[slug[u]] = NoRow => slug[u] \notin blobs'
    BY <1>1, <1>4 DEF BytesInv, NoBytesLeftBehind
  <2>1. CASE SweepList
    BY <2>1, SlugAssumption DEF PromiseInv, BytesInv, NoBytesLeftBehind, table
  <2>2. CASE SweepStoreDelete
    <3>1. cur' \notin blobs' /\ files' = files BY <2>2
    <3> QED BY <1>3, <3>1 DEF PromiseInv, BytesInv, NoBytesLeftBehind
  <2>3. CASE SweepRepoDelete
    <3>1. \A s \in Slugs : files'[s] = NoRow => files[s] = NoRow \/ s = cur BY <2>3
    <3> QED BY <1>4, <2>3, <3>1, SlugAssumption DEF PromiseInv, BytesInv, NoBytesLeftBehind
  <2> QED BY <2>1, <2>2, <2>3
<1>11. SpentInVainOnlyBy' BY <1>1, <1>2, <1>4, <1>5, <1>6 DEF PromiseInv, SpentInVainOnlyBy, Received
<1>12. RefusalsJustified'
  <2> SUFFICES ASSUME NEW u \in Requests, NEW r \in Requests, Issued(u), slug[r] = slug[u],
                      op[r] \in Reads \cup {"info", "delete"}
               PROVE  Justified(u, r)'
    BY <1>1, <1>4 DEF RefusalsJustified
  <2>1. Justified(u, r) BY DEF PromiseInv, RefusalsJustified
  <2>2. UsedUp(u) => UsedUp(u)' BY <1>1, <1>4, <1>5, <1>6 DEF UsedUp
  <2> QED BY <1>1, <1>5, <2>1, <2>2 DEF Justified, Expired, ExpiredAt
<1> QED BY <1>7, <1>8, <1>9, <1>10, <1>11, <1>12 DEF PromiseInv

(* A crash is a mishap: who was in flight gets no answer, hence no refusal.*)
LEMMA CrashPromises ==
    ASSUME FileInv, PromiseInv, FileInv', Crash
    PROVE  PromiseInv'
<1> USE DEF FileInv, TypeOK, Crash, request, table
<1>1. \A r \in Requests :
        \/ pc[r] \in {"new", "done"} /\ pc'[r] = pc[r] /\ reply'[r] = reply[r]
        \/ pc[r] \notin {"new", "done"} /\ pc'[r] = "done" /\ reply'[r] = "lost" /\ reply[r] = "none"
  BY DEF RequestInv
<1>2. mishaps' > 0 BY DEF Fault
<1>3. \A u \in Requests : (Issued(u)' <=> Issued(u)) /\ (Issued(u) => slug[u] \in Slugs)
  BY <1>1 DEF Issued, RequestInv
<1>4. \A u \in Requests : Withdrawn(u)' <=> Withdrawn(u)
  BY DEF Withdrawn, AskedToDelete, Expired, ExpiredAt
<1>5. \A r \in Requests, s \in Slugs : Served(r, s)' <=> Served(r, s) BY <1>1 DEF Served
<1>6. PassInv' BY <1>1, <1>3, <1>5 DEF PromiseInv, PassInv
<1>7. PasswordGuards' BY <1>3, <1>5 DEF PromiseInv, PasswordGuards
<1>8. GoneInv' /\ DeletedIsGone' BY <1>1 DEF PromiseInv, GoneInv, DeletedIsGone
<1>9. BytesInv' BY <1>3, SlugAssumption DEF PromiseInv, BytesInv, NoBytesLeftBehind
<1>10. SpentInVainOnlyBy' BY <1>2 DEF SpentInVainOnlyBy
<1>11. RefusalsJustified'
  <2> SUFFICES ASSUME NEW u \in Requests, NEW r \in Requests, Issued(u), slug[r] = slug[u],
                      op[r] \in Reads \cup {"info", "delete"}
               PROVE  Justified(u, r)'
    BY <1>3 DEF RefusalsJustified
  <2>1. Justified(u, r) BY DEF PromiseInv, RefusalsJustified
  <2>2. reply'[r] = reply[r] \/ reply'[r] = "lost" BY <1>1
  <2>3. UsedUp(u)' BY <1>2 DEF UsedUp
  <2>4. mishaps' # 0 BY <1>2
  <2> QED BY <1>4, <2>1, <2>2, <2>3, <2>4 DEF Justified, Expired, ExpiredAt
<1> QED BY <1>6, <1>7, <1>8, <1>9, <1>10, <1>11 DEF PromiseInv

(* As time passes, reasons to refuse are only added. *)
LEMMA TickPromises ==
    ASSUME FileInv, PromiseInv, FileInv', Tick
    PROVE  PromiseInv'
<1> USE DEF FileInv, Tick, request, table, sweeper
<1>1. \A u \in Requests : (Issued(u)' <=> Issued(u)) /\ (Issued(u) => slug[u] \in Slugs /\ row[u] \in Rows)
  BY DEF Issued, RequestInv
<1>2. \A u \in Requests : Issued(u) /\ Expired(row[u]) => Expired(row[u])'
  <2> SUFFICES ASSUME NEW u \in Requests, Issued(u), Expired(row[u])
               PROVE  now' > row[u].expiresAt * TicksPerSecond
    BY DEF Expired, ExpiredAt
  <2>1. row[u].expiresAt * TicksPerSecond \in Int /\ now \in Nat
    BY <1>1, ClockAssumption DEF Rows, TypeOK
  <2> QED BY <2>1 DEF Expired, ExpiredAt
<1>3. \A u \in Requests : Issued(u) /\ Withdrawn(u) => Withdrawn(u)'
  BY <1>2 DEF Withdrawn, AskedToDelete
<1>4. \A r \in Requests, s \in Slugs :
        (Served(r, s)' <=> Served(r, s)) /\ (Reading(r, s)' <=> Reading(r, s))
  BY DEF Served, Reading
<1>5. PassInv' BY <1>1, <1>4 DEF PromiseInv, PassInv
<1>6. PasswordGuards' BY <1>1, <1>4 DEF PromiseInv, PasswordGuards
<1>7. GoneInv' /\ DeletedIsGone' BY DEF PromiseInv, GoneInv, DeletedIsGone
<1>8. BytesInv' BY <1>1 DEF PromiseInv, BytesInv, NoBytesLeftBehind
<1>9. SpentInVainOnlyBy' BY <1>1, <1>3, <1>4 DEF PromiseInv, SpentInVainOnlyBy, Received
<1>10. RefusalsJustified'
  <2> SUFFICES ASSUME NEW u \in Requests, NEW r \in Requests, Issued(u), slug[r] = slug[u],
                      op[r] \in Reads \cup {"info", "delete"}
               PROVE  Justified(u, r)'
    BY <1>1 DEF RefusalsJustified
  <2>1. Justified(u, r) BY DEF PromiseInv, RefusalsJustified
  <2>2. UsedUp(u) => UsedUp(u)' BY <1>1, <1>3, <1>4 DEF UsedUp
  <2> QED BY <1>2, <1>3, <2>1, <2>2 DEF Justified
<1> QED BY <1>5, <1>6, <1>7, <1>8, <1>9, <1>10 DEF PromiseInv

(* Every step keeps the promises. *)
LEMMA PromiseStep == FileInv /\ PromiseInv /\ FileInv' /\ [Next]_vars => PromiseInv'
<1> SUFFICES ASSUME FileInv, PromiseInv, FileInv', [Next]_vars PROVE PromiseInv'
  OBVIOUS
<1>1. TypeOK' BY DEF FileInv
<1>2. ASSUME NEW r \in Requests, Handle(r) PROVE PromiseInv'
  BY <1>1, <1>2, HandlePass, HandlePassword, HandleGone, HandleBytes, HandleSpent, HandleRefusals
     DEF PromiseInv
<1>3. CASE Sweep BY <1>3, SweepPromises
<1>4. CASE Crash BY <1>4, CrashPromises
<1>5. CASE Tick BY <1>5, TickPromises
<1>6. CASE UNCHANGED vars
  BY <1>6 DEF vars, PromiseInv, PassInv, PasswordGuards, GoneInv, DeletedIsGone, BytesInv, NoBytesLeftBehind,
     SpentInVainOnlyBy, RefusalsJustified, Justified, UsedUp, Issued, Served, Received, Reading, Withdrawn,
     AskedToDelete, Expired, ExpiredAt
<1> QED BY <1>2, <1>3, <1>4, <1>5, <1>6 DEF Next

(* Both invariants together hold in every reachable state. *)
THEOREM FilePromises == Spec => [](FileInv /\ PromiseInv)
<1>1. Init => PromiseInv
  BY SlugAssumption DEF Init, PromiseInv, PassInv, PasswordGuards, GoneInv, DeletedIsGone, BytesInv,
     NoBytesLeftBehind, SpentInVainOnlyBy, RefusalsJustified, Issued
<1> QED BY <1>1, FileSafe, PromiseStep, PTL DEF Spec

(* Nobody without the password gets a protected file or uses up its single *)
(* download, whatever races and fails: the check of Get and the mark are   *)
(* separate statements on a row that may change in between.                *)
THEOREM FilePassword == Spec => []PasswordGuards
<1>1. PromiseInv => PasswordGuards BY DEF PromiseInv
<1> QED BY <1>1, FilePromises, PTL

(* An answered deletion is final, for the row and for the bytes. *)
THEOREM FileDeleted == Spec => []DeletedIsGone
<1>1. PromiseInv => DeletedIsGone BY DEF PromiseInv
<1> QED BY <1>1, FilePromises, PTL

(* Without mishaps the single download of a file is lost only to a HEAD    *)
(* request, or to a deletion or an expiry that comes between the mark and  *)
(* the opening of the bytes.                                               *)
THEOREM FileSpent == Spec => []SpentInVainOnlyBy
<1>1. PromiseInv => SpentInVainOnlyBy BY DEF PromiseInv
<1> QED BY <1>1, FilePromises, PTL

(* Whoever is turned down is turned down for a reason. *)
THEOREM FileRefusals == Spec => []RefusalsJustified
<1>1. PromiseInv => RefusalsJustified BY DEF PromiseInv
<1> QED BY <1>1, FilePromises, PTL

(* As long as the file operations themselves succeed, neither a failing    *)
(* query nor a crash leaves bytes behind that no row leads to.             *)
THEOREM FileBytes == Spec => []("disk" \notin Faults => NoBytesLeftBehind)
<1>1. PromiseInv => ("disk" \notin Faults => NoBytesLeftBehind) BY DEF PromiseInv, BytesInv
<1> QED BY <1>1, FilePromises, PTL
-----------------------------------------------------------------------------
(* A file share is a share link, step by step. *)

(* The step publishes nothing. *)
SamePromises ==
    \A u \in Requests :
        /\ Issued(u)' <=> Issued(u)
        /\ Issued(u) => slug'[u] = slug[u] /\ row'[u] = row[u]

(* The step opens no content and lets nobody in or out. *)
SameVisits ==
    \A r \in Requests :
        /\ pc'[r] = "read" <=> pc[r] = "read"
        /\ pc[r] = "read" => slug'[r] = slug[r]
        /\ \A s \in Slugs : Served(r, s)' <=> Served(r, s)

(* What a step that publishes nothing does to the life of the links.       *)
LEMMA SameLinks ==
    ASSUME SamePromises
    PROVE  /\ \A s \in Slugs : Published(s)' <=> Published(s)
           /\ {s \in Slugs : \E u \in Requests : Issued(u) /\ slug[u] = s /\ row[u].oneUse}'
                = {s \in Slugs : \E u \in Requests : Issued(u) /\ slug[u] = s /\ row[u].oneUse}
           /\ \A s \in Slugs : (Published(s) => files'[s] = files[s]) => LinkStatus(s)' = LinkStatus(s)
<1>1. \A s \in Slugs : Published(s)' <=> Published(s) BY DEF SamePromises, Published
<1>2. \A s \in Slugs : (\E u \in Requests : Issued(u)' /\ slug'[u] = s /\ row'[u].oneUse)
                   <=> (\E u \in Requests : Issued(u) /\ slug[u] = s /\ row[u].oneUse)
  BY DEF SamePromises
<1>3. \A s \in Slugs : (Published(s) => files'[s] = files[s]) => LinkStatus(s)' = LinkStatus(s)
  BY <1>1 DEF LinkStatus
<1> QED BY <1>1, <1>2, <1>3

(* Tickets and served visits when nobody is let in or out. *)
LEMMA SameHolders ==
    ASSUME SameVisits
    PROVE  /\ [r \in Requests |-> IF pc[r] = "read" THEN slug[r] ELSE NoSlug]'
                = [r \in Requests |-> IF pc[r] = "read" THEN slug[r] ELSE NoSlug]
           /\ [s \in Slugs |-> {r \in Requests : Served(r, s)}]'
                = [s \in Slugs |-> {r \in Requests : Served(r, s)}]
<1>1. \A r \in Requests : (IF pc[r] = "read" THEN slug[r] ELSE NoSlug)'
                        = (IF pc[r] = "read" THEN slug[r] ELSE NoSlug)
  BY DEF SameVisits
<1>2. \A s \in Slugs : {r \in Requests : Served(r, s)}' = {r \in Requests : Served(r, s)}
  BY DEF SameVisits
<1> QED BY <1>1, <1>2

(* A step that changes no row of a published file, lets nobody in and      *)
(* serves nobody does not show.                                            *)
LEMMA LinkStutter ==
    ASSUME SamePromises, SameVisits, \A s \in Slugs : Published(s) => files'[s] = files[s]
    PROVE  UNCHANGED Link!linkVars
<1>1. [s \in Slugs |-> LinkStatus(s)]' = [s \in Slugs |-> LinkStatus(s)] BY SameLinks
<1> QED BY <1>1, SameLinks, SameHolders DEF Link!linkVars

(* Deleting a row withdraws the link, unless it is gone already or never   *)
(* was published.                                                          *)
LEMMA LinkWithdraws ==
    ASSUME FileInv, SamePromises, SameVisits, NEW s \in Slugs, DropRow(s)
    PROVE  [Link!Next]_Link!linkVars
<1>1. files \in [Slugs -> Rows \cup {NoRow}] /\ files' = [files EXCEPT ![s] = NoRow]
  BY DEF FileInv, TypeOK, DropRow
<1>2. CASE Published(s) /\ files[s] # NoRow
  <2>1. LinkStatus(s) \in {"open", "fresh", "spent"} BY <1>2 DEF LinkStatus
  <2>2. LinkStatus(s)' = "gone" BY <1>1, <1>2, SameLinks DEF LinkStatus
  <2>3. \A t \in Slugs : t # s => LinkStatus(t)' = LinkStatus(t) BY <1>1, SameLinks
  <2>4. [t \in Slugs |-> LinkStatus(t)]' = [[t \in Slugs |-> LinkStatus(t)] EXCEPT ![s] = "gone"]
    BY <2>2, <2>3
  <2>5. Link!Withdraw(s) BY <2>1, <2>4, SameLinks, SameHolders DEF Link!Withdraw
  <2> QED BY <2>5 DEF Link!Next
<1>3. CASE ~(Published(s) /\ files[s] # NoRow) BY <1>1, <1>3, LinkStutter
<1> QED BY <1>2, <1>3

(* Visits that end before the content is opened forfeit their tickets.     *)
LEMMA LinkForfeits ==
    ASSUME SamePromises, files' = files, NEW C \in SUBSET Requests,
           \A r \in Requests : /\ pc'[r] = "read" <=> pc[r] = "read" /\ r \notin C
                               /\ pc'[r] = "read" => slug'[r] = slug[r],
           \A r \in Requests, s \in Slugs : Served(r, s)' <=> Served(r, s)
    PROVE  [Link!Next]_Link!linkVars
<1>1. \A s \in Slugs : LinkStatus(s)' = LinkStatus(s) BY SameLinks
<1>2. [r \in Requests |-> IF pc[r] = "read" THEN slug[r] ELSE NoSlug]'
        = [r \in Requests |-> IF r \in C THEN NoSlug
                              ELSE [q \in Requests |-> IF pc[q] = "read" THEN slug[q] ELSE NoSlug][r]]
  <2>1. \A r \in Requests : (IF pc[r] = "read" THEN slug[r] ELSE NoSlug)'
             = IF r \in C THEN NoSlug ELSE IF pc[r] = "read" THEN slug[r] ELSE NoSlug
    OBVIOUS
  <2> QED BY <2>1
<1>3. \A s \in Slugs : {r \in Requests : Served(r, s)}' = {r \in Requests : Served(r, s)} OBVIOUS
<1>4. Link!Forfeit(C) BY <1>1, <1>2, <1>3, SameLinks DEF Link!Forfeit
<1> QED BY <1>4 DEF Link!Next

(* A request other than an upload publishes nothing. *)
LEMMA HandlePromisesSame ==
    ASSUME FileInv, NEW r \in Requests, Handle(r), ~RepoCreate(r)
    PROVE  SamePromises
<1>1. ~Issued(r) BY HandleFrame DEF FileInv, RequestInv, Issued
<1>2. ~Issued(r)'
  BY HandleFrame DEF FileInv, TypeOK, Reads, RequestInv, Issued, Handle, RefuseUpload, StoreWrite, UploadUndo, Get,
     Admission, MarkDownloaded, StoreRead, Delete, StoreDelete, RepoDelete, Upload, DispatchGet,
     DispatchDelete, Info, GetMeta, Arrive, Goto, Reply
<1> QED BY <1>1, <1>2, HandleFrame DEF SamePromises, Issued

(* Only Get, MarkDownloaded and StoreRead let a visit in or out. *)
LEMMA HandleVisitsSame ==
    ASSUME FileInv, NEW r \in Requests, Handle(r), ~Get(r), ~MarkDownloaded(r), ~StoreRead(r)
    PROVE  SameVisits
<1>1. pc[r] # "read" /\ \A s \in Slugs : ~Served(r, s)
  BY HandleFrame DEF FileInv, TypeOK, Reads, RequestInv, Served, Handle, RefuseUpload, StoreWrite, RepoCreate,
     UploadUndo, Delete, StoreDelete, RepoDelete, Upload, DispatchGet, DispatchDelete, Info, Arrive
<1>2. pc'[r] # "read" /\ ~(op'[r] \in Reads /\ reply'[r] = "ok")
  BY HandleFrame DEF FileInv, TypeOK, Reads, RequestInv, Handle, RefuseUpload, StoreWrite, RepoCreate, UploadUndo,
     Delete, StoreDelete, RepoDelete, Upload, DispatchGet, DispatchDelete, Info, Arrive, Goto, Reply, request
<1>3. \A q \in Requests : q # r => /\ pc'[q] = pc[q] /\ slug'[q] = slug[q]
                                   /\ reply'[q] = reply[q] /\ op'[q] = op[q]
  BY HandleFrame
<1> QED BY <1>1, <1>2, <1>3 DEF SameVisits, Served

(* The insert of a successful upload publishes its link; the row it finds  *)
(* in the way of a failed one belongs to nobody.                           *)
LEMMA CreateIsLink ==
    ASSUME FileInv, PromiseInv, NEW r \in Requests, Handle(r), RepoCreate(r)
    PROVE  [Link!Next]_Link!linkVars
<1>1. /\ pc[r] = "create" /\ op[r] = "upload" /\ slug[r] \in Slugs /\ row[r] \in Rows
      /\ ~row[r].downloaded /\ ~Published(slug[r]) /\ ~Issued(r)
  BY RowAssumption, SlugAssumption
     DEF RepoCreate, FileInv, RequestInv, UploadInv, Published, Issued, PromiseInv, PassInv
<1>2. SameVisits BY <1>1, HandleVisitsSame DEF Get, MarkDownloaded, StoreRead
<1>3. UNCHANGED <<op, slug, row>> BY DEF RepoCreate, request
<1>4. \A u \in Requests : u # r => (Issued(u)' <=> Issued(u)) BY HandleFrame DEF Issued
<1>5. CASE Insert(r) /\ Reply(r, "created")
  <2>1. PICK s \in Slugs : s = slug[r] BY <1>1
  <2>2. PICK f \in Rows : f = row[r] BY <1>1
  <2>3. files' = [files EXCEPT ![s] = f] BY <1>5, <2>1, <2>2 DEF Insert
  <2>4. Issued(r)' BY <1>1, <1>3, <1>5 DEF Issued, Reply, FileInv, TypeOK
  <2>5. ~Published(s) /\ Published(s)' BY <1>1, <1>3, <2>1, <2>4 DEF Published
  <2>6. \A t \in Slugs : t # s => (Published(t)' <=> Published(t))
    BY <1>1, <1>3, <1>4, <2>1, <2>4 DEF Published
  <2>7. LinkStatus(s) = "none" /\ \A t \in Slugs : t # s => LinkStatus(t)' = LinkStatus(t)
    BY <2>3, <2>5, <2>6 DEF LinkStatus, FileInv, TypeOK
  <2>8. LinkStatus(s)' = IF f.oneUse THEN "fresh" ELSE "open"
    BY <1>1, <2>2, <2>3, <2>5, RowAssumption DEF LinkStatus, FileInv, TypeOK
  <2>9. [t \in Slugs |-> LinkStatus(t)]'
          = [[t \in Slugs |-> LinkStatus(t)] EXCEPT ![s] = IF f.oneUse THEN "fresh" ELSE "open"]
    BY <2>7, <2>8
  <2>10. \A t \in Slugs : (\E u \in Requests : Issued(u)' /\ slug'[u] = t /\ row'[u].oneUse)
              <=> (\E u \in Requests : Issued(u) /\ slug[u] = t /\ row[u].oneUse) \/ (t = s /\ f.oneUse)
    BY <1>1, <1>3, <1>4, <2>1, <2>2, <2>4
  <2>11. {t \in Slugs : \E u \in Requests : Issued(u) /\ slug[u] = t /\ row[u].oneUse}'
          = {t \in Slugs : \E u \in Requests : Issued(u) /\ slug[u] = t /\ row[u].oneUse}
              \cup (IF f.oneUse THEN {s} ELSE {})
    BY <2>10
  <2>12. Link!Publish(s)
    <3>1. CASE f.oneUse BY <2>7, <2>9, <2>11, <3>1, <1>2, SameHolders DEF Link!Publish
    <3>2. CASE ~f.oneUse BY <2>7, <2>9, <2>11, <3>2, <1>2, SameHolders DEF Link!Publish
    <3> QED BY <3>1, <3>2
  <2> QED BY <2>12 DEF Link!Next
<1>6. CASE Goto(r, "undo")
  <2>1. SamePromises BY <1>1, <1>3, <1>4, <1>6 DEF SamePromises, Issued, Goto
  <2>2. \A s \in Slugs : Published(s) => files'[s] = files[s]
    BY <1>1 DEF RepoCreate, Insert, FileInv, TypeOK
  <2> QED BY <1>2, <2>1, <2>2, LinkStutter
<1> QED BY <1>5, <1>6 DEF RepoCreate

(* Get admits a visit to a reusable link; to a one-use link nobody is      *)
(* admitted yet.                                                           *)
LEMMA GetIsLink ==
    ASSUME FileInv, NEW r \in Requests, Handle(r), Get(r)
    PROVE  [Link!Next]_Link!linkVars
<1>1. pc[r] = "get" /\ op[r] \in Reads /\ slug[r] \in Slugs /\ Published(slug[r]) /\ reply[r] = "none"
  BY DEF Get, FileInv, RequestInv, VisitInv
<1>2. SamePromises BY <1>1, HandlePromisesSame DEF RepoCreate
<1>3. UNCHANGED <<op, slug, files>> BY DEF Get, request, table
<1>4. \A q \in Requests : q # r => pc'[q] = pc[q] /\ reply'[q] = reply[q] BY HandleFrame
<1>5. reply'[r] # "ok" BY <1>1 DEF Get, Goto, Reply, FileInv, TypeOK
<1>6. \A q \in Requests, s \in Slugs : Served(q, s)' <=> Served(q, s)
  BY <1>1, <1>3, <1>4, <1>5 DEF Served
<1>7. CASE pc'[r] = "read"
  <2>1. PICK s \in Slugs : s = slug[r] BY <1>1
  <2>2. files[s] # NoRow /\ ~files[s].oneUse
    BY <1>7, <2>1 DEF Get, Admission, Goto, Reply, FileInv, TypeOK
  <2>3. LinkStatus(s) = "open" BY <1>1, <2>1, <2>2 DEF LinkStatus
  <2>4. \A t \in Slugs : LinkStatus(t)' = LinkStatus(t) BY <1>2, <1>3, SameLinks
  <2>5. [q \in Requests |-> IF pc[q] = "read" THEN slug[q] ELSE NoSlug]'
          = [[q \in Requests |-> IF pc[q] = "read" THEN slug[q] ELSE NoSlug] EXCEPT ![r] = s]
    BY <1>3, <1>4, <1>7, <2>1
  <2>6. Link!Admit(r, s)
    BY <1>1, <1>2, <1>6, <2>3, <2>4, <2>5, SameLinks DEF Link!Admit
  <2> QED BY <2>6 DEF Link!Next
<1>8. CASE pc'[r] # "read"
  <2>1. SameVisits BY <1>1, <1>3, <1>4, <1>6, <1>8 DEF SameVisits
  <2> QED BY <1>2, <1>3, <2>1, LinkStutter
<1> QED BY <1>7, <1>8

(* MarkDownloaded spends a one-use link that is fresh, in the step that    *)
(* lets the visit in, or in vain when its success is not reported.         *)
LEMMA MarkIsLink ==
    ASSUME FileInv, PromiseInv, NEW r \in Requests, Handle(r), MarkDownloaded(r)
    PROVE  [Link!Next]_Link!linkVars
<1>1. pc[r] = "mark" /\ op[r] \in Reads /\ slug[r] \in Slugs /\ Published(slug[r]) /\ reply[r] = "none"
  BY DEF MarkDownloaded, FileInv, RequestInv, VisitInv
<1>2. SamePromises BY <1>1, HandlePromisesSame DEF RepoCreate
<1>3. UNCHANGED <<op, slug>> BY DEF MarkDownloaded, request
<1>4. \A q \in Requests : q # r => pc'[q] = pc[q] /\ reply'[q] = reply[q] BY HandleFrame
<1>5. reply'[r] # "ok" BY <1>1 DEF MarkDownloaded, Goto, Reply, FileInv, TypeOK
<1>6. \A q \in Requests, s \in Slugs : Served(q, s)' <=> Served(q, s)
  BY <1>1, <1>3, <1>4, <1>5 DEF Served
<1>7. CASE Fresh(files[slug[r]]) /\ Mark(slug[r])
  <2>1. PICK s \in Slugs : s = slug[r] BY <1>1
  <2>2. PICK u \in Requests : Issued(u) /\ slug[u] = s BY <1>1, <2>1 DEF Published
  <2>3. row[u].oneUse BY <1>1, <2>1, <2>2 DEF PromiseInv, PassInv
  <2>4. files[s] # NoRow /\ files[s].oneUse /\ ~files[s].downloaded /\ files[s] \in Rows
    BY <1>7, <2>1, <2>2, <2>3, PromisedRow DEF Fresh, FileInv, TypeOK
  <2>5. files' = [files EXCEPT ![s] = Downloaded(files[s])] BY <1>7, <2>1 DEF Mark
  <2>6. Downloaded(files[s]) \in Rows /\ Downloaded(files[s]).downloaded /\ Downloaded(files[s]).oneUse
    BY <2>4 DEF Downloaded, Rows
  <2>7. files'[s] # NoRow /\ files'[s].oneUse /\ files'[s].downloaded
    BY <2>5, <2>6, RowAssumption DEF FileInv, TypeOK
  <2>8. LinkStatus(s) = "fresh" /\ LinkStatus(s)' = "spent"
    BY <1>1, <1>2, <2>1, <2>4, <2>7, SameLinks DEF LinkStatus
  <2>9. \A t \in Slugs : t # s => LinkStatus(t)' = LinkStatus(t)
    BY <1>2, <2>5, SameLinks DEF FileInv, TypeOK
  <2>10. [t \in Slugs |-> LinkStatus(t)]' = [[t \in Slugs |-> LinkStatus(t)] EXCEPT ![s] = "spent"]
    BY <2>8, <2>9
  <2>11. CASE pc'[r] = "read"
    <3>1. [q \in Requests |-> IF pc[q] = "read" THEN slug[q] ELSE NoSlug]'
            = [[q \in Requests |-> IF pc[q] = "read" THEN slug[q] ELSE NoSlug] EXCEPT ![r] = s]
      BY <1>3, <1>4, <2>1, <2>11
    <3>2. Link!Spend(r, s) BY <1>1, <1>2, <1>6, <2>8, <2>10, <3>1, SameLinks DEF Link!Spend
    <3> QED BY <3>2 DEF Link!Next
  <2>12. CASE pc'[r] # "read"
    <3>1. SameVisits BY <1>1, <1>3, <1>4, <1>6, <2>12 DEF SameVisits
    <3>2. Link!SpendInVain(s) BY <1>2, <2>8, <2>10, <3>1, SameLinks, SameHolders DEF Link!SpendInVain
    <3> QED BY <3>2 DEF Link!Next
  <2> QED BY <2>11, <2>12
<1>8. CASE files' = files /\ pc'[r] # "read"
  <2>1. SameVisits BY <1>1, <1>3, <1>4, <1>6, <1>8 DEF SameVisits
  <2> QED BY <1>2, <1>8, <2>1, LinkStutter
<1>9. \/ Fresh(files[slug[r]]) /\ Mark(slug[r])
      \/ files' = files /\ pc'[r] # "read"
  BY DEF MarkDownloaded, Mark, Goto, Reply, FileInv, TypeOK
<1> QED BY <1>7, <1>8, <1>9

(* Opening the bytes redeems the ticket; failing to open them forfeits it. *)
LEMMA ReadIsLink ==
    ASSUME FileInv, NEW r \in Requests, Handle(r), StoreRead(r)
    PROVE  [Link!Next]_Link!linkVars
<1>1. pc[r] = "read" /\ op[r] \in Reads /\ slug[r] \in Slugs /\ reply[r] = "none"
  BY DEF StoreRead, FileInv, RequestInv, VisitInv
<1>2. SamePromises BY <1>1, HandlePromisesSame DEF RepoCreate
<1>3. UNCHANGED <<op, slug, files>> /\ pc'[r] = "done"
  BY DEF StoreRead, request, table, Reply, FileInv, TypeOK
<1>4. \A q \in Requests : q # r => pc'[q] = pc[q] /\ reply'[q] = reply[q] BY HandleFrame
<1>5. CASE reply'[r] = "ok"
  <2>1. PICK s \in Slugs : s = slug[r] BY <1>1
  <2>2. \A t \in Slugs : LinkStatus(t)' = LinkStatus(t) BY <1>2, <1>3, SameLinks
  <2>3. \A q \in Requests, t \in Slugs : Served(q, t)' <=> Served(q, t) \/ (q = r /\ t = s)
    BY <1>1, <1>3, <1>4, <1>5, <2>1 DEF Served
  <2>4. \A t \in Slugs : {q \in Requests : Served(q, t)}'
            = IF t = s THEN {q \in Requests : Served(q, s)} \cup {r} ELSE {q \in Requests : Served(q, t)}
    BY <2>3
  <2>5. [t \in Slugs |-> {q \in Requests : Served(q, t)}]'
          = [[t \in Slugs |-> {q \in Requests : Served(q, t)}] EXCEPT
                ![s] = [t \in Slugs |-> {q \in Requests : Served(q, t)}][s] \cup {r}]
    BY <2>4
  <2>6. [q \in Requests |-> IF pc[q] = "read" THEN slug[q] ELSE NoSlug]'
          = [[q \in Requests |-> IF pc[q] = "read" THEN slug[q] ELSE NoSlug] EXCEPT ![r] = NoSlug]
    BY <1>3, <1>4
  <2>7. [q \in Requests |-> IF pc[q] = "read" THEN slug[q] ELSE NoSlug][r] = s BY <1>1, <2>1
  <2>8. [t \in Slugs |-> {q \in Requests : Served(q, t)}]'
          = [[t \in Slugs |-> {q \in Requests : Served(q, t)}] EXCEPT
                ![[q \in Requests |-> IF pc[q] = "read" THEN slug[q] ELSE NoSlug][r]] = @ \cup {r}]
    BY <2>5, <2>7
  <2>9. [q \in Requests |-> IF pc[q] = "read" THEN slug[q] ELSE NoSlug][r] \in Slugs BY <2>7
  <2>10. [t \in Slugs |-> LinkStatus(t)]' = [t \in Slugs |-> LinkStatus(t)] BY <2>2
  <2>11. Link!Redeem(r) BY <1>2, <2>6, <2>8, <2>9, <2>10, SameLinks DEF Link!Redeem
  <2> QED BY <2>11 DEF Link!Next
<1>6. CASE reply'[r] # "ok"
  <2>1. \A q \in Requests, s \in Slugs : Served(q, s)' <=> Served(q, s)
    BY <1>1, <1>3, <1>4, <1>6 DEF Served
  <2>2. \A q \in Requests : /\ pc'[q] = "read" <=> pc[q] = "read" /\ q \notin {r}
                            /\ pc'[q] = "read" => slug'[q] = slug[q]
    BY <1>3, <1>4
  <2> QED BY <1>2, <1>3, <2>1, <2>2, LinkForfeits
<1> QED BY <1>5, <1>6

(* Every step of a request is a step of the link. *)
LEMMA HandleIsLink ==
    ASSUME FileInv, PromiseInv, NEW r \in Requests, Handle(r)
    PROVE  [Link!Next]_Link!linkVars
<1>1. CASE RepoCreate(r) BY <1>1, CreateIsLink
<1>2. CASE Get(r) BY <1>2, GetIsLink
<1>3. CASE MarkDownloaded(r) BY <1>3, MarkIsLink
<1>4. CASE StoreRead(r) BY <1>4, ReadIsLink
<1>5. CASE ~RepoCreate(r) /\ ~Get(r) /\ ~MarkDownloaded(r) /\ ~StoreRead(r)
  <2>1. SamePromises /\ SameVisits BY <1>5, HandlePromisesSame, HandleVisitsSame
  <2>2. CASE RepoDelete(r) /\ files' # files
    <3>1. PICK s \in Slugs : s = slug[r] BY <2>2 DEF RepoDelete, FileInv, RequestInv, VisitInv
    <3>2. DropRow(s) BY <2>2, <3>1 DEF RepoDelete, DropRow
    <3> QED BY <2>1, <3>2, LinkWithdraws
  <2>3. CASE ~(RepoDelete(r) /\ files' # files)
    <3>1. files' = files
      BY <1>5, <2>3 DEF Handle, RefuseUpload, StoreWrite, UploadUndo, Delete, StoreDelete, Upload,
                        DispatchGet, DispatchDelete, Info, table
    <3> QED BY <2>1, <3>1, LinkStutter
  <2> QED BY <2>2, <2>3
<1> QED BY <1>1, <1>2, <1>3, <1>4, <1>5

(* So is every step of the sweep, of the clock and of a crash. *)
LEMMA StepIsLink == FileInv /\ PromiseInv /\ [Next]_vars => [Link!Next]_Link!linkVars
<1> SUFFICES ASSUME FileInv, PromiseInv, [Next]_vars PROVE [Link!Next]_Link!linkVars
  OBVIOUS
<1>1. ASSUME NEW r \in Requests, Handle(r) PROVE [Link!Next]_Link!linkVars BY <1>1, HandleIsLink
<1>2. CASE Sweep \/ Tick \/ UNCHANGED vars
  <2>1. UNCHANGED <<op, slug, row, pc, reply>>
    BY <1>2 DEF Sweep, SweepList, SweepStoreDelete, SweepRepoDelete, Tick, vars, request
  <2>2. SamePromises /\ SameVisits BY <2>1 DEF SamePromises, SameVisits, Issued, Served
  <2>3. CASE files' # files
    <3>1. cur \in Slugs /\ DropRow(cur)
      BY <1>2, <2>3 DEF Sweep, SweepList, SweepStoreDelete, SweepRepoDelete, Tick, vars, table, FileInv, TypeOK
    <3>2. PICK s \in Slugs : s = cur BY <3>1
    <3>3. DropRow(s) BY <3>1, <3>2 DEF DropRow
    <3> QED BY <2>2, <3>3, LinkWithdraws
  <2>4. CASE files' = files BY <2>2, <2>4, LinkStutter
  <2> QED BY <2>3, <2>4
<1>3. CASE Crash
  <2>1. \A r \in Requests :
          \/ pc[r] \in {"new", "done"} /\ pc'[r] = pc[r] /\ reply'[r] = reply[r]
          \/ pc[r] \notin {"new", "done"} /\ pc'[r] = "done" /\ reply'[r] = "lost" /\ reply[r] = "none"
    BY <1>3 DEF Crash, FileInv, RequestInv
  <2>2. UNCHANGED <<op, slug, row, files>> BY <1>3 DEF Crash, request, table
  <2>3. SamePromises BY <2>1, <2>2 DEF SamePromises, Issued
  <2>4. \A r \in Requests, s \in Slugs : Served(r, s)' <=> Served(r, s) BY <2>1, <2>2 DEF Served
  <2>5. \A r \in Requests : /\ pc'[r] = "read" <=> pc[r] = "read" /\ r \notin Requests
                            /\ pc'[r] = "read" => slug'[r] = slug[r]
    BY <2>1, <2>2
  <2> QED BY <2>2, <2>3, <2>4, <2>5, LinkForfeits
<1> QED BY <1>1, <1>2, <1>3 DEF Next

(* A file share implements a share link: the dispatcher, the service, the  *)
(* table, the byte store and the sweep together, under every mishap.       *)
THEOREM FileIsShareLink == Spec => ImplementsShareLink
<1>1. Init => Link!Init
  <2> SUFFICES ASSUME Init PROVE Link!Init
    OBVIOUS
  <2>1. \A s \in Slugs : LinkStatus(s) = "none" BY DEF Init, LinkStatus, Published, Issued
  <2>2. \A s \in Slugs, r \in Requests : ~Served(r, s) BY DEF Init, Served
  <2>3. {s \in Slugs : \E u \in Requests : Issued(u) /\ slug[u] = s /\ row[u].oneUse} = {}
    BY DEF Init, Issued
  <2>4. \A r \in Requests : pc[r] # "read" BY DEF Init
  <2> QED BY <2>1, <2>2, <2>3, <2>4 DEF Link!Init
<1> QED BY <1>1, StepIsLink, FilePromises, PTL DEF Spec, Link!Spec, ImplementsShareLink

(* What is proved of every share link holds of files. *)
LinkFacts == INSTANCE ShareLinkProofs WITH
    Links  <- Slugs,
    Visits <- Requests,
    NoLink <- NoSlug,
    status <- [s \in Slugs |-> LinkStatus(s)],
    once   <- {s \in Slugs : \E u \in Requests : Issued(u) /\ slug[u] = s /\ row[u].oneUse},
    ticket <- [r \in Requests |-> IF pc[r] = "read" THEN slug[r] ELSE NoSlug],
    served <- [s \in Slugs |-> {r \in Requests : Served(r, s)}]

(* A one-use file is served to at most one request. *)
THEOREM FileServedOnce == Spec => []OneUseServedOnce
<1>1. LinkFacts!Spec => []LinkFacts!AtMostOnce BY SlugAssumption, LinkFacts!LinkAtMostOnce
<1>2. ImplementsShareLink => LinkFacts!Spec
  <2>1. Link!Init => LinkFacts!Init BY DEF Link!Init, LinkFacts!Init
  <2>2. [Link!Next]_Link!linkVars => [LinkFacts!Next]_LinkFacts!linkVars
    BY DEF Link!Next, Link!linkVars, Link!Publish, Link!Admit, Link!Spend, Link!SpendInVain,
           Link!Redeem, Link!Forfeit, Link!Withdraw,
           LinkFacts!Next, LinkFacts!linkVars, LinkFacts!Publish, LinkFacts!Admit, LinkFacts!Spend,
           LinkFacts!SpendInVain, LinkFacts!Redeem, LinkFacts!Forfeit, LinkFacts!Withdraw
  <2> QED BY <2>1, <2>2, PTL DEF ImplementsShareLink, Link!Spec, LinkFacts!Spec
<1>3. FileInv /\ LinkFacts!AtMostOnce => OneUseServedOnce
  BY DEF LinkFacts!AtMostOnce, OneUseServedOnce, FileInv, RequestInv, Issued
<1> QED BY <1>1, <1>2, <1>3, FileIsShareLink, FileSafe, PTL
=============================================================================
