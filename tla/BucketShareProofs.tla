------------------------- MODULE BucketShareProofs -------------------------
(* What transfer buckets promise, for any numbers of slugs, storage keys   *)
(* and requests, any presets, any clock resolution and any mishaps: types, *)
(* BucketKept and the promises to visitors.                                *)
EXTENDS BucketShare, TLAPS

(* What the sweep's whole seconds imply about the reader's clock: a row    *)
(* listed by expires_at < unixepoch() is past its expiry for a reader too. *)
LEMMA SweptIsExpired ==
    ASSUME NEW t \in Nat, NEW e \in Int, e < Unix(t)
    PROVE  t > e * TicksPerSecond
<1> DEFINE q == t \div TicksPerSecond
<1>1. TicksPerSecond \in Nat /\ TicksPerSecond > 0 BY ClockAssumption
<1>2. q \in Int /\ t >= TicksPerSecond * q BY <1>1
<1>3. q >= e + 1 BY <1>2 DEF Unix
<1> HIDE DEF q
<1>4. TicksPerSecond * q >= TicksPerSecond * (e + 1) BY <1>1, <1>2, <1>3
<1>5. TicksPerSecond * (e + 1) = e * TicksPerSecond + TicksPerSecond BY <1>1
<1>6. e * TicksPerSecond \in Int /\ TicksPerSecond * q \in Int BY <1>1, <1>2
<1> QED BY <1>1, <1>2, <1>4, <1>5, <1>6

(* An upload builds a row: its expiry is NULL or a whole second.           *)
LEMMA NewRowType ==
    ASSUME TypeOK, NEW oneUse \in BOOLEAN, NEW protected \in BOOLEAN, NEW d \in Expiries
    PROVE  /\ NewRow(oneUse, protected, d, now) \in Rows
           /\ ~NewRow(oneUse, protected, d, now).downloaded
<1>1. TicksPerSecond \in Nat /\ TicksPerSecond > 0 /\ d \in Nat BY ClockAssumption
<1>2. now + d * TicksPerSecond \in Nat BY <1>1 DEF TypeOK
<1>3. Unix(now + d * TicksPerSecond) \in Int BY <1>1, <1>2 DEF Unix
<1> QED BY <1>3 DEF NewRow, Rows, Never

(* MarkDownloaded changes the mark of a row that exists, nothing else. *)
LEMMA MarkEffect ==
    ASSUME TypeOK, NEW s \in Slugs, Mark(s)
    PROVE  /\ buckets' \in [Slugs -> Rows \cup {NoRow}]
           /\ \A t \in Slugs : t # s => buckets'[t] = buckets[t]
           /\ buckets'[s] = NoRow <=> buckets[s] = NoRow
           /\ buckets[s] # NoRow => buckets'[s] = Downloaded(buckets[s]) \/ buckets'[s] = buckets[s]
<1>1. CASE Fresh(buckets[s])
  <2>1. buckets[s] \in Rows BY <1>1 DEF TypeOK, Fresh
  <2>2. Downloaded(buckets[s]) \in Rows BY <2>1 DEF Downloaded, Rows
  <2>3. Downloaded(buckets[s]) # NoRow BY <2>2, RowAssumption
  <2>4. buckets' = [buckets EXCEPT ![s] = Downloaded(buckets[s])] BY <1>1 DEF Mark
  <2> QED BY <1>1, <2>2, <2>3, <2>4 DEF TypeOK, Fresh
<1>2. CASE ~Fresh(buckets[s]) BY <1>2 DEF Mark, TypeOK
<1> QED BY <1>1, <1>2

(* The steps of a request, the arrivals taken together. *)
LEMMA HandleCases ==
    ASSUME NEW r \in Requests, Handle(r)
    PROVE  \/ RefuseUpload(r) \/ StoreWrite(r) \/ RepoCreate(r) \/ UploadUndo(r) \/ AddFile(r)
           \/ GetBucketRow(r) \/ View(r) \/ DownloadZIP(r) \/ DownloadFile(r) \/ DeleteBucket(r)
           \/ MarkDownloaded(r) \/ StreamZIP(r) \/ GetFile(r) \/ StoreDelete(r) \/ RepoDelete(r)
           \/ \E s \in Slugs, K \in SUBSET Keys, oneUse \in BOOLEAN, protected \in BOOLEAN, d \in Expiries :
                Create(r, s, K, oneUse, protected, d)
           \/ \E s \in Slugs, good \in BOOLEAN, what \in {"view", "zip", "file", "delete"}, K \in SUBSET Keys :
                Arrive(r, what, s, good, K)
<1>1. ASSUME NEW s \in Slugs, NEW good \in BOOLEAN, NEW what \in {"view", "zip", "delete"},
             Arrive(r, what, s, good, {})
      PROVE  \E w \in {"view", "zip", "file", "delete"}, K \in SUBSET Keys : Arrive(r, w, s, good, K)
  BY <1>1
<1>2. ASSUME NEW s \in Slugs, NEW good \in BOOLEAN, NEW k \in Keys, Arrive(r, "file", s, good, {k})
      PROVE  \E w \in {"view", "zip", "file", "delete"}, K \in SUBSET Keys : Arrive(r, w, s, good, K)
  <2>1. {k} \in SUBSET Keys OBVIOUS
  <2> QED BY <1>2, <2>1
<1> QED BY <1>1, <1>2 DEF Handle


-----------------------------------------------------------------------------
(* Every step of a request keeps the types. *)
LEMMA HandleType ==
    ASSUME TypeOK, RequestInv, VisitInv, NEW r \in Requests, Handle(r)
    PROVE  TypeOK'
<1> USE DEF TypeOK, Ops, Calls, Replies, request, table, sweeper, Fault, NoFault
<1>1. CASE RefuseUpload(r) BY <1>1 DEF RefuseUpload, Reply
<1>2. CASE StoreWrite(r) BY <1>2 DEF StoreWrite, Visit, Goto, Stay
<1>3. CASE RepoCreate(r) BY <1>3 DEF RepoCreate, Insert, Visit, Goto, RequestInv
<1>4. CASE UploadUndo(r) BY <1>4 DEF UploadUndo, Visit, Stay, Reply
<1>5. CASE AddFile(r) BY <1>5 DEF AddFile, InsertMember, Visit, Stay, Reply, RequestInv
<1>6. CASE GetBucketRow(r) BY <1>6 DEF GetBucketRow, Goto, Reply, RequestInv, VisitInv
<1>7. CASE View(r) BY <1>7 DEF View, BucketAdmission, Admission, GetBucketFiles, Goto, Reply
<1>8. CASE DownloadZIP(r) BY <1>8 DEF DownloadZIP, BucketAdmission, Admission, Visit, GetBucketFiles, Goto, Reply, RequestInv, VisitInv
<1>9. CASE DownloadFile(r) BY <1>9 DEF DownloadFile, BucketAdmission, Admission, GetBucketFiles, Goto, Reply
<1>10. CASE DeleteBucket(r) BY <1>10 DEF DeleteBucket, Visit, GetBucketFiles, Goto, Reply, RequestInv, VisitInv
<1>11. CASE MarkDownloaded(r)
  <2>1. buckets' \in [Slugs -> Rows \cup {NoRow}]
    BY <1>11, MarkEffect DEF MarkDownloaded, RequestInv, VisitInv
  <2> QED BY <1>11, <2>1 DEF MarkDownloaded, Goto, Reply
<1>12. CASE StreamZIP(r) BY <1>12 DEF StreamZIP, Visit, Stay, Reply
<1>13. CASE GetFile(r) BY <1>13 DEF GetFile, Reply
<1>14. CASE StoreDelete(r) BY <1>14 DEF StoreDelete, Visit
<1>15. CASE RepoDelete(r) BY <1>15 DEF RepoDelete, DropBucket, KeepBucket, Reply, RequestInv, VisitInv
<1>16. ASSUME NEW s \in Slugs, NEW K \in SUBSET Keys, NEW oneUse \in BOOLEAN,
              NEW protected \in BOOLEAN, NEW d \in Expiries,
              Create(r, s, K, oneUse, protected, d)
      PROVE  TypeOK'
  BY <1>16, NewRowType DEF Create, Visit, Goto
<1>17. ASSUME NEW s \in Slugs, NEW good \in BOOLEAN, NEW what \in {"view", "zip", "file", "delete"},
              NEW K \in SUBSET Keys, Arrive(r, what, s, good, K)
      PROVE  TypeOK'
  BY <1>17 DEF Arrive, Visit, Goto
<1> HIDE DEF TypeOK, Ops, Calls, Replies, request, table, sweeper, Fault, NoFault
<1> QED BY <1>1, <1>2, <1>3, <1>4, <1>5, <1>6, <1>7, <1>8, <1>9, <1>10, <1>11, <1>12, <1>13, <1>14, <1>15, <1>16, <1>17, HandleCases

(* Every step keeps the types. *)
LEMMA TypeStep == ASSUME TypeOK, RequestInv, VisitInv, [Next]_vars PROVE TypeOK'
<1> USE DEF TypeOK, table, request, sweeper, Fault, NoFault
<1>1. ASSUME NEW r \in Requests, Handle(r) PROVE TypeOK'
  BY <1>1, HandleType
<1>2. CASE SweepList BY <1>2 DEF SweepList
<1>3. CASE SweepListFiles BY <1>3 DEF SweepListFiles
<1>4. CASE SweepPick BY <1>4 DEF SweepPick
<1>5. CASE SweepStoreDelete BY <1>5 DEF SweepStoreDelete
<1>6. CASE SweepRepoDelete BY <1>6 DEF SweepRepoDelete, DropBucket, KeepBucket
<1>7. CASE Crash BY <1>7 DEF Crash, Calls, Replies
<1>8. CASE Tick BY <1>8 DEF Tick
<1>9. CASE UNCHANGED vars BY <1>9 DEF vars
<1> QED BY <1>1, <1>2, <1>3, <1>4, <1>5, <1>6, <1>7, <1>8, <1>9 DEF Next, Sweep

-----------------------------------------------------------------------------
(* What every step of a request leaves alone. *)
LEMMA HandleFrame ==
    ASSUME BucketInv, NEW r \in Requests, Handle(r)
    PROVE  /\ pc[r] # "done" /\ now' = now /\ UNCHANGED sweeper
           /\ mishaps' \in Nat /\ mishaps' >= mishaps
           /\ \A x \in Requests :
                /\ x # r => /\ pc'[x] = pc[x] /\ reply'[x] = reply[x] /\ row'[x] = row[x]
                            /\ keys'[x] = keys[x] /\ left'[x] = left[x]
                /\ x # r \/ op[r] # "none" =>
                     op'[x] = op[x] /\ slug'[x] = slug[x] /\ right'[x] = right[x]
                /\ x # r \/ op[r] = "upload" => row'[x] = row[x]
<1> DEFINE Q == /\ pc[r] # "done" /\ now' = now /\ UNCHANGED sweeper
                /\ mishaps' \in Nat /\ mishaps' >= mishaps
                /\ \A x \in Requests :
                     /\ x # r => /\ pc'[x] = pc[x] /\ reply'[x] = reply[x] /\ row'[x] = row[x]
                                 /\ keys'[x] = keys[x] /\ left'[x] = left[x]
                     /\ x # r \/ op[r] # "none" =>
                          op'[x] = op[x] /\ slug'[x] = slug[x] /\ right'[x] = right[x]
                     /\ x # r \/ op[r] = "upload" => row'[x] = row[x]
<1> SUFFICES Q OBVIOUS
<1> USE DEF BucketInv, TypeOK, RequestInv, request, table, sweeper, Fault, NoFault
<1>1. CASE RefuseUpload(r) BY <1>1 DEF RefuseUpload, Reply
<1>2. CASE StoreWrite(r) BY <1>2 DEF StoreWrite, Visit, Goto, Stay
<1>3. CASE RepoCreate(r) BY <1>3 DEF RepoCreate, Insert, Visit, Goto
<1>4. CASE UploadUndo(r) BY <1>4 DEF UploadUndo, Visit, Stay, Reply
<1>5. CASE AddFile(r) BY <1>5 DEF AddFile, InsertMember, Visit, Stay, Reply
<1>6. CASE GetBucketRow(r) BY <1>6 DEF GetBucketRow, Goto, Reply
<1>7. CASE View(r) BY <1>7 DEF View, BucketAdmission, Admission, GetBucketFiles, Goto, Reply
<1>8. CASE DownloadZIP(r) BY <1>8 DEF DownloadZIP, BucketAdmission, Admission, Visit, GetBucketFiles, Goto, Reply
<1>9. CASE DownloadFile(r) BY <1>9 DEF DownloadFile, BucketAdmission, Admission, GetBucketFiles, Goto, Reply
<1>10. CASE DeleteBucket(r) BY <1>10 DEF DeleteBucket, Visit, GetBucketFiles, Goto, Reply
<1>11. CASE MarkDownloaded(r) BY <1>11 DEF MarkDownloaded, Mark, Goto, Reply
<1>12. CASE StreamZIP(r) BY <1>12 DEF StreamZIP, Visit, Stay, Reply
<1>13. CASE GetFile(r) BY <1>13 DEF GetFile, Reply
<1>14. CASE StoreDelete(r) BY <1>14 DEF StoreDelete, Visit
<1>15. CASE RepoDelete(r) BY <1>15 DEF RepoDelete, DropBucket, KeepBucket, Reply
<1>16. ASSUME NEW s \in Slugs, NEW K \in SUBSET Keys, NEW oneUse \in BOOLEAN,
              NEW protected \in BOOLEAN, NEW d \in Expiries,
              Create(r, s, K, oneUse, protected, d)
      PROVE  Q
  BY <1>16 DEF Create, Visit, Goto
<1>17. ASSUME NEW s \in Slugs, NEW good \in BOOLEAN, NEW what \in {"view", "zip", "file", "delete"},
              NEW K \in SUBSET Keys, Arrive(r, what, s, good, K)
      PROVE  Q
  BY <1>17 DEF Arrive, Visit, Goto
<1> HIDE DEF Q, BucketInv, TypeOK, RequestInv, request, table, sweeper, Fault, NoFault
<1> QED BY <1>1, <1>2, <1>3, <1>4, <1>5, <1>6, <1>7, <1>8, <1>9, <1>10, <1>11, <1>12, <1>13, <1>14, <1>15, <1>16, <1>17, HandleCases

(* A request stays consistent with the call it is about to make. *)
LEMMA HandleRequests ==
    ASSUME BucketInv, TypeOK', NEW r \in Requests, Handle(r)
    PROVE  RequestInv'
<1> USE DEF BucketInv, TypeOK, RequestInv, Issued, request, Fault, NoFault
<1>1. CASE RefuseUpload(r) BY <1>1 DEF RefuseUpload, Reply
<1>2. CASE StoreWrite(r) BY <1>2 DEF StoreWrite, Visit, Goto, Stay
<1>3. CASE RepoCreate(r) BY <1>3 DEF RepoCreate, Insert, Visit, Goto
<1>4. CASE UploadUndo(r) BY <1>4 DEF UploadUndo, Visit, Stay, Reply
<1>5. CASE AddFile(r) BY <1>5 DEF AddFile, InsertMember, Visit, Stay, Reply
<1>6. CASE GetBucketRow(r) BY <1>6 DEF GetBucketRow, Goto, Reply
<1>7. CASE View(r) BY <1>7 DEF View, BucketAdmission, Admission, GetBucketFiles, Goto, Reply
<1>8. CASE DownloadZIP(r) BY <1>8 DEF DownloadZIP, BucketAdmission, Admission, Visit, GetBucketFiles, Goto, Reply
<1>9. CASE DownloadFile(r) BY <1>9 DEF DownloadFile, BucketAdmission, Admission, GetBucketFiles, Goto, Reply
<1>10. CASE DeleteBucket(r) BY <1>10 DEF DeleteBucket, Visit, GetBucketFiles, Goto, Reply
<1>11. CASE MarkDownloaded(r) BY <1>11 DEF MarkDownloaded, Mark, Goto, Reply
<1>12. CASE StreamZIP(r) BY <1>12 DEF StreamZIP, Visit, Stay, Reply
<1>13. CASE GetFile(r) BY <1>13 DEF GetFile, Reply
<1>14. CASE StoreDelete(r) BY <1>14 DEF StoreDelete, Visit
<1>15. CASE RepoDelete(r) BY <1>15 DEF RepoDelete, DropBucket, KeepBucket, Reply
<1>16. ASSUME NEW s \in Slugs, NEW K \in SUBSET Keys, NEW oneUse \in BOOLEAN,
              NEW protected \in BOOLEAN, NEW d \in Expiries,
              Create(r, s, K, oneUse, protected, d)
      PROVE  RequestInv'
  BY <1>16, NewRowType DEF Create, Visit, Goto
<1>17. ASSUME NEW s \in Slugs, NEW good \in BOOLEAN, NEW what \in {"view", "zip", "file", "delete"},
              NEW K \in SUBSET Keys, Arrive(r, what, s, good, K)
      PROVE  RequestInv'
  BY <1>17 DEF Arrive, Visit, Goto
<1> HIDE DEF BucketInv, TypeOK, RequestInv, Issued, request, Fault, NoFault
<1> QED BY <1>1, <1>2, <1>3, <1>4, <1>5, <1>6, <1>7, <1>8, <1>9, <1>10, <1>11, <1>12, <1>13, <1>14, <1>15, <1>16, <1>17, HandleCases

-----------------------------------------------------------------------------
(* Before its first insert nobody else is about the slug of an upload. *)
LEMMA Unshared ==
    ASSUME BucketInv, NEW u \in Requests, NEW x \in Requests, x # u, op[u] = "upload",
           slug[u] \in Slugs, reply[u] # "created", op[x] # "none"
    PROVE  slug[x] # slug[u]
<1>1. op[x] = "upload" => slug[x] # slug[u] BY SlugAssumption DEF BucketInv, UploadInv
<1>2. ~Published(slug[u]) BY SlugAssumption DEF BucketInv, UploadInv, Published, Issued
<1> QED BY <1>1, <1>2 DEF BucketInv, VisitInv, TypeOK, Ops

(* A stored bucket has a slug and a row. *)
LEMMA StoredHas ==
    ASSUME BucketInv, NEW u \in Requests, Stored(u)
    PROVE  slug[u] \in Slugs /\ row[u] \in Rows /\ row[u] # NoRow /\ Downloaded(row[u]) # NoRow
<1>1. slug[u] \in Slugs /\ row[u] \in Rows BY DEF BucketInv, RequestInv, Stored
<1>2. Downloaded(row[u]) \in Rows BY <1>1 DEF Downloaded, Rows
<1> QED BY <1>1, <1>2, RowAssumption

(* Steps of readers on their way to content: they change no table, no      *)
(* bytes and no upload, and what a deletion is about to remove it has      *)
(* looked up in bucket_files.                                              *)
Quiet ==
    /\ UNCHANGED <<buckets, members, blobs, now, op, slug, right, listed, plan, todo, cur>>
    /\ \A x \in Requests : op[x] = "upload" =>
         /\ row'[x] = row[x] /\ keys'[x] = keys[x] /\ left'[x] = left[x]
         /\ pc'[x] = pc[x] /\ reply'[x] = reply[x]
    /\ \A x \in Requests : pc'[x] = "unlink" =>
         \/ pc[x] = "unlink" /\ left'[x] \subseteq left[x]
         \/ slug[x] \in Slugs /\ left'[x] \subseteq members[slug[x]]

(* Such steps keep the inductive invariant. *)
LEMMA QuietKeeps == ASSUME BucketInv, TypeOK', RequestInv', Quiet PROVE BucketInv'
<1> USE DEF Quiet, BucketInv
<1>1. \A u \in Requests :
        /\ Issued(u)' <=> Issued(u)
        /\ Stored(u)' <=> Stored(u)
        /\ op[u] = "upload" => (Withdrawn(u)' <=> Withdrawn(u)) /\ (Expired(row[u])' <=> Expired(row[u]))
  BY DEF Issued, Stored, Withdrawn, AskedToDelete, Expired, ExpiredAt
<1>2. VisitInv' BY <1>1 DEF VisitInv, Published
<1>3. UploadInv' BY DEF UploadInv, RequestInv, Swept
<1>4. KnownInv' BY DEF KnownInv, Swept
<1>5. RowInv' BY <1>1 DEF RowInv, Stored
<1>6. SweepInv' BY <1>1 DEF SweepInv, Stored, Swept
<1>7. HoldInv' BY <1>1 DEF HoldInv, KnownInv, Issued
<1>8. StoredKept' BY <1>1 DEF StoredKept, Stored
<1> QED BY <1>2, <1>3, <1>4, <1>5, <1>6, <1>7, <1>8

(* The reader's steps are such steps. *)
LEMMA ReaderIsQuiet ==
    ASSUME BucketInv, NEW r \in Requests,
           \/ GetBucketRow(r) \/ View(r) \/ DownloadZIP(r) \/ DownloadFile(r) \/ DeleteBucket(r)
           \/ StreamZIP(r) \/ GetFile(r)
    PROVE  Quiet
<1> USE DEF Quiet, BucketInv, TypeOK, RequestInv, VisitInv, table, request, sweeper, Fault, NoFault
<1>1. CASE GetBucketRow(r) BY <1>1 DEF GetBucketRow, Goto, Reply
<1>2. CASE View(r) BY <1>2 DEF View, BucketAdmission, Admission, GetBucketFiles, Reply
<1>3. CASE DownloadZIP(r)
  BY <1>3 DEF DownloadZIP, BucketAdmission, Admission, Visit, GetBucketFiles, Goto, Reply
<1>4. CASE DownloadFile(r)
  BY <1>4 DEF DownloadFile, BucketAdmission, Admission, GetBucketFiles, Goto, Reply
<1>5. CASE DeleteBucket(r) BY <1>5 DEF DeleteBucket, Visit, GetBucketFiles, Goto, Reply
<1>6. CASE StreamZIP(r) BY <1>6 DEF StreamZIP, Visit, Stay, Reply
<1>7. CASE GetFile(r) BY <1>7 DEF GetFile, Reply
<1> QED BY <1>1, <1>2, <1>3, <1>4, <1>5, <1>6, <1>7

(* A refused upload has drawn neither slug nor key. *)
LEMMA RefuseKeeps ==
    ASSUME BucketInv, TypeOK', RequestInv', NEW r \in Requests, RefuseUpload(r)
    PROVE  BucketInv'
<1> USE SlugAssumption DEF BucketInv, RefuseUpload, table, sweeper
<1>1. op[r] = "none" /\ slug[r] = NoSlug /\ keys[r] = {} /\ left[r] = {} /\ reply[r] = "none"
  BY DEF RequestInv
<1>2. op' = [op EXCEPT ![r] = "upload"] /\ pc'[r] = "done" /\ reply'[r] = "refused"
  BY DEF Reply, TypeOK
<1>3. \A x \in Requests : x # r => op'[x] = op[x] /\ pc'[x] = pc[x] /\ reply'[x] = reply[x]
  BY DEF Reply, TypeOK
<1>4. \A u \in Requests :
        /\ Issued(u)' <=> Issued(u)
        /\ Stored(u)' <=> Stored(u)
        /\ Withdrawn(u)' <=> Withdrawn(u)
  BY <1>1, <1>2, <1>3 DEF Issued, Stored, Withdrawn, AskedToDelete, Expired, ExpiredAt, TypeOK
<1>5. VisitInv' BY <1>2, <1>3, <1>4, <1>1 DEF VisitInv, Published, TypeOK
<1>6. UploadInv' BY <1>1, <1>2, <1>3 DEF UploadInv, Swept, VisitInv, TypeOK
<1>7. KnownInv' BY <1>1, <1>2, <1>3 DEF KnownInv, Swept, TypeOK
<1>8. RowInv' BY <1>4 DEF RowInv
<1>9. SweepInv' BY <1>4 DEF SweepInv, Swept, Expired, ExpiredAt
<1>10. HoldInv' BY <1>2, <1>3, <1>4 DEF HoldInv
<1>11. StoredKept' BY <1>4 DEF StoredKept
<1> QED BY <1>5, <1>6, <1>7, <1>8, <1>9, <1>10, <1>11

(* What the steps of upload r, once it has drawn its slug, leave alone. *)
LEMMA UploadFrame ==
    ASSUME BucketInv, NEW r \in Requests,
           StoreWrite(r) \/ RepoCreate(r) \/ UploadUndo(r) \/ AddFile(r)
    PROVE  /\ op[r] = "upload" /\ slug[r] \in Slugs /\ row[r] \in Rows /\ reply[r] = "none"
           /\ UNCHANGED <<now, op, slug, right, row, listed, plan, todo, cur>>
           /\ \A x \in Requests : x # r =>
                /\ pc'[x] = pc[x] /\ reply'[x] = reply[x] /\ keys'[x] = keys[x] /\ left'[x] = left[x]
                /\ op[x] # "none" => slug[x] # slug[r]
           /\ \A u \in Requests :
                /\ Issued(u) => Issued(u)'
                /\ u # r => (Issued(u)' <=> Issued(u)) /\ (Stored(u)' <=> Stored(u))
                /\ Withdrawn(u)' <=> Withdrawn(u)
                /\ Expired(row[u])' <=> Expired(row[u])
<1>1. op[r] = "upload" /\ slug[r] \in Slugs /\ row[r] \in Rows /\ reply[r] = "none" /\ pc[r] # "done"
  BY DEF BucketInv, RequestInv, StoreWrite, RepoCreate, UploadUndo, AddFile
<1>2. UNCHANGED <<now, op, slug, right, row, listed, plan, todo, cur>>
  BY DEF StoreWrite, RepoCreate, UploadUndo, AddFile, request, sweeper
<1>3. \A x \in Requests : x # r =>
        pc'[x] = pc[x] /\ reply'[x] = reply[x] /\ keys'[x] = keys[x] /\ left'[x] = left[x]
  BY DEF StoreWrite, RepoCreate, UploadUndo, AddFile, Visit, Goto, Stay, Reply, BucketInv, TypeOK
<1>4. \A x \in Requests : x # r /\ op[x] # "none" => slug[x] # slug[r] BY <1>1, Unshared
<1>5. ~Issued(r) BY <1>1 DEF Issued
<1> QED BY <1>1, <1>2, <1>3, <1>4, <1>5 DEF Issued, Stored, Withdrawn, AskedToDelete, Expired, ExpiredAt

(* Storing bytes under a key of one's own. *)
LEMMA WriteKeeps ==
    ASSUME BucketInv, TypeOK', RequestInv', NEW r \in Requests, StoreWrite(r)
    PROVE  BucketInv'
<1> USE DEF BucketInv
<1>1. pc[r] = "write" /\ op[r] = "upload" /\ slug[r] \in Slugs BY UploadFrame DEF StoreWrite
<1>2. UNCHANGED <<buckets, members, now, op, slug, right, row, listed, plan, todo, cur>>
  BY UploadFrame DEF StoreWrite
<1>3. \A x \in Requests : x # r =>
        /\ pc'[x] = pc[x] /\ keys'[x] = keys[x] /\ left'[x] = left[x]
        /\ op[x] # "none" => slug[x] # slug[r]
        /\ (Issued(x)' <=> Issued(x)) /\ (Stored(x)' <=> Stored(x))
  BY UploadFrame
<1>4. /\ blobs \subseteq blobs' /\ keys[r] \subseteq keys'[r] /\ pc'[r] \in {"write", "undo"}
      /\ keys'[r] \cup left'[r] \subseteq keys[r] \cup left[r]
      /\ keys'[r] \subseteq blobs'
  BY <1>1 DEF StoreWrite, Visit, Goto, Stay, TypeOK, UploadInv
<1>5. ~Stored(r)' /\ ~Issued(r)' BY <1>2, <1>4, UploadFrame DEF Stored, Issued, StoreWrite, Stay, Goto
<1>6. \A u \in Requests : (Withdrawn(u)' <=> Withdrawn(u)) /\ (Expired(row[u])' <=> Expired(row[u]))
  BY UploadFrame
<1>7. VisitInv' BY <1>2, UploadFrame DEF VisitInv, Published
<1>8. UploadInv'
  <2>1. \A u \in Requests : keys'[u] \cup left'[u] \subseteq keys[u] \cup left[u] BY <1>3, <1>4
  <2> QED BY <1>2, <1>3, <1>4, <2>1, <1>1 DEF UploadInv, Swept
<1>9. KnownInv'
  <2>1. \A u \in Requests : keys[u] \subseteq keys'[u] BY <1>3, <1>4
  <2> QED BY <1>2, <2>1 DEF KnownInv, Swept
<1>10. RowInv' BY <1>2, <1>3, <1>5 DEF RowInv
<1>11. SweepInv' BY <1>2, <1>3, <1>5, <1>6 DEF SweepInv, Swept
<1>12. HoldInv' BY <1>2, <1>3, <1>4, <1>5 DEF HoldInv
<1>13. StoredKept' BY <1>2, <1>3, <1>4, <1>5, <1>6 DEF StoredKept
<1> QED BY <1>7, <1>8, <1>9, <1>10, <1>11, <1>12, <1>13

(* The insert of the bucket row, under a slug nobody else knows. *)
LEMMA CreateKeeps ==
    ASSUME BucketInv, TypeOK', RequestInv', NEW r \in Requests, RepoCreate(r)
    PROVE  BucketInv'
<1> USE DEF BucketInv
<1>1. pc[r] = "write" /\ op[r] = "upload" /\ slug[r] \in Slugs /\ left[r] = {} /\ row[r] # NoRow
  BY UploadFrame, RowAssumption DEF RepoCreate
<1>2. UNCHANGED <<members, blobs, now, op, slug, right, row, keys, listed, plan, todo, cur>>
  BY UploadFrame DEF RepoCreate
<1>3. \A x \in Requests : x # r =>
        /\ pc'[x] = pc[x] /\ left'[x] = left[x]
        /\ op[x] # "none" => slug[x] # slug[r]
        /\ (Issued(x)' <=> Issued(x)) /\ (Stored(x)' <=> Stored(x))
  BY UploadFrame
<1>4. /\ pc'[r] \in {"add", "undo"} /\ left'[r] = keys[r] /\ reply'[r] = "none"
      /\ pc'[r] = "add" => buckets'[slug[r]] = row[r]
      /\ \A s \in Slugs : s # slug[r] => buckets'[s] = buckets[s]
  BY <1>1, UploadFrame DEF RepoCreate, Insert, Visit, Goto, TypeOK
<1>5. members[slug[r]] = {} /\ slug[r] \notin Swept /\ keys[r] \subseteq blobs
  BY <1>1 DEF UploadInv
<1>6. ~Issued(r)' /\ (Stored(r)' => pc'[r] = "add") BY <1>4 DEF Stored, Issued
<1>7. \A u \in Requests : (Withdrawn(u)' <=> Withdrawn(u)) /\ (Expired(row[u])' <=> Expired(row[u]))
  BY UploadFrame
<1>8. VisitInv' BY <1>2, UploadFrame DEF VisitInv, Published
<1>9. UploadInv'
  <2>1. \A u \in Requests : keys'[u] \cup left'[u] \subseteq keys[u] \cup left[u] BY <1>2, <1>3, <1>4
  <2>2. \A u \in Requests : pc'[u] = "write" => u # r /\ slug[u] \in Slugs /\ op[u] # "none"
    BY <1>3, <1>4 DEF RequestInv
  <2> QED BY <1>2, <1>3, <1>4, <2>1, <2>2 DEF UploadInv, Swept
<1>10. KnownInv'
  <2>1. \A s \in Slugs : buckets'[s] # NoRow => buckets[s] # NoRow \/ s = slug[r] BY <1>4
  <2>2. \A s \in Slugs : buckets'[s] = NoRow => members[s] = {} BY <1>4, <1>5 DEF KnownInv
  <2> QED BY <1>1, <1>2, <2>1, <2>2 DEF KnownInv, Swept
<1>11. RowInv'
  <2> SUFFICES ASSUME NEW u \in Requests, Stored(u)', buckets'[slug[u]] # NoRow
               PROVE  /\ buckets'[slug[u]] \in {row[u], Downloaded(row[u])}
                      /\ members[slug[u]] = keys[u] \ left'[u]
    BY <1>2 DEF RowInv
  <2>1. CASE u = r BY <2>1, <1>4, <1>5, <1>6
  <2>2. CASE u # r
    <3>1. slug[u] \in Slugs /\ slug[u] # slug[r] BY <2>2, <1>3, StoredHas DEF Stored
    <3> QED BY <2>2, <3>1, <1>3, <1>4 DEF RowInv
  <2> QED BY <2>1, <2>2
<1>12. SweepInv' BY <1>2, <1>3, <1>5, <1>7 DEF SweepInv, Swept
<1>13. HoldInv' BY <1>2, <1>3, <1>4, <1>6 DEF HoldInv
<1>14. StoredKept'
  <2> SUFFICES ASSUME NEW u \in Requests, Stored(u)', ~Withdrawn(u)
               PROVE  /\ buckets'[slug[u]] \in {row[u], Downloaded(row[u])}
                      /\ members[slug[u]] = keys[u] \ left'[u]
                      /\ keys[u] \subseteq blobs
    BY <1>2, <1>7 DEF StoredKept
  <2>1. CASE u = r BY <2>1, <1>4, <1>5, <1>6
  <2>2. CASE u # r
    <3>1. slug[u] \in Slugs /\ slug[u] # slug[r] BY <2>2, <1>3, StoredHas DEF Stored
    <3> QED BY <2>2, <3>1, <1>3, <1>4 DEF StoredKept
  <2> QED BY <2>1, <2>2
<1> QED BY <1>8, <1>9, <1>10, <1>11, <1>12, <1>13, <1>14

(* Undoing a failed upload removes bytes under its own keys only. *)
LEMMA UndoKeeps ==
    ASSUME BucketInv, TypeOK', RequestInv', NEW r \in Requests, UploadUndo(r)
    PROVE  BucketInv'
<1> USE DEF BucketInv
<1>1. pc[r] = "undo" /\ op[r] = "upload" /\ left[r] \subseteq keys[r]
  BY UploadFrame DEF UploadUndo, RequestInv
<1>2. UNCHANGED <<buckets, members, now, op, slug, right, row, keys, listed, plan, todo, cur>>
  BY UploadFrame DEF UploadUndo
<1>3. \A x \in Requests : x # r =>
        /\ pc'[x] = pc[x] /\ left'[x] = left[x]
        /\ (Issued(x)' <=> Issued(x)) /\ (Stored(x)' <=> Stored(x))
  BY UploadFrame
<1>4. left'[r] \subseteq left[r] /\ blobs \ blobs' \subseteq left[r] /\ pc'[r] \in {"undo", "done"}
      /\ reply'[r] # "created"
  BY <1>1, UploadFrame DEF UploadUndo, Visit, Stay, Reply, TypeOK
<1>5. ~Issued(r)' /\ ~Stored(r)' BY <1>4 DEF Stored, Issued
<1>6. \A u \in Requests : (Withdrawn(u)' <=> Withdrawn(u)) /\ (Expired(row[u])' <=> Expired(row[u]))
  BY UploadFrame
<1>7. \A u \in Requests : u # r /\ op[u] = "upload" /\ keys[u] \subseteq blobs => keys[u] \subseteq blobs'
  BY <1>1, <1>4 DEF UploadInv
<1>8. VisitInv' BY <1>2, UploadFrame DEF VisitInv, Published
<1>9. UploadInv' BY <1>2, <1>3, <1>4, <1>7 DEF UploadInv, Swept, RequestInv
<1>10. KnownInv' BY <1>2 DEF KnownInv, Swept
<1>11. RowInv' BY <1>2, <1>3, <1>5 DEF RowInv
<1>12. SweepInv' BY <1>2, <1>3, <1>5, <1>6 DEF SweepInv, Swept
<1>13. HoldInv' BY <1>2, <1>3, <1>4, <1>5 DEF HoldInv
<1>14. StoredKept' BY <1>2, <1>3, <1>5, <1>6, <1>7 DEF StoredKept, Stored
<1> QED BY <1>8, <1>9, <1>10, <1>11, <1>12, <1>13, <1>14

(* Each file row is of a key the upload has written; the last one publishes *)
(* the bucket, under a slug nobody else is about.                          *)
LEMMA AddKeeps ==
    ASSUME BucketInv, TypeOK', RequestInv', NEW r \in Requests, AddFile(r)
    PROVE  BucketInv'
<1> USE DEF BucketInv
<1>1. pc[r] = "add" /\ op[r] = "upload" /\ slug[r] \in Slugs /\ left[r] \subseteq keys[r] /\ Stored(r)
  BY UploadFrame DEF AddFile, RequestInv, Stored
<1>2. UNCHANGED <<buckets, blobs, now, op, slug, right, row, keys, listed, plan, todo, cur>>
  BY UploadFrame DEF AddFile
<1>3. \A x \in Requests : x # r =>
        /\ pc'[x] = pc[x] /\ left'[x] = left[x]
        /\ op[x] # "none" => slug[x] # slug[r]
        /\ (Issued(x)' <=> Issued(x)) /\ (Stored(x)' <=> Stored(x))
  BY UploadFrame
<1>4. /\ left'[r] \subseteq left[r] /\ pc'[r] \in {"add", "done"}
      /\ members'[slug[r]] \subseteq members[slug[r]] \cup left[r]
      /\ buckets[slug[r]] = NoRow => members' = members
      /\ \A s \in Slugs : s # slug[r] => members'[s] = members[s]
  BY <1>1 DEF AddFile, InsertMember, Visit, Stay, Reply, TypeOK
<1>5. Stored(r)' => /\ buckets[slug[r]] # NoRow
                    /\ members'[slug[r]] = members[slug[r]] \cup (left[r] \ left'[r])
  <2> SUFFICES ASSUME Stored(r)'
               PROVE  /\ buckets[slug[r]] # NoRow
                      /\ members'[slug[r]] = members[slug[r]] \cup (left[r] \ left'[r])
    OBVIOUS
  <2>1. ~Reply(r, "failed") BY DEF Stored, Reply, TypeOK
  <2>2. PICK k \in left[r] : /\ buckets[slug[r]] # NoRow
                             /\ InsertMember(r, k) /\ Visit(r, left[r] \ {k})
    BY <2>1 DEF AddFile
  <2>3. members'[slug[r]] = members[slug[r]] \cup {k} /\ left'[r] = left[r] \ {k}
    BY <1>1, <2>2 DEF InsertMember, Visit, TypeOK
  <2> QED BY <2>2, <2>3
<1>6. \A u \in Requests : (Withdrawn(u)' <=> Withdrawn(u)) /\ (Expired(row[u])' <=> Expired(row[u]))
  BY UploadFrame
<1>7. VisitInv' BY <1>2, UploadFrame DEF VisitInv, Published
<1>8. UploadInv'
  <2>1. \A u \in Requests : keys'[u] \cup left'[u] \subseteq keys[u] \cup left[u] BY <1>2, <1>3, <1>4
  <2>2. \A u \in Requests : pc'[u] = "write" => u # r /\ slug[u] \in Slugs /\ op[u] # "none"
    BY <1>3, <1>4 DEF RequestInv
  <2> QED BY <1>2, <1>3, <1>4, <2>1, <2>2 DEF UploadInv, Swept
<1>9. KnownInv'
  <2>1. \A s \in Slugs : members'[s] # {} => members[s] # {} \/ s = slug[r] BY <1>4
  <2>2. \A s \in Slugs : buckets[s] = NoRow => members'[s] = {} BY <1>4 DEF KnownInv
  <2>3. \A u \in Requests : op[u] = "upload" /\ slug[u] \in Slugs => members'[slug[u]] \subseteq keys[u]
    BY <1>1, <1>3, <1>4 DEF KnownInv
  <2> QED BY <1>1, <1>2, <2>1, <2>2, <2>3 DEF KnownInv, Swept
<1>10. RowInv'
  <2> SUFFICES ASSUME NEW u \in Requests, Stored(u)', buckets[slug[u]] # NoRow
               PROVE  /\ buckets[slug[u]] \in {row[u], Downloaded(row[u])}
                      /\ members'[slug[u]] = keys[u] \ left'[u]
    BY <1>2 DEF RowInv
  <2>1. CASE u = r BY <2>1, <1>1, <1>4, <1>5 DEF RowInv
  <2>2. CASE u # r
    <3>1. slug[u] \in Slugs /\ slug[u] # slug[r] BY <2>2, <1>3, StoredHas DEF Stored
    <3> QED BY <2>2, <3>1, <1>3, <1>4 DEF RowInv
  <2> QED BY <2>1, <2>2
<1>11. SweepInv' BY <1>1, <1>2, <1>3, <1>6 DEF SweepInv, Swept
<1>12. HoldInv'
  <2>1. \A u, x \in Requests : Issued(u)' /\ slug[x] = slug[u] /\ pc'[x] = "unlink" =>
          x # r /\ u # r /\ pc[x] = "unlink"
    BY <1>1, <1>3, <1>4 DEF RequestInv, Issued
  <2> QED BY <1>2, <1>3, <2>1 DEF HoldInv
<1>13. StoredKept'
  <2> SUFFICES ASSUME NEW u \in Requests, Stored(u)', ~Withdrawn(u)
               PROVE  /\ buckets[slug[u]] \in {row[u], Downloaded(row[u])}
                      /\ members'[slug[u]] = keys[u] \ left'[u]
                      /\ keys[u] \subseteq blobs
    BY <1>2, <1>6 DEF StoredKept
  <2>1. CASE u = r BY <2>1, <1>1, <1>4, <1>5 DEF StoredKept
  <2>2. CASE u # r
    <3>1. slug[u] \in Slugs /\ slug[u] # slug[r] BY <2>2, <1>3, StoredHas DEF Stored
    <3> QED BY <2>2, <3>1, <1>3, <1>4 DEF StoredKept
  <2> QED BY <2>1, <2>2
<1> QED BY <1>7, <1>8, <1>9, <1>10, <1>11, <1>12, <1>13

(* What the writing steps of a reader or a deletion r leave alone. *)
LEMMA VisitorFrame ==
    ASSUME BucketInv, NEW r \in Requests, MarkDownloaded(r) \/ StoreDelete(r) \/ RepoDelete(r)
    PROVE  /\ op[r] \in {"zip", "delete"} /\ slug[r] \in Slugs /\ op[r] # "upload"
           /\ UNCHANGED <<now, op, slug, right, row, keys, listed, plan, todo, cur>>
           /\ \A x \in Requests :
                /\ x # r => pc'[x] = pc[x] /\ reply'[x] = reply[x] /\ left'[x] = left[x]
                /\ pc'[x] = "unlink" => pc[x] = "unlink"
                /\ pc'[x] = "write" => pc[x] = "write"
                /\ left'[x] \subseteq left[x]
           /\ \A u \in Requests :
                /\ op[u] = "upload" => u # r
                /\ (Issued(u)' <=> Issued(u)) /\ (Stored(u)' <=> Stored(u))
                /\ Withdrawn(u)' <=> Withdrawn(u)
                /\ Expired(row[u])' <=> Expired(row[u])
<1>1. op[r] \in {"zip", "delete"} /\ slug[r] \in Slugs
  BY DEF BucketInv, RequestInv, VisitInv, MarkDownloaded, StoreDelete, RepoDelete
<1>2. UNCHANGED <<now, op, slug, right, row, keys, listed, plan, todo, cur>>
  BY DEF MarkDownloaded, StoreDelete, RepoDelete, request, sweeper
<1>3. \A x \in Requests :
        /\ x # r => pc'[x] = pc[x] /\ reply'[x] = reply[x] /\ left'[x] = left[x]
        /\ pc'[x] = "unlink" => pc[x] = "unlink"
        /\ pc'[x] = "write" => pc[x] = "write"
        /\ left'[x] \subseteq left[x]
  BY DEF MarkDownloaded, StoreDelete, RepoDelete, Visit, Goto, Reply, BucketInv, TypeOK
<1>4. \A u \in Requests :
        /\ op[u] = "upload" => u # r
        /\ (Issued(u)' <=> Issued(u)) /\ (Stored(u)' <=> Stored(u))
  BY <1>1, <1>2, <1>3 DEF Issued, Stored
<1> QED BY <1>1, <1>2, <1>3, <1>4 DEF Withdrawn, AskedToDelete, Expired, ExpiredAt

(* MarkDownloaded leaves the row what it was, but for the mark. *)
LEMMA MarkKeeps ==
    ASSUME BucketInv, TypeOK', RequestInv', NEW r \in Requests, MarkDownloaded(r)
    PROVE  BucketInv'
<1> USE DEF BucketInv
<1>1. UNCHANGED <<members, blobs, now, op, slug, right, row, keys, left, listed, plan, todo, cur>>
  BY VisitorFrame DEF MarkDownloaded
<1>2. \A s \in Slugs : /\ buckets'[s] = NoRow <=> buckets[s] = NoRow
                       /\ buckets'[s] = buckets[s] \/ buckets'[s] = Downloaded(buckets[s])
  <2>1. buckets' = buckets \/ Mark(slug[r]) BY DEF MarkDownloaded
  <2>2. slug[r] \in Slugs BY VisitorFrame
  <2> QED BY <2>1, <2>2, MarkEffect
<1>3. \A u \in Requests : Stored(u) /\ buckets[slug[u]] \in {row[u], Downloaded(row[u])} =>
        buckets'[slug[u]] \in {row[u], Downloaded(row[u])}
  <2>1. \A f \in Rows : Downloaded(Downloaded(f)) = Downloaded(f) BY DEF Downloaded, Rows
  <2> QED BY <1>2, <2>1, StoredHas
<1>4. VisitInv' BY <1>1, VisitorFrame DEF VisitInv, Published
<1>5. UploadInv'
  <2>1. \A u \in Requests : pc'[u] = "write" => pc[u] = "write" /\ slug[u] \in Slugs
    BY VisitorFrame DEF RequestInv
  <2> QED BY <1>1, <1>2, <2>1 DEF UploadInv, Swept
<1>6. KnownInv' BY <1>1, <1>2 DEF KnownInv, Swept
<1>7. RowInv' BY <1>1, <1>2, <1>3, VisitorFrame, StoredHas DEF RowInv
<1>8. SweepInv' BY <1>1, VisitorFrame DEF SweepInv, Swept
<1>9. HoldInv' BY <1>1, VisitorFrame DEF HoldInv
<1>10. StoredKept' BY <1>1, <1>3, VisitorFrame DEF StoredKept
<1> QED BY <1>4, <1>5, <1>6, <1>7, <1>8, <1>9, <1>10

(* A deletion removes bytes of its own bucket, which is thereby withdrawn. *)
LEMMA UnlinkKeeps ==
    ASSUME BucketInv, TypeOK', RequestInv', NEW r \in Requests, StoreDelete(r)
    PROVE  BucketInv'
<1> USE DEF BucketInv
<1>1. UNCHANGED <<buckets, members, now, op, slug, right, row, keys, listed, plan, todo, cur>>
  BY VisitorFrame DEF StoreDelete
<1>2. pc[r] = "unlink" /\ op[r] = "delete" /\ right[r] /\ blobs \ blobs' \subseteq left[r]
  BY DEF StoreDelete, RequestInv
<1>3. PICK v \in Requests : Issued(v) /\ slug[v] = slug[r] BY <1>2 DEF VisitInv, Published
<1>4. blobs \ blobs' \subseteq keys[v] /\ Withdrawn(v)
  BY <1>2, <1>3 DEF HoldInv, Withdrawn, AskedToDelete
<1>5. \A u \in Requests : op[u] = "upload" /\ u # v /\ keys[u] \subseteq blobs => keys[u] \subseteq blobs'
  BY <1>3, <1>4 DEF UploadInv, Issued
<1>6. VisitInv' BY <1>1, VisitorFrame DEF VisitInv, Published
<1>7. UploadInv'
  <2>1. \A u \in Requests : pc'[u] = "write" => pc[u] = "write" /\ op[u] = "upload" /\ u # v
    BY <1>3, VisitorFrame DEF RequestInv, Issued
  <2>2. \A u \in Requests : left'[u] \subseteq left[u] BY VisitorFrame
  <2> QED BY <1>1, <1>5, <2>1, <2>2 DEF UploadInv, Swept
<1>8. KnownInv' BY <1>1 DEF KnownInv, Swept
<1>9. RowInv' BY <1>1, VisitorFrame DEF RowInv, Stored
<1>10. SweepInv' BY <1>1, VisitorFrame DEF SweepInv, Swept
<1>11. HoldInv'
  <2> SUFFICES ASSUME NEW u \in Requests, NEW x \in Requests, Issued(u), slug[x] = slug[u], pc[x] = "unlink"
               PROVE  left'[x] \subseteq keys[u]
    BY <1>1, VisitorFrame DEF HoldInv
  <2> QED BY VisitorFrame DEF HoldInv
<1>12. StoredKept'
  <2> SUFFICES ASSUME NEW u \in Requests, Stored(u), ~Withdrawn(u)
               PROVE  /\ buckets[slug[u]] \in {row[u], Downloaded(row[u])}
                      /\ members[slug[u]] = keys[u] \ left'[u]
                      /\ keys[u] \subseteq blobs'
    BY <1>1, VisitorFrame DEF StoredKept
  <2>1. left'[u] = left[u] /\ op[u] = "upload" /\ u # v BY <1>4, VisitorFrame DEF Stored
  <2> QED BY <1>5, <2>1 DEF StoredKept
<1> QED BY <1>6, <1>7, <1>8, <1>9, <1>10, <1>11, <1>12

(* Dropping a bucket hurts only uploads whose promise is over. *)
LEMMA DropKeeps ==
    ASSUME BucketInv, TypeOK', RequestInv', NEW s \in Slugs, DropBucket(s) \/ KeepBucket,
           UNCHANGED <<blobs, now, op, slug, right, row, keys, left, plan>>,
           Swept' \subseteq Swept \cup {NoSlug},
           \A x \in Requests : /\ Issued(x)' <=> Issued(x)
                               /\ Stored(x)' <=> Stored(x)
                               /\ pc'[x] = "write" => pc[x] = "write"
                               /\ pc'[x] = "unlink" => pc[x] = "unlink"
                               /\ Stored(x) /\ slug[x] = s => Withdrawn(x)
    PROVE  BucketInv'
<1> USE DEF BucketInv
<1>1. \A t \in Slugs : \/ buckets'[t] = buckets[t] /\ members'[t] = members[t]
                       \/ t = s /\ buckets'[t] = NoRow /\ members'[t] = {}
  BY DEF DropBucket, KeepBucket, TypeOK
<1>2. \A u \in Requests : (Withdrawn(u)' <=> Withdrawn(u)) /\ (Expired(row[u])' <=> Expired(row[u]))
  BY DEF Withdrawn, AskedToDelete, Expired, ExpiredAt
<1>3. VisitInv' BY DEF VisitInv, Published
<1>4. UploadInv'
  <2>1. \A u \in Requests : pc'[u] = "write" => pc[u] = "write" /\ slug[u] \in Slugs /\ slug[u] # NoSlug
    BY SlugAssumption DEF RequestInv
  <2> QED BY <1>1, <2>1 DEF UploadInv
<1>5. KnownInv' BY <1>1, SlugAssumption DEF KnownInv
<1>6. RowInv' BY <1>1, StoredHas DEF RowInv
<1>7. SweepInv' BY <1>2, StoredHas, SlugAssumption DEF SweepInv
<1>8. HoldInv' BY DEF HoldInv
<1>9. StoredKept' BY <1>1, <1>2, StoredHas DEF StoredKept
<1> QED BY <1>3, <1>4, <1>5, <1>6, <1>7, <1>8, <1>9

(* A deletion drops the bucket it was asked to delete. *)
LEMMA DeleteKeeps ==
    ASSUME BucketInv, TypeOK', RequestInv', NEW r \in Requests, RepoDelete(r)
    PROVE  BucketInv'
<1>1. op[r] = "delete" /\ right[r] /\ slug[r] \in Slugs
  BY VisitorFrame DEF BucketInv, RequestInv, RepoDelete
<1>2. DropBucket(slug[r]) \/ KeepBucket BY DEF RepoDelete
<1>3. UNCHANGED <<blobs, now, op, slug, right, row, keys, left, plan>> /\ Swept' = Swept
  BY VisitorFrame DEF RepoDelete, Swept
<1>4. \A u \in Requests : Stored(u) /\ slug[u] = slug[r] => Withdrawn(u)
  BY <1>1 DEF Withdrawn, AskedToDelete
<1>5. PICK s \in Slugs : s = slug[r] BY <1>1
<1>6. DropBucket(s) \/ KeepBucket BY <1>2, <1>5
<1> QED BY <1>3, <1>4, <1>5, <1>6, VisitorFrame, DropKeeps

(* An upload draws a slug and keys that are nowhere. *)
LEMMA DrawKeeps ==
    ASSUME BucketInv, TypeOK', RequestInv', NEW r \in Requests, NEW s \in Slugs, NEW K \in SUBSET Keys,
           NEW oneUse \in BOOLEAN, NEW protected \in BOOLEAN, NEW d \in Expiries,
           Create(r, s, K, oneUse, protected, d)
    PROVE  BucketInv'
<1> USE SlugAssumption DEF BucketInv
<1>1. op[r] = "none" /\ pc[r] = "new" /\ keys[r] = {} /\ left[r] = {} /\ slug[r] = NoSlug /\ reply[r] = "none"
  BY DEF Create, RequestInv
<1>2. UNCHANGED <<buckets, members, blobs, now, right, keys, reply, listed, plan, todo, cur>>
  BY DEF Create, Goto, table, sweeper
<1>3. \A x \in Requests : x # r =>
        /\ op'[x] = op[x] /\ slug'[x] = slug[x] /\ row'[x] = row[x] /\ left'[x] = left[x] /\ pc'[x] = pc[x]
        /\ slug[x] # s /\ (op[x] = "upload" => (keys[x] \cup left[x]) \cap K = {})
  BY DEF Create, Visit, Goto, TypeOK
<1>4. op'[r] = "upload" /\ slug'[r] = s /\ left'[r] = K /\ pc'[r] = "write"
  BY DEF Create, Visit, Goto, TypeOK
<1>5. \A u \in Requests : op[u] = "upload" => slug[u] # s BY <1>1, <1>3
<1>6. buckets[s] = NoRow /\ members[s] = {} /\ plan[s] = {} /\ s \notin Swept BY <1>5 DEF KnownInv
<1>7. \A u \in Requests : (Issued(u)' <=> Issued(u)) /\ (Stored(u)' <=> Stored(u)) /\ (Stored(u) => u # r)
  BY <1>1, <1>2, <1>3, <1>4 DEF Issued, Stored
<1>8. \A u \in Requests : u # r =>
        (Withdrawn(u)' <=> Withdrawn(u)) /\ (Expired(row[u])' <=> Expired(row[u]))
  <2> SUFFICES ASSUME NEW u \in Requests, u # r
               PROVE  (Withdrawn(u)' <=> Withdrawn(u)) /\ (Expired(row[u])' <=> Expired(row[u]))
    OBVIOUS
  <2>1. Expired(row[u])' <=> Expired(row[u]) BY <1>2, <1>3 DEF Expired, ExpiredAt
  <2>2. \A x \in Requests : /\ op'[x] = "delete" /\ slug'[x] = slug'[u] /\ right'[x]
                            <=> op[x] = "delete" /\ slug[x] = slug[u] /\ right[x]
    BY <1>1, <1>2, <1>3, <1>4
  <2>3. AskedToDelete(slug[u])' <=> AskedToDelete(slug[u]) BY <2>2 DEF AskedToDelete
  <2> QED BY <2>1, <2>3 DEF Withdrawn
<1>9. VisitInv'
  <2>1. \A t \in Slugs : Published(t) => Published(t)' BY <1>3, <1>7 DEF Published, Issued, Stored
  <2> QED BY <1>3, <1>4, <2>1 DEF VisitInv
<1>10. UploadInv' BY <1>1, <1>2, <1>3, <1>4, <1>6 DEF UploadInv, Swept
<1>11. KnownInv' BY <1>1, <1>2, <1>3, <1>4, <1>6 DEF KnownInv, Swept
<1>12. RowInv' BY <1>2, <1>3, <1>7 DEF RowInv
<1>13. SweepInv' BY <1>2, <1>3, <1>7, <1>8 DEF SweepInv, Swept
<1>14. HoldInv' BY <1>2, <1>3, <1>4, <1>7 DEF HoldInv, Issued, Stored
<1>15. StoredKept' BY <1>2, <1>3, <1>7, <1>8 DEF StoredKept
<1> QED BY <1>9, <1>10, <1>11, <1>12, <1>13, <1>14, <1>15

(* A visitor arrives at a published bucket. *)
LEMMA ArriveKeeps ==
    ASSUME BucketInv, TypeOK', RequestInv', NEW r \in Requests, NEW s \in Slugs, NEW good \in BOOLEAN,
           NEW what \in {"view", "zip", "file", "delete"}, NEW K \in SUBSET Keys,
           Arrive(r, what, s, good, K)
    PROVE  BucketInv'
<1> USE DEF BucketInv
<1>1. op[r] = "none" /\ pc[r] = "new" /\ reply[r] = "none" BY DEF Arrive, RequestInv
<1>2. UNCHANGED <<buckets, members, blobs, now, row, keys, reply, listed, plan, todo, cur>>
  BY DEF Arrive, Goto, table, sweeper
<1>3. \A x \in Requests : x # r =>
        op'[x] = op[x] /\ slug'[x] = slug[x] /\ right'[x] = right[x] /\ left'[x] = left[x] /\ pc'[x] = pc[x]
  <2>1. op' = [op EXCEPT ![r] = what] /\ slug' = [slug EXCEPT ![r] = s] /\ right' = [right EXCEPT ![r] = good]
    BY DEF Arrive
  <2>2. \A x \in Requests : x # r => right'[x] = right[x] BY <2>1, Zenon DEF TypeOK
  <2> QED BY <2>1, <2>2 DEF Arrive, Visit, Goto, TypeOK
<1>4. op'[r] = what /\ slug'[r] = s /\ pc'[r] = "find" BY DEF Arrive, Goto, TypeOK
<1>5. \A u \in Requests : (Issued(u)' <=> Issued(u)) /\ (Stored(u)' <=> Stored(u)) /\ (Stored(u) => u # r)
  BY <1>1, <1>2, <1>3, <1>4 DEF Issued, Stored
<1>6. \A u \in Requests : u # r =>
        (Withdrawn(u) => Withdrawn(u)') /\ (Expired(row[u])' <=> Expired(row[u]))
  BY <1>1, <1>2, <1>3 DEF Withdrawn, AskedToDelete, Expired, ExpiredAt
<1>7. VisitInv'
  <2>1. \A t \in Slugs : Published(t) => Published(t)' BY <1>3, <1>5 DEF Published, Issued, Stored
  <2>2. Published(s) BY DEF Arrive
  <2> QED BY <1>3, <1>4, <2>1, <2>2 DEF VisitInv
<1>8. UploadInv' BY <1>2, <1>3, <1>4 DEF UploadInv, Swept
<1>9. KnownInv' BY <1>1, <1>2, <1>3, <1>4 DEF KnownInv, Swept
<1>10. RowInv' BY <1>2, <1>3, <1>5 DEF RowInv
<1>11. SweepInv' BY <1>2, <1>3, <1>5, <1>6 DEF SweepInv, Swept
<1>12. HoldInv' BY <1>2, <1>3, <1>4, <1>5 DEF HoldInv, Issued, Stored
<1>13. StoredKept' BY <1>2, <1>3, <1>5, <1>6 DEF StoredKept
<1> QED BY <1>7, <1>8, <1>9, <1>10, <1>11, <1>12, <1>13

-----------------------------------------------------------------------------
(* What every step of the sweep leaves alone. *)
LEMMA SweepFrame ==
    ASSUME BucketInv, Sweep
    PROVE  /\ UNCHANGED <<now, op, slug, right, row, keys, left, pc, reply>>
           /\ mishaps' \in Nat /\ mishaps' >= mishaps
           /\ \A u \in Requests :
                /\ (Issued(u)' <=> Issued(u)) /\ (Stored(u)' <=> Stored(u))
                /\ (Withdrawn(u)' <=> Withdrawn(u)) /\ (Expired(row[u])' <=> Expired(row[u]))
<1>1. UNCHANGED <<now, op, slug, right, row, keys, left, pc, reply>>
  BY DEF Sweep, SweepList, SweepListFiles, SweepPick, SweepStoreDelete, SweepRepoDelete, request
<1>2. mishaps' \in Nat /\ mishaps' >= mishaps
  BY DEF Sweep, SweepList, SweepListFiles, SweepPick, SweepStoreDelete, SweepRepoDelete,
         Fault, NoFault, BucketInv, TypeOK
<1> QED BY <1>1, <1>2 DEF Issued, Stored, Withdrawn, AskedToDelete, Expired, ExpiredAt

(* A sweep that only lists and picks, and takes up only buckets whose      *)
(* promise has run out and keys that are in bucket_files.                  *)
LEMMA SweepPlans ==
    ASSUME BucketInv, TypeOK', RequestInv', Sweep, UNCHANGED table,
           \A s \in Slugs : s \in Swept' => s \in Swept \/ SweepableAt(buckets[s], now),
           \A s \in Slugs : plan'[s] \subseteq plan[s] \cup members[s]
    PROVE  BucketInv'
<1> USE SweepFrame DEF BucketInv, table
<1>1. VisitInv' BY DEF VisitInv, Published
<1>2. UploadInv' BY DEF UploadInv, SweepableAt, RequestInv
<1>3. KnownInv'
  <2>1. \A s \in Slugs : /\ plan'[s] # {} => plan[s] # {} \/ members[s] # {}
                         /\ s \in Swept' => s \in Swept \/ buckets[s] # NoRow
    BY DEF SweepableAt
  <2> QED BY <2>1 DEF KnownInv
<1>4. RowInv' BY DEF RowInv
<1>5. SweepInv'
  <2> SUFFICES ASSUME NEW u \in Requests, Stored(u), slug[u] \in Swept'
               PROVE  Expired(row[u])
    BY DEF SweepInv
  <2>1. slug[u] \in Slugs /\ row[u] \in Rows BY StoredHas
  <2>2. CASE slug[u] \in Swept BY <2>2 DEF SweepInv
  <2>3. CASE SweepableAt(buckets[slug[u]], now)
    <3>1. buckets[slug[u]].expiresAt = row[u].expiresAt
      BY <2>1, <2>3 DEF RowInv, Rows, SweepableAt, Downloaded
    <3>2. row[u].expiresAt \in Int /\ now \in Nat BY <2>1 DEF Rows, TypeOK
    <3> QED BY <2>3, <3>1, <3>2, SweptIsExpired DEF SweepableAt, Expired, ExpiredAt
  <2> QED BY <2>1, <2>2, <2>3
<1>6. HoldInv' BY DEF HoldInv
<1>7. StoredKept' BY DEF StoredKept
<1> QED BY <1>1, <1>2, <1>3, <1>4, <1>5, <1>6, <1>7

(* The sweep removes bytes of a bucket whose promise has run out. *)
LEMMA SweepUnlinks ==
    ASSUME BucketInv, TypeOK', RequestInv', SweepStoreDelete
    PROVE  BucketInv'
<1> USE DEF BucketInv
<1>1. Sweep BY DEF Sweep
<1>2. cur \in Slugs /\ cur \in Swept /\ UNCHANGED <<buckets, members, listed, todo, cur>>
  BY DEF SweepStoreDelete, TypeOK, Swept
<1>3. blobs \ blobs' \subseteq plan[cur] /\ \A s \in Slugs : plan'[s] \subseteq plan[s]
  BY <1>2 DEF SweepStoreDelete, TypeOK
<1>4. PICK v \in Requests : op[v] = "upload" /\ slug[v] = cur BY <1>2 DEF KnownInv
<1>5. blobs \ blobs' \subseteq keys[v] BY <1>2, <1>3, <1>4 DEF KnownInv
<1>6. \A u \in Requests : op[u] = "upload" /\ u # v /\ keys[u] \subseteq blobs => keys[u] \subseteq blobs'
  BY <1>4, <1>5 DEF UploadInv
<1>7. Stored(v) => Withdrawn(v) BY <1>2, <1>4 DEF SweepInv, Withdrawn
<1>8. pc[v] # "write" BY <1>2, <1>4 DEF UploadInv
<1>9. VisitInv' BY <1>1, SweepFrame DEF VisitInv, Published
<1>10. UploadInv' BY <1>1, <1>2, <1>6, <1>8, SweepFrame DEF UploadInv, Swept, RequestInv
<1>11. KnownInv'
  <2>1. \A s \in Slugs : plan'[s] # {} => plan[s] # {} BY <1>3
  <2>2. Swept' = Swept BY <1>2 DEF Swept
  <2> QED BY <1>1, <1>2, <1>3, <2>1, <2>2, SweepFrame DEF KnownInv
<1>12. RowInv' BY <1>1, <1>2, SweepFrame DEF RowInv
<1>13. SweepInv' BY <1>1, <1>2, SweepFrame DEF SweepInv, Swept
<1>14. HoldInv' BY <1>1, SweepFrame DEF HoldInv
<1>15. StoredKept'
  <2> SUFFICES ASSUME NEW u \in Requests, Stored(u), ~Withdrawn(u)
               PROVE  /\ buckets[slug[u]] \in {row[u], Downloaded(row[u])}
                      /\ members[slug[u]] = keys[u] \ left[u]
                      /\ keys[u] \subseteq blobs'
    BY <1>1, <1>2, SweepFrame DEF StoredKept
  <2>1. op[u] = "upload" /\ u # v BY <1>7 DEF Stored
  <2> QED BY <1>6, <2>1 DEF StoredKept
<1> QED BY <1>9, <1>10, <1>11, <1>12, <1>13, <1>14, <1>15

(* The sweep keeps the inductive invariant. *)
LEMMA SweepKeeps == ASSUME BucketInv, TypeOK', RequestInv', Sweep PROVE BucketInv'
<1>1. CASE SweepList
  <2>1. UNCHANGED <<table, plan, todo, cur>> BY <1>1 DEF SweepList
  <2>2. \A s \in listed' : SweepableAt(buckets[s], now) BY <1>1 DEF SweepList
  <2>3. \A s \in Slugs : s \in Swept' => s \in Swept \/ SweepableAt(buckets[s], now)
    BY <2>1, <2>2 DEF Swept
  <2>4. UNCHANGED table /\ \A s \in Slugs : plan'[s] \subseteq plan[s] \cup members[s] BY <2>1
  <2> QED BY <2>3, <2>4, SweepPlans
<1>2. CASE SweepListFiles
  <2>1. UNCHANGED table BY <1>2 DEF SweepListFiles
  <2>2. \A s \in Slugs : s \in Swept' => s \in Swept \/ SweepableAt(buckets[s], now)
    BY <1>2 DEF SweepListFiles, Swept
  <2>3. \A s \in Slugs : plan'[s] \subseteq plan[s] \cup members[s]
    BY <1>2 DEF SweepListFiles, BucketInv, TypeOK
  <2> QED BY <2>1, <2>2, <2>3, SweepPlans
<1>3. CASE SweepPick
  <2>1. UNCHANGED table BY <1>3 DEF SweepPick
  <2>2. \A s \in Slugs : s \in Swept' => s \in Swept \/ SweepableAt(buckets[s], now)
    BY <1>3 DEF SweepPick, Swept
  <2>3. \A s \in Slugs : plan'[s] \subseteq plan[s] \cup members[s] BY <1>3 DEF SweepPick
  <2> QED BY <2>1, <2>2, <2>3, SweepPlans
<1>4. CASE SweepStoreDelete BY <1>4, SweepUnlinks
<1>5. CASE SweepRepoDelete
  <2>1. cur \in Slugs /\ cur \in Swept /\ (DropBucket(cur) \/ KeepBucket)
    BY <1>5 DEF SweepRepoDelete, BucketInv, TypeOK, Swept
  <2>2. UNCHANGED <<blobs, plan>> /\ Swept' \subseteq Swept \cup {NoSlug} BY <1>5 DEF SweepRepoDelete, Swept
  <2>3. \A u \in Requests : Stored(u) /\ slug[u] = cur => Withdrawn(u)
    BY <2>1 DEF BucketInv, SweepInv, Withdrawn
  <2>4. PICK s \in Slugs : s = cur /\ (DropBucket(s) \/ KeepBucket) BY <2>1
  <2> QED BY <2>2, <2>3, <2>4, SweepFrame, DropKeeps
<1> QED BY <1>1, <1>2, <1>3, <1>4, <1>5 DEF Sweep

(* A crash answers nobody and leaves tables and bytes alone. *)
LEMMA CrashKeeps == ASSUME BucketInv, TypeOK', Crash PROVE BucketInv'
<1> USE DEF BucketInv
<1>1. UNCHANGED <<buckets, members, blobs, now, op, slug, right, row, keys, left>>
  BY DEF Crash, table, request
<1>2. \A r \in Requests :
        \/ pc[r] \in {"new", "done"} /\ pc'[r] = pc[r] /\ reply'[r] = reply[r]
        \/ pc[r] \notin {"new", "done"} /\ pc'[r] = "done" /\ reply'[r] = "lost"
  BY DEF Crash
<1>3. \A u \in Requests : /\ Issued(u)' <=> Issued(u)
                          /\ Stored(u)' => Stored(u)
                          /\ Withdrawn(u)' <=> Withdrawn(u)
                          /\ Expired(row[u])' <=> Expired(row[u])
  BY <1>1, <1>2 DEF Issued, Stored, RequestInv, Withdrawn, AskedToDelete, Expired, ExpiredAt
<1>4. Swept' = {NoSlug} /\ \A s \in Slugs : plan'[s] = {} BY DEF Crash, Swept
<1>5. RequestInv' BY <1>1, <1>2 DEF RequestInv, Issued
<1>6. VisitInv' BY <1>1, <1>3 DEF VisitInv, Published
<1>7. UploadInv' BY <1>1, <1>2, <1>4 DEF UploadInv
<1>8. KnownInv' BY <1>1, <1>4, SlugAssumption DEF KnownInv
<1>9. RowInv' BY <1>1, <1>3 DEF RowInv
<1>10. SweepInv' BY <1>1, <1>3, <1>4, StoredHas, SlugAssumption DEF SweepInv
<1>11. HoldInv' BY <1>1, <1>2, <1>3 DEF HoldInv
<1>12. StoredKept' BY <1>1, <1>3 DEF StoredKept
<1> QED BY <1>5, <1>6, <1>7, <1>8, <1>9, <1>10, <1>11, <1>12

(* As time passes a promise may run out, and none comes back. *)
LEMMA TickKeeps == ASSUME BucketInv, TypeOK', Tick PROVE BucketInv'
<1> USE DEF BucketInv
<1>1. UNCHANGED <<buckets, members, blobs, op, slug, right, row, keys, left, pc, reply, listed, plan, todo, cur>>
  BY DEF Tick, table, request, sweeper
<1>2. \A u \in Requests : Stored(u) /\ Expired(row[u]) => Expired(row[u])'
  <2> SUFFICES ASSUME NEW u \in Requests, Stored(u), Expired(row[u])
               PROVE  now' > row[u].expiresAt * TicksPerSecond
    BY <1>1 DEF Expired, ExpiredAt
  <2>1. row[u].expiresAt * TicksPerSecond \in Int /\ now \in Nat
    BY ClockAssumption, StoredHas DEF Rows, TypeOK
  <2> QED BY <2>1 DEF Expired, ExpiredAt, Tick
<1>3. \A u \in Requests : (Issued(u)' <=> Issued(u)) /\ (Stored(u)' <=> Stored(u))
  BY <1>1 DEF Issued, Stored
<1>4. \A u \in Requests : Stored(u) /\ Withdrawn(u) => Withdrawn(u)'
  BY <1>1, <1>2 DEF Withdrawn, AskedToDelete
<1>5. RequestInv' BY <1>1 DEF RequestInv, Issued
<1>6. VisitInv' BY <1>1 DEF VisitInv, Published, Issued
<1>7. UploadInv' BY <1>1 DEF UploadInv, Swept
<1>8. KnownInv' BY <1>1 DEF KnownInv, Swept
<1>9. RowInv' BY <1>1, <1>3 DEF RowInv
<1>10. SweepInv' BY <1>1, <1>2, <1>3 DEF SweepInv, Swept
<1>11. HoldInv' BY <1>1, <1>3 DEF HoldInv
<1>12. StoredKept' BY <1>1, <1>3, <1>4 DEF StoredKept
<1> QED BY <1>5, <1>6, <1>7, <1>8, <1>9, <1>10, <1>11, <1>12

(* Every step keeps the inductive invariant. *)
LEMMA BucketInvStep == BucketInv /\ [Next]_vars => BucketInv'
<1> SUFFICES ASSUME BucketInv, [Next]_vars PROVE BucketInv'
  OBVIOUS
<1>1. TypeOK' BY TypeStep DEF BucketInv
<1>2. ASSUME NEW r \in Requests, Handle(r) PROVE BucketInv'
  <2>1. RequestInv' BY <1>1, <1>2, HandleRequests
  <2> QED BY <1>1, <1>2, <2>1, HandleCases, ReaderIsQuiet, QuietKeeps, RefuseKeeps, WriteKeeps,
             CreateKeeps, UndoKeeps, AddKeeps, MarkKeeps, UnlinkKeeps, DeleteKeeps, DrawKeeps, ArriveKeeps
<1>3. CASE Sweep
  <2>1. RequestInv' BY <1>3, SweepFrame DEF BucketInv, RequestInv, Issued
  <2> QED BY <1>1, <1>3, <2>1, SweepKeeps
<1>4. CASE Crash BY <1>1, <1>4, CrashKeeps
<1>5. CASE Tick BY <1>1, <1>5, TickKeeps
<1>6. CASE UNCHANGED vars
  BY <1>6 DEF vars, BucketInv, TypeOK, RequestInv, VisitInv, UploadInv, KnownInv, RowInv, SweepInv,
              HoldInv, StoredKept, Swept, Stored, Issued, Published, Withdrawn, AskedToDelete,
              Expired, ExpiredAt
<1> QED BY <1>2, <1>3, <1>4, <1>5, <1>6 DEF Next

(* The inductive invariant holds in every reachable state. *)
THEOREM BucketSafe == Spec => []BucketInv
<1>1. Init => BucketInv
  <2> SUFFICES ASSUME Init PROVE BucketInv
    OBVIOUS
  <2>1. TypeOK BY DEF Init, TypeOK, Ops, Calls, Replies
  <2> QED BY <2>1, SlugAssumption
         DEF Init, BucketInv, RequestInv, VisitInv, UploadInv, KnownInv, RowInv, SweepInv, HoldInv,
             StoredKept, Stored, Issued, Swept
<1> QED BY <1>1, BucketInvStep, PTL DEF Spec

(* Type correctness of transfer buckets. *)
THEOREM BucketTypes == Spec => []TypeOK
<1>1. BucketInv => TypeOK BY DEF BucketInv
<1> QED BY <1>1, BucketSafe, PTL

(* A published bucket keeps its row, its file rows and the bytes of every  *)
(* file until it expires or its deletion is asked for: although rows and   *)
(* bytes are written one at a time without a transaction, against every    *)
(* interleaving of uploads, readers, deletions and the sweep, every        *)
(* failing statement or file operation, and crashes.                       *)
THEOREM BucketIsKept == Spec => []BucketKept
<1>1. BucketInv => BucketKept
  <2> SUFFICES ASSUME BucketInv, NEW u \in Requests, Issued(u), ~Withdrawn(u)
               PROVE  /\ buckets[slug[u]] \in {row[u], Downloaded(row[u])}
                      /\ members[slug[u]] = keys[u]
                      /\ keys[u] \subseteq blobs
    BY DEF BucketKept
  <2>1. Stored(u) /\ left[u] = {} BY DEF Issued, Stored, BucketInv, RequestInv
  <2> QED BY <2>1 DEF BucketInv, StoredKept
<1> QED BY <1>1, BucketSafe, PTL

-----------------------------------------------------------------------------
(* A bucket that is published after a step of request r was published      *)
(* before, or r has just added its last file: then it is not expired, has  *)
(* its row, and nobody else is about its slug.                             *)
LEMMA IssuedCases ==
    ASSUME BucketInv, NEW r \in Requests, Handle(r), NEW u \in Requests, Issued(u)'
    PROVE  \/ /\ Issued(u) /\ u # r /\ slug[u] \in Slugs /\ row[u] \in Rows
              /\ slug'[u] = slug[u] /\ row'[u] = row[u] /\ keys'[u] = keys[u]
              /\ Withdrawn(u) => Withdrawn(u)'
           \/ /\ u = r /\ op[r] = "upload" /\ slug[r] \in Slugs /\ pc[r] = "add"
              /\ UNCHANGED <<buckets, blobs, op, slug, row, todo, cur>>
              /\ buckets[slug[r]] # NoRow /\ ~Expired(row[r])
              /\ \A x \in Requests : x # r /\ op[x] # "none" => slug[x] # slug[r]
<1>1. CASE Issued(u)
  <2>1. u # r /\ slug[u] \in Slugs /\ row[u] \in Rows
    BY <1>1, HandleFrame DEF Issued, BucketInv, RequestInv
  <2>2. slug'[u] = slug[u] /\ row'[u] = row[u] /\ keys'[u] = keys[u] /\ now' = now BY <2>1, HandleFrame
  <2>3. \A x \in Requests : op[x] = "delete" /\ slug[x] = slug[u] /\ right[x] =>
          op'[x] = "delete" /\ slug'[x] = slug'[u] /\ right'[x]
    BY <2>2, HandleFrame
  <2>4. Withdrawn(u) => Withdrawn(u)' BY <2>2, <2>3 DEF Withdrawn, AskedToDelete, Expired, ExpiredAt
  <2> QED BY <1>1, <2>1, <2>2, <2>4
<1>2. CASE ~Issued(u)
  <2>1. u = r BY <1>2, HandleFrame DEF Issued
  <2>2. reply'[r] = "created" /\ reply[r] # "created" /\ reply'[r] # reply[r] /\ reply[r] = "none"
    <3>1. reply'[r] = "created" /\ op'[r] = "upload" BY <2>1 DEF Issued
    <3>2. reply[r] = "none" BY HandleFrame DEF BucketInv, RequestInv
    <3> QED BY <3>1, <3>2
  <2>3. AddFile(r)
    BY <2>2, HandleCases
       DEF RefuseUpload, StoreWrite, RepoCreate, UploadUndo, GetBucketRow, View, DownloadZIP, DownloadFile,
           DeleteBucket, GetBucketFiles, MarkDownloaded, StreamZIP, GetFile, StoreDelete, RepoDelete,
           Create, Arrive, Goto, Stay, Reply, BucketAdmission, Admission, BucketInv, TypeOK
  <2>4. op[r] = "upload" /\ slug[r] \in Slugs /\ pc[r] = "add"
    BY <2>3 DEF AddFile, BucketInv, RequestInv
  <2>5. UNCHANGED <<buckets, blobs, op, slug, row, todo, cur>> BY <2>3 DEF AddFile, request, sweeper
  <2>6. buckets[slug[r]] # NoRow /\ ~Expired(row[r])
    BY <2>2, <2>3 DEF AddFile, Stay, Reply, BucketInv, TypeOK
  <2>7. \A x \in Requests : x # r /\ op[x] # "none" => slug[x] # slug[r]
    BY <2>2, <2>4, Unshared
  <2> QED BY <2>1, <2>4, <2>5, <2>6, <2>7
<1> QED BY <1>1, <1>2

(* A published bucket that lacks its row is withdrawn; one that has it has *)
(* all its file rows, and the options its upload promised.                 *)
LEMMA PromisedRow ==
    ASSUME BucketInv, NEW u \in Requests, Issued(u)
    PROVE  /\ slug[u] \in Slugs /\ row[u] \in Rows
           /\ \A f \in {row[u], Downloaded(row[u])} :
                f # NoRow /\ f.oneUse = row[u].oneUse /\ f.protected = row[u].protected
           /\ buckets[slug[u]] # NoRow =>
                buckets[slug[u]] \in {row[u], Downloaded(row[u])} /\ members[slug[u]] = keys[u]
           /\ ~Withdrawn(u) => members[slug[u]] = keys[u] /\ keys[u] \subseteq blobs
<1>1. Stored(u) /\ left[u] = {} BY DEF Issued, Stored, BucketInv, RequestInv
<1>2. slug[u] \in Slugs /\ row[u] \in Rows BY <1>1, StoredHas
<1>3. \A f \in {row[u], Downloaded(row[u])} :
        f # NoRow /\ f.oneUse = row[u].oneUse /\ f.protected = row[u].protected
  BY <1>1, <1>2, StoredHas DEF Downloaded, Rows
<1> QED BY <1>1, <1>2, <1>3 DEF BucketInv, RowInv, StoredKept

(* Who goes on to content has passed the check of the promised password. *)
LEMMA HandlePass ==
    ASSUME BucketInv, PassInv, NEW r \in Requests, Handle(r),
           NEW u \in Requests, Issued(u), slug'[r] = slug[u], op'[r] # "upload"
    PROVE  /\ pc'[r] = "list" => row'[r] \in {row[u], Downloaded(row[u])}
           /\ row[u].protected /\ (pc'[r] \in {"mark", "stream", "read"} \/ Downloads(r, u)') => right'[r]
<1> DEFINE Q == /\ pc'[r] = "list" => row'[r] \in {row[u], Downloaded(row[u])}
                /\ row[u].protected /\ (pc'[r] \in {"mark", "stream", "read"} \/ Downloads(r, u)') => right'[r]
<1> SUFFICES Q OBVIOUS
<1> USE DEF BucketInv, TypeOK, RequestInv, Issued, request, table, sweeper, PassInv, Downloads, Fault, NoFault
<1>1. CASE RefuseUpload(r) BY <1>1 DEF RefuseUpload, Reply
<1>2. CASE StoreWrite(r) BY <1>2 DEF StoreWrite, Visit, Goto, Stay
<1>3. CASE RepoCreate(r) BY <1>3 DEF RepoCreate, Insert, Visit, Goto
<1>4. CASE UploadUndo(r) BY <1>4 DEF UploadUndo, Visit, Stay, Reply
<1>5. CASE AddFile(r) BY <1>5 DEF AddFile, InsertMember, Visit, Stay, Reply
<1>6. CASE GetBucketRow(r) BY <1>6, PromisedRow DEF GetBucketRow, Goto, Reply
<1>7. CASE View(r) BY <1>7 DEF View, BucketAdmission, Admission, GetBucketFiles, Goto, Reply
<1>8. CASE DownloadZIP(r)
  <2>1. pc[r] = "list" /\ UNCHANGED <<op, slug, right, row>> BY <1>8 DEF DownloadZIP, GetBucketFiles
  <2>2. row[r] \in {row[u], Downloaded(row[u])} BY <2>1 DEF PassInv
  <2>3. BucketAdmission(r) = "ok" /\ row[u].protected => right[r]
    BY <2>2, PromisedRow DEF BucketAdmission, Admission
  <2>4. pc'[r] # "list" /\ (pc'[r] \in {"mark", "stream", "read"} => BucketAdmission(r) = "ok")
    BY <1>8 DEF DownloadZIP, GetBucketFiles, Visit, Goto, Reply
  <2>5. Downloads(r, u)' => BucketAdmission(r) = "ok"
    BY <1>8 DEF DownloadZIP, GetBucketFiles, Visit, Goto, Reply, Downloads
  <2> QED BY <2>1, <2>3, <2>4, <2>5
<1>9. CASE DownloadFile(r)
  <2>1. pc[r] = "list" /\ UNCHANGED <<op, slug, right, row>> BY <1>9 DEF DownloadFile, GetBucketFiles
  <2>2. row[r] \in {row[u], Downloaded(row[u])} BY <2>1 DEF PassInv
  <2>3. BucketAdmission(r) = "ok" /\ row[u].protected => right[r]
    BY <2>2, PromisedRow DEF BucketAdmission, Admission
  <2>4. pc'[r] # "list" /\ (pc'[r] \in {"mark", "stream", "read"} => BucketAdmission(r) = "ok")
    BY <1>9 DEF DownloadFile, GetBucketFiles, Visit, Goto, Reply
  <2>5. Downloads(r, u)' => BucketAdmission(r) = "ok"
    BY <1>9 DEF DownloadFile, GetBucketFiles, Visit, Goto, Reply, Downloads
  <2> QED BY <2>1, <2>3, <2>4, <2>5
<1>10. CASE DeleteBucket(r) BY <1>10 DEF DeleteBucket, Visit, GetBucketFiles, Goto, Reply
<1>11. CASE MarkDownloaded(r) BY <1>11 DEF MarkDownloaded, Mark, Goto, Reply
<1>12. CASE StreamZIP(r) BY <1>12 DEF StreamZIP, Visit, Stay, Reply
<1>13. CASE GetFile(r) BY <1>13 DEF GetFile, Reply
<1>14. CASE StoreDelete(r) BY <1>14 DEF StoreDelete, Visit
<1>15. CASE RepoDelete(r) BY <1>15 DEF RepoDelete, DropBucket, KeepBucket, Reply
<1>16. ASSUME NEW s \in Slugs, NEW K \in SUBSET Keys, NEW oneUse \in BOOLEAN,
              NEW protected \in BOOLEAN, NEW d \in Expiries,
              Create(r, s, K, oneUse, protected, d)
      PROVE  Q
  BY <1>16 DEF Create, Visit, Goto
<1>17. ASSUME NEW s \in Slugs, NEW good \in BOOLEAN, NEW what \in {"view", "zip", "file", "delete"},
              NEW K \in SUBSET Keys, Arrive(r, what, s, good, K)
      PROVE  Q
  BY <1>17 DEF Arrive, Visit, Goto
<1> HIDE DEF Q, BucketInv, TypeOK, RequestInv, Issued, request, table, sweeper, PassInv, Downloads, Fault, NoFault
<1> QED BY <1>1, <1>2, <1>3, <1>4, <1>5, <1>6, <1>7, <1>8, <1>9, <1>10, <1>11, <1>12, <1>13, <1>14, <1>15, <1>16, <1>17, HandleCases

(* The row of a published bucket changes only by a mark or a deletion, and *)
(* nobody adds bytes to it.                                                *)
LEMMA PublishedRows ==
    ASSUME BucketInv, NEW r \in Requests, Handle(r), NEW u \in Requests, Issued(u)
    PROVE  /\ \/ buckets'[slug[u]] = buckets[slug[u]]
              \/ slug[r] = slug[u] /\ MarkDownloaded(r) /\ Mark(slug[r])
              \/ slug[r] = slug[u] /\ RepoDelete(r) /\ DropBucket(slug[r])
           /\ keys[u] \cap blobs' \subseteq blobs
<1>1. u # r /\ slug[u] \in Slugs /\ op[u] = "upload" BY HandleFrame DEF Issued, BucketInv, RequestInv
<1>2. CASE RepoCreate(r)
  <2>1. slug[r] \in Slugs /\ slug[u] # slug[r] BY <1>1, <1>2, UploadFrame
  <2> QED BY <1>1, <1>2, <2>1 DEF RepoCreate, Insert, BucketInv, TypeOK
<1>3. CASE MarkDownloaded(r)
  <2>1. slug[r] \in Slugs BY <1>3, VisitorFrame
  <2>2. buckets' = buckets \/ Mark(slug[r]) BY <1>3 DEF MarkDownloaded
  <2> QED BY <1>1, <1>3, <2>1, <2>2, MarkEffect DEF MarkDownloaded, BucketInv
<1>4. CASE RepoDelete(r)
  <2>1. slug[r] \in Slugs BY <1>4, VisitorFrame
  <2>2. buckets' = buckets \/ DropBucket(slug[r]) BY <1>4 DEF RepoDelete, KeepBucket
  <2> QED BY <1>1, <1>4, <2>1, <2>2 DEF RepoDelete, DropBucket, BucketInv, TypeOK
<1>5. CASE StoreWrite(r)
  <2>1. blobs' \subseteq blobs \cup left[r] /\ buckets' = buckets BY <1>5 DEF StoreWrite
  <2>2. keys[u] \cap left[r] = {} BY <1>1, <1>5, UploadFrame DEF BucketInv, UploadInv
  <2> QED BY <2>1, <2>2
<1>6. CASE /\ ~RepoCreate(r) /\ ~MarkDownloaded(r) /\ ~RepoDelete(r) /\ ~StoreWrite(r)
  BY <1>6, HandleCases
     DEF RefuseUpload, UploadUndo, AddFile, GetBucketRow, View, DownloadZIP, DownloadFile, DeleteBucket,
         GetBucketFiles, StreamZIP, GetFile, StoreDelete, Create, Arrive, table
<1> QED BY <1>2, <1>3, <1>4, <1>5, <1>6

(* A one-use archive is entered only by setting the mark. *)
LEMMA HandleStreams ==
    ASSUME BucketInv, PassInv, NEW r \in Requests, Handle(r), NEW u \in Requests, Issued(u), row[u].oneUse
    PROVE  /\ Fresh(buckets'[slug[u]]) => Fresh(buckets[slug[u]])
           /\ Streams(r, u)' =>
                Streams(r, u) \/ (Fresh(buckets[slug[u]]) /\ ~Fresh(buckets'[slug[u]]))
<1>1. u # r /\ slug[u] \in Slugs /\ slug'[u] = slug[u] /\ reply[r] = "none"
  BY HandleFrame DEF Issued, BucketInv, RequestInv
<1>2. Fresh(buckets'[slug[u]]) => Fresh(buckets[slug[u]])
  BY <1>1, PublishedRows DEF Mark, DropBucket, Fresh, BucketInv, TypeOK
<1>3. ASSUME Streams(r, u)', ~Streams(r, u)
      PROVE  Fresh(buckets[slug[u]]) /\ ~Fresh(buckets'[slug[u]])
  <2>1. CASE op[r] = "none"
    <3>1. pc[r] = "new" BY <2>1 DEF BucketInv, RequestInv
    <3>2. pc'[r] # "stream" /\ (reply'[r] = "none" \/ op'[r] = "upload")
      BY <1>1, <3>1, HandleCases
         DEF RefuseUpload, StoreWrite, RepoCreate, UploadUndo, AddFile, GetBucketRow, View, DownloadZIP,
             DownloadFile, DeleteBucket, GetBucketFiles, MarkDownloaded, StreamZIP, GetFile, StoreDelete,
             RepoDelete, Create, Arrive, Goto, Reply, BucketInv, TypeOK
    <3> QED BY <1>3, <3>2 DEF Streams
  <2>2. CASE op[r] # "none"
    <3>1. op[r] = "zip" /\ slug[r] = slug[u] /\ pc[r] # "stream"
      BY <1>1, <1>3, <2>2, HandleFrame DEF Streams
    <3>2. pc'[r] = "stream" \/ reply'[r] = "ok" BY <1>3 DEF Streams
    <3>3. CASE DownloadZIP(r)
      <4>1. pc'[r] = "stream" => ~row[r].oneUse
        BY <3>3 DEF DownloadZIP, GetBucketFiles, Goto, Reply, BucketInv, TypeOK
      <4>2. reply'[r] # "ok" BY <1>1, <3>3 DEF DownloadZIP, GetBucketFiles, Goto, Reply, BucketInv, TypeOK
      <4>3. pc[r] = "list" BY <3>3 DEF DownloadZIP, GetBucketFiles
      <4>4. row[r] \in {row[u], Downloaded(row[u])} BY <3>1, <4>3 DEF PassInv
      <4> QED BY <3>2, <4>1, <4>2, <4>4, PromisedRow
    <3>4. CASE MarkDownloaded(r)
      <4>1. Fresh(buckets[slug[r]]) /\ Mark(slug[r])
        BY <1>1, <3>2, <3>4 DEF MarkDownloaded, Goto, Reply, BucketInv, TypeOK
      <4>2. buckets'[slug[r]] = Downloaded(buckets[slug[r]]) /\ buckets[slug[r]] \in Rows
        BY <1>1, <3>1, <4>1 DEF Mark, Fresh, BucketInv, TypeOK
      <4> QED BY <3>1, <4>1, <4>2 DEF Fresh, Downloaded, Rows
    <3> QED
      BY <1>1, <3>1, <3>2, <3>3, <3>4, HandleCases
         DEF RefuseUpload, StoreWrite, RepoCreate, UploadUndo, AddFile, GetBucketRow, View,
             DownloadFile, DeleteBucket, GetBucketFiles, StreamZIP, GetFile, StoreDelete, RepoDelete,
             Create, Arrive, Goto, Reply, BucketInv, TypeOK, RequestInv
  <2> QED BY <2>1, <2>2
<1> QED BY <1>2, <1>3

(* An archive in the making keeps what is left to send; it is answered     *)
(* when nothing is left, unless the bucket was withdrawn.                  *)
LEMMA HandleArchive ==
    ASSUME BucketInv, PromiseInv, NEW r \in Requests, Handle(r), NEW u \in Requests, Issued(u),
           slug'[r] = slug[u], op'[r] = "zip"
    PROVE  /\ pc'[r] \in {"mark", "stream"} => keys'[r] \cup left'[r] = keys[u] \/ Withdrawn(u)
           /\ reply'[r] = "ok" /\ mishaps' = 0 => keys'[r] = keys[u] \/ Withdrawn(u)
<1>1. reply[r] = "none" /\ u # r BY HandleFrame DEF Issued, BucketInv, RequestInv
<1>2. CASE op[r] = "none"
  <2>1. pc[r] = "new" BY <1>2 DEF BucketInv, RequestInv
  <2>2. pc'[r] \notin {"mark", "stream"} /\ (reply'[r] = "none" \/ op'[r] = "upload")
    BY <1>1, <2>1, HandleCases
       DEF RefuseUpload, StoreWrite, RepoCreate, UploadUndo, AddFile, GetBucketRow, View, DownloadZIP,
           DownloadFile, DeleteBucket, GetBucketFiles, MarkDownloaded, StreamZIP, GetFile, StoreDelete,
           RepoDelete, Create, Arrive, Goto, Reply, BucketInv, TypeOK
  <2> QED BY <2>2
<1>3. CASE op[r] # "none"
  <2>1. op[r] = "zip" /\ slug[r] = slug[u] BY <1>3, HandleFrame
  <2>2. CASE GetBucketRow(r) BY <1>1, <2>2 DEF GetBucketRow, Goto, Reply, BucketInv, TypeOK
  <2>3. CASE DownloadZIP(r)
    <3>1. keys'[r] = {} BY <2>3 DEF DownloadZIP, GetBucketFiles, BucketInv, RequestInv
    <3>2. pc'[r] \in {"mark", "stream"} => left'[r] = members[slug[u]]
      BY <2>1, <2>3 DEF DownloadZIP, GetBucketFiles, Visit, Reply, BucketInv, TypeOK
    <3>3. reply'[r] # "ok"
      BY <1>1, <2>3 DEF DownloadZIP, GetBucketFiles, Visit, Goto, Reply, BucketInv, TypeOK
    <3> QED BY <3>1, <3>2, <3>3, PromisedRow
  <2>4. CASE MarkDownloaded(r)
    <3>1. UNCHANGED <<keys, left>> /\ reply'[r] # "ok" /\ pc[r] = "mark"
      BY <1>1, <2>4 DEF MarkDownloaded, Goto, Reply, BucketInv, TypeOK
    <3> QED BY <2>1, <3>1 DEF PromiseInv, ZipInv
  <2>5. CASE StreamZIP(r)
    <3>1. keys[r] \cup left[r] = keys[u] \/ Withdrawn(u)
      BY <2>1, <2>5 DEF StreamZIP, PromiseInv, ZipInv
    <3>2. keys'[r] \cup left'[r] = keys[r] \cup left[r]
      BY <2>5 DEF StreamZIP, Visit, BucketInv, TypeOK
    <3>3. CASE left[r] = {} BY <3>1, <3>2, <3>3, <2>5 DEF StreamZIP
    <3>4. CASE left[r] # {} /\ reply'[r] = "ok" /\ mishaps' = 0
      <4>1. PICK k \in left[r] : k \notin blobs
        <5>1. ~Fault("disk") /\ ~Stay BY <1>1, <3>4 DEF Fault, Stay, BucketInv, TypeOK
        <5> QED BY <2>5, <3>4, <5>1 DEF StreamZIP
      <4>2. ~Withdrawn(u) => keys[u] \subseteq blobs BY PromisedRow
      <4> QED BY <3>1, <3>2, <4>1, <4>2
    <3> QED BY <3>1, <3>2, <3>3, <3>4
  <2> QED
    BY <1>1, <1>3, <2>1, <2>2, <2>3, <2>4, <2>5, HandleCases
       DEF RefuseUpload, StoreWrite, RepoCreate, UploadUndo, AddFile, View, DownloadFile, DeleteBucket,
           GetFile, StoreDelete, RepoDelete, Create, Arrive, BucketInv, RequestInv
<1> QED BY <1>2, <1>3

(* A deletion answers ok when it has dropped the row. *)
LEMMA HandleDeletes ==
    ASSUME BucketInv, NEW r \in Requests, Handle(r), op'[r] = "delete", reply'[r] = "ok"
    PROVE  RepoDelete(r) /\ DropBucket(slug[r]) /\ slug[r] \in Slugs
<1>1. reply[r] = "none" BY HandleFrame DEF BucketInv, RequestInv
<1>2. RepoDelete(r)
  BY <1>1, HandleCases
     DEF RefuseUpload, StoreWrite, RepoCreate, UploadUndo, AddFile, GetBucketRow, View, DownloadZIP,
         DownloadFile, DeleteBucket, GetBucketFiles, MarkDownloaded, StreamZIP, GetFile, StoreDelete,
         Create, Arrive, Goto, Stay, Reply, request, BucketInv, TypeOK, RequestInv
<1>3. DropBucket(slug[r]) BY <1>2 DEF RepoDelete, Reply, BucketInv, TypeOK
<1> QED BY <1>2, <1>3, VisitorFrame

(* Who is about to remove bytes, or is done with it, has all of them in    *)
(* its loop.                                                               *)
LEMMA HandleUnlinks ==
    ASSUME BucketInv, PromiseInv, "disk" \notin Faults, NEW r \in Requests, Handle(r),
           NEW u \in Requests, Issued(u), slug'[r] = slug[u], pc'[r] = "unlink"
    PROVE  keys[u] \cap blobs' \subseteq left'[r]
<1>1. DeleteBucket(r) \/ StoreDelete(r)
  BY HandleCases
     DEF RefuseUpload, StoreWrite, RepoCreate, UploadUndo, AddFile, GetBucketRow, View, DownloadZIP,
         DownloadFile, GetBucketFiles, MarkDownloaded, StreamZIP, GetFile, RepoDelete,
         Create, Arrive, Goto, Stay, Reply, BucketInv, TypeOK
<1>2. slug[r] = slug[u] BY <1>1 DEF DeleteBucket, GetBucketFiles, StoreDelete, request
<1>3. CASE DeleteBucket(r)
  <2>1. blobs' = blobs /\ left'[r] = members[slug[u]]
    BY <1>2, <1>3 DEF DeleteBucket, GetBucketFiles, Visit, Reply, table, BucketInv, TypeOK
  <2>2. buckets[slug[u]] = NoRow => keys[u] \cap blobs = {}
    BY DEF PromiseInv, BytesInv, NoBytesLeftBehind
  <2> QED BY <2>1, <2>2, PromisedRow
<1>4. CASE StoreDelete(r)
  <2>1. keys[u] \cap blobs \subseteq left[r] BY <1>2, <1>4 DEF StoreDelete, PromiseInv, BytesInv
  <2>2. PICK k \in left[r] : left'[r] = left[r] \ {k} /\ blobs' = blobs \ {k}
    BY <1>4 DEF StoreDelete, Visit, Fault, BucketInv, TypeOK
  <2> QED BY <2>1, <2>2
<1> QED BY <1>1, <1>3, <1>4

(* The steps of requests keep the promises to visitors. *)
LEMMA HandlePromises ==
    ASSUME BucketInv, PromiseInv, BucketInv', NEW r \in Requests, Handle(r)
    PROVE  PromiseInv'
<1>1. ASSUME NEW u \in Requests, NEW x \in Requests, Issued(u)', slug'[x] = slug'[u], op'[x] # "upload"
      PROVE  /\ Issued(u) /\ u # r /\ slug[u] \in Slugs
             /\ slug'[u] = slug[u] /\ row'[u] = row[u] /\ keys'[u] = keys[u]
             /\ Withdrawn(u) => Withdrawn(u)'
  <2>1. op'[x] # "none" => op[x] # "none" \/ x = r BY HandleFrame
  <2>2. op'[x] # "none"
    <3>1. slug'[u] \in Slugs BY <1>1 DEF Issued, BucketInv, RequestInv
    <3> QED BY <1>1, <3>1, SlugAssumption DEF BucketInv, RequestInv
  <2> QED BY <1>1, <2>1, <2>2, IssuedCases
<1>2. PassInv'
  <2> SUFFICES ASSUME NEW u \in Requests, NEW x \in Requests, Issued(u)', slug'[x] = slug'[u], op'[x] # "upload"
               PROVE  /\ pc'[x] = "list" => row'[x] \in {row'[u], Downloaded(row'[u])}
                      /\ /\ row'[u].protected
                         /\ pc'[x] \in {"mark", "stream", "read"} \/ Downloads(x, u)'
                         => right'[x]
    BY DEF PassInv
  <2>1. Issued(u) /\ u # r /\ slug'[u] = slug[u] /\ row'[u] = row[u] BY <1>1
  <2>2. CASE x = r BY <2>1, <2>2, HandlePass DEF PromiseInv
  <2>3. CASE x # r
    <3>1. /\ op'[x] = op[x] /\ slug'[x] = slug[x] /\ right'[x] = right[x]
          /\ pc'[x] = pc[x] /\ reply'[x] = reply[x] /\ row'[x] = row[x]
      BY <2>3, HandleFrame
    <3>2. Downloads(x, u)' <=> Downloads(x, u) BY <2>1, <3>1 DEF Downloads
    <3> QED BY <2>1, <3>1, <3>2 DEF PromiseInv, PassInv
  <2> QED BY <2>2, <2>3
<1>3. HolderInv'
  <2> SUFFICES ASSUME NEW u \in Requests, Issued(u)', row'[u].oneUse
               PROVE  /\ Fresh(buckets'[slug'[u]]) => \A x \in Requests : ~Streams(x, u)'
                      /\ \A x, q \in Requests : Streams(x, u)' /\ Streams(q, u)' => x = q
    BY DEF HolderInv
  <2> SUFFICES ASSUME \E x \in Requests : Streams(x, u)'
               PROVE  /\ Fresh(buckets'[slug'[u]]) => \A x \in Requests : ~Streams(x, u)'
                      /\ \A x, q \in Requests : Streams(x, u)' /\ Streams(q, u)' => x = q
    OBVIOUS
  <2>1. Issued(u) /\ u # r /\ slug'[u] = slug[u] /\ row'[u] = row[u] BY <1>1 DEF Streams
  <2>2. \A x \in Requests : x # r => (Streams(x, u)' <=> Streams(x, u))
    BY <2>1, HandleFrame DEF Streams
  <2>3. /\ Fresh(buckets'[slug[u]]) => Fresh(buckets[slug[u]])
        /\ Streams(r, u)' => Streams(r, u) \/ (Fresh(buckets[slug[u]]) /\ ~Fresh(buckets'[slug[u]]))
    BY <2>1, HandleStreams DEF PromiseInv
  <2>4. /\ Fresh(buckets[slug[u]]) => \A x \in Requests : ~Streams(x, u)
        /\ \A x, q \in Requests : Streams(x, u) /\ Streams(q, u) => x = q
    BY <2>1 DEF PromiseInv, HolderInv
  <2> QED BY <2>1, <2>2, <2>3, <2>4
<1>4. ZipInv' /\ ZipComplete'
  <2>1. ASSUME NEW u \in Requests, NEW x \in Requests, Issued(u)', slug'[x] = slug'[u], op'[x] = "zip"
        PROVE  /\ pc'[x] \in {"mark", "stream"} => keys'[x] \cup left'[x] = keys'[u] \/ Withdrawn(u)'
               /\ reply'[x] = "ok" /\ mishaps' = 0 => keys'[x] = keys'[u] \/ Withdrawn(u)'
    <3>1. /\ Issued(u) /\ u # r /\ slug'[u] = slug[u] /\ keys'[u] = keys[u]
          /\ Withdrawn(u) => Withdrawn(u)'
      BY <1>1, <2>1
    <3>2. CASE x = r BY <2>1, <3>1, <3>2, HandleArchive
    <3>3. CASE x # r
      <4>1. /\ op[x] = "zip" /\ slug[x] = slug[u] /\ pc'[x] = pc[x] /\ reply'[x] = reply[x]
            /\ keys'[x] = keys[x] /\ left'[x] = left[x]
        BY <2>1, <3>1, <3>3, HandleFrame
      <4>2. mishaps' = 0 => mishaps = 0 BY HandleFrame DEF BucketInv, TypeOK
      <4> QED BY <3>1, <4>1, <4>2 DEF PromiseInv, ZipInv, ZipComplete, Downloads
    <3> QED BY <3>2, <3>3
  <2>2. \A x \in Requests : pc'[x] \in {"mark", "stream"} => op'[x] = "zip" BY DEF BucketInv, RequestInv
  <2> QED BY <2>1, <2>2 DEF ZipInv, ZipComplete, Downloads
<1>5. GoneInv'
  <2> SUFFICES ASSUME NEW x \in Requests, op'[x] = "delete", reply'[x] = "ok"
               PROVE  buckets'[slug'[x]] = NoRow
    BY DEF GoneInv
  <2>1. CASE x = r
    <3>1. RepoDelete(r) /\ DropBucket(slug[r]) /\ slug[r] \in Slugs BY <2>1, HandleDeletes
    <3> QED BY <2>1, <3>1 DEF RepoDelete, DropBucket, request, BucketInv, TypeOK
  <2>2. CASE x # r
    <3>1. op[x] = "delete" /\ reply[x] = "ok" /\ slug'[x] = slug[x] BY <2>2, HandleFrame
    <3>2. buckets[slug[x]] = NoRow BY <3>1 DEF PromiseInv, GoneInv
    <3>3. PICK v \in Requests : Issued(v) /\ slug[v] = slug[x] /\ slug[x] \in Slugs
      BY <3>1 DEF BucketInv, VisitInv, Published
    <3> QED BY <3>1, <3>2, <3>3, PublishedRows DEF Mark, Fresh, DropBucket, BucketInv, TypeOK
  <2> QED BY <2>1, <2>2
<1>6. ASSUME "disk" \notin Faults, NEW u \in Requests, Issued(u)'
      PROVE  /\ \A x \in Requests : slug'[x] = slug'[u] /\ pc'[x] = "unlink" =>
                  keys'[u] \cap blobs' \subseteq left'[x]
             /\ slug'[u] \in todo' \cup {cur'} => keys'[u] \cap blobs' \subseteq plan'[slug'[u]]
             /\ buckets'[slug'[u]] = NoRow => keys'[u] \cap blobs' = {}
  <2>1. CASE Issued(u)
    <3>1. u # r /\ slug'[u] = slug[u] /\ keys'[u] = keys[u] /\ slug[u] \in Slugs
      BY <1>6, <2>1, HandleFrame DEF Issued, BucketInv, RequestInv
    <3>2. keys[u] \cap blobs' \subseteq keys[u] \cap blobs BY <2>1, PublishedRows
    <3>3. ASSUME NEW x \in Requests, slug'[x] = slug[u], pc'[x] = "unlink"
          PROVE  keys[u] \cap blobs' \subseteq left'[x]
      <4>1. CASE x = r BY <1>6, <2>1, <3>3, <4>1, HandleUnlinks
      <4>2. CASE x # r
        <5>1. slug[x] = slug[u] /\ pc[x] = "unlink" /\ left'[x] = left[x] BY <3>3, <4>2, HandleFrame
        <5> QED BY <1>6, <2>1, <3>2, <5>1 DEF PromiseInv, BytesInv
      <4> QED BY <4>1, <4>2
    <3>4. slug[u] \in todo' \cup {cur'} => keys[u] \cap blobs' \subseteq plan'[slug[u]]
      BY <1>6, <2>1, <3>2, HandleFrame DEF PromiseInv, BytesInv, sweeper
    <3>5. buckets'[slug[u]] = NoRow => keys[u] \cap blobs' = {}
      <4>1. CASE buckets[slug[u]] = NoRow
        BY <1>6, <2>1, <3>2, <4>1 DEF PromiseInv, BytesInv, NoBytesLeftBehind
      <4>2. CASE buckets[slug[u]] # NoRow /\ buckets'[slug[u]] = NoRow
        <5>1. slug[r] = slug[u] /\ (RepoDelete(r) \/ Mark(slug[r])) BY <2>1, <4>2, PublishedRows
        <5>2. RepoDelete(r) BY <3>1, <4>2, <5>1, MarkEffect DEF BucketInv
        <5> QED BY <1>6, <2>1, <3>2, <5>1, <5>2 DEF RepoDelete, PromiseInv, BytesInv
      <4> QED BY <4>1, <4>2
    <3> QED BY <3>1, <3>3, <3>4, <3>5
  <2>2. CASE ~Issued(u)
    \* the last file has just been added, and the upload is not expired
    <3>1. /\ u = r /\ op[r] = "upload" /\ slug[r] \in Slugs /\ pc[r] = "add"
          /\ UNCHANGED <<buckets, blobs, op, slug, row, todo, cur>>
          /\ buckets[slug[r]] # NoRow /\ ~Expired(row[r])
          /\ \A x \in Requests : x # r /\ op[x] # "none" => slug[x] # slug[r]
      BY <1>6, <2>2, IssuedCases
    <3>2. \A x \in Requests : pc'[x] = "unlink" => op[x] = "delete"
      BY <3>1 DEF BucketInv, RequestInv
    <3>3. slug[r] \notin todo \cup {cur}
      BY <3>1 DEF BucketInv, SweepInv, Stored, Swept
    <3> QED BY <3>1, <3>2, <3>3
  <2> QED BY <2>1, <2>2
<1>7. BytesInv'
  <2>1. "disk" \notin Faults => (listed' # {} => cur' = NoSlug)
    BY HandleFrame DEF PromiseInv, BytesInv, sweeper
  <2> QED BY <1>6, <2>1 DEF BytesInv, NoBytesLeftBehind
<1> QED BY <1>2, <1>3, <1>4, <1>5, <1>7 DEF PromiseInv

-----------------------------------------------------------------------------
(* The sweep answers nobody and marks no row; the keys it has listed for a *)
(* bucket are all that has bytes, and the row goes when none is left.      *)
LEMMA SweepPromises ==
    ASSUME BucketInv, PromiseInv, BucketInv', Sweep
    PROVE  PromiseInv'
<1>1. /\ UNCHANGED <<now, op, slug, right, row, keys, left, pc, reply>>
      /\ mishaps' \in Nat /\ mishaps' >= mishaps
      /\ \A u \in Requests : (Issued(u)' <=> Issued(u)) /\ (Withdrawn(u)' <=> Withdrawn(u))
  BY SweepFrame
<1>2. \A u, r \in Requests : (Downloads(r, u)' <=> Downloads(r, u)) /\ (Streams(r, u)' <=> Streams(r, u))
  BY <1>1 DEF Downloads, Streams
<1>3. \A s \in Slugs : buckets'[s] = buckets[s] \/ (buckets'[s] = NoRow /\ s = cur /\ SweepRepoDelete)
  BY DEF Sweep, SweepList, SweepListFiles, SweepPick, SweepStoreDelete, SweepRepoDelete, DropBucket,
         KeepBucket, table, BucketInv, TypeOK
<1>4. PassInv' BY <1>1, <1>2 DEF PromiseInv, PassInv
<1>5. HolderInv'
  <2>1. \A u \in Requests : Issued(u) /\ Fresh(buckets'[slug[u]]) => Fresh(buckets[slug[u]])
    BY <1>3, PromisedRow DEF Fresh
  <2> QED BY <1>1, <1>2, <2>1 DEF PromiseInv, HolderInv
<1>6. ZipInv' BY <1>1 DEF PromiseInv, ZipInv
<1>7. ZipComplete'
  <2>1. mishaps' = 0 => mishaps = 0 BY <1>1 DEF BucketInv, TypeOK
  <2> QED BY <1>1, <1>2, <2>1 DEF PromiseInv, ZipComplete
<1>8. GoneInv' BY <1>1, <1>3 DEF PromiseInv, GoneInv, BucketInv, VisitInv
<1>9. ASSUME "disk" \notin Faults, NEW u \in Requests, Issued(u)
      PROVE  /\ \A r \in Requests : slug[r] = slug[u] /\ pc[r] = "unlink" => keys[u] \cap blobs' \subseteq left[r]
             /\ slug[u] \in todo' \cup {cur'} => keys[u] \cap blobs' \subseteq plan'[slug[u]]
             /\ buckets'[slug[u]] = NoRow => keys[u] \cap blobs' = {}
  <2>1. /\ \A r \in Requests : slug[r] = slug[u] /\ pc[r] = "unlink" => keys[u] \cap blobs \subseteq left[r]
        /\ slug[u] \in todo \cup {cur} => keys[u] \cap blobs \subseteq plan[slug[u]]
        /\ buckets[slug[u]] = NoRow => keys[u] \cap blobs = {}
        /\ slug[u] \in Slugs /\ slug[u] # NoSlug
    BY <1>9, PromisedRow, SlugAssumption DEF PromiseInv, BytesInv, NoBytesLeftBehind
  <2>2. blobs' \subseteq blobs
    BY DEF Sweep, SweepList, SweepListFiles, SweepPick, SweepStoreDelete, SweepRepoDelete, table
  <2>3. slug[u] \in todo' \cup {cur'} => keys[u] \cap blobs' \subseteq plan'[slug[u]]
    <3>1. CASE SweepList BY <2>1, <3>1 DEF SweepList, table
    <3>2. CASE SweepListFiles
      <4>1. keys[u] \cap blobs \subseteq members[slug[u]] BY <1>9, <2>1, PromisedRow
      <4>2. slug[u] \in todo' \cup {cur'} =>
              plan'[slug[u]] = members[slug[u]] \/ (slug[u] \in todo \cup {cur} /\ plan'[slug[u]] = plan[slug[u]])
        <5>1. CASE todo' = {} /\ listed # {} /\ cur' = cur /\ plan' = [s \in Slugs |-> {}]
          \* the sweep lists while it visits no bucket
          <6>1. cur = NoSlug BY <5>1, <1>9 DEF PromiseInv, BytesInv
          <6> QED BY <2>1, <5>1, <6>1
        <5>2. ASSUME NEW s \in listed, plan' = [plan EXCEPT ![s] = members[s]], todo' = todo \cup {s}, cur' = cur
              PROVE  slug[u] \in todo' \cup {cur'} =>
                       \/ plan'[slug[u]] = members[slug[u]]
                       \/ slug[u] \in todo \cup {cur} /\ plan'[slug[u]] = plan[slug[u]]
          BY <2>1, <5>2 DEF BucketInv, TypeOK
        <5> QED BY <3>2, <5>1, <5>2 DEF SweepListFiles
      <4> QED BY <2>1, <2>2, <4>1, <4>2
    <3>3. CASE SweepPick BY <2>1, <3>3 DEF SweepPick, table
    <3>4. CASE SweepStoreDelete
      <4>1. PICK k \in plan[cur] : plan' = [plan EXCEPT ![cur] = @ \ {k}] /\ blobs' = blobs \ {k}
        BY <1>9, <3>4 DEF SweepStoreDelete, Fault
      <4>2. plan[slug[u]] \ {k} \subseteq plan'[slug[u]] BY <2>1, <4>1 DEF BucketInv, TypeOK
      <4>3. UNCHANGED <<todo, cur>> BY <3>4 DEF SweepStoreDelete
      <4> QED BY <2>1, <4>1, <4>2, <4>3
    <3>5. CASE SweepRepoDelete BY <2>1, <3>5 DEF SweepRepoDelete
    <3> QED BY <3>1, <3>2, <3>3, <3>4, <3>5 DEF Sweep
  <2>4. buckets'[slug[u]] = NoRow => keys[u] \cap blobs' = {}
    <3>1. CASE buckets'[slug[u]] = buckets[slug[u]] BY <2>1, <2>2, <3>1
    <3>2. CASE slug[u] = cur /\ SweepRepoDelete BY <2>1, <2>2, <3>2 DEF SweepRepoDelete
    <3> QED BY <1>3, <2>1, <3>1, <3>2
  <2> QED BY <2>1, <2>2, <2>3, <2>4
<1>10. BytesInv'
  <2>1. "disk" \notin Faults => (listed' # {} => cur' = NoSlug)
    BY DEF PromiseInv, BytesInv, Sweep, SweepList, SweepListFiles, SweepPick, SweepStoreDelete,
           SweepRepoDelete
  <2> QED BY <1>1, <1>9, <2>1 DEF BytesInv, NoBytesLeftBehind
<1> QED BY <1>4, <1>5, <1>6, <1>7, <1>8, <1>10 DEF PromiseInv

(* A crash ends the sweep and every request in flight; who had an answer   *)
(* keeps it.                                                               *)
LEMMA CrashPromises ==
    ASSUME BucketInv, PromiseInv, BucketInv', Crash
    PROVE  PromiseInv'
<1>1. UNCHANGED <<buckets, members, blobs, now, op, slug, right, row, keys, left>> /\ mishaps' # 0
  BY DEF Crash, table, request, Fault, BucketInv, TypeOK
<1>2. \A r \in Requests :
        \/ pc[r] \in {"new", "done"} /\ pc'[r] = pc[r] /\ reply'[r] = reply[r]
        \/ pc[r] \notin {"new", "done"} /\ pc'[r] = "done" /\ reply'[r] = "lost"
  BY DEF Crash
<1>3. \A u \in Requests : Issued(u)' => Issued(u) BY <1>1, <1>2 DEF Issued
<1>4. \A u, r \in Requests : (Downloads(r, u)' => Downloads(r, u)) /\ (Streams(r, u)' => Streams(r, u))
  BY <1>1, <1>2 DEF Downloads, Streams
<1>5. PassInv' BY <1>1, <1>2, <1>3, <1>4 DEF PromiseInv, PassInv
<1>6. HolderInv' BY <1>1, <1>3, <1>4 DEF PromiseInv, HolderInv
<1>7. ZipInv' BY <1>2 DEF ZipInv
<1>8. ZipComplete' BY <1>1 DEF ZipComplete
<1>9. GoneInv' BY <1>1, <1>2 DEF PromiseInv, GoneInv
<1>10. BytesInv'
  <2>1. \A u \in Requests : Issued(u) => slug[u] # NoSlug BY PromisedRow, SlugAssumption
  <2>2. todo' = {} /\ cur' = NoSlug BY DEF Crash
  <2>3. \A r \in Requests : pc'[r] # "unlink" BY <1>2
  <2> QED BY <1>1, <1>3, <2>1, <2>2, <2>3 DEF PromiseInv, BytesInv, NoBytesLeftBehind
<1> QED BY <1>5, <1>6, <1>7, <1>8, <1>9, <1>10 DEF PromiseInv

(* A promise that runs out takes no answer back. *)
LEMMA TickPromises ==
    ASSUME BucketInv, PromiseInv, BucketInv', Tick
    PROVE  PromiseInv'
<1>1. UNCHANGED <<buckets, members, blobs, op, slug, right, row, keys, left, pc, reply,
                  listed, plan, todo, cur, mishaps>>
  BY DEF Tick, table, request, sweeper
<1>2. \A u, r \in Requests : /\ Issued(u)' <=> Issued(u)
                             /\ Downloads(r, u)' <=> Downloads(r, u)
                             /\ Streams(r, u)' <=> Streams(r, u)
  BY <1>1 DEF Issued, Downloads, Streams
<1>3. \A u \in Requests : Issued(u) /\ Withdrawn(u) => Withdrawn(u)'
  <2> SUFFICES ASSUME NEW u \in Requests, Issued(u), Expired(row[u])
               PROVE  now' > row[u].expiresAt * TicksPerSecond
    BY <1>1 DEF Withdrawn, AskedToDelete, Expired, ExpiredAt
  <2>1. row[u].expiresAt * TicksPerSecond \in Int /\ now \in Nat
    BY ClockAssumption, PromisedRow DEF Rows, BucketInv, TypeOK
  <2> QED BY <2>1 DEF Expired, ExpiredAt, Tick
<1>4. PassInv' BY <1>1, <1>2 DEF PromiseInv, PassInv
<1>5. HolderInv' BY <1>1, <1>2 DEF PromiseInv, HolderInv
<1>6. ZipInv' BY <1>1, <1>2, <1>3 DEF PromiseInv, ZipInv
<1>7. ZipComplete' BY <1>1, <1>2, <1>3 DEF PromiseInv, ZipComplete
<1>8. GoneInv' BY <1>1 DEF PromiseInv, GoneInv
<1>9. BytesInv' BY <1>1, <1>2 DEF PromiseInv, BytesInv, NoBytesLeftBehind
<1> QED BY <1>4, <1>5, <1>6, <1>7, <1>8, <1>9 DEF PromiseInv

(* Every step keeps the promises to visitors. *)
LEMMA PromiseStep == BucketInv /\ PromiseInv /\ [Next]_vars => PromiseInv'
<1> SUFFICES ASSUME BucketInv, PromiseInv, [Next]_vars PROVE PromiseInv'
  OBVIOUS
<1>1. BucketInv' BY BucketInvStep
<1>2. ASSUME NEW r \in Requests, Handle(r) PROVE PromiseInv' BY <1>1, <1>2, HandlePromises
<1>3. CASE Sweep BY <1>1, <1>3, SweepPromises
<1>4. CASE Crash BY <1>1, <1>4, CrashPromises
<1>5. CASE Tick BY <1>1, <1>5, TickPromises
<1>6. CASE UNCHANGED vars
  BY <1>6 DEF vars, PromiseInv, PassInv, HolderInv, ZipInv, ZipComplete, GoneInv, BytesInv,
              NoBytesLeftBehind, Downloads, Streams, Issued, Withdrawn, AskedToDelete, Expired, ExpiredAt
<1> QED BY <1>2, <1>3, <1>4, <1>5, <1>6 DEF Next

(* Both invariants hold in every reachable state. *)
THEOREM BucketPromises == Spec => [](BucketInv /\ PromiseInv)
<1>1. Init => PromiseInv
  BY SlugAssumption DEF Init, PromiseInv, PassInv, HolderInv, ZipInv, ZipComplete, GoneInv, BytesInv,
         NoBytesLeftBehind, Issued
<1> QED BY <1>1, BucketSafe, PromiseStep, PTL DEF Spec

(* The archive of a one-use bucket is streamed to at most one request: of  *)
(* all that race past the check only the one whose UPDATE finds the mark   *)
(* unset goes on.                                                          *)
THEOREM BucketZipOnce == Spec => []OneUseZipOnce
<1>1. PromiseInv => OneUseZipOnce
  BY DEF PromiseInv, HolderInv, OneUseZipOnce, Downloads, Streams
<1> QED BY <1>1, BucketPromises, PTL

(* Nobody without the password gets the archive or a file of a protected   *)
(* bucket, although row and file rows are read by two queries.             *)
THEOREM BucketPassword == Spec => []PasswordGuards
<1>1. PromiseInv => PasswordGuards
  BY DEF PromiseInv, PassInv, PasswordGuards, Downloads
<1> QED BY <1>1, BucketPromises, PTL

(* Without mishaps an archive answered with 200 is complete, unless the    *)
(* bucket was withdrawn under the stream.                                  *)
THEOREM BucketZip == Spec => []ZipComplete
<1>1. PromiseInv => ZipComplete BY DEF PromiseInv
<1> QED BY <1>1, BucketPromises, PTL

(* A deletion answered with success leaves no row, no file row and, when   *)
(* no file operation can fail, no bytes.                                   *)
THEOREM BucketDeleted == Spec => []DeletedIsGone
<1>1. BucketInv /\ PromiseInv => DeletedIsGone
  <2> SUFFICES ASSUME BucketInv, PromiseInv, NEW u \in Requests, NEW r \in Requests, Issued(u),
                      op[r] = "delete", slug[r] = slug[u], reply[r] = "ok"
               PROVE  /\ buckets[slug[u]] = NoRow
                      /\ members[slug[u]] = {}
                      /\ "disk" \notin Faults => keys[u] \cap blobs = {}
    BY DEF DeletedIsGone
  <2>1. buckets[slug[u]] = NoRow /\ slug[u] \in Slugs BY PromisedRow DEF PromiseInv, GoneInv
  <2>2. members[slug[u]] = {} BY <2>1 DEF BucketInv, KnownInv
  <2>3. "disk" \notin Faults => keys[u] \cap blobs = {}
    BY <2>1 DEF PromiseInv, BytesInv, NoBytesLeftBehind
  <2> QED BY <2>1, <2>2, <2>3
<1> QED BY <1>1, BucketPromises, PTL

(* Where no file operation fails, no published bucket that has lost its    *)
(* row leaves bytes behind, whoever dropped it and whatever else failed.   *)
THEOREM BucketBytes == Spec => []("disk" \notin Faults => NoBytesLeftBehind)
<1>1. PromiseInv => ("disk" \notin Faults => NoBytesLeftBehind) BY DEF PromiseInv, BytesInv
<1> QED BY <1>1, BucketPromises, PTL
=============================================================================
