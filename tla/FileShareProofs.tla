-------------------------- MODULE FileShareProofs --------------------------
(* Type correctness and KeptUntilWithdrawn, for any numbers of slugs and   *)
(* requests, any presets, any clock resolution and any mishaps.            *)
EXTENDS FileShare, TLAPS

(* What the sweep's whole seconds imply about the reader's clock: a row    *)
(* listed by expires_at < unixepoch() is past its expiry for a reader too. *)
LEMMA SweptIsExpired ==
    ASSUME NEW t \in Nat, NEW e \in Int, e < Unix(t)
    PROVE  t > e * TicksPerSecond
<1> DEFINE q == t \div TicksPerSecond
<1>1. TicksPerSecond \in Nat /\ TicksPerSecond > 0 BY ClockAssumption
<1>2. q \in Int /\ t >= TicksPerSecond * q BY <1>1
<1>3. q >= e + 1 BY <1>2 DEF Unix
<1> HIDE DEF q
<1>4. TicksPerSecond * q >= TicksPerSecond * (e + 1) BY <1>1, <1>2, <1>3
<1>5. TicksPerSecond * (e + 1) = e * TicksPerSecond + TicksPerSecond BY <1>1
<1>6. e * TicksPerSecond \in Int /\ TicksPerSecond * q \in Int BY <1>1, <1>2
<1> QED BY <1>1, <1>2, <1>4, <1>5, <1>6
-----------------------------------------------------------------------------
(* An upload builds a row: its expiry is NULL or a whole number of seconds.*)
LEMMA NewRowType ==
    ASSUME TypeOK, NEW oneUse \in BOOLEAN, NEW protected \in BOOLEAN, NEW d \in Expiries
    PROVE  NewRow(oneUse, protected, d, now) \in Rows
<1>1. TicksPerSecond \in Nat /\ TicksPerSecond > 0 /\ d \in Nat BY ClockAssumption
<1>2. now + d * TicksPerSecond \in Nat BY <1>1 DEF TypeOK
<1>3. Unix(now + d * TicksPerSecond) \in Int BY <1>1, <1>2 DEF Unix
<1> QED BY <1>3 DEF NewRow, Rows, Never

(* Setting downloaded_at of a row gives a row. *)
LEMMA MarkType ==
    ASSUME TypeOK, NEW s, Mark(s)
    PROVE  files' \in [Slugs -> Rows \cup {NoRow}]
<1>1. CASE s \in Slugs /\ Fresh(files[s])
  <2>1. Downloaded(files[s]) \in Rows BY <1>1 DEF TypeOK, Fresh, Rows, Downloaded
  <2>2. files' = [files EXCEPT ![s] = Downloaded(files[s])] BY <1>1 DEF Mark
  <2> QED BY <2>1, <2>2 DEF TypeOK
<1>2. CASE ~(s \in Slugs /\ Fresh(files[s])) BY <1>2 DEF Mark, TypeOK
<1> QED BY <1>1, <1>2

(* Every step of a request keeps the types. *)
LEMMA HandleType ==
    ASSUME TypeOK, RequestInv, NEW r \in Requests, Handle(r)
    PROVE  TypeOK'
<1> USE DEF TypeOK, Reads, Ops, Calls, Replies, request, sweeper, table
<1>1. CASE RefuseUpload(r) BY <1>1 DEF RefuseUpload, Reply
<1>2. CASE StoreWrite(r) BY <1>2 DEF StoreWrite, Goto, Reply, Fault, NoFault, RequestInv
<1>3. CASE RepoCreate(r)
  <2>1. files' \in [Slugs -> Rows \cup {NoRow}] BY <1>3 DEF RepoCreate, Insert
  <2> QED BY <1>3, <2>1 DEF RepoCreate, Goto, Reply, Fault, NoFault
<1>4. CASE UploadUndo(r) BY <1>4 DEF UploadUndo, Reply, Fault, NoFault
<1>5. CASE Get(r) BY <1>5 DEF Get, Admission, Goto, Reply, Fault, NoFault
<1>6. CASE MarkDownloaded(r)
  <2>1. files' \in [Slugs -> Rows \cup {NoRow}] BY <1>6, MarkType DEF MarkDownloaded
  <2> QED BY <1>6, <2>1 DEF MarkDownloaded, Goto, Reply, Fault, NoFault
<1>7. CASE StoreRead(r) BY <1>7 DEF StoreRead, Reply, Fault, NoFault
<1>8. CASE Delete(r) BY <1>8 DEF Delete, Goto, Reply, Fault, NoFault
<1>9. CASE StoreDelete(r) BY <1>9 DEF StoreDelete, Goto, Reply, Fault, NoFault
<1>10. CASE RepoDelete(r) BY <1>10 DEF RepoDelete, DropRow, Reply, Fault, NoFault
<1>11. ASSUME NEW s \in Slugs, NEW oneUse \in BOOLEAN, NEW protected \in BOOLEAN,
               NEW d \in Expiries, Upload(r, s, oneUse, protected, d)
       PROVE TypeOK'
  BY <1>11, NewRowType DEF Upload, Goto
<1>12. ASSUME NEW s \in Slugs, NEW good \in BOOLEAN, NEW what \in Reads,
               DispatchGet(r, s, what, good)
       PROVE  TypeOK'
  BY <1>12 DEF DispatchGet, Reads, GetMeta, Arrive, Goto, Reply, Fault, NoFault
<1>13. ASSUME NEW s \in Slugs, NEW good \in BOOLEAN, DispatchDelete(r, s, good) PROVE TypeOK'
  BY <1>13 DEF DispatchDelete, GetMeta, Arrive, Goto, Reply, Fault, NoFault
<1>14. ASSUME NEW s \in Slugs, Info(r, s) PROVE TypeOK'
  BY <1>14 DEF Info, GetMeta, Arrive, Reply, Fault, NoFault
<1> QED BY <1>1, <1>2, <1>3, <1>4, <1>5, <1>6, <1>7, <1>8, <1>9, <1>10, <1>11, <1>12, <1>13, <1>14 DEF Handle

(* Every step keeps the types. *)
LEMMA TypeStep == ASSUME TypeOK, RequestInv, [Next]_vars PROVE TypeOK'
<1>1. ASSUME NEW r \in Requests, Handle(r) PROVE TypeOK'
  BY <1>1, HandleType
<1>2. CASE SweepList
  BY <1>2 DEF TypeOK, SweepList, ListExpired, Fault, NoFault, table, request
<1>3. CASE SweepStoreDelete
  BY <1>3 DEF TypeOK, SweepStoreDelete, Fault, NoFault, request
<1>4. CASE SweepRepoDelete
  BY <1>4 DEF TypeOK, SweepRepoDelete, DropRow, Fault, NoFault, request
<1>5. CASE Crash
  BY <1>5 DEF TypeOK, Crash, Fault, Calls, Replies, table, request
<1>6. CASE Tick
  BY <1>6 DEF TypeOK, Tick, table, request, sweeper
<1>7. CASE UNCHANGED vars
  BY <1>7 DEF TypeOK, vars
<1> QED BY <1>1, <1>2, <1>3, <1>4, <1>5, <1>6, <1>7 DEF Next, Sweep

-----------------------------------------------------------------------------
(* A request stays consistent with the call it is about to make. *)
LEMMA HandleRequests ==
    ASSUME FileInv, TypeOK', NEW r \in Requests, Handle(r)
    PROVE  RequestInv'
<1> USE DEF FileInv, TypeOK, Reads, RequestInv, request, sweeper, table
<1>1. CASE RefuseUpload(r) BY <1>1 DEF RefuseUpload, Reply
<1>2. CASE StoreWrite(r) BY <1>2 DEF StoreWrite, Goto, Reply
<1>3. CASE RepoCreate(r) BY <1>3 DEF RepoCreate, Insert, Goto, Reply
<1>4. CASE UploadUndo(r) BY <1>4 DEF UploadUndo, Reply
<1>5. CASE Get(r) BY <1>5 DEF Get, Admission, Goto, Reply
<1>6. CASE MarkDownloaded(r) BY <1>6 DEF MarkDownloaded, Mark, Fresh, Downloaded, Goto, Reply
<1>7. CASE StoreRead(r) BY <1>7 DEF StoreRead, Reply
<1>8. CASE Delete(r) BY <1>8 DEF Delete, Goto, Reply
<1>9. CASE StoreDelete(r) BY <1>9 DEF StoreDelete, Goto, Reply
<1>10. CASE RepoDelete(r) BY <1>10 DEF RepoDelete, DropRow, Reply
<1>11. ASSUME NEW s \in Slugs, NEW oneUse \in BOOLEAN, NEW protected \in BOOLEAN,
               NEW d \in Expiries, Upload(r, s, oneUse, protected, d)
       PROVE  RequestInv'
  <2>1. row'[r] \in Rows BY <1>11, NewRowType DEF Upload
  <2> QED BY <1>11, <2>1 DEF Upload, Goto
<1>12. ASSUME NEW s \in Slugs, NEW good \in BOOLEAN, NEW what \in Reads,
               DispatchGet(r, s, what, good)
       PROVE  RequestInv'
  BY <1>12 DEF DispatchGet, Reads, GetMeta, Arrive, Goto, Reply
<1>13. ASSUME NEW s \in Slugs, NEW good \in BOOLEAN, DispatchDelete(r, s, good) PROVE RequestInv'
  BY <1>13 DEF DispatchDelete, GetMeta, Arrive, Goto, Reply
<1>14. ASSUME NEW s \in Slugs, Info(r, s) PROVE RequestInv'
  BY <1>14 DEF Info, GetMeta, Arrive, Reply
<1> QED BY <1>1, <1>2, <1>3, <1>4, <1>5, <1>6, <1>7, <1>8, <1>9, <1>10, <1>11, <1>12, <1>13, <1>14 DEF Handle

(* Requests other than uploads are about published slugs. *)
LEMMA HandleVisits ==
    ASSUME FileInv, TypeOK', NEW r \in Requests, Handle(r)
    PROVE  VisitInv'
<1> USE DEF FileInv, TypeOK, Reads, RequestInv, VisitInv, Published, Issued, request, sweeper, table
<1>1. CASE RefuseUpload(r) BY <1>1 DEF RefuseUpload, Reply
<1>2. CASE StoreWrite(r) BY <1>2 DEF StoreWrite, Goto, Reply
<1>3. CASE RepoCreate(r) BY <1>3 DEF RepoCreate, Insert, Goto, Reply
<1>4. CASE UploadUndo(r) BY <1>4 DEF UploadUndo, Reply
<1>5. CASE Get(r) BY <1>5 DEF Get, Admission, Goto, Reply
<1>6. CASE MarkDownloaded(r) BY <1>6 DEF MarkDownloaded, Mark, Fresh, Downloaded, Goto, Reply
<1>7. CASE StoreRead(r) BY <1>7 DEF StoreRead, Reply
<1>8. CASE Delete(r) BY <1>8 DEF Delete, Goto, Reply
<1>9. CASE StoreDelete(r) BY <1>9 DEF StoreDelete, Goto, Reply
<1>10. CASE RepoDelete(r) BY <1>10 DEF RepoDelete, DropRow, Reply
<1>11. ASSUME NEW s \in Slugs, NEW oneUse \in BOOLEAN, NEW protected \in BOOLEAN,
               NEW d \in Expiries, Upload(r, s, oneUse, protected, d)
       PROVE  VisitInv'
  BY <1>11 DEF Upload, Goto
<1>12. ASSUME NEW s \in Slugs, NEW good \in BOOLEAN, NEW what \in Reads,
               DispatchGet(r, s, what, good)
       PROVE  VisitInv'
  BY <1>12 DEF DispatchGet, Reads, GetMeta, Arrive, Goto, Reply
<1>13. ASSUME NEW s \in Slugs, NEW good \in BOOLEAN, DispatchDelete(r, s, good) PROVE VisitInv'
  BY <1>13 DEF DispatchDelete, GetMeta, Arrive, Goto, Reply
<1>14. ASSUME NEW s \in Slugs, Info(r, s) PROVE VisitInv'
  BY <1>14 DEF Info, GetMeta, Arrive, Reply
<1> QED BY <1>1, <1>2, <1>3, <1>4, <1>5, <1>6, <1>7, <1>8, <1>9, <1>10, <1>11, <1>12, <1>13, <1>14 DEF Handle

(* Until its upload is answered, nobody else has the slug of an upload. *)
LEMMA Unshared ==
    ASSUME FileInv, NEW u \in Requests, NEW r \in Requests, r # u,
           pc[u] \in {"write", "create", "undo"}
    PROVE  /\ op[r] \in Reads \cup {"upload", "info", "delete"} => slug[r] # slug[u]
           /\ op[u] = "upload" /\ slug[u] \in Slugs /\ ~Published(slug[u])
<1>1. op[u] = "upload" /\ slug[u] \in Slugs /\ reply[u] = "none"
  BY DEF FileInv, RequestInv
<1>2. ~Published(slug[u])
  BY <1>1, SlugAssumption DEF FileInv, UploadInv, Published, Issued
<1>3. op[r] = "upload" => slug[r] # slug[u]
  BY <1>1, SlugAssumption DEF FileInv, UploadInv
<1> QED BY <1>1, <1>2, <1>3 DEF FileInv, VisitInv

(* Requests put nothing in the table under a slug no upload has drawn. *)
LEMMA HandleKnown ==
    ASSUME FileInv, TypeOK', NEW r \in Requests, Handle(r)
    PROVE  KnownInv'
<1> USE SlugAssumption DEF FileInv, TypeOK, RequestInv, VisitInv, KnownInv, request, sweeper, table
<1>1. CASE RefuseUpload(r) BY <1>1 DEF RefuseUpload, Reply
<1>2. CASE StoreWrite(r) BY <1>2 DEF StoreWrite, Goto, Reply
<1>3. CASE RepoCreate(r) BY <1>3 DEF RepoCreate, Insert, Goto, Reply
<1>4. CASE UploadUndo(r) BY <1>4 DEF UploadUndo, Reply
<1>5. CASE Get(r) BY <1>5 DEF Get, Admission, Goto, Reply
<1>6. CASE MarkDownloaded(r) BY <1>6 DEF MarkDownloaded, Mark, Fresh, Downloaded, Goto, Reply
<1>7. CASE StoreRead(r) BY <1>7 DEF StoreRead, Reply
<1>8. CASE Delete(r) BY <1>8 DEF Delete, Goto, Reply
<1>9. CASE StoreDelete(r) BY <1>9 DEF StoreDelete, Goto, Reply
<1>10. CASE RepoDelete(r) BY <1>10 DEF RepoDelete, DropRow, Reply
<1>11. ASSUME NEW s \in Slugs, NEW oneUse \in BOOLEAN, NEW protected \in BOOLEAN,
               NEW d \in Expiries, Upload(r, s, oneUse, protected, d)
       PROVE  KnownInv'
  BY <1>11 DEF Upload, Goto
<1>12. ASSUME NEW s \in Slugs, NEW good \in BOOLEAN, NEW what \in Reads,
               DispatchGet(r, s, what, good)
       PROVE  KnownInv'
  BY <1>12 DEF DispatchGet, Reads, GetMeta, Arrive, Goto, Reply
<1>13. ASSUME NEW s \in Slugs, NEW good \in BOOLEAN, DispatchDelete(r, s, good) PROVE KnownInv'
  BY <1>13 DEF DispatchDelete, GetMeta, Arrive, Goto, Reply
<1>14. ASSUME NEW s \in Slugs, Info(r, s) PROVE KnownInv'
  BY <1>14 DEF Info, GetMeta, Arrive, Reply
<1> QED BY <1>1, <1>2, <1>3, <1>4, <1>5, <1>6, <1>7, <1>8, <1>9, <1>10, <1>11, <1>12, <1>13, <1>14 DEF Handle

(* Uploads keep their slugs to themselves. *)
LEMMA HandleUploads ==
    ASSUME FileInv, TypeOK', NEW r \in Requests, Handle(r)
    PROVE  UploadInv'
<1> USE DEF FileInv, TypeOK, RequestInv, UploadInv, request, sweeper, table
<1>1. CASE RefuseUpload(r) BY <1>1 DEF RefuseUpload, Reply
<1>2. CASE StoreWrite(r) BY <1>2 DEF StoreWrite, Goto, Reply
<1>3. CASE RepoCreate(r)
  <2>1. \A u \in Requests : pc'[u] \in {"write", "create"} =>
               pc[u] = pc'[u] /\ slug[u] # slug[r]
    BY <1>3, Unshared DEF RepoCreate, Goto, Reply
  <2>2. \A u \in Requests : pc'[u] \in {"write", "create"} => files'[slug[u]] = files[slug[u]]
    BY <1>3, <2>1 DEF RepoCreate, Insert
  <2> QED BY <1>3, <2>1, <2>2 DEF RepoCreate
<1>4. CASE UploadUndo(r)
  <2>1. \A u \in Requests : pc'[u] \in {"write", "create"} =>
               pc[u] = pc'[u] /\ slug[u] # slug[r]
    BY <1>4, Unshared DEF UploadUndo, Reply
  <2> QED BY <1>4, <2>1 DEF UploadUndo
<1>5. CASE Get(r) BY <1>5 DEF Get, Admission, Goto, Reply
<1>6. CASE MarkDownloaded(r) BY <1>6 DEF MarkDownloaded, Mark, Fresh, Downloaded, Goto, Reply
<1>7. CASE StoreRead(r) BY <1>7 DEF StoreRead, Reply
<1>8. CASE Delete(r) BY <1>8 DEF Delete, Goto, Reply
<1>9. CASE StoreDelete(r)
  <2>1. \A u \in Requests : pc'[u] \in {"write", "create"} =>
               pc[u] = pc'[u] /\ slug[u] # slug[r]
    BY <1>9, Unshared DEF StoreDelete, Goto, Reply
  <2> QED BY <1>9, <2>1 DEF StoreDelete
<1>10. CASE RepoDelete(r) BY <1>10 DEF RepoDelete, DropRow, Reply
<1>11. ASSUME NEW s \in Slugs, NEW oneUse \in BOOLEAN, NEW protected \in BOOLEAN,
               NEW d \in Expiries, Upload(r, s, oneUse, protected, d)
       PROVE  UploadInv'
  <2>1. files[s] = NoRow /\ s \notin todo /\ s # cur BY <1>11 DEF Upload, KnownInv
  <2>2. \A u \in Requests : u # r => slug'[u] = slug[u] /\ slug[u] # s /\ pc'[u] = pc[u] /\ op'[u] = op[u]
    BY <1>11 DEF Upload, Goto
  <2>3. slug'[r] = s /\ pc'[r] = "write" BY <1>11 DEF Upload, Goto
  <2> QED BY <1>11, <2>1, <2>2, <2>3 DEF Upload
<1>12. ASSUME NEW s \in Slugs, NEW good \in BOOLEAN, NEW what \in Reads,
               DispatchGet(r, s, what, good)
       PROVE  UploadInv'
  BY <1>12 DEF DispatchGet, Reads, GetMeta, Arrive, Goto, Reply
<1>13. ASSUME NEW s \in Slugs, NEW good \in BOOLEAN, DispatchDelete(r, s, good) PROVE UploadInv'
  BY <1>13 DEF DispatchDelete, GetMeta, Arrive, Goto, Reply
<1>14. ASSUME NEW s \in Slugs, Info(r, s) PROVE UploadInv'
  BY <1>14 DEF Info, GetMeta, Arrive, Reply
<1> QED BY <1>1, <1>2, <1>3, <1>4, <1>5, <1>6, <1>7, <1>8, <1>9, <1>10, <1>11, <1>12, <1>13, <1>14 DEF Handle

(* Requests keep the row a published file was promised. *)
LEMMA HandleRows ==
    ASSUME FileInv, TypeOK', NEW r \in Requests, Handle(r)
    PROVE  RowInv'
<1> USE DEF FileInv, TypeOK, RequestInv, RowInv, Issued, request, sweeper, table
<1>1. CASE RefuseUpload(r) BY <1>1 DEF RefuseUpload, Reply
<1>2. CASE StoreWrite(r) BY <1>2 DEF StoreWrite, Goto, Reply
<1>3. CASE RepoCreate(r)
  <2>1. \A u \in Requests : Issued(u)' => u = r \/ (Issued(u) /\ slug[u] # slug[r])
    BY <1>3, Unshared DEF RepoCreate, Goto, Reply
  <2>2. \A s \in Slugs : s # slug[r] => files'[s] = files[s]
    BY <1>3 DEF RepoCreate, Insert
  <2>3. Issued(r)' => files'[slug[r]] = row[r]
    BY <1>3 DEF RepoCreate, Insert, Goto
  <2> QED BY <1>3, <2>1, <2>2, <2>3 DEF RepoCreate
<1>4. CASE UploadUndo(r) BY <1>4 DEF UploadUndo, Reply
<1>5. CASE Get(r) BY <1>5 DEF Get, Admission, Goto, Reply
<1>6. CASE MarkDownloaded(r) BY <1>6 DEF MarkDownloaded, Mark, Fresh, Downloaded, Goto, Reply
<1>7. CASE StoreRead(r) BY <1>7 DEF StoreRead, Reply
<1>8. CASE Delete(r) BY <1>8 DEF Delete, Goto, Reply
<1>9. CASE StoreDelete(r) BY <1>9 DEF StoreDelete, Goto, Reply
<1>10. CASE RepoDelete(r) BY <1>10 DEF RepoDelete, DropRow, Reply
<1>11. ASSUME NEW s \in Slugs, NEW oneUse \in BOOLEAN, NEW protected \in BOOLEAN,
               NEW d \in Expiries, Upload(r, s, oneUse, protected, d)
       PROVE  RowInv'
  BY <1>11 DEF Upload, Goto
<1>12. ASSUME NEW s \in Slugs, NEW good \in BOOLEAN, NEW what \in Reads,
               DispatchGet(r, s, what, good)
       PROVE  RowInv'
  BY <1>12 DEF DispatchGet, Reads, GetMeta, Arrive, Goto, Reply
<1>13. ASSUME NEW s \in Slugs, NEW good \in BOOLEAN, DispatchDelete(r, s, good) PROVE RowInv'
  BY <1>13 DEF DispatchDelete, GetMeta, Arrive, Goto, Reply
<1>14. ASSUME NEW s \in Slugs, Info(r, s) PROVE RowInv'
  BY <1>14 DEF Info, GetMeta, Arrive, Reply
<1> QED BY <1>1, <1>2, <1>3, <1>4, <1>5, <1>6, <1>7, <1>8, <1>9, <1>10, <1>11, <1>12, <1>13, <1>14 DEF Handle

(* Requests leave the sweep with expired files. *)
LEMMA HandleSweep ==
    ASSUME FileInv, TypeOK', NEW r \in Requests, Handle(r)
    PROVE  SweepInv'
<1> USE DEF FileInv, TypeOK, RequestInv, VisitInv, UploadInv, SweepInv, Published, Issued, Expired, ExpiredAt, request, sweeper, table
<1>1. CASE RefuseUpload(r) BY <1>1 DEF RefuseUpload, Reply
<1>2. CASE StoreWrite(r) BY <1>2 DEF StoreWrite, Goto, Reply
<1>3. CASE RepoCreate(r) BY <1>3 DEF RepoCreate, Insert, Goto, Reply
<1>4. CASE UploadUndo(r) BY <1>4 DEF UploadUndo, Reply
<1>5. CASE Get(r) BY <1>5 DEF Get, Admission, Goto, Reply
<1>6. CASE MarkDownloaded(r) BY <1>6 DEF MarkDownloaded, Mark, Fresh, Downloaded, Goto, Reply
<1>7. CASE StoreRead(r) BY <1>7 DEF StoreRead, Reply
<1>8. CASE Delete(r) BY <1>8 DEF Delete, Goto, Reply
<1>9. CASE StoreDelete(r) BY <1>9 DEF StoreDelete, Goto, Reply
<1>10. CASE RepoDelete(r) BY <1>10 DEF RepoDelete, DropRow, Reply
<1>11. ASSUME NEW s \in Slugs, NEW oneUse \in BOOLEAN, NEW protected \in BOOLEAN,
               NEW d \in Expiries, Upload(r, s, oneUse, protected, d)
       PROVE  SweepInv'
  BY <1>11 DEF Upload, Goto
<1>12. ASSUME NEW s \in Slugs, NEW good \in BOOLEAN, NEW what \in Reads,
               DispatchGet(r, s, what, good)
       PROVE  SweepInv'
  BY <1>12 DEF DispatchGet, Reads, GetMeta, Arrive, Goto, Reply
<1>13. ASSUME NEW s \in Slugs, NEW good \in BOOLEAN, DispatchDelete(r, s, good) PROVE SweepInv'
  BY <1>13 DEF DispatchDelete, GetMeta, Arrive, Goto, Reply
<1>14. ASSUME NEW s \in Slugs, Info(r, s) PROVE SweepInv'
  BY <1>14 DEF Info, GetMeta, Arrive, Reply
<1> QED BY <1>1, <1>2, <1>3, <1>4, <1>5, <1>6, <1>7, <1>8, <1>9, <1>10, <1>11, <1>12, <1>13, <1>14 DEF Handle

(* Requests keep a published file until it is withdrawn. *)
LEMMA HandleKept ==
    ASSUME FileInv, TypeOK', NEW r \in Requests, Handle(r)
    PROVE  KeptUntilWithdrawn'
<1> USE DEF FileInv, TypeOK, RequestInv, VisitInv, UploadInv, RowInv, KeptUntilWithdrawn, Withdrawn, AskedToDelete, Expired, ExpiredAt, Published, Issued, request, sweeper, table
<1>1. CASE RefuseUpload(r) BY <1>1 DEF RefuseUpload, Reply
<1>2. CASE StoreWrite(r) BY <1>2 DEF StoreWrite, Goto, Reply
<1>3. CASE RepoCreate(r)
  <2>1. \A u \in Requests : Issued(u)' => u = r \/ (Issued(u) /\ slug[u] # slug[r])
    BY <1>3, Unshared DEF RepoCreate, Goto, Reply
  <2>2. \A s \in Slugs : s # slug[r] => files'[s] = files[s]
    BY <1>3 DEF RepoCreate, Insert
  <2>3. Issued(r)' => files'[slug[r]] = row[r]
    BY <1>3 DEF RepoCreate, Insert, Goto
  <2> QED BY <1>3, <2>1, <2>2, <2>3 DEF RepoCreate
<1>4. CASE UploadUndo(r)
  <2>1. \A u \in Requests : Issued(u)' => Issued(u) /\ slug[u] # slug[r]
    BY <1>4, Unshared DEF UploadUndo, Reply
  <2> QED BY <1>4, <2>1 DEF UploadUndo
<1>5. CASE Get(r) BY <1>5 DEF Get, Admission, Goto, Reply
<1>6. CASE MarkDownloaded(r) BY <1>6 DEF MarkDownloaded, Mark, Fresh, Downloaded, Goto, Reply
<1>7. CASE StoreRead(r) BY <1>7 DEF StoreRead, Reply
<1>8. CASE Delete(r) BY <1>8 DEF Delete, Goto, Reply
<1>9. CASE StoreDelete(r) BY <1>9 DEF StoreDelete, Goto, Reply
<1>10. CASE RepoDelete(r) BY <1>10 DEF RepoDelete, DropRow, Reply
<1>11. ASSUME NEW s \in Slugs, NEW oneUse \in BOOLEAN, NEW protected \in BOOLEAN,
               NEW d \in Expiries, Upload(r, s, oneUse, protected, d)
       PROVE  KeptUntilWithdrawn'
  BY <1>11 DEF Upload, Goto
<1>12. ASSUME NEW s \in Slugs, NEW good \in BOOLEAN, NEW what \in Reads,
               DispatchGet(r, s, what, good)
       PROVE  KeptUntilWithdrawn'
  BY <1>12 DEF DispatchGet, Reads, GetMeta, Arrive, Goto, Reply
<1>13. ASSUME NEW s \in Slugs, NEW good \in BOOLEAN, DispatchDelete(r, s, good) PROVE KeptUntilWithdrawn'
  BY <1>13 DEF DispatchDelete, GetMeta, Arrive, Goto, Reply
<1>14. ASSUME NEW s \in Slugs, Info(r, s) PROVE KeptUntilWithdrawn'
  BY <1>14 DEF Info, GetMeta, Arrive, Reply
<1> QED BY <1>1, <1>2, <1>3, <1>4, <1>5, <1>6, <1>7, <1>8, <1>9, <1>10, <1>11, <1>12, <1>13, <1>14 DEF Handle

-----------------------------------------------------------------------------
(* Listing: every published file the sweep takes is past its promise.      *)
LEMMA ListKeeps == ASSUME FileInv, TypeOK', SweepList PROVE FileInv'
<1> USE DEF FileInv, SweepList, request, table
<1>1. todo' \subseteq ListExpired /\ cur' = cur BY DEF Fault, NoFault
<1>2. RequestInv' BY DEF RequestInv
<1>3. VisitInv' BY DEF VisitInv, Published, Issued
<1>4. UploadInv' BY <1>1, Unshared DEF UploadInv, ListExpired, SweepableAt
<1>5. KnownInv' BY <1>1 DEF KnownInv, ListExpired, SweepableAt
<1>6. RowInv' BY DEF RowInv, Issued
<1>7. SweepInv'
  <2> SUFFICES ASSUME NEW u \in Requests, Issued(u), slug[u] \in todo'
               PROVE  Expired(row[u])
    BY <1>1, SlugAssumption DEF SweepInv, Issued, Expired, ExpiredAt, RequestInv
  <2>1. slug[u] \in Slugs /\ row[u] \in Rows BY DEF Issued, RequestInv
  <2>2. SweepableAt(files[slug[u]], now) BY <1>1 DEF ListExpired
  <2>3. files[slug[u]].expiresAt = row[u].expiresAt
    BY <2>1, <2>2 DEF RowInv, Rows, SweepableAt, Downloaded
  <2>4. row[u].expiresAt \in Int /\ now \in Nat BY <2>1 DEF Rows, TypeOK
  <2> QED BY <2>2, <2>3, <2>4, SweptIsExpired DEF SweepableAt, Expired, ExpiredAt
<1>8. KeptUntilWithdrawn'
  BY DEF KeptUntilWithdrawn, Issued, Withdrawn, AskedToDelete, Expired, ExpiredAt
<1> QED BY <1>2, <1>3, <1>4, <1>5, <1>6, <1>7, <1>8

(* The sweep's two deletions hit only what is past its promise.            *)
LEMMA SweepKeeps ==
    ASSUME FileInv, TypeOK', SweepStoreDelete \/ SweepRepoDelete PROVE FileInv'
<1> USE DEF FileInv, request
<1>1. CASE SweepStoreDelete
  <2> USE <1>1 DEF SweepStoreDelete
  <2>1. PICK s \in todo : cur' = s /\ todo' = todo \ {s}
                          /\ (blobs' = blobs \ {s} \/ blobs' = blobs)
    OBVIOUS
  <2>2. RequestInv' BY DEF RequestInv
  <2>3. VisitInv' BY DEF VisitInv, Published, Issued
  <2>4. UploadInv' BY <2>1 DEF UploadInv
  <2>5. KnownInv' BY <2>1 DEF KnownInv
  <2>6. RowInv' BY DEF RowInv, Issued
  <2>7. SweepInv' BY <2>1 DEF SweepInv, Issued, Expired, ExpiredAt
  <2>8. KeptUntilWithdrawn'
    BY <2>1 DEF KeptUntilWithdrawn, SweepInv, Issued, Withdrawn, AskedToDelete, Expired, ExpiredAt
  <2> QED BY <2>2, <2>3, <2>4, <2>5, <2>6, <2>7, <2>8
<1>2. CASE SweepRepoDelete
  <2> USE <1>2 DEF SweepRepoDelete
  <2>1. cur \in Slugs BY DEF TypeOK
  <2>2. files' = files \/ files' = [files EXCEPT ![cur] = NoRow] BY DEF DropRow
  <2>3. \A s \in Slugs : files'[s] # NoRow => files'[s] = files[s]
    BY <2>1, <2>2 DEF TypeOK
  <2>4. \A s \in Slugs : s # cur => files'[s] = files[s] BY <2>2 DEF TypeOK
  <2>5. RequestInv' BY DEF RequestInv
  <2>6. VisitInv' BY DEF VisitInv, Published, Issued
  <2>7. UploadInv' BY <2>3, SlugAssumption DEF UploadInv, RequestInv
  <2>8. KnownInv' BY <2>3, SlugAssumption DEF KnownInv
  <2>9. RowInv' BY <2>3 DEF RowInv, Issued, RequestInv
  <2>10. SweepInv' BY SlugAssumption DEF SweepInv, Issued, Expired, ExpiredAt, RequestInv
  <2>11. KeptUntilWithdrawn'
    BY <2>4 DEF KeptUntilWithdrawn, SweepInv, Issued, Withdrawn, AskedToDelete, Expired, ExpiredAt, RequestInv
  <2> QED BY <2>5, <2>6, <2>7, <2>8, <2>9, <2>10, <2>11
<1> QED BY <1>1, <1>2

(* A crash answers nobody and touches neither the table nor the bytes.     *)
LEMMA CrashKeeps == ASSUME FileInv, TypeOK', Crash PROVE FileInv'
<1> USE DEF FileInv, Crash, request, table
<1>1. \A r \in Requests :
        \/ pc[r] \in {"new", "done"} /\ pc'[r] = pc[r] /\ reply'[r] = reply[r]
        \/ pc[r] \notin {"new", "done"} /\ pc'[r] = "done" /\ reply'[r] = "lost"
  OBVIOUS
<1>2. \A u \in Requests : Issued(u)' <=> Issued(u)
  BY <1>1 DEF Issued, RequestInv
<1>3. RequestInv' BY <1>1 DEF RequestInv
<1>4. VisitInv' BY <1>2 DEF VisitInv, Published
<1>5. UploadInv' BY <1>1 DEF UploadInv
<1>6. KnownInv' BY SlugAssumption DEF KnownInv
<1>7. RowInv' BY <1>2 DEF RowInv
<1>8. SweepInv' BY <1>2, SlugAssumption DEF SweepInv, Issued, RequestInv
<1>9. KeptUntilWithdrawn'
  BY <1>2 DEF KeptUntilWithdrawn, Withdrawn, AskedToDelete, Expired, ExpiredAt
<1> QED BY <1>3, <1>4, <1>5, <1>6, <1>7, <1>8, <1>9

(* Promises only run out as time passes.                                   *)
LEMMA TickKeeps == ASSUME FileInv, TypeOK', Tick PROVE FileInv'
<1> USE DEF FileInv, Tick, request, table, sweeper
<1>1. \A f \in Rows : Expired(f) => Expired(f)'
  <2> SUFFICES ASSUME NEW f \in Rows, Expired(f) PROVE now' > f.expiresAt * TicksPerSecond
    BY DEF Expired, ExpiredAt
  <2>1. f.expiresAt * TicksPerSecond \in Int /\ now \in Nat
    BY ClockAssumption DEF Rows, TypeOK
  <2> QED BY <2>1 DEF Expired, ExpiredAt
<1>2. \A u \in Requests : Issued(u)' <=> Issued(u) BY DEF Issued
<1>3. RequestInv' BY DEF RequestInv
<1>4. VisitInv' BY DEF VisitInv, Published, Issued
<1>5. UploadInv' BY DEF UploadInv
<1>6. KnownInv' BY DEF KnownInv
<1>7. RowInv' BY <1>2 DEF RowInv
<1>8. SweepInv' BY <1>1, <1>2 DEF SweepInv, Issued, RequestInv
<1>9. KeptUntilWithdrawn'
  BY <1>1, <1>2 DEF KeptUntilWithdrawn, Withdrawn, AskedToDelete, Issued, RequestInv
<1> QED BY <1>3, <1>4, <1>5, <1>6, <1>7, <1>8, <1>9

-----------------------------------------------------------------------------
(* Every step keeps the inductive invariant. *)
LEMMA FileInvStep == FileInv /\ [Next]_vars => FileInv'
<1> SUFFICES ASSUME FileInv, [Next]_vars PROVE FileInv'
  OBVIOUS
<1>1. TypeOK' BY TypeStep DEF FileInv
<1>2. ASSUME NEW r \in Requests, Handle(r) PROVE FileInv'
  BY <1>1, <1>2, HandleRequests, HandleVisits, HandleUploads, HandleKnown,
     HandleRows, HandleSweep, HandleKept DEF FileInv
<1>3. CASE SweepList BY <1>1, <1>3, ListKeeps
<1>4. CASE SweepStoreDelete \/ SweepRepoDelete BY <1>1, <1>4, SweepKeeps
<1>5. CASE Crash BY <1>1, <1>5, CrashKeeps
<1>6. CASE Tick BY <1>1, <1>6, TickKeeps
<1>7. CASE UNCHANGED vars
  BY <1>7 DEF vars, FileInv, TypeOK, RequestInv, VisitInv, UploadInv, KnownInv, RowInv,
              SweepInv, KeptUntilWithdrawn, Issued, Published, Withdrawn, AskedToDelete, Expired, ExpiredAt
<1> QED BY <1>2, <1>3, <1>4, <1>5, <1>6, <1>7 DEF Next, Sweep

(* The inductive invariant holds in every reachable state. *)
THEOREM FileSafe == Spec => []FileInv
<1>1. Init => FileInv
  <2> SUFFICES ASSUME Init PROVE FileInv
    OBVIOUS
  <2>1. TypeOK BY DEF Init, TypeOK, Reads, Ops, Calls, Replies
  <2> QED BY <2>1, SlugAssumption
         DEF Init, FileInv, Reads, RequestInv, VisitInv, UploadInv, KnownInv, RowInv, SweepInv,
             KeptUntilWithdrawn, Issued
<1> QED BY <1>1, FileInvStep, PTL DEF Spec

(* Type correctness of file shares: in particular the byte store and the   *)
(* table are only ever touched under a slug an upload has drawn.           *)
THEOREM FileTypes == Spec => []TypeOK
<1>1. FileInv => TypeOK BY DEF FileInv
<1> QED BY <1>1, FileSafe, PTL

(* A published file is kept, row and bytes, until it expires or its        *)
(* uploader asks for its deletion: against every interleaving of uploads,  *)
(* downloads, deletions and sweeps, every failure of a call, and crashes.  *)
THEOREM FileKept == Spec => []KeptUntilWithdrawn
<1>1. FileInv => KeptUntilWithdrawn BY DEF FileInv
<1> QED BY <1>1, FileSafe, PTL
=============================================================================
