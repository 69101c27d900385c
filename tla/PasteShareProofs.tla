-------------------------- MODULE PasteShareProofs --------------------------
(* What paste shares promise, for any numbers of slugs and requests, any   *)
(* presets, any clock resolution and any mishaps: types, PasteKept, the    *)
(* promises to visitors, and that a paste share is a share link.           *)
EXTENDS PasteShare, TLAPS

(* What the sweep's whole seconds imply about the reader's clock: a row    *)
(* listed by expires_at < unixepoch() is past its expiry for a reader too. *)
LEMMA SweptIsExpired ==
    ASSUME NEW t \in Nat, NEW e \in Int, e < Unix(t)
    PROVE  t > e * TicksPerSecond
<1> DEFINE q == t \div TicksPerSecond
<1>1. TicksPerSecond \in Nat /\ TicksPerSecond > 0 BY ClockAssumption
<1>2. q \in Int /\ t >= TicksPerSecond * q BY <1>1
<1>3. q >= e + 1 BY <1>2 DEF Unix
<1> HIDE DEF q
<1>4. TicksPerSecond * q >= TicksPerSecond * (e + 1) BY <1>1, <1>2, <1>3
<1>5. TicksPerSecond * (e + 1) = e * TicksPerSecond + TicksPerSecond BY <1>1
<1>6. e * TicksPerSecond \in Int /\ TicksPerSecond * q \in Int BY <1>1, <1>2
<1> QED BY <1>1, <1>2, <1>4, <1>5, <1>6

(* A creation builds a row: its expiry is NULL or a whole second.          *)
LEMMA NewRowType ==
    ASSUME TypeOK, NEW oneUse \in BOOLEAN, NEW protected \in BOOLEAN, NEW d \in Expiries
    PROVE  /\ NewRow(oneUse, protected, d, now) \in Rows
           /\ ~NewRow(oneUse, protected, d, now).downloaded
<1>1. TicksPerSecond \in Nat /\ TicksPerSecond > 0 /\ d \in Nat BY ClockAssumption
<1>2. now + d * TicksPerSecond \in Nat BY <1>1 DEF TypeOK
<1>3. Unix(now + d * TicksPerSecond) \in Int BY <1>1, <1>2 DEF Unix
<1> QED BY <1>3 DEF NewRow, Rows, Never

(* MarkViewed changes the mark of a row that exists, nothing else. *)
LEMMA MarkEffect ==
    ASSUME TypeOK, NEW s \in Slugs, Mark(s)
    PROVE  /\ pastes' \in [Slugs -> Rows \cup {NoRow}]
           /\ \A t \in Slugs : t # s => pastes'[t] = pastes[t]
           /\ pastes'[s] = NoRow <=> pastes[s] = NoRow
           /\ pastes[s] # NoRow => pastes'[s] = Downloaded(pastes[s]) \/ pastes'[s] = pastes[s]
<1>1. CASE Fresh(pastes[s])
  <2>1. pastes[s] \in Rows BY <1>1 DEF TypeOK, Fresh
  <2>2. Downloaded(pastes[s]) \in Rows BY <2>1 DEF Downloaded, Rows
  <2>3. Downloaded(pastes[s]) # NoRow BY <2>2, RowAssumption
  <2>4. pastes' = [pastes EXCEPT ![s] = Downloaded(pastes[s])] BY <1>1 DEF Mark
  <2> QED BY <1>1, <2>2, <2>3, <2>4 DEF TypeOK, Fresh
<1>2. CASE ~Fresh(pastes[s]) BY <1>2 DEF Mark, TypeOK
<1> QED BY <1>1, <1>2

-----------------------------------------------------------------------------
(* Every step of a request keeps the types. *)
LEMMA HandleType ==
    ASSUME TypeOK, RequestInv, VisitInv, NEW r \in Requests, Handle(r)
    PROVE  TypeOK'
<1> USE DEF TypeOK, Ops, Reads, Calls, Replies, request, Fault, NoFault
<1>1. CASE RefuseCreate(r) BY <1>1 DEF RefuseCreate, Reply
<1>2. CASE RepoCreate(r) BY <1>2 DEF RepoCreate, Insert, Reply
<1>3. CASE Get(r) BY <1>3 DEF Get, Admission, Goto, Reply
<1>4. CASE MarkViewed(r)
  <2>1. pastes' \in [Slugs -> Rows \cup {NoRow}]
    BY <1>4, MarkEffect DEF MarkViewed, RequestInv, VisitInv, Reads
  <2> QED BY <1>4, <2>1 DEF MarkViewed, Goto, Reply
<1>5. CASE Render(r) BY <1>5 DEF Render, Reply
<1>6. CASE FileDelete(r) BY <1>6 DEF FileDelete, Reply
<1>7. CASE Delete(r) BY <1>7 DEF Delete, Goto, Reply
<1>8. CASE RepoDelete(r) BY <1>8 DEF RepoDelete, DropRow, Reply
<1>9. ASSUME NEW s \in Slugs, NEW oneUse \in BOOLEAN, NEW protected \in BOOLEAN,
              NEW d \in Expiries, Create(r, s, oneUse, protected, d)
      PROVE  TypeOK'
  BY <1>9, NewRowType DEF Create, Goto
<1>10. ASSUME NEW s \in Slugs, NEW what \in {"view", "head"}, NEW good \in BOOLEAN,
              DispatchView(r, s, what, good)
      PROVE  TypeOK'
  BY <1>10 DEF DispatchView, Arrive, Goto
<1>11. ASSUME NEW s \in Slugs, NEW good \in BOOLEAN, Raw(r, s, good)
      PROVE  TypeOK'
  BY <1>11 DEF Raw, Arrive, Goto
<1>12. ASSUME NEW s \in Slugs, NEW good \in BOOLEAN, DispatchDelete(r, s, good)
      PROVE  TypeOK'
  BY <1>12 DEF DispatchDelete, Arrive, Goto
<1> QED BY <1>1, <1>2, <1>3, <1>4, <1>5, <1>6, <1>7, <1>8, <1>9, <1>10, <1>11, <1>12 DEF Handle

(* Every step keeps the types. *)
LEMMA TypeStep == ASSUME TypeOK, RequestInv, VisitInv, [Next]_vars PROVE TypeOK'
<1>1. ASSUME NEW r \in Requests, Handle(r) PROVE TypeOK'
  BY <1>1, HandleType
<1>2. CASE SweepList BY <1>2 DEF TypeOK, SweepList, ListExpired, Fault, NoFault, request
<1>3. CASE SweepRepoDelete BY <1>3 DEF TypeOK, SweepRepoDelete, DropRow, Fault, NoFault, request
<1>4. CASE Crash BY <1>4 DEF TypeOK, Crash, Fault, Calls, Replies, request
<1>5. CASE Tick BY <1>5 DEF TypeOK, Tick, request
<1>6. CASE UNCHANGED vars BY <1>6 DEF TypeOK, vars
<1> QED BY <1>1, <1>2, <1>3, <1>4, <1>5, <1>6 DEF Next, Sweep

-----------------------------------------------------------------------------
(* What every step of a request leaves alone. *)
LEMMA HandleFrame ==
    ASSUME PasteInv, NEW r \in Requests, Handle(r)
    PROVE  /\ pc[r] # "done" /\ now' = now /\ todo' = todo
           /\ mishaps' \in Nat /\ mishaps' >= mishaps
           /\ \A x \in Requests :
                /\ x # r => pc'[x] = pc[x] /\ reply'[x] = reply[x]
                /\ x # r \/ op[r] # "none" =>
                     op'[x] = op[x] /\ slug'[x] = slug[x] /\ right'[x] = right[x] /\ row'[x] = row[x]
<1> DEFINE Q == /\ pc[r] # "done" /\ now' = now /\ todo' = todo
                /\ mishaps' \in Nat /\ mishaps' >= mishaps
                /\ \A x \in Requests :
                     /\ x # r => pc'[x] = pc[x] /\ reply'[x] = reply[x]
                     /\ x # r \/ op[r] # "none" =>
                          op'[x] = op[x] /\ slug'[x] = slug[x] /\ right'[x] = right[x] /\ row'[x] = row[x]
<1> SUFFICES Q OBVIOUS
<1> USE DEF PasteInv, TypeOK, RequestInv, request, Fault, NoFault
<1>1. CASE RefuseCreate(r) BY <1>1 DEF RefuseCreate, Reply
<1>2. CASE RepoCreate(r) BY <1>2 DEF RepoCreate, Insert, Reply
<1>3. CASE Get(r) BY <1>3 DEF Get, Admission, Goto, Reply
<1>4. CASE MarkViewed(r) BY <1>4 DEF MarkViewed, Mark, Fresh, Downloaded, Goto, Reply
<1>5. CASE Render(r) BY <1>5 DEF Render, Reply
<1>6. CASE FileDelete(r) BY <1>6 DEF FileDelete, Reply
<1>7. CASE Delete(r) BY <1>7 DEF Delete, Goto, Reply
<1>8. CASE RepoDelete(r) BY <1>8 DEF RepoDelete, DropRow, Reply
<1>9. ASSUME NEW s \in Slugs, NEW oneUse \in BOOLEAN, NEW protected \in BOOLEAN,
              NEW d \in Expiries, Create(r, s, oneUse, protected, d)
      PROVE  Q
  BY <1>9 DEF Create, Goto
<1>10. ASSUME NEW s \in Slugs, NEW what \in {"view", "head"}, NEW good \in BOOLEAN,
              DispatchView(r, s, what, good)
      PROVE  Q
  BY <1>10 DEF DispatchView, Arrive, Goto
<1>11. ASSUME NEW s \in Slugs, NEW good \in BOOLEAN, Raw(r, s, good)
      PROVE  Q
  BY <1>11 DEF Raw, Arrive, Goto
<1>12. ASSUME NEW s \in Slugs, NEW good \in BOOLEAN, DispatchDelete(r, s, good)
      PROVE  Q
  BY <1>12 DEF DispatchDelete, Arrive, Goto
<1> QED BY <1>1, <1>2, <1>3, <1>4, <1>5, <1>6, <1>7, <1>8, <1>9, <1>10, <1>11, <1>12 DEF Handle

(* A request stays consistent with the call it is about to make. *)
LEMMA HandleRequests ==
    ASSUME PasteInv, TypeOK', NEW r \in Requests, Handle(r)
    PROVE  RequestInv'
<1> USE DEF PasteInv, TypeOK, RequestInv, request, Reads, Fault, NoFault
<1>1. CASE RefuseCreate(r) BY <1>1 DEF RefuseCreate, Reply
<1>2. CASE RepoCreate(r) BY <1>2 DEF RepoCreate, Insert, Reply
<1>3. CASE Get(r) BY <1>3 DEF Get, Admission, Goto, Reply
<1>4. CASE MarkViewed(r) BY <1>4 DEF MarkViewed, Mark, Fresh, Downloaded, Goto, Reply
<1>5. CASE Render(r) BY <1>5 DEF Render, Reply
<1>6. CASE FileDelete(r) BY <1>6 DEF FileDelete, Reply
<1>7. CASE Delete(r) BY <1>7 DEF Delete, Goto, Reply
<1>8. CASE RepoDelete(r) BY <1>8 DEF RepoDelete, DropRow, Reply
<1>9. ASSUME NEW s \in Slugs, NEW oneUse \in BOOLEAN, NEW protected \in BOOLEAN,
              NEW d \in Expiries, Create(r, s, oneUse, protected, d)
      PROVE  RequestInv'
  BY <1>9, NewRowType DEF Create, Goto
<1>10. ASSUME NEW s \in Slugs, NEW what \in {"view", "head"}, NEW good \in BOOLEAN,
              DispatchView(r, s, what, good)
      PROVE  RequestInv'
  BY <1>10 DEF DispatchView, Arrive, Goto
<1>11. ASSUME NEW s \in Slugs, NEW good \in BOOLEAN, Raw(r, s, good)
      PROVE  RequestInv'
  BY <1>11 DEF Raw, Arrive, Goto
<1>12. ASSUME NEW s \in Slugs, NEW good \in BOOLEAN, DispatchDelete(r, s, good)
      PROVE  RequestInv'
  BY <1>12 DEF DispatchDelete, Arrive, Goto
<1> QED BY <1>1, <1>2, <1>3, <1>4, <1>5, <1>6, <1>7, <1>8, <1>9, <1>10, <1>11, <1>12 DEF Handle

(* Requests other than creations are about published slugs. *)
LEMMA HandleVisits ==
    ASSUME PasteInv, TypeOK', NEW r \in Requests, Handle(r)
    PROVE  VisitInv'
<1> USE DEF PasteInv, TypeOK, RequestInv, request, VisitInv, Reads, Published, Issued
<1>1. CASE RefuseCreate(r) BY <1>1 DEF RefuseCreate, Reply
<1>2. CASE RepoCreate(r) BY <1>2 DEF RepoCreate, Insert, Reply
<1>3. CASE Get(r) BY <1>3 DEF Get, Admission, Goto, Reply
<1>4. CASE MarkViewed(r) BY <1>4 DEF MarkViewed, Mark, Fresh, Downloaded, Goto, Reply
<1>5. CASE Render(r) BY <1>5 DEF Render, Reply
<1>6. CASE FileDelete(r) BY <1>6 DEF FileDelete, Reply
<1>7. CASE Delete(r) BY <1>7 DEF Delete, Goto, Reply
<1>8. CASE RepoDelete(r) BY <1>8 DEF RepoDelete, DropRow, Reply
<1>9. ASSUME NEW s \in Slugs, NEW oneUse \in BOOLEAN, NEW protected \in BOOLEAN,
              NEW d \in Expiries, Create(r, s, oneUse, protected, d)
      PROVE  VisitInv'
  BY <1>9 DEF Create, Goto
<1>10. ASSUME NEW s \in Slugs, NEW what \in {"view", "head"}, NEW good \in BOOLEAN,
              DispatchView(r, s, what, good)
      PROVE  VisitInv'
  BY <1>10 DEF DispatchView, Arrive, Goto
<1>11. ASSUME NEW s \in Slugs, NEW good \in BOOLEAN, Raw(r, s, good)
      PROVE  VisitInv'
  BY <1>11 DEF Raw, Arrive, Goto
<1>12. ASSUME NEW s \in Slugs, NEW good \in BOOLEAN, DispatchDelete(r, s, good)
      PROVE  VisitInv'
  BY <1>12 DEF DispatchDelete, Arrive, Goto
<1> QED BY <1>1, <1>2, <1>3, <1>4, <1>5, <1>6, <1>7, <1>8, <1>9, <1>10, <1>11, <1>12 DEF Handle

(* Until its creation is answered, nobody else has the slug of a creation. *)
LEMMA Unshared ==
    ASSUME PasteInv, NEW c \in Requests, NEW r \in Requests, r # c, pc[c] = "create"
    PROVE  /\ op[r] # "none" => slug[r] # slug[c]
           /\ op[c] = "create" /\ slug[c] \in Slugs /\ row[c] \in Rows /\ ~Published(slug[c])
<1>1. op[c] = "create" /\ slug[c] \in Slugs /\ row[c] \in Rows /\ reply[c] = "none"
  BY DEF PasteInv, RequestInv
<1>2. ~Published(slug[c])
  BY <1>1, PasteSlugAssumption DEF PasteInv, CreateInv, Published, Issued
<1>3. op[r] = "create" => slug[r] # slug[c]
  BY <1>1, PasteSlugAssumption DEF PasteInv, CreateInv
<1> QED BY <1>1, <1>2, <1>3 DEF PasteInv, VisitInv, TypeOK, Ops

(* Requests put nothing in the table under a slug nobody has drawn. *)
LEMMA HandleKnown ==
    ASSUME PasteInv, TypeOK', NEW r \in Requests, Handle(r)
    PROVE  KnownInv'
<1> USE PasteSlugAssumption DEF PasteInv, TypeOK, RequestInv, request, VisitInv, KnownInv, Reads
<1>1. CASE RefuseCreate(r) BY <1>1 DEF RefuseCreate, Reply
<1>2. CASE RepoCreate(r) BY <1>2 DEF RepoCreate, Insert, Reply
<1>3. CASE Get(r) BY <1>3 DEF Get, Admission, Goto, Reply
<1>4. CASE MarkViewed(r) BY <1>4 DEF MarkViewed, Mark, Fresh, Downloaded, Goto, Reply
<1>5. CASE Render(r) BY <1>5 DEF Render, Reply
<1>6. CASE FileDelete(r) BY <1>6 DEF FileDelete, Reply
<1>7. CASE Delete(r) BY <1>7 DEF Delete, Goto, Reply
<1>8. CASE RepoDelete(r) BY <1>8 DEF RepoDelete, DropRow, Reply
<1>9. ASSUME NEW s \in Slugs, NEW oneUse \in BOOLEAN, NEW protected \in BOOLEAN,
              NEW d \in Expiries, Create(r, s, oneUse, protected, d)
      PROVE  KnownInv'
  BY <1>9 DEF Create, Goto
<1>10. ASSUME NEW s \in Slugs, NEW what \in {"view", "head"}, NEW good \in BOOLEAN,
              DispatchView(r, s, what, good)
      PROVE  KnownInv'
  BY <1>10 DEF DispatchView, Arrive, Goto
<1>11. ASSUME NEW s \in Slugs, NEW good \in BOOLEAN, Raw(r, s, good)
      PROVE  KnownInv'
  BY <1>11 DEF Raw, Arrive, Goto
<1>12. ASSUME NEW s \in Slugs, NEW good \in BOOLEAN, DispatchDelete(r, s, good)
      PROVE  KnownInv'
  BY <1>12 DEF DispatchDelete, Arrive, Goto
<1> QED BY <1>1, <1>2, <1>3, <1>4, <1>5, <1>6, <1>7, <1>8, <1>9, <1>10, <1>11, <1>12 DEF Handle

(* Creations keep their slugs to themselves. *)
LEMMA HandleCreates ==
    ASSUME PasteInv, TypeOK', NEW r \in Requests, Handle(r)
    PROVE  CreateInv'
<1> USE DEF PasteInv, TypeOK, RequestInv, request, CreateInv, Reads
<1>1. CASE RefuseCreate(r) BY <1>1 DEF RefuseCreate, Reply
<1>2. CASE RepoCreate(r)
  <2>1. \A c \in Requests : pc'[c] = "create" => pc[c] = "create" /\ slug[c] # slug[r]
    BY <1>2, Unshared DEF RepoCreate, Reply
  <2>2. \A c \in Requests : pc'[c] = "create" => pastes'[slug[c]] = pastes[slug[c]]
    BY <1>2, <2>1 DEF RepoCreate, Insert
  <2> QED BY <1>2, <2>1, <2>2 DEF RepoCreate
<1>3. CASE Get(r) BY <1>3 DEF Get, Admission, Goto, Reply
<1>4. CASE MarkViewed(r) BY <1>4 DEF MarkViewed, Mark, Fresh, Downloaded, Goto, Reply
<1>5. CASE Render(r) BY <1>5 DEF Render, Reply
<1>6. CASE FileDelete(r) BY <1>6 DEF FileDelete, Reply
<1>7. CASE Delete(r) BY <1>7 DEF Delete, Goto, Reply
<1>8. CASE RepoDelete(r) BY <1>8 DEF RepoDelete, DropRow, Reply
<1>9. ASSUME NEW s \in Slugs, NEW oneUse \in BOOLEAN, NEW protected \in BOOLEAN,
              NEW d \in Expiries, Create(r, s, oneUse, protected, d)
      PROVE  CreateInv'
  <2>1. pastes[s] = NoRow /\ s \notin todo BY <1>9 DEF Create, KnownInv
  <2>2. \A c \in Requests : c # r => slug'[c] = slug[c] /\ slug[c] # s /\ pc'[c] = pc[c] /\ op'[c] = op[c]
    BY <1>9 DEF Create, Goto
  <2>3. slug'[r] = s BY <1>9 DEF Create
  <2> QED BY <1>9, <2>1, <2>2, <2>3 DEF Create
<1>10. ASSUME NEW s \in Slugs, NEW what \in {"view", "head"}, NEW good \in BOOLEAN,
              DispatchView(r, s, what, good)
      PROVE  CreateInv'
  BY <1>10 DEF DispatchView, Arrive, Goto
<1>11. ASSUME NEW s \in Slugs, NEW good \in BOOLEAN, Raw(r, s, good)
      PROVE  CreateInv'
  BY <1>11 DEF Raw, Arrive, Goto
<1>12. ASSUME NEW s \in Slugs, NEW good \in BOOLEAN, DispatchDelete(r, s, good)
      PROVE  CreateInv'
  BY <1>12 DEF DispatchDelete, Arrive, Goto
<1> QED BY <1>1, <1>2, <1>3, <1>4, <1>5, <1>6, <1>7, <1>8, <1>9, <1>10, <1>11, <1>12 DEF Handle

(* Requests keep the row a published paste was promised. *)
LEMMA HandleRows ==
    ASSUME PasteInv, TypeOK', NEW r \in Requests, Handle(r)
    PROVE  RowInv'
<1> USE DEF PasteInv, TypeOK, RequestInv, request, RowInv, Issued, Reads
<1>1. CASE RefuseCreate(r) BY <1>1 DEF RefuseCreate, Reply
<1>2. CASE RepoCreate(r)
  <2>1. \A c \in Requests : Issued(c)' => c = r \/ (Issued(c) /\ slug[c] # slug[r])
    BY <1>2, Unshared DEF RepoCreate, Reply
  <2>2. \A s \in Slugs : s # slug[r] => pastes'[s] = pastes[s] BY <1>2 DEF RepoCreate, Insert
  <2>3. Issued(r)' => pastes'[slug[r]] = row[r] BY <1>2 DEF RepoCreate, Insert, Reply
  <2> QED BY <1>2, <2>1, <2>2, <2>3 DEF RepoCreate
<1>3. CASE Get(r) BY <1>3 DEF Get, Admission, Goto, Reply
<1>4. CASE MarkViewed(r) BY <1>4 DEF MarkViewed, Mark, Fresh, Downloaded, Goto, Reply
<1>5. CASE Render(r) BY <1>5 DEF Render, Reply
<1>6. CASE FileDelete(r) BY <1>6 DEF FileDelete, Reply
<1>7. CASE Delete(r) BY <1>7 DEF Delete, Goto, Reply
<1>8. CASE RepoDelete(r) BY <1>8 DEF RepoDelete, DropRow, Reply
<1>9. ASSUME NEW s \in Slugs, NEW oneUse \in BOOLEAN, NEW protected \in BOOLEAN,
              NEW d \in Expiries, Create(r, s, oneUse, protected, d)
      PROVE  RowInv'
  BY <1>9 DEF Create, Goto
<1>10. ASSUME NEW s \in Slugs, NEW what \in {"view", "head"}, NEW good \in BOOLEAN,
              DispatchView(r, s, what, good)
      PROVE  RowInv'
  BY <1>10 DEF DispatchView, Arrive, Goto
<1>11. ASSUME NEW s \in Slugs, NEW good \in BOOLEAN, Raw(r, s, good)
      PROVE  RowInv'
  BY <1>11 DEF Raw, Arrive, Goto
<1>12. ASSUME NEW s \in Slugs, NEW good \in BOOLEAN, DispatchDelete(r, s, good)
      PROVE  RowInv'
  BY <1>12 DEF DispatchDelete, Arrive, Goto
<1> QED BY <1>1, <1>2, <1>3, <1>4, <1>5, <1>6, <1>7, <1>8, <1>9, <1>10, <1>11, <1>12 DEF Handle

(* Requests leave the sweep with expired pastes. *)
LEMMA HandleSweep ==
    ASSUME PasteInv, TypeOK', NEW r \in Requests, Handle(r)
    PROVE  SweepInv'
<1> USE DEF PasteInv, TypeOK, RequestInv, request, VisitInv, CreateInv, SweepInv, Published, Issued, Expired, ExpiredAt, Reads
<1>1. CASE RefuseCreate(r) BY <1>1 DEF RefuseCreate, Reply
<1>2. CASE RepoCreate(r) BY <1>2 DEF RepoCreate, Insert, Reply
<1>3. CASE Get(r) BY <1>3 DEF Get, Admission, Goto, Reply
<1>4. CASE MarkViewed(r) BY <1>4 DEF MarkViewed, Mark, Fresh, Downloaded, Goto, Reply
<1>5. CASE Render(r) BY <1>5 DEF Render, Reply
<1>6. CASE FileDelete(r) BY <1>6 DEF FileDelete, Reply
<1>7. CASE Delete(r) BY <1>7 DEF Delete, Goto, Reply
<1>8. CASE RepoDelete(r) BY <1>8 DEF RepoDelete, DropRow, Reply
<1>9. ASSUME NEW s \in Slugs, NEW oneUse \in BOOLEAN, NEW protected \in BOOLEAN,
              NEW d \in Expiries, Create(r, s, oneUse, protected, d)
      PROVE  SweepInv'
  BY <1>9 DEF Create, Goto
<1>10. ASSUME NEW s \in Slugs, NEW what \in {"view", "head"}, NEW good \in BOOLEAN,
              DispatchView(r, s, what, good)
      PROVE  SweepInv'
  BY <1>10 DEF DispatchView, Arrive, Goto
<1>11. ASSUME NEW s \in Slugs, NEW good \in BOOLEAN, Raw(r, s, good)
      PROVE  SweepInv'
  BY <1>11 DEF Raw, Arrive, Goto
<1>12. ASSUME NEW s \in Slugs, NEW good \in BOOLEAN, DispatchDelete(r, s, good)
      PROVE  SweepInv'
  BY <1>12 DEF DispatchDelete, Arrive, Goto
<1> QED BY <1>1, <1>2, <1>3, <1>4, <1>5, <1>6, <1>7, <1>8, <1>9, <1>10, <1>11, <1>12 DEF Handle

(* Requests keep a published paste until it is withdrawn. *)
LEMMA HandleKept ==
    ASSUME PasteInv, TypeOK', NEW r \in Requests, Handle(r)
    PROVE  PasteKept'
<1> USE DEF PasteInv, TypeOK, RequestInv, request, VisitInv, CreateInv, RowInv, PasteKept, Withdrawn, AskedToDelete, Expired, ExpiredAt, Published, Issued, Reads
<1>1. CASE RefuseCreate(r) BY <1>1 DEF RefuseCreate, Reply
<1>2. CASE RepoCreate(r)
  <2>1. \A c \in Requests : Issued(c)' => c = r \/ (Issued(c) /\ slug[c] # slug[r])
    BY <1>2, Unshared DEF RepoCreate, Reply
  <2>2. \A s \in Slugs : s # slug[r] => pastes'[s] = pastes[s] BY <1>2 DEF RepoCreate, Insert
  <2>3. Issued(r)' => pastes'[slug[r]] = row[r] BY <1>2 DEF RepoCreate, Insert, Reply
  <2> QED BY <1>2, <2>1, <2>2, <2>3 DEF RepoCreate
<1>3. CASE Get(r) BY <1>3 DEF Get, Admission, Goto, Reply
<1>4. CASE MarkViewed(r) BY <1>4 DEF MarkViewed, Mark, Fresh, Downloaded, Goto, Reply
<1>5. CASE Render(r) BY <1>5 DEF Render, Reply
<1>6. CASE FileDelete(r) BY <1>6 DEF FileDelete, Reply
<1>7. CASE Delete(r) BY <1>7 DEF Delete, Goto, Reply
<1>8. CASE RepoDelete(r) BY <1>8 DEF RepoDelete, DropRow, Reply
<1>9. ASSUME NEW s \in Slugs, NEW oneUse \in BOOLEAN, NEW protected \in BOOLEAN,
              NEW d \in Expiries, Create(r, s, oneUse, protected, d)
      PROVE  PasteKept'
  BY <1>9 DEF Create, Goto
<1>10. ASSUME NEW s \in Slugs, NEW what \in {"view", "head"}, NEW good \in BOOLEAN,
              DispatchView(r, s, what, good)
      PROVE  PasteKept'
  BY <1>10 DEF DispatchView, Arrive, Goto
<1>11. ASSUME NEW s \in Slugs, NEW good \in BOOLEAN, Raw(r, s, good)
      PROVE  PasteKept'
  BY <1>11 DEF Raw, Arrive, Goto
<1>12. ASSUME NEW s \in Slugs, NEW good \in BOOLEAN, DispatchDelete(r, s, good)
      PROVE  PasteKept'
  BY <1>12 DEF DispatchDelete, Arrive, Goto
<1> QED BY <1>1, <1>2, <1>3, <1>4, <1>5, <1>6, <1>7, <1>8, <1>9, <1>10, <1>11, <1>12 DEF Handle

-----------------------------------------------------------------------------
(* Listing: every published paste the sweep takes is past its promise.     *)
LEMMA ListKeeps == ASSUME PasteInv, TypeOK', SweepList PROVE PasteInv'
<1> USE DEF PasteInv, SweepList, request
<1>1. todo' \subseteq ListExpired BY DEF Fault, NoFault
<1>2. mishaps' >= mishaps /\ mishaps \in Nat BY DEF Fault, NoFault, TypeOK
<1>3. RequestInv' BY <1>2 DEF RequestInv, TypeOK
<1>4. VisitInv' BY DEF VisitInv, Published, Issued
<1>5. CreateInv' BY <1>1 DEF CreateInv, ListExpired, SweepableAt
<1>6. KnownInv' BY <1>1 DEF KnownInv, ListExpired, SweepableAt
<1>7. RowInv' BY DEF RowInv, Issued
<1>8. SweepInv'
  <2> SUFFICES ASSUME NEW c \in Requests, Issued(c), slug[c] \in todo'
               PROVE  Expired(row[c])
    BY DEF SweepInv, Issued, Expired, ExpiredAt
  <2>1. slug[c] \in Slugs /\ row[c] \in Rows BY DEF Issued, RequestInv
  <2>2. SweepableAt(pastes[slug[c]], now) BY <1>1 DEF ListExpired
  <2>3. pastes[slug[c]].expiresAt = row[c].expiresAt
    BY <2>1, <2>2 DEF RowInv, Rows, SweepableAt, Downloaded
  <2>4. row[c].expiresAt \in Int /\ now \in Nat BY <2>1 DEF Rows, TypeOK
  <2> QED BY <2>2, <2>3, <2>4, SweptIsExpired DEF SweepableAt, Expired, ExpiredAt
<1>9. PasteKept' BY DEF PasteKept, Issued, Withdrawn, AskedToDelete, Expired, ExpiredAt
<1> QED BY <1>3, <1>4, <1>5, <1>6, <1>7, <1>8, <1>9

(* The sweep's deletion hits only what is past its promise. *)
LEMMA SweepKeeps == ASSUME PasteInv, TypeOK', SweepRepoDelete PROVE PasteInv'
<1> USE DEF PasteInv, SweepRepoDelete, request
<1>1. PICK s \in todo : todo' = todo \ {s} /\ (pastes' = pastes \/ pastes' = [pastes EXCEPT ![s] = NoRow])
  BY DEF DropRow
<1>2. \A t \in Slugs : (pastes'[t] # NoRow => pastes'[t] = pastes[t]) /\ (t # s => pastes'[t] = pastes[t])
  BY <1>1 DEF TypeOK
<1>3. mishaps' >= mishaps /\ mishaps \in Nat BY DEF Fault, NoFault, TypeOK
<1>4. RequestInv' BY <1>3 DEF RequestInv, TypeOK
<1>5. VisitInv' BY DEF VisitInv, Published, Issued
<1>6. CreateInv' BY <1>1, <1>2 DEF CreateInv, RequestInv
<1>7. KnownInv' BY <1>1, <1>2 DEF KnownInv
<1>8. RowInv' BY <1>2 DEF RowInv, Issued, RequestInv
<1>9. SweepInv' BY <1>1 DEF SweepInv, Issued, Expired, ExpiredAt
<1>10. PasteKept'
  BY <1>1, <1>2 DEF PasteKept, SweepInv, Issued, Withdrawn, AskedToDelete, Expired, ExpiredAt, RequestInv
<1> QED BY <1>4, <1>5, <1>6, <1>7, <1>8, <1>9, <1>10

(* A crash answers nobody and leaves the table alone. *)
LEMMA CrashKeeps == ASSUME PasteInv, TypeOK', Crash PROVE PasteInv'
<1> USE DEF PasteInv, Crash, request
<1>1. \A r \in Requests :
        \/ pc[r] \in {"new", "done"} /\ pc'[r] = pc[r] /\ reply'[r] = reply[r]
        \/ pc[r] \notin {"new", "done"} /\ pc'[r] = "done" /\ reply'[r] = "lost"
  OBVIOUS
<1>2. \A c \in Requests : Issued(c)' <=> Issued(c) BY <1>1 DEF Issued, RequestInv
<1>3. RequestInv' BY <1>1 DEF RequestInv
<1>4. VisitInv' BY <1>2 DEF VisitInv, Published
<1>5. CreateInv' BY <1>1 DEF CreateInv
<1>6. KnownInv' BY DEF KnownInv
<1>7. RowInv' BY <1>2 DEF RowInv
<1>8. SweepInv' BY <1>2 DEF SweepInv
<1>9. PasteKept' BY <1>2 DEF PasteKept, Withdrawn, AskedToDelete, Expired, ExpiredAt
<1> QED BY <1>3, <1>4, <1>5, <1>6, <1>7, <1>8, <1>9

(* As time passes a promise may run out, and none comes back. *)
LEMMA ExpiredStays ==
    ASSUME PasteInv, Tick
    PROVE  /\ \A f \in Rows : Expired(f) => Expired(f)'
           /\ \A c \in Requests : (Issued(c)' <=> Issued(c)) /\ (Issued(c) => row[c] \in Rows)
           /\ \A c \in Requests : Issued(c) /\ Withdrawn(c) => Withdrawn(c)'
<1> USE DEF PasteInv, Tick, request
<1>1. \A f \in Rows : Expired(f) => Expired(f)'
  <2> SUFFICES ASSUME NEW f \in Rows, Expired(f) PROVE now' > f.expiresAt * TicksPerSecond
    BY DEF Expired, ExpiredAt
  <2>1. f.expiresAt * TicksPerSecond \in Int /\ now \in Nat
    BY ClockAssumption DEF Rows, TypeOK
  <2> QED BY <2>1 DEF Expired, ExpiredAt
<1>2. \A c \in Requests : (Issued(c)' <=> Issued(c)) /\ (Issued(c) => row[c] \in Rows)
  BY DEF Issued, RequestInv
<1>3. \A c \in Requests : Issued(c) /\ Withdrawn(c) => Withdrawn(c)'
  BY <1>1, <1>2 DEF Withdrawn, AskedToDelete
<1> QED BY <1>1, <1>2, <1>3

(* Promises only run out as time passes. *)
LEMMA TickKeeps == ASSUME PasteInv, TypeOK', Tick PROVE PasteInv'
<1> USE DEF PasteInv, Tick, request
<1>1. RequestInv' BY DEF RequestInv
<1>2. VisitInv' BY DEF VisitInv, Published, Issued
<1>3. CreateInv' BY DEF CreateInv
<1>4. KnownInv' BY DEF KnownInv
<1>5. RowInv' BY DEF RowInv, Issued
<1>6. SweepInv' BY ExpiredStays DEF SweepInv
<1>7. PasteKept' BY ExpiredStays DEF PasteKept
<1> QED BY <1>1, <1>2, <1>3, <1>4, <1>5, <1>6, <1>7

(* Every step keeps the inductive invariant. *)
LEMMA PasteInvStep == PasteInv /\ [Next]_vars => PasteInv'
<1> SUFFICES ASSUME PasteInv, [Next]_vars PROVE PasteInv'
  OBVIOUS
<1>1. TypeOK' BY TypeStep DEF PasteInv
<1>2. ASSUME NEW r \in Requests, Handle(r) PROVE PasteInv'
  BY <1>1, <1>2, HandleRequests, HandleVisits, HandleCreates, HandleKnown,
     HandleRows, HandleSweep, HandleKept DEF PasteInv
<1>3. CASE SweepList BY <1>1, <1>3, ListKeeps
<1>4. CASE SweepRepoDelete BY <1>1, <1>4, SweepKeeps
<1>5. CASE Crash BY <1>1, <1>5, CrashKeeps
<1>6. CASE Tick BY <1>1, <1>6, TickKeeps
<1>7. CASE UNCHANGED vars
  BY <1>7 DEF vars, PasteInv, TypeOK, RequestInv, VisitInv, CreateInv, KnownInv, RowInv,
              SweepInv, PasteKept, Issued, Published, Withdrawn, AskedToDelete, Expired, ExpiredAt
<1> QED BY <1>2, <1>3, <1>4, <1>5, <1>6, <1>7 DEF Next, Sweep

(* The inductive invariant holds in every reachable state. *)
THEOREM PasteSafe == Spec => []PasteInv
<1>1. Init => PasteInv
  <2> SUFFICES ASSUME Init PROVE PasteInv
    OBVIOUS
  <2>1. TypeOK BY DEF Init, TypeOK, Ops, Calls, Replies
  <2> QED BY <2>1, PasteSlugAssumption
         DEF Init, PasteInv, RequestInv, VisitInv, CreateInv, KnownInv, RowInv, SweepInv, PasteKept, Issued, Reads
<1> QED BY <1>1, PasteInvStep, PTL DEF Spec

(* Type correctness of paste shares. *)
THEOREM PasteTypes == Spec => []TypeOK
<1>1. PasteInv => TypeOK BY DEF PasteInv
<1> QED BY <1>1, PasteSafe, PTL

(* A published paste keeps its row, as its creation promised, until it     *)
(* expires or its deletion is asked for: against every interleaving of     *)
(* readers, deletions and sweeps, every failing statement, and crashes.    *)
THEOREM PasteIsKept == Spec => []PasteKept
<1>1. PasteInv => PasteKept BY DEF PasteInv
<1> QED BY <1>1, PasteSafe, PTL

-----------------------------------------------------------------------------
(* The row of a published paste has the options and the expiry its         *)
(* creation promised.                                                      *)
LEMMA PromisedRow ==
    ASSUME PasteInv, NEW c \in Requests, Issued(c)
    PROVE  /\ slug[c] \in Slugs /\ row[c] \in Rows /\ row[c] # NoRow
           /\ pastes[slug[c]] # NoRow =>
                /\ pastes[slug[c]].oneUse = row[c].oneUse
                /\ pastes[slug[c]].protected = row[c].protected
                /\ pastes[slug[c]].expiresAt = row[c].expiresAt
<1>1. slug[c] \in Slugs /\ row[c] \in Rows BY DEF PasteInv, RequestInv, Issued
<1>2. row[c] # NoRow BY <1>1, RowAssumption
<1>3. pastes[slug[c]] # NoRow => pastes[slug[c]] \in {row[c], Downloaded(row[c])}
  BY DEF PasteInv, RowInv
<1> QED BY <1>1, <1>2, <1>3 DEF Downloaded, Rows

(* A published paste that lacks its row is withdrawn. *)
LEMMA GoneIsWithdrawn ==
    ASSUME PasteInv, NEW c \in Requests, Issued(c), pastes[slug[c]] = NoRow
    PROVE  Withdrawn(c)
<1>1. row[c] \in Rows BY PromisedRow
<1>2. Downloaded(row[c]) \in Rows BY <1>1 DEF Downloaded, Rows
<1> QED BY <1>1, <1>2, RowAssumption DEF PasteInv, PasteKept

(* Who goes on to mark has passed the checks of Get. *)
LEMMA HandlePass ==
    ASSUME PasteInv, PromiseInv, TypeOK', PasteInv', NEW r \in Requests, Handle(r)
    PROVE  PassInv'
<1> USE PasteSlugAssumption DEF PasteInv, TypeOK, RequestInv, VisitInv, CreateInv, Issued, request, Reads, PromiseInv, PassInv, RowInv, Published
<1>1. CASE RefuseCreate(r) BY <1>1 DEF RefuseCreate, Reply
<1>2. CASE RepoCreate(r)
  <2>1. row' = row /\ slug' = slug /\ right' = right BY <1>2 DEF RepoCreate
  <2>2. \A q \in Requests : pc'[q] = "mark" => pc[q] = "mark" /\ q # r BY <1>2 DEF RepoCreate, Reply
  <2>3. \A c \in Requests : Issued(c)' => Issued(c) \/ c = r BY <1>2 DEF RepoCreate, Reply
  <2>4. \A q \in Requests : pc[q] = "mark" => slug[q] # slug[r]
    BY <1>2, Unshared DEF RepoCreate
  <2> QED BY <2>1, <2>2, <2>3, <2>4
<1>3. CASE Get(r)
  <2> SUFFICES ASSUME NEW c \in Requests, NEW q \in Requests, Issued(c)', slug'[q] = slug'[c],
                      pc'[q] = "mark"
               PROVE  row'[c].oneUse /\ (row'[c].protected => right'[q])
    BY <1>3 DEF Get
  <2>1. Issued(c) /\ slug[q] = slug[c] /\ UNCHANGED request BY <1>3 DEF Get, Goto, Reply
  <2>2. CASE q # r BY <1>3, <2>1, <2>2 DEF Get, Goto, Reply
  <2>3. CASE q = r
    <3>1. Admission(pastes[slug[r]], right[r], now) = "ok" /\ pastes[slug[r]].oneUse
      BY <1>3, <2>3 DEF Get, Goto, Reply
    <3>2. pastes[slug[r]] # NoRow /\ (pastes[slug[r]].protected => right[r])
      BY <3>1 DEF Admission
    <3> QED BY <2>1, <2>3, <3>1, <3>2, PromisedRow
  <2> QED BY <2>2, <2>3
<1>4. CASE MarkViewed(r) BY <1>4 DEF MarkViewed, Mark, Fresh, Downloaded, Goto, Reply
<1>5. CASE Render(r) BY <1>5 DEF Render, Reply
<1>6. CASE FileDelete(r) BY <1>6 DEF FileDelete, Reply
<1>7. CASE Delete(r) BY <1>7 DEF Delete, Goto, Reply
<1>8. CASE RepoDelete(r) BY <1>8 DEF RepoDelete, DropRow, Reply
<1>9. ASSUME NEW s \in Slugs, NEW oneUse \in BOOLEAN, NEW protected \in BOOLEAN,
              NEW d \in Expiries, Create(r, s, oneUse, protected, d)
      PROVE  PassInv'
  BY <1>9, NewRowType DEF Create, Goto
<1>10. ASSUME NEW s \in Slugs, NEW what \in {"view", "head"}, NEW good \in BOOLEAN,
              DispatchView(r, s, what, good)
      PROVE  PassInv'
  BY <1>10 DEF DispatchView, Arrive, Goto
<1>11. ASSUME NEW s \in Slugs, NEW good \in BOOLEAN, Raw(r, s, good)
      PROVE  PassInv'
  BY <1>11 DEF Raw, Arrive, Goto
<1>12. ASSUME NEW s \in Slugs, NEW good \in BOOLEAN, DispatchDelete(r, s, good)
      PROVE  PassInv'
  BY <1>12 DEF DispatchDelete, Arrive, Goto
<1> QED BY <1>1, <1>2, <1>3, <1>4, <1>5, <1>6, <1>7, <1>8, <1>9, <1>10, <1>11, <1>12 DEF Handle

(* Nobody without the password is let in or sets the mark. *)
LEMMA HandlePassword ==
    ASSUME PasteInv, PromiseInv, TypeOK', PasteInv', NEW r \in Requests, Handle(r)
    PROVE  PasswordGuards'
<1> USE PasteSlugAssumption DEF PasteInv, TypeOK, RequestInv, VisitInv, CreateInv, Issued, request, Reads, PromiseInv, PassInv, PasswordGuards, RowInv, Answered, Admitted, Published
<1>1. CASE RefuseCreate(r) BY <1>1 DEF RefuseCreate, Reply
<1>2. CASE RepoCreate(r) BY <1>2 DEF RepoCreate, Insert, Reply
<1>3. CASE Get(r)
  <2>1. UNCHANGED <<op, slug, right, row, pastes>> BY <1>3 DEF Get
  <2>2. \A c \in Requests : Issued(c)' => Issued(c) BY <1>3 DEF Get, Goto, Reply
  <2>3. ASSUME NEW c \in Requests, NEW q \in Requests, Issued(c), row[c].protected,
               Answered(q, slug[c])' \/ Admitted(q, slug[c])'
        PROVE  right[q]
    <3>1. CASE q # r BY <1>3, <2>1, <2>3, <3>1 DEF Get, Goto, Reply
    <3>2. CASE q = r
      <4>1. Admission(pastes[slug[r]], right[r], now) = "ok"
        BY <1>3, <2>3, <3>2 DEF Get, Goto, Reply, Admission
      <4>2. pastes[slug[r]] # NoRow /\ (pastes[slug[r]].protected => right[r])
        BY <4>1 DEF Admission
      <4> QED BY <2>1, <2>3, <3>2, <4>1, <4>2, PromisedRow
    <3> QED BY <3>1, <3>2
  <2> QED BY <2>1, <2>2, <2>3
<1>4. CASE MarkViewed(r) BY <1>4 DEF MarkViewed, Mark, Fresh, Downloaded, Goto, Reply
<1>5. CASE Render(r) BY <1>5 DEF Render, Reply
<1>6. CASE FileDelete(r) BY <1>6 DEF FileDelete, Reply
<1>7. CASE Delete(r) BY <1>7 DEF Delete, Goto, Reply
<1>8. CASE RepoDelete(r) BY <1>8 DEF RepoDelete, DropRow, Reply
<1>9. ASSUME NEW s \in Slugs, NEW oneUse \in BOOLEAN, NEW protected \in BOOLEAN,
              NEW d \in Expiries, Create(r, s, oneUse, protected, d)
      PROVE  PasswordGuards'
  BY <1>9 DEF Create, Goto
<1>10. ASSUME NEW s \in Slugs, NEW what \in {"view", "head"}, NEW good \in BOOLEAN,
              DispatchView(r, s, what, good)
      PROVE  PasswordGuards'
  BY <1>10 DEF DispatchView, Arrive, Goto
<1>11. ASSUME NEW s \in Slugs, NEW good \in BOOLEAN, Raw(r, s, good)
      PROVE  PasswordGuards'
  BY <1>11 DEF Raw, Arrive, Goto
<1>12. ASSUME NEW s \in Slugs, NEW good \in BOOLEAN, DispatchDelete(r, s, good)
      PROVE  PasswordGuards'
  BY <1>12 DEF DispatchDelete, Arrive, Goto
<1> QED BY <1>1, <1>2, <1>3, <1>4, <1>5, <1>6, <1>7, <1>8, <1>9, <1>10, <1>11, <1>12 DEF Handle

(* What a deletion has removed stays away. *)
LEMMA HandleGone ==
    ASSUME PasteInv, PromiseInv, TypeOK', PasteInv', NEW r \in Requests, Handle(r)
    PROVE  GoneInv'
<1> USE PasteSlugAssumption DEF PasteInv, TypeOK, RequestInv, VisitInv, CreateInv, Issued, request, Reads, PromiseInv, GoneInv, Published
<1>1. CASE RefuseCreate(r) BY <1>1 DEF RefuseCreate, Reply
<1>2. CASE RepoCreate(r) BY <1>2 DEF RepoCreate, Insert, Reply
<1>3. CASE Get(r) BY <1>3 DEF Get, Admission, Goto, Reply
<1>4. CASE MarkViewed(r) BY <1>4 DEF MarkViewed, Mark, Fresh, Downloaded, Goto, Reply
<1>5. CASE Render(r) BY <1>5 DEF Render, Reply
<1>6. CASE FileDelete(r) BY <1>6 DEF FileDelete, Reply
<1>7. CASE Delete(r) BY <1>7 DEF Delete, Goto, Reply
<1>8. CASE RepoDelete(r) BY <1>8 DEF RepoDelete, DropRow, Reply
<1>9. ASSUME NEW s \in Slugs, NEW oneUse \in BOOLEAN, NEW protected \in BOOLEAN,
              NEW d \in Expiries, Create(r, s, oneUse, protected, d)
      PROVE  GoneInv'
  BY <1>9 DEF Create, Goto
<1>10. ASSUME NEW s \in Slugs, NEW what \in {"view", "head"}, NEW good \in BOOLEAN,
              DispatchView(r, s, what, good)
      PROVE  GoneInv'
  BY <1>10 DEF DispatchView, Arrive, Goto
<1>11. ASSUME NEW s \in Slugs, NEW good \in BOOLEAN, Raw(r, s, good)
      PROVE  GoneInv'
  BY <1>11 DEF Raw, Arrive, Goto
<1>12. ASSUME NEW s \in Slugs, NEW good \in BOOLEAN, DispatchDelete(r, s, good)
      PROVE  GoneInv'
  BY <1>12 DEF DispatchDelete, Arrive, Goto
<1> QED BY <1>1, <1>2, <1>3, <1>4, <1>5, <1>6, <1>7, <1>8, <1>9, <1>10, <1>11, <1>12 DEF Handle

(* Whoever sets the mark is let in, and then answered. *)
LEMMA HandleSpent ==
    ASSUME PasteInv, PromiseInv, TypeOK', PasteInv', NEW r \in Requests, Handle(r)
    PROVE  SpentInVainOnlyBy'
<1> USE PasteSlugAssumption DEF PasteInv, TypeOK, RequestInv, VisitInv, CreateInv, Issued, request, Reads, PromiseInv, PassInv, SpentInVainOnlyBy, Shown, Answered, Admitted, Published, Fault, NoFault
<1>1. CASE RefuseCreate(r) BY <1>1 DEF RefuseCreate, Reply
<1>2. CASE RepoCreate(r) BY <1>2 DEF RepoCreate, Insert, Reply
<1>3. CASE Get(r) BY <1>3 DEF Get, Admission, Goto, Reply
<1>4. CASE MarkViewed(r) BY <1>4 DEF MarkViewed, Mark, Fresh, Downloaded, Goto, Reply
<1>5. CASE Render(r) BY <1>5 DEF Render, Reply
<1>6. CASE FileDelete(r) BY <1>6 DEF FileDelete, Reply
<1>7. CASE Delete(r) BY <1>7 DEF Delete, Goto, Reply
<1>8. CASE RepoDelete(r) BY <1>8 DEF RepoDelete, DropRow, Reply
<1>9. ASSUME NEW s \in Slugs, NEW oneUse \in BOOLEAN, NEW protected \in BOOLEAN,
              NEW d \in Expiries, Create(r, s, oneUse, protected, d)
      PROVE  SpentInVainOnlyBy'
  BY <1>9 DEF Create, Goto
<1>10. ASSUME NEW s \in Slugs, NEW what \in {"view", "head"}, NEW good \in BOOLEAN,
              DispatchView(r, s, what, good)
      PROVE  SpentInVainOnlyBy'
  BY <1>10 DEF DispatchView, Arrive, Goto
<1>11. ASSUME NEW s \in Slugs, NEW good \in BOOLEAN, Raw(r, s, good)
      PROVE  SpentInVainOnlyBy'
  BY <1>11 DEF Raw, Arrive, Goto
<1>12. ASSUME NEW s \in Slugs, NEW good \in BOOLEAN, DispatchDelete(r, s, good)
      PROVE  SpentInVainOnlyBy'
  BY <1>12 DEF DispatchDelete, Arrive, Goto
<1> QED BY <1>1, <1>2, <1>3, <1>4, <1>5, <1>6, <1>7, <1>8, <1>9, <1>10, <1>11, <1>12 DEF Handle

(* A withdrawal is final, and so is the reason for "already viewed": who   *)
(* was let in is answered, or something goes wrong.                        *)
LEMMA ReasonsStay ==
    ASSUME PasteInv, NEW r \in Requests, Handle(r), NEW c \in Requests, Issued(c)
    PROVE  /\ Expired(row[c]) => Expired(row[c])'
           /\ Withdrawn(c) => Withdrawn(c)'
           /\ UsedUp(c) => UsedUp(c)'
<1>1. c # r /\ reply[c] # "none" /\ slug[c] \in Slugs BY HandleFrame DEF PasteInv, RequestInv, Issued
<1>2. slug'[c] = slug[c] /\ row'[c] = row[c] /\ now' = now BY <1>1, HandleFrame
<1>3. Expired(row[c]) => Expired(row[c])' BY <1>2 DEF Expired, ExpiredAt
<1>4. Withdrawn(c) => Withdrawn(c)'
  <2>1. ASSUME NEW x \in Requests, op[x] = "delete", slug[x] = slug[c], right[x]
        PROVE  op'[x] = "delete" /\ slug'[x] = slug'[c] /\ right'[x]
    BY <2>1, <1>2, HandleFrame
  <2> QED BY <1>2, <1>3, <2>1 DEF Withdrawn, AskedToDelete
<1>5. ASSUME NEW x \in Requests, Answered(x, slug[c]) \/ Admitted(x, slug[c])
      PROVE  UsedUp(c)'
  <2>1. x # r => Answered(x, slug[c])' \/ Admitted(x, slug[c])'
    BY <1>2, <1>5, HandleFrame DEF Answered, Admitted
  <2>2. CASE x = r
    \* r is in Render: it is answered, or no nonce can be drawn
    <3>1. pc[r] = "render" /\ op[r] \in Reads
      BY <1>5, <2>2, HandleFrame DEF Answered, Admitted, PasteInv, RequestInv
    <3>2. Render(r)
      BY <3>1 DEF Handle, RefuseCreate, RepoCreate, Get, MarkViewed, FileDelete, Delete, RepoDelete,
                  Create, DispatchView, Raw, DispatchDelete, Arrive
    <3>3. CASE Reply(r, "ok") /\ NoFault
      BY <1>2, <1>5, <2>2, <3>1, <3>3, HandleFrame DEF Reply, Answered, Admitted, UsedUp, PasteInv, TypeOK, Reads
    <3>4. CASE Fault("rand") BY <3>4 DEF Fault, UsedUp, PasteInv, TypeOK
    <3> QED BY <3>2, <3>3, <3>4 DEF Render
  <2> QED BY <2>1, <2>2, <1>2 DEF UsedUp
<1>6. mishaps > 0 => mishaps' > 0 BY HandleFrame DEF PasteInv, TypeOK
<1> QED BY <1>3, <1>4, <1>5, <1>6 DEF UsedUp

(* A request is turned down only for a reason. *)
LEMMA HandleRefusals ==
    ASSUME PasteInv, PromiseInv, PasteInv', NEW r \in Requests, Handle(r)
    PROVE  RefusalsJustified'
<1> SUFFICES ASSUME NEW c \in Requests, NEW q \in Requests, Issued(c)', slug'[q] = slug'[c],
                    op'[q] \in Reads \cup {"delete"}
             PROVE  Justified(c, q)'
  BY DEF RefusalsJustified
<1>1. CASE ~Issued(c)
  \* c is published in this step: nobody else has its slug
  <2>1. c = r BY <1>1, HandleFrame DEF Issued
  <2>2. RepoCreate(r)
    BY <1>1, <2>1 DEF Handle, RefuseCreate, Get, MarkViewed, Render, FileDelete, Delete, RepoDelete,
       Create, DispatchView, Raw, DispatchDelete, Arrive, Goto, Reply,
       Issued, PasteInv, TypeOK, RequestInv, Admission
  <2>3. pc[r] = "create" /\ op[r] = "create" /\ q # r
    BY <2>1, <2>2, HandleFrame DEF RepoCreate, PasteInv, RequestInv, Reads
  <2>4. slug[q] = slug[r] /\ op[q] \in Reads \cup {"delete"} BY <2>1, <2>3, HandleFrame
  <2> QED BY <2>3, <2>4, Unshared DEF Reads
<1>2. CASE Issued(c)
  <2>1. c # r /\ slug'[c] = slug[c] /\ row'[c] = row[c] /\ slug[c] \in Slugs
    BY <1>2, HandleFrame DEF PasteInv, RequestInv, Issued
  <2>2. CASE q # r \/ op[r] # "none"
    <3>1. op'[q] = op[q] /\ slug[q] = slug[c] BY <2>1, <2>2, HandleFrame
    <3>2. Justified(c, q) BY <1>2, <3>1 DEF PromiseInv, RefusalsJustified
    <3>3. CASE reply'[q] = reply[q]
      BY <1>2, <2>1, <3>1, <3>2, <3>3, ReasonsStay, HandleFrame DEF Justified, PasteInv, TypeOK
    <3>4. CASE reply'[q] # reply[q]
      <4>1. q = r BY <3>4, HandleFrame
      <4>2. pastes[slug[r]] = NoRow => Withdrawn(c)'
        BY <1>2, <3>1, <4>1, GoneIsWithdrawn, ReasonsStay
      <4>3. CASE Get(r)
        <5>1. pastes[slug[r]] # NoRow /\ Expired(pastes[slug[r]]) => Expired(row[c])'
          BY <1>2, <2>1, <3>1, <4>1, PromisedRow, HandleFrame DEF Expired, ExpiredAt
        <5>2. \/ reply'[r] = reply[r] \/ reply'[r] = "wrongPassword"
              \/ reply'[r] = "notFound" /\ pastes[slug[r]] = NoRow
              \/ reply'[r] = "expired" /\ pastes[slug[r]] # NoRow /\ Expired(pastes[slug[r]])
              \/ reply'[r] = "failed" /\ mishaps' = mishaps + 1
          BY <4>3 DEF Get, Admission, Expired, Goto, Reply, Fault, PasteInv, TypeOK
        <5> QED BY <3>4, <4>1, <4>2, <5>1, <5>2 DEF Justified, PasteInv, TypeOK
      <4>4. CASE MarkViewed(r)
        <5>1. row[c].oneUse BY <1>2, <3>1, <4>1, <4>4 DEF MarkViewed, PromiseInv, PassInv
        <5>2. ~Fresh(pastes[slug[r]]) => UsedUp(c)
          <6>1. pastes[slug[c]] = NoRow => UsedUp(c) BY <1>2, GoneIsWithdrawn DEF UsedUp
          <6>2. pastes[slug[c]] # NoRow /\ pastes[slug[c]].downloaded => UsedUp(c)
            BY <1>2 DEF UsedUp, PromiseInv, SpentInVainOnlyBy, PasteInv, TypeOK, Shown, Answered, Reads
          <6> QED BY <3>1, <4>1, <6>1, <6>2 DEF Fresh
        <5>3. reply'[r] = "consumed" => UsedUp(c)'
          BY <1>2, <3>4, <4>1, <4>4, <5>2, ReasonsStay DEF MarkViewed, Goto, Reply, PasteInv, TypeOK
        <5>4. \/ reply'[r] = reply[r] \/ reply'[r] = "consumed"
              \/ reply'[r] = "failed" /\ mishaps' = mishaps + 1
          BY <4>4 DEF MarkViewed, Goto, Reply, Fault, PasteInv, TypeOK
        <5> QED BY <2>1, <3>4, <4>1, <5>1, <5>3, <5>4 DEF Justified, PasteInv, TypeOK
      <4>5. CASE Render(r)
        BY <3>1, <4>1, <4>2, <4>5 DEF Render, Reply, Fault, Justified, PasteInv, TypeOK
      <4>6. CASE FileDelete(r)
        <5>1. mishaps > 0 /\ op[r] = "delete" BY <4>6 DEF FileDelete, PasteInv, RequestInv
        <5>2. mishaps' = mishaps /\ reply'[r] \in {"notFound", "failed"}
          BY <4>6 DEF FileDelete, Reply, PasteInv, TypeOK
        <5> QED BY <3>1, <4>1, <5>1, <5>2 DEF Justified, Reads
      <4>7. CASE Delete(r)
        <5>1. \/ reply'[r] = "notFound" /\ pastes[slug[r]] = NoRow
              \/ reply'[r] = "badSecret" \/ reply'[r] = reply[r]
              \/ reply'[r] = "failed" /\ mishaps' = mishaps + 1
          BY <4>7 DEF Delete, Goto, Reply, Fault, PasteInv, TypeOK
        <5> QED BY <3>4, <4>1, <4>2, <5>1 DEF Justified, PasteInv, TypeOK
      <4>8. CASE RepoDelete(r)
        BY <3>1, <4>1, <4>8 DEF RepoDelete, Reply, Fault, Justified, PasteInv, TypeOK
      <4> QED BY <2>2, <3>1, <4>1, <4>3, <4>4, <4>5, <4>6, <4>7, <4>8
             DEF Handle, RefuseCreate, RepoCreate, Create, DispatchView, Raw, DispatchDelete, Arrive,
                 PasteInv, RequestInv, Reads
    <3> QED BY <3>3, <3>4
  <2>3. CASE q = r /\ op[r] = "none"
    \* r has just arrived, and has no answer yet
    <3>1. pc[r] = "new" /\ reply[r] = "none" BY <2>3 DEF PasteInv, RequestInv
    <3>2. reply'[r] = "none"
      BY <2>3, <3>1 DEF Handle, RefuseCreate, RepoCreate, Get, MarkViewed, Render, FileDelete, Delete, RepoDelete,
         Create, DispatchView, Raw, DispatchDelete, Arrive, Goto, PasteInv, TypeOK, Reads
    <3> QED BY <2>3, <3>2 DEF Justified
  <2> QED BY <2>2, <2>3
<1> QED BY <1>1, <1>2

-----------------------------------------------------------------------------
(* The sweep answers nobody and marks no row. *)
LEMMA SweepPromises ==
    ASSUME PasteInv, PromiseInv, PasteInv', Sweep
    PROVE  PromiseInv'
<1> USE DEF PasteInv, TypeOK, Sweep, SweepList, SweepRepoDelete, DropRow, Fault, NoFault
<1>1. UNCHANGED <<now, op, slug, right, row, pc, reply>> /\ mishaps' >= mishaps BY DEF request
<1>2. \A s \in Slugs : pastes'[s] = pastes[s] \/ pastes'[s] = NoRow OBVIOUS
<1>3. \A c \in Requests : (Issued(c)' <=> Issued(c)) /\ (Issued(c) => slug[c] \in Slugs)
  BY <1>1 DEF Issued, RequestInv
<1>4. \A c \in Requests : Withdrawn(c)' <=> Withdrawn(c)
  BY <1>1 DEF Withdrawn, AskedToDelete, Expired, ExpiredAt
<1>5. \A r \in Requests, s \in Slugs :
        /\ Answered(r, s)' <=> Answered(r, s)
        /\ Shown(r, s)' <=> Shown(r, s)
        /\ Admitted(r, s)' <=> Admitted(r, s)
  BY <1>1 DEF Shown, Answered, Admitted
<1>6. PassInv' BY <1>1, <1>3 DEF PromiseInv, PassInv
<1>7. PasswordGuards' BY <1>1, <1>2, <1>3, <1>5 DEF PromiseInv, PasswordGuards
<1>8. GoneInv' BY <1>1, <1>2, <1>3 DEF PromiseInv, GoneInv, VisitInv
<1>9. SpentInVainOnlyBy' BY <1>1, <1>2, <1>3, <1>5 DEF PromiseInv, SpentInVainOnlyBy
<1>10. RefusalsJustified'
  <2> SUFFICES ASSUME NEW c \in Requests, NEW r \in Requests, Issued(c), slug[r] = slug[c],
                      op[r] \in Reads \cup {"delete"}
               PROVE  Justified(c, r)'
    BY <1>1, <1>3 DEF RefusalsJustified
  <2>1. Justified(c, r) BY DEF PromiseInv, RefusalsJustified
  <2>2. UsedUp(c) => UsedUp(c)' BY <1>1, <1>3, <1>4, <1>5 DEF UsedUp
  <2> QED BY <1>1, <1>4, <2>1, <2>2 DEF Justified, Expired, ExpiredAt
<1> QED BY <1>6, <1>7, <1>8, <1>9, <1>10 DEF PromiseInv

(* A crash is a mishap: who was in flight gets no answer, hence no refusal.*)
LEMMA CrashPromises ==
    ASSUME PasteInv, PromiseInv, PasteInv', Crash
    PROVE  PromiseInv'
<1> USE DEF PasteInv, TypeOK, Crash, request
<1>1. \A r \in Requests :
        \/ pc[r] \in {"new", "done"} /\ pc'[r] = pc[r] /\ reply'[r] = reply[r]
        \/ pc[r] \notin {"new", "done"} /\ pc'[r] = "done" /\ reply'[r] = "lost" /\ reply[r] = "none"
  BY DEF RequestInv
<1>2. mishaps' > 0 /\ mishaps' # 0 BY DEF Fault
<1>3. \A c \in Requests : (Issued(c)' <=> Issued(c)) /\ (Issued(c) => slug[c] \in Slugs)
  BY <1>1 DEF Issued, RequestInv
<1>4. \A c \in Requests : Withdrawn(c)' <=> Withdrawn(c)
  BY DEF Withdrawn, AskedToDelete, Expired, ExpiredAt
<1>5. \A r \in Requests, s \in Slugs :
        (Answered(r, s)' <=> Answered(r, s)) /\ (Admitted(r, s)' => Admitted(r, s))
  BY <1>1 DEF Answered, Admitted
<1>6. PassInv' BY <1>1, <1>3 DEF PromiseInv, PassInv
<1>7. PasswordGuards' BY <1>3, <1>5 DEF PromiseInv, PasswordGuards
<1>8. GoneInv' BY <1>1 DEF PromiseInv, GoneInv
<1>9. SpentInVainOnlyBy' BY <1>2 DEF SpentInVainOnlyBy
<1>10. RefusalsJustified'
  <2> SUFFICES ASSUME NEW c \in Requests, NEW r \in Requests, Issued(c), slug[r] = slug[c],
                      op[r] \in Reads \cup {"delete"}
               PROVE  Justified(c, r)'
    BY <1>3 DEF RefusalsJustified
  <2>1. Justified(c, r) BY DEF PromiseInv, RefusalsJustified
  <2>2. reply'[r] = reply[r] \/ reply'[r] = "lost" BY <1>1
  <2>3. UsedUp(c)' BY <1>2 DEF UsedUp
  <2> QED BY <1>2, <1>4, <2>1, <2>2, <2>3 DEF Justified, Expired, ExpiredAt
<1> QED BY <1>6, <1>7, <1>8, <1>9, <1>10 DEF PromiseInv

(* As time passes, reasons to refuse are only added. *)
LEMMA TickPromises ==
    ASSUME PasteInv, PromiseInv, PasteInv', Tick
    PROVE  PromiseInv'
<1> USE DEF PasteInv, Tick, request
<1>1. \A c \in Requests : Issued(c) => slug[c] \in Slugs BY DEF Issued, RequestInv
<1>2. \A r \in Requests, s \in Slugs :
        /\ Answered(r, s)' <=> Answered(r, s)
        /\ Shown(r, s)' <=> Shown(r, s)
        /\ Admitted(r, s)' <=> Admitted(r, s)
  BY DEF Shown, Answered, Admitted
<1>3. PassInv' BY ExpiredStays DEF PromiseInv, PassInv
<1>4. PasswordGuards' BY <1>1, <1>2, ExpiredStays DEF PromiseInv, PasswordGuards
<1>5. GoneInv' BY DEF PromiseInv, GoneInv
<1>6. SpentInVainOnlyBy' BY <1>1, <1>2, ExpiredStays DEF PromiseInv, SpentInVainOnlyBy
<1>7. RefusalsJustified'
  <2> SUFFICES ASSUME NEW c \in Requests, NEW r \in Requests, Issued(c), slug[r] = slug[c],
                      op[r] \in Reads \cup {"delete"}
               PROVE  Justified(c, r)'
    BY ExpiredStays DEF RefusalsJustified
  <2>1. Justified(c, r) BY DEF PromiseInv, RefusalsJustified
  <2>2. UsedUp(c) => UsedUp(c)' BY <1>1, <1>2, ExpiredStays DEF UsedUp
  <2> QED BY ExpiredStays, <2>1, <2>2 DEF Justified
<1> QED BY <1>3, <1>4, <1>5, <1>6, <1>7 DEF PromiseInv

(* Every step keeps the promises. *)
LEMMA PromiseStep == PasteInv /\ PromiseInv /\ PasteInv' /\ [Next]_vars => PromiseInv'
<1> SUFFICES ASSUME PasteInv, PromiseInv, PasteInv', [Next]_vars PROVE PromiseInv'
  OBVIOUS
<1>1. TypeOK' BY DEF PasteInv
<1>2. ASSUME NEW r \in Requests, Handle(r) PROVE PromiseInv'
  BY <1>1, <1>2, HandlePass, HandlePassword, HandleGone, HandleSpent, HandleRefusals DEF PromiseInv
<1>3. CASE Sweep BY <1>3, SweepPromises
<1>4. CASE Crash BY <1>4, CrashPromises
<1>5. CASE Tick BY <1>5, TickPromises
<1>6. CASE UNCHANGED vars
  BY <1>6 DEF vars, PromiseInv, PassInv, PasswordGuards, GoneInv, SpentInVainOnlyBy, RefusalsJustified,
     Justified, UsedUp, Issued, Shown, Answered, Admitted, Withdrawn, AskedToDelete, Expired, ExpiredAt
<1> QED BY <1>2, <1>3, <1>4, <1>5, <1>6 DEF Next

(* Both invariants together hold in every reachable state. *)
THEOREM PastePromises == Spec => [](PasteInv /\ PromiseInv)
<1>1. Init => PromiseInv
  BY PasteSlugAssumption DEF Init, PromiseInv, PassInv, PasswordGuards, GoneInv, SpentInVainOnlyBy,
     RefusalsJustified, Issued
<1> QED BY <1>1, PasteSafe, PromiseStep, PTL DEF Spec

(* Nobody without the password is shown a protected paste or uses it up,   *)
(* by the page, the raw text or a HEAD request.                            *)
THEOREM PastePassword == Spec => []PasswordGuards
<1>1. PromiseInv => PasswordGuards BY DEF PromiseInv
<1> QED BY <1>1, PastePromises, PTL

(* A one-use paste is lost to everybody only by a mishap or a HEAD request.*)
THEOREM PasteSpent == Spec => []SpentInVainOnlyBy
<1>1. PromiseInv => SpentInVainOnlyBy BY DEF PromiseInv
<1> QED BY <1>1, PastePromises, PTL

(* Whoever is turned down is turned down for a reason. *)
THEOREM PasteRefusals == Spec => []RefusalsJustified
<1>1. PromiseInv => RefusalsJustified BY DEF PromiseInv
<1> QED BY <1>1, PastePromises, PTL

(* After an answered deletion nobody is let in any more: neither a reader  *)
(* between its lookup and its mark, nor one that arrives later.            *)
THEOREM PasteClosed == Spec => NoEntryAfterDelete
<1> DEFINE A == \A d, r \in Requests :
         op[d] = "delete" /\ reply[d] = "ok" /\ slug[r] = slug[d] /\ pc'[r] = "render" => pc[r] = "render"
<1>1. PasteInv /\ PromiseInv /\ [Next]_vars => [A]_vars
  <2> SUFFICES ASSUME PasteInv, PromiseInv, Next,
                      NEW d \in Requests, NEW r \in Requests, op[d] = "delete", reply[d] = "ok",
                      slug[r] = slug[d], pc'[r] = "render", pc[r] # "render"
               PROVE  FALSE
    BY DEF A
  <2>1. pastes[slug[r]] = NoRow BY DEF PromiseInv, GoneInv
  <2>2. PICK q \in Requests : Handle(q)
    BY DEF Next, Sweep, SweepList, SweepRepoDelete, Crash, Tick, PasteInv, TypeOK
  <2>3. q = r BY <2>2, HandleFrame
  <2>4. Get(r) \/ MarkViewed(r)
    BY <2>2, <2>3 DEF Handle, RefuseCreate, RepoCreate, Render, FileDelete, Delete, RepoDelete, Create,
       DispatchView, Raw, DispatchDelete, Arrive, Goto, Reply, PasteInv, TypeOK
  <2> QED BY <2>1, <2>4 DEF Get, MarkViewed, Mark, Fresh, Admission, Goto, Reply, PasteInv, TypeOK
<1> QED BY <1>1, PastePromises, PTL DEF Spec, NoEntryAfterDelete

-----------------------------------------------------------------------------
(* A paste share is a share link, step by step. *)

(* The step publishes nothing. *)
SamePromises ==
    \A u \in Requests :
        /\ Issued(u)' <=> Issued(u)
        /\ Issued(u) => slug'[u] = slug[u] /\ row'[u] = row[u]

(* The step opens no content and lets nobody in or out. *)
SameVisits ==
    \A r \in Requests :
        /\ pc'[r] = "render" <=> pc[r] = "render"
        /\ pc[r] = "render" => slug'[r] = slug[r]
        /\ \A s \in Slugs : Answered(r, s)' <=> Answered(r, s)

(* What a step that publishes nothing does to the life of the links.       *)
LEMMA SameLinks ==
    ASSUME SamePromises
    PROVE  /\ \A s \in Slugs : Published(s)' <=> Published(s)
           /\ {s \in Slugs : \E u \in Requests : Issued(u) /\ slug[u] = s /\ row[u].oneUse}'
                = {s \in Slugs : \E u \in Requests : Issued(u) /\ slug[u] = s /\ row[u].oneUse}
           /\ \A s \in Slugs : (Published(s) => pastes'[s] = pastes[s]) => LinkStatus(s)' = LinkStatus(s)
<1>1. \A s \in Slugs : Published(s)' <=> Published(s) BY DEF SamePromises, Published
<1>2. \A s \in Slugs : (\E u \in Requests : Issued(u)' /\ slug'[u] = s /\ row'[u].oneUse)
                   <=> (\E u \in Requests : Issued(u) /\ slug[u] = s /\ row[u].oneUse)
  BY DEF SamePromises
<1>3. \A s \in Slugs : (Published(s) => pastes'[s] = pastes[s]) => LinkStatus(s)' = LinkStatus(s)
  BY <1>1 DEF LinkStatus
<1> QED BY <1>1, <1>2, <1>3

(* Tickets and served visits when nobody is let in or out. *)
LEMMA SameHolders ==
    ASSUME SameVisits
    PROVE  /\ [r \in Requests |-> IF pc[r] = "render" THEN slug[r] ELSE NoSlug]'
                = [r \in Requests |-> IF pc[r] = "render" THEN slug[r] ELSE NoSlug]
           /\ [s \in Slugs |-> {r \in Requests : Answered(r, s)}]'
                = [s \in Slugs |-> {r \in Requests : Answered(r, s)}]
<1>1. \A r \in Requests : (IF pc[r] = "render" THEN slug[r] ELSE NoSlug)'
                        = (IF pc[r] = "render" THEN slug[r] ELSE NoSlug)
  BY DEF SameVisits
<1>2. \A s \in Slugs : {r \in Requests : Answered(r, s)}' = {r \in Requests : Answered(r, s)}
  BY DEF SameVisits
<1> QED BY <1>1, <1>2

(* A step that changes no row of a published paste, lets nobody in and     *)
(* answers nobody does not show.                                           *)
LEMMA LinkStutter ==
    ASSUME SamePromises, SameVisits, \A s \in Slugs : Published(s) => pastes'[s] = pastes[s]
    PROVE  UNCHANGED Link!linkVars
<1>1. [s \in Slugs |-> LinkStatus(s)]' = [s \in Slugs |-> LinkStatus(s)] BY SameLinks
<1> QED BY <1>1, SameLinks, SameHolders DEF Link!linkVars

(* Deleting a row withdraws the link, unless it is gone already or never   *)
(* was published.                                                          *)
LEMMA LinkWithdraws ==
    ASSUME PasteInv, SamePromises, SameVisits, NEW s \in Slugs, DropRow(s)
    PROVE  [Link!Next]_Link!linkVars
<1>1. pastes \in [Slugs -> Rows \cup {NoRow}] /\ pastes' = [pastes EXCEPT ![s] = NoRow]
  BY DEF PasteInv, TypeOK, DropRow
<1>2. CASE Published(s) /\ pastes[s] # NoRow
  <2>1. LinkStatus(s) \in {"open", "fresh", "spent"} BY <1>2 DEF LinkStatus
  <2>2. LinkStatus(s)' = "gone" BY <1>1, <1>2, SameLinks DEF LinkStatus
  <2>3. \A t \in Slugs : t # s => LinkStatus(t)' = LinkStatus(t) BY <1>1, SameLinks
  <2>4. [t \in Slugs |-> LinkStatus(t)]' = [[t \in Slugs |-> LinkStatus(t)] EXCEPT ![s] = "gone"]
    BY <2>2, <2>3
  <2>5. Link!Withdraw(s) BY <2>1, <2>4, SameLinks, SameHolders DEF Link!Withdraw
  <2> QED BY <2>5 DEF Link!Next
<1>3. CASE ~(Published(s) /\ pastes[s] # NoRow) BY <1>1, <1>3, LinkStutter
<1> QED BY <1>2, <1>3

(* Visits that end before the content is opened forfeit their tickets.     *)
LEMMA LinkForfeits ==
    ASSUME SamePromises, pastes' = pastes, NEW C \in SUBSET Requests,
           \A r \in Requests : /\ pc'[r] = "render" <=> pc[r] = "render" /\ r \notin C
                               /\ pc'[r] = "render" => slug'[r] = slug[r],
           \A r \in Requests, s \in Slugs : Answered(r, s)' <=> Answered(r, s)
    PROVE  [Link!Next]_Link!linkVars
<1>1. \A s \in Slugs : LinkStatus(s)' = LinkStatus(s) BY SameLinks
<1>2. [r \in Requests |-> IF pc[r] = "render" THEN slug[r] ELSE NoSlug]'
        = [r \in Requests |-> IF r \in C THEN NoSlug
                              ELSE [q \in Requests |-> IF pc[q] = "render" THEN slug[q] ELSE NoSlug][r]]
  <2>1. \A r \in Requests : (IF pc[r] = "render" THEN slug[r] ELSE NoSlug)'
             = IF r \in C THEN NoSlug ELSE IF pc[r] = "render" THEN slug[r] ELSE NoSlug
    OBVIOUS
  <2> QED BY <2>1
<1>3. \A s \in Slugs : {r \in Requests : Answered(r, s)}' = {r \in Requests : Answered(r, s)} OBVIOUS
<1>4. Link!Forfeit(C) BY <1>1, <1>2, <1>3, SameLinks DEF Link!Forfeit
<1> QED BY <1>4 DEF Link!Next

(* A request other than a creation publishes nothing. *)
LEMMA HandlePromisesSame ==
    ASSUME PasteInv, NEW r \in Requests, Handle(r), ~RepoCreate(r)
    PROVE  SamePromises
<1>1. ~Issued(r) BY HandleFrame DEF PasteInv, RequestInv, Issued
<1>2. ~Issued(r)'
  BY HandleFrame DEF PasteInv, TypeOK, RequestInv, Issued, Handle, RefuseCreate, Get,
     Admission, MarkViewed, Render, FileDelete, Delete, RepoDelete, Create, DispatchView,
     Raw, DispatchDelete, Arrive, Goto, Reply
<1> QED BY <1>1, <1>2, HandleFrame DEF SamePromises, Issued

(* Only Get, MarkViewed and Render let a visit in or out. *)
LEMMA HandleVisitsSame ==
    ASSUME PasteInv, NEW r \in Requests, Handle(r), ~Get(r), ~MarkViewed(r), ~Render(r)
    PROVE  SameVisits
<1>1. pc[r] # "render" /\ \A s \in Slugs : ~Answered(r, s)
  BY HandleFrame DEF PasteInv, TypeOK, RequestInv, Answered, Handle, RefuseCreate, RepoCreate,
     FileDelete, Delete, RepoDelete, Create, DispatchView, Raw, DispatchDelete, Arrive
<1>2. pc'[r] # "render" /\ ~(op'[r] \in Reads /\ reply'[r] = "ok")
  BY HandleFrame DEF PasteInv, TypeOK, RequestInv, Handle, RefuseCreate, RepoCreate,
     FileDelete, Delete, RepoDelete, Create, DispatchView, Raw, DispatchDelete, Arrive, Goto, Reply, request, Reads
<1>3. \A q \in Requests : q # r => /\ pc'[q] = pc[q] /\ slug'[q] = slug[q]
                                   /\ reply'[q] = reply[q] /\ op'[q] = op[q]
  BY HandleFrame
<1> QED BY <1>1, <1>2, <1>3 DEF SameVisits, Answered

(* The insert of an answered creation publishes its link; the row that a   *)
(* failed one may leave behind belongs to nobody.                          *)
LEMMA CreateIsLink ==
    ASSUME PasteInv, PromiseInv, NEW r \in Requests, Handle(r), RepoCreate(r)
    PROVE  [Link!Next]_Link!linkVars
<1>1. /\ pc[r] = "create" /\ op[r] = "create" /\ slug[r] \in Slugs /\ row[r] \in Rows
      /\ ~row[r].downloaded /\ ~Published(slug[r]) /\ ~Issued(r)
  BY RowAssumption, PasteSlugAssumption
     DEF RepoCreate, PasteInv, RequestInv, CreateInv, Published, Issued, PromiseInv, PassInv
<1>2. SameVisits BY <1>1, HandleVisitsSame DEF Get, MarkViewed, Render
<1>3. UNCHANGED <<op, slug, row>> BY DEF RepoCreate, request
<1>4. \A u \in Requests : u # r => (Issued(u)' <=> Issued(u)) BY HandleFrame DEF Issued
<1>5. CASE Insert(r) /\ Reply(r, "created")
  <2>1. PICK s \in Slugs : s = slug[r] BY <1>1
  <2>2. PICK f \in Rows : f = row[r] BY <1>1
  <2>3. pastes' = [pastes EXCEPT ![s] = f] BY <1>5, <2>1, <2>2 DEF Insert
  <2>4. Issued(r)' BY <1>1, <1>3, <1>5 DEF Issued, Reply, PasteInv, TypeOK
  <2>5. ~Published(s) /\ Published(s)' BY <1>1, <1>3, <2>1, <2>4 DEF Published
  <2>6. \A t \in Slugs : t # s => (Published(t)' <=> Published(t))
    BY <1>1, <1>3, <1>4, <2>1, <2>4 DEF Published
  <2>7. LinkStatus(s) = "none" /\ \A t \in Slugs : t # s => LinkStatus(t)' = LinkStatus(t)
    BY <2>3, <2>5, <2>6 DEF LinkStatus, PasteInv, TypeOK
  <2>8. LinkStatus(s)' = IF f.oneUse THEN "fresh" ELSE "open"
    BY <1>1, <2>2, <2>3, <2>5, RowAssumption DEF LinkStatus, PasteInv, TypeOK
  <2>9. [t \in Slugs |-> LinkStatus(t)]'
          = [[t \in Slugs |-> LinkStatus(t)] EXCEPT ![s] = IF f.oneUse THEN "fresh" ELSE "open"]
    BY <2>7, <2>8
  <2>10. \A t \in Slugs : (\E u \in Requests : Issued(u)' /\ slug'[u] = t /\ row'[u].oneUse)
              <=> (\E u \in Requests : Issued(u) /\ slug[u] = t /\ row[u].oneUse) \/ (t = s /\ f.oneUse)
    BY <1>1, <1>3, <1>4, <2>1, <2>2, <2>4
  <2>11. {t \in Slugs : \E u \in Requests : Issued(u) /\ slug[u] = t /\ row[u].oneUse}'
          = {t \in Slugs : \E u \in Requests : Issued(u) /\ slug[u] = t /\ row[u].oneUse}
              \cup (IF f.oneUse THEN {s} ELSE {})
    BY <2>10
  <2>12. Link!Publish(s)
    <3>1. CASE f.oneUse BY <2>7, <2>9, <2>11, <3>1, <1>2, SameHolders DEF Link!Publish
    <3>2. CASE ~f.oneUse BY <2>7, <2>9, <2>11, <3>2, <1>2, SameHolders DEF Link!Publish
    <3> QED BY <3>1, <3>2
  <2> QED BY <2>12 DEF Link!Next
<1>6. CASE Reply(r, "failed")
  <2>1. SamePromises BY <1>1, <1>3, <1>4, <1>6 DEF SamePromises, Issued, Reply, PasteInv, TypeOK
  <2>2. \A s \in Slugs : Published(s) => pastes'[s] = pastes[s]
    BY <1>1 DEF RepoCreate, Insert, PasteInv, TypeOK
  <2> QED BY <1>2, <2>1, <2>2, LinkStutter
<1> QED BY <1>5, <1>6 DEF RepoCreate

(* Get admits a visit to a reusable link; to a one-use link nobody is      *)
(* admitted yet.                                                           *)
LEMMA GetIsLink ==
    ASSUME PasteInv, NEW r \in Requests, Handle(r), Get(r)
    PROVE  [Link!Next]_Link!linkVars
<1>1. pc[r] = "get" /\ op[r] \in Reads /\ slug[r] \in Slugs /\ Published(slug[r]) /\ reply[r] = "none"
  BY DEF Get, PasteInv, RequestInv, VisitInv
<1>2. SamePromises BY <1>1, HandlePromisesSame DEF RepoCreate
<1>3. UNCHANGED <<op, slug, pastes>> BY DEF Get, request
<1>4. \A q \in Requests : q # r => pc'[q] = pc[q] /\ reply'[q] = reply[q] BY HandleFrame
<1>5. reply'[r] # "ok" BY <1>1 DEF Get, Goto, Reply, PasteInv, TypeOK
<1>6. \A q \in Requests, s \in Slugs : Answered(q, s)' <=> Answered(q, s)
  BY <1>1, <1>3, <1>4, <1>5 DEF Answered
<1>7. CASE pc'[r] = "render"
  <2>1. PICK s \in Slugs : s = slug[r] BY <1>1
  <2>2. pastes[s] # NoRow /\ ~pastes[s].oneUse
    BY <1>7, <2>1 DEF Get, Admission, Goto, Reply, PasteInv, TypeOK
  <2>3. LinkStatus(s) = "open" BY <1>1, <2>1, <2>2 DEF LinkStatus
  <2>4. \A t \in Slugs : LinkStatus(t)' = LinkStatus(t) BY <1>2, <1>3, SameLinks
  <2>5. [q \in Requests |-> IF pc[q] = "render" THEN slug[q] ELSE NoSlug]'
          = [[q \in Requests |-> IF pc[q] = "render" THEN slug[q] ELSE NoSlug] EXCEPT ![r] = s]
    BY <1>3, <1>4, <1>7, <2>1
  <2>6. Link!Admit(r, s)
    BY <1>1, <1>2, <1>6, <2>3, <2>4, <2>5, SameLinks DEF Link!Admit
  <2> QED BY <2>6 DEF Link!Next
<1>8. CASE pc'[r] # "render"
  <2>1. SameVisits BY <1>1, <1>3, <1>4, <1>6, <1>8 DEF SameVisits
  <2> QED BY <1>2, <1>3, <2>1, LinkStutter
<1> QED BY <1>7, <1>8

(* MarkViewed spends a one-use link that is fresh, in the step that        *)
(* lets the visit in, or in vain when its success is not reported.         *)
LEMMA MarkIsLink ==
    ASSUME PasteInv, PromiseInv, NEW r \in Requests, Handle(r), MarkViewed(r)
    PROVE  [Link!Next]_Link!linkVars
<1>1. pc[r] = "mark" /\ op[r] \in Reads /\ slug[r] \in Slugs /\ Published(slug[r]) /\ reply[r] = "none"
  BY DEF MarkViewed, PasteInv, RequestInv, VisitInv
<1>2. SamePromises BY <1>1, HandlePromisesSame DEF RepoCreate
<1>3. UNCHANGED <<op, slug>> BY DEF MarkViewed, request
<1>4. \A q \in Requests : q # r => pc'[q] = pc[q] /\ reply'[q] = reply[q] BY HandleFrame
<1>5. reply'[r] # "ok" BY <1>1 DEF MarkViewed, Goto, Reply, PasteInv, TypeOK
<1>6. \A q \in Requests, s \in Slugs : Answered(q, s)' <=> Answered(q, s)
  BY <1>1, <1>3, <1>4, <1>5 DEF Answered
<1>7. CASE Fresh(pastes[slug[r]]) /\ Mark(slug[r])
  <2>1. PICK s \in Slugs : s = slug[r] BY <1>1
  <2>2. PICK u \in Requests : Issued(u) /\ slug[u] = s BY <1>1, <2>1 DEF Published
  <2>3. row[u].oneUse BY <1>1, <2>1, <2>2 DEF PromiseInv, PassInv
  <2>4. pastes[s] # NoRow /\ pastes[s].oneUse /\ ~pastes[s].downloaded /\ pastes[s] \in Rows
    BY <1>7, <2>1, <2>2, <2>3, PromisedRow DEF Fresh, PasteInv, TypeOK
  <2>5. pastes' = [pastes EXCEPT ![s] = Downloaded(pastes[s])] BY <1>7, <2>1 DEF Mark
  <2>6. Downloaded(pastes[s]) \in Rows /\ Downloaded(pastes[s]).downloaded /\ Downloaded(pastes[s]).oneUse
    BY <2>4 DEF Downloaded, Rows
  <2>7. pastes'[s] # NoRow /\ pastes'[s].oneUse /\ pastes'[s].downloaded
    BY <2>5, <2>6, RowAssumption DEF PasteInv, TypeOK
  <2>8. LinkStatus(s) = "fresh" /\ LinkStatus(s)' = "spent"
    BY <1>1, <1>2, <2>1, <2>4, <2>7, SameLinks DEF LinkStatus
  <2>9. \A t \in Slugs : t # s => LinkStatus(t)' = LinkStatus(t)
    BY <1>2, <2>5, SameLinks DEF PasteInv, TypeOK
  <2>10. [t \in Slugs |-> LinkStatus(t)]' = [[t \in Slugs |-> LinkStatus(t)] EXCEPT ![s] = "spent"]
    BY <2>8, <2>9
  <2>11. CASE pc'[r] = "render"
    <3>1. [q \in Requests |-> IF pc[q] = "render" THEN slug[q] ELSE NoSlug]'
            = [[q \in Requests |-> IF pc[q] = "render" THEN slug[q] ELSE NoSlug] EXCEPT ![r] = s]
      BY <1>3, <1>4, <2>1, <2>11
    <3>2. Link!Spend(r, s) BY <1>1, <1>2, <1>6, <2>8, <2>10, <3>1, SameLinks DEF Link!Spend
    <3> QED BY <3>2 DEF Link!Next
  <2>12. CASE pc'[r] # "render"
    <3>1. SameVisits BY <1>1, <1>3, <1>4, <1>6, <2>12 DEF SameVisits
    <3>2. Link!SpendInVain(s) BY <1>2, <2>8, <2>10, <3>1, SameLinks, SameHolders DEF Link!SpendInVain
    <3> QED BY <3>2 DEF Link!Next
  <2> QED BY <2>11, <2>12
<1>8. CASE pastes' = pastes /\ pc'[r] # "render"
  <2>1. SameVisits BY <1>1, <1>3, <1>4, <1>6, <1>8 DEF SameVisits
  <2> QED BY <1>2, <1>8, <2>1, LinkStutter
<1>9. \/ Fresh(pastes[slug[r]]) /\ Mark(slug[r])
      \/ pastes' = pastes /\ pc'[r] # "render"
  BY DEF MarkViewed, Mark, Goto, Reply, PasteInv, TypeOK
<1> QED BY <1>7, <1>8, <1>9

(* Writing the content out redeems the ticket; failing to forfeits it.     *)
LEMMA RenderIsLink ==
    ASSUME PasteInv, NEW r \in Requests, Handle(r), Render(r)
    PROVE  [Link!Next]_Link!linkVars
<1>1. pc[r] = "render" /\ op[r] \in Reads /\ slug[r] \in Slugs /\ reply[r] = "none"
  BY DEF Render, PasteInv, RequestInv, VisitInv
<1>2. SamePromises BY <1>1, HandlePromisesSame DEF RepoCreate
<1>3. UNCHANGED <<op, slug, pastes>> /\ pc'[r] = "done"
  BY DEF Render, request, Reply, PasteInv, TypeOK
<1>4. \A q \in Requests : q # r => pc'[q] = pc[q] /\ reply'[q] = reply[q] BY HandleFrame
<1>5. CASE reply'[r] = "ok"
  <2>1. PICK s \in Slugs : s = slug[r] BY <1>1
  <2>2. \A t \in Slugs : LinkStatus(t)' = LinkStatus(t) BY <1>2, <1>3, SameLinks
  <2>3. \A q \in Requests, t \in Slugs : Answered(q, t)' <=> Answered(q, t) \/ (q = r /\ t = s)
    BY <1>1, <1>3, <1>4, <1>5, <2>1 DEF Answered
  <2>4. \A t \in Slugs : {q \in Requests : Answered(q, t)}'
            = IF t = s THEN {q \in Requests : Answered(q, s)} \cup {r} ELSE {q \in Requests : Answered(q, t)}
    BY <2>3
  <2>5. [t \in Slugs |-> {q \in Requests : Answered(q, t)}]'
          = [[t \in Slugs |-> {q \in Requests : Answered(q, t)}] EXCEPT
                ![s] = [t \in Slugs |-> {q \in Requests : Answered(q, t)}][s] \cup {r}]
    BY <2>4
  <2>6. [q \in Requests |-> IF pc[q] = "render" THEN slug[q] ELSE NoSlug]'
          = [[q \in Requests |-> IF pc[q] = "render" THEN slug[q] ELSE NoSlug] EXCEPT ![r] = NoSlug]
    BY <1>3, <1>4
  <2>7. [q \in Requests |-> IF pc[q] = "render" THEN slug[q] ELSE NoSlug][r] = s BY <1>1, <2>1
  <2>8. [t \in Slugs |-> {q \in Requests : Answered(q, t)}]'
          = [[t \in Slugs |-> {q \in Requests : Answered(q, t)}] EXCEPT
                ![[q \in Requests |-> IF pc[q] = "render" THEN slug[q] ELSE NoSlug][r]] = @ \cup {r}]
    BY <2>5, <2>7
  <2>9. [q \in Requests |-> IF pc[q] = "render" THEN slug[q] ELSE NoSlug][r] \in Slugs BY <2>7
  <2>10. [t \in Slugs |-> LinkStatus(t)]' = [t \in Slugs |-> LinkStatus(t)] BY <2>2
  <2>11. Link!Redeem(r) BY <1>2, <2>6, <2>8, <2>9, <2>10, SameLinks DEF Link!Redeem
  <2> QED BY <2>11 DEF Link!Next
<1>6. CASE reply'[r] # "ok"
  <2>1. \A q \in Requests, s \in Slugs : Answered(q, s)' <=> Answered(q, s)
    BY <1>1, <1>3, <1>4, <1>6 DEF Answered
  <2>2. \A q \in Requests : /\ pc'[q] = "render" <=> pc[q] = "render" /\ q \notin {r}
                            /\ pc'[q] = "render" => slug'[q] = slug[q]
    BY <1>3, <1>4
  <2> QED BY <1>2, <1>3, <2>1, <2>2, LinkForfeits
<1> QED BY <1>5, <1>6

(* Every step of a request is a step of the link. *)
LEMMA HandleIsLink ==
    ASSUME PasteInv, PromiseInv, NEW r \in Requests, Handle(r)
    PROVE  [Link!Next]_Link!linkVars
<1>1. CASE RepoCreate(r) BY <1>1, CreateIsLink
<1>2. CASE Get(r) BY <1>2, GetIsLink
<1>3. CASE MarkViewed(r) BY <1>3, MarkIsLink
<1>4. CASE Render(r) BY <1>4, RenderIsLink
<1>5. CASE ~RepoCreate(r) /\ ~Get(r) /\ ~MarkViewed(r) /\ ~Render(r)
  <2>1. SamePromises /\ SameVisits BY <1>5, HandlePromisesSame, HandleVisitsSame
  <2>2. CASE RepoDelete(r) /\ pastes' # pastes
    <3>1. PICK s \in Slugs : s = slug[r] BY <2>2 DEF RepoDelete, PasteInv, RequestInv, VisitInv
    <3>2. DropRow(s) BY <2>2, <3>1 DEF RepoDelete, DropRow
    <3> QED BY <2>1, <3>2, LinkWithdraws
  <2>3. CASE ~(RepoDelete(r) /\ pastes' # pastes)
    <3>1. pastes' = pastes
      BY <1>5, <2>3 DEF Handle, RefuseCreate, FileDelete, Delete, Create,
                        DispatchView, Raw, DispatchDelete
    <3> QED BY <2>1, <3>1, LinkStutter
  <2> QED BY <2>2, <2>3
<1> QED BY <1>1, <1>2, <1>3, <1>4, <1>5

(* So is every step of the sweep, of the clock and of a crash. *)
LEMMA StepIsLink == PasteInv /\ PromiseInv /\ [Next]_vars => [Link!Next]_Link!linkVars
<1> SUFFICES ASSUME PasteInv, PromiseInv, [Next]_vars PROVE [Link!Next]_Link!linkVars
  OBVIOUS
<1>1. ASSUME NEW r \in Requests, Handle(r) PROVE [Link!Next]_Link!linkVars BY <1>1, HandleIsLink
<1>2. CASE Sweep \/ Tick \/ UNCHANGED vars
  <2>1. UNCHANGED <<op, slug, row, pc, reply>>
    BY <1>2 DEF Sweep, SweepList, SweepRepoDelete, Tick, vars, request
  <2>2. SamePromises /\ SameVisits BY <2>1 DEF SamePromises, SameVisits, Issued, Answered
  <2>3. CASE pastes' # pastes
    <3>1. PICK s \in Slugs : DropRow(s)
      BY <1>2, <2>3 DEF Sweep, SweepList, SweepRepoDelete, Tick, vars, PasteInv, TypeOK
    <3> QED BY <2>2, <3>1, LinkWithdraws
  <2>4. CASE pastes' = pastes BY <2>2, <2>4, LinkStutter
  <2> QED BY <2>3, <2>4
<1>3. CASE Crash
  <2>1. \A r \in Requests :
          \/ pc[r] \in {"new", "done"} /\ pc'[r] = pc[r] /\ reply'[r] = reply[r]
          \/ pc[r] \notin {"new", "done"} /\ pc'[r] = "done" /\ reply'[r] = "lost" /\ reply[r] = "none"
    BY <1>3 DEF Crash, PasteInv, RequestInv
  <2>2. UNCHANGED <<op, slug, row, pastes>> BY <1>3 DEF Crash, request
  <2>3. SamePromises BY <2>1, <2>2 DEF SamePromises, Issued
  <2>4. \A r \in Requests, s \in Slugs : Answered(r, s)' <=> Answered(r, s) BY <2>1, <2>2 DEF Answered
  <2>5. \A r \in Requests : /\ pc'[r] = "render" <=> pc[r] = "render" /\ r \notin Requests
                            /\ pc'[r] = "render" => slug'[r] = slug[r]
    BY <2>1, <2>2
  <2> QED BY <2>2, <2>3, <2>4, <2>5, LinkForfeits
<1> QED BY <1>1, <1>2, <1>3 DEF Next

(* A paste share implements a share link: the dispatcher, the service, the *)
(* table and the sweep together, under every mishap.                       *)
THEOREM PasteIsShareLink == Spec => ImplementsShareLink
<1>1. Init => Link!Init
  <2> SUFFICES ASSUME Init PROVE Link!Init
    OBVIOUS
  <2>1. \A s \in Slugs : LinkStatus(s) = "none" BY DEF Init, LinkStatus, Published, Issued
  <2>2. \A s \in Slugs, r \in Requests : ~Answered(r, s) BY DEF Init, Answered
  <2>3. {s \in Slugs : \E u \in Requests : Issued(u) /\ slug[u] = s /\ row[u].oneUse} = {}
    BY DEF Init, Issued
  <2>4. \A r \in Requests : pc[r] # "render" BY DEF Init
  <2> QED BY <2>1, <2>2, <2>3, <2>4 DEF Link!Init
<1> QED BY <1>1, StepIsLink, PastePromises, PTL DEF Spec, Link!Spec, ImplementsShareLink

(* What is proved of every share link holds of pastes. *)
LinkFacts == INSTANCE ShareLinkProofs WITH
    Links  <- Slugs,
    Visits <- Requests,
    NoLink <- NoSlug,
    status <- [s \in Slugs |-> LinkStatus(s)],
    once   <- {s \in Slugs : \E u \in Requests : Issued(u) /\ slug[u] = s /\ row[u].oneUse},
    ticket <- [r \in Requests |-> IF pc[r] = "render" THEN slug[r] ELSE NoSlug],
    served <- [s \in Slugs |-> {r \in Requests : Answered(r, s)}]

(* A one-use paste is written out for at most one request, the page, the   *)
(* raw text and HEAD requests taken together.                              *)
OneUseAnsweredOnce ==
    \A c, r, q \in Requests :
        Issued(c) /\ row[c].oneUse /\ Answered(r, slug[c]) /\ Answered(q, slug[c]) => r = q

(* That holds because a paste share is a share link: Get and MarkViewed    *)
(* serialise racing readers on viewed_at.                                  *)
THEOREM PasteAnsweredOnce == Spec => []OneUseAnsweredOnce
<1>1. LinkFacts!Spec => []LinkFacts!AtMostOnce BY PasteSlugAssumption, LinkFacts!LinkAtMostOnce
<1>2. ImplementsShareLink => LinkFacts!Spec
  <2>1. Link!Init => LinkFacts!Init BY DEF Link!Init, LinkFacts!Init
  <2>2. [Link!Next]_Link!linkVars => [LinkFacts!Next]_LinkFacts!linkVars
    BY DEF Link!Next, Link!linkVars, Link!Publish, Link!Admit, Link!Spend, Link!SpendInVain,
           Link!Redeem, Link!Forfeit, Link!Withdraw,
           LinkFacts!Next, LinkFacts!linkVars, LinkFacts!Publish, LinkFacts!Admit, LinkFacts!Spend,
           LinkFacts!SpendInVain, LinkFacts!Redeem, LinkFacts!Forfeit, LinkFacts!Withdraw
  <2> QED BY <2>1, <2>2, PTL DEF ImplementsShareLink, Link!Spec, LinkFacts!Spec
<1>3. PasteInv /\ LinkFacts!AtMostOnce => OneUseAnsweredOnce
  BY DEF LinkFacts!AtMostOnce, OneUseAnsweredOnce, PasteInv, RequestInv, Issued
<1> QED BY <1>1, <1>2, <1>3, PasteIsShareLink, PasteSafe, PTL
=============================================================================
