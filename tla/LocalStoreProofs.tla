-------------------------- MODULE LocalStoreProofs --------------------------
(* The local store keeps content whole and implements the byte store, for  *)
(* any numbers of keys, calls and chunks and any mishaps.                  *)
EXTENDS LocalStore, TLAPS

(* Every step of a call keeps the types. *)
LEMMA StepType ==
    ASSUME StoreInv, NEW c \in Calls, Step(c)
    PROVE  TypeOK'
<1> USE ChunkAssumption DEF StoreInv, TypeOK, Steps, Replies, call, read, Goto, Settle, Return, Fault, NoFault
<1>1. CASE CreateTemp(c) BY <1>1 DEF CreateTemp
<1>2. CASE Copy(c) BY <1>2 DEF Copy, AppendChunk
<1>3. CASE Close(c) BY <1>3 DEF Close
<1>4. CASE Rename(c) BY <1>4 DEF Rename
<1>5. CASE RemoveTemp(c) BY <1>5 DEF RemoveTemp
<1>6. CASE Open(c) BY <1>6 DEF Open, CallInv
<1>7. CASE Stream(c)
  <2>1. size[file[c]] = Chunks BY <1>7 DEF Stream, ReaderInv, Complete
  <2> QED BY <1>7, <2>1 DEF Stream
<1>8. CASE Delete(c) BY <1>8 DEF Delete
<1>9. CASE Exists(c) BY <1>9 DEF Exists
<1> QED BY <1>1, <1>2, <1>3, <1>4, <1>5, <1>6, <1>7, <1>8, <1>9 DEF Step

(* Every step of a call keeps what is known of calls. *)
LEMMA StepCall ==
    ASSUME TypeOK, CallInv, NEW c \in Calls, Step(c)
    PROVE  CallInv'
<1> USE DEF TypeOK, Steps, Replies, CallInv, call, read, Goto, Settle, Return
<1>1. CASE CreateTemp(c) BY <1>1 DEF CreateTemp
<1>2. CASE Copy(c) BY <1>2 DEF Copy, AppendChunk
<1>3. CASE Close(c) BY <1>3 DEF Close
<1>4. CASE Rename(c) BY <1>4 DEF Rename
<1>5. CASE RemoveTemp(c) BY <1>5 DEF RemoveTemp
<1>6. CASE Open(c) BY <1>6 DEF Open
<1>7. CASE Stream(c) BY <1>7 DEF Stream
<1>8. CASE Delete(c) BY <1>8 DEF Delete
<1>9. CASE Exists(c) BY <1>9 DEF Exists
<1> QED BY <1>1, <1>2, <1>3, <1>4, <1>5, <1>6, <1>7, <1>8, <1>9 DEF Step

(* A complete file stays complete: only its own Write, while it copies,    *)
(* changes it.                                                             *)
LEMMA CompleteStays ==
    ASSUME StoreInv, NEW c \in Calls, Step(c), NEW w, Complete(w)
    PROVE  Complete(w)' /\ (reply[w] # "failed" => reply'[w] # "failed")
<1> USE DEF StoreInv, TypeOK, CallInv, Complete, call, read, Goto, Settle, Return
<1>1. CASE CreateTemp(c) BY <1>1 DEF CreateTemp
<1>2. CASE Copy(c) BY <1>2 DEF Copy, AppendChunk
<1>3. CASE Close(c) BY <1>3 DEF Close
<1>4. CASE Rename(c) BY <1>4 DEF Rename
<1>5. CASE RemoveTemp(c) BY <1>5 DEF RemoveTemp
<1>6. CASE Open(c) BY <1>6 DEF Open
<1>7. CASE Stream(c) BY <1>7 DEF Stream
<1>8. CASE Delete(c) BY <1>8 DEF Delete
<1>9. CASE Exists(c) BY <1>9 DEF Exists
<1> QED BY <1>1, <1>2, <1>3, <1>4, <1>5, <1>6, <1>7, <1>8, <1>9 DEF Step

(* Every step of a call keeps whole what is under a key. *)
LEMMA StepContent ==
    ASSUME StoreInv, NEW c \in Calls, Step(c)
    PROVE  ContentInv'
<1>1. \A x \in Calls : pc'[x] \in {"close", "rename"} => size'[x] = Chunks
  <2> USE DEF StoreInv, TypeOK, ContentInv, call, read, Goto, Settle, Return
  <2>1. CASE CreateTemp(c) BY <2>1 DEF CreateTemp
  <2>2. CASE Copy(c) BY <2>2 DEF Copy, AppendChunk
  <2>3. CASE Close(c) BY <2>3 DEF Close
  <2>4. CASE Rename(c) BY <2>4 DEF Rename
  <2>5. CASE RemoveTemp(c) BY <2>5 DEF RemoveTemp
  <2>6. CASE Open(c) BY <2>6 DEF Open
  <2>7. CASE Stream(c) BY <2>7 DEF Stream
  <2>8. CASE Delete(c) BY <2>8 DEF Delete
  <2>9. CASE Exists(c) BY <2>9 DEF Exists
  <2> QED BY <2>1, <2>2, <2>3, <2>4, <2>5, <2>6, <2>7, <2>8, <2>9 DEF Step
<1>2. ASSUME NEW k \in Keys, dir'[k] # Nothing
      PROVE  Complete(dir[k])' /\ reply'[dir'[k]] # "failed"
  <2>1. CASE dir'[k] = dir[k]
    <3>1. Complete(dir[k]) /\ reply[dir[k]] # "failed" BY <1>2, <2>1 DEF StoreInv, ContentInv
    <3> QED BY <3>1, <2>1, CompleteStays DEF Complete
  <2>2. CASE dir'[k] # dir[k]
    \* only a Rename puts something under a key
    <3>1. Rename(c) /\ dir' = [dir EXCEPT ![key[c]] = c] /\ reply' = [reply EXCEPT ![c] = "ok"]
      BY <1>2, <2>2 DEF Step, CreateTemp, Copy, Close, Rename, RemoveTemp, Open, Stream, Delete,
                        Exists, StoreInv, TypeOK, Settle
    <3>2. dir'[k] = c BY <3>1, <2>2 DEF StoreInv, TypeOK
    <3> QED BY <3>1, <3>2 DEF Rename, Settle, StoreInv, TypeOK, CallInv, ContentInv, Complete, call
  <2> QED BY <2>1, <2>2
<1> QED BY <1>1, <1>2 DEF ContentInv

(* Every step of a call keeps whole what readers have opened. *)
LEMMA StepReader ==
    ASSUME StoreInv, NEW c \in Calls, Step(c)
    PROVE  ReaderInv'
<1> SUFFICES ASSUME NEW x \in Calls
             PROVE  /\ file'[x] # Nothing => Complete(file[x])'
                    /\ pc'[x] = "stream" => file'[x] # Nothing
                    /\ op'[x] = "read" /\ reply'[x] = "ok" => file'[x] # Nothing /\ got'[x] = Chunks
  BY DEF ReaderInv
<1>1. ASSUME file'[x] # Nothing PROVE Complete(file[x])'
  <2>1. CASE file'[x] = file[x]
    <3>1. Complete(file[x]) BY <1>1, <2>1 DEF StoreInv, ReaderInv
    <3> QED BY <3>1, <2>1, CompleteStays DEF Complete
  <2>2. CASE file'[x] # file[x]
    <3>1. Open(c) /\ file' = [file EXCEPT ![c] = dir[key[c]]] /\ dir[key[c]] # Nothing
      BY <2>2 DEF Step, CreateTemp, Copy, Close, Rename, RemoveTemp, Open, Stream, Delete,
                  Exists, read
    <3>2. file'[x] = dir[key[c]] BY <3>1, <2>2 DEF StoreInv, TypeOK
    <3>3. Complete(dir[key[c]]) BY <3>1 DEF Open, StoreInv, CallInv, ContentInv
    <3> QED BY <3>2, <3>3, CompleteStays DEF Complete
  <2> QED BY <2>1, <2>2
<1>2. /\ pc'[x] = "stream" => file'[x] # Nothing
      /\ op'[x] = "read" /\ reply'[x] = "ok" => file'[x] # Nothing /\ got'[x] = Chunks
  <2> USE DEF StoreInv, TypeOK, CallInv, ReaderInv, call, read, Goto, Settle, Return
  <2>1. CASE CreateTemp(c) BY <2>1 DEF CreateTemp
  <2>2. CASE Copy(c) BY <2>2 DEF Copy, AppendChunk
  <2>3. CASE Close(c) BY <2>3 DEF Close
  <2>4. CASE Rename(c) BY <2>4 DEF Rename
  <2>5. CASE RemoveTemp(c) BY <2>5 DEF RemoveTemp
  <2>6. CASE Open(c) BY <2>6 DEF Open
  <2>7. CASE Stream(c) BY <2>7 DEF Stream, Complete
  <2>8. CASE Delete(c) BY <2>8 DEF Delete
  <2>9. CASE Exists(c) BY <2>9 DEF Exists
  <2> QED BY <2>1, <2>2, <2>3, <2>4, <2>5, <2>6, <2>7, <2>8, <2>9 DEF Step
<1> QED BY <1>1, <1>2

(* A step of the store keeps the inductive invariant. *)
LEMMA StoreInvStep == StoreInv /\ [Next]_vars => StoreInv'
<1> SUFFICES ASSUME StoreInv, [Next]_vars PROVE StoreInv'
  OBVIOUS
<1>1. ASSUME NEW c \in Calls, Step(c) PROVE StoreInv'
  BY <1>1, StepType, StepCall, StepContent, StepReader DEF StoreInv
<1>2. ASSUME NEW c \in Calls, NEW what \in Ops \ {"none"}, NEW k \in Keys \cup BadKeys,
             Start(c, what, k)
      PROVE  StoreInv'
  <2> USE <1>2 DEF StoreInv, Start, Goto, Return, Settle, read
  <2>1. TypeOK' BY DEF TypeOK, Ops, Steps, Replies
  <2>2. CallInv' BY DEF TypeOK, Ops, CallInv
  <2>3. ASSUME NEW w, Complete(w) PROVE Complete(w)' /\ reply'[w] = reply[w]
    BY <2>3 DEF TypeOK, Complete
  <2>4. ContentInv' BY <2>3 DEF TypeOK, Ops, ContentInv
  <2>5. ReaderInv' BY <2>3 DEF TypeOK, Ops, CallInv, ReaderInv
  <2> QED BY <2>1, <2>2, <2>4, <2>5
<1>3. CASE Crash
  <2> USE <1>3 DEF StoreInv, Crash, call, read
  <2>1. TypeOK' BY DEF TypeOK, Steps, Replies, Fault
  <2>2. CallInv' BY DEF TypeOK, CallInv
  <2>3. ContentInv' BY DEF TypeOK, ContentInv, Complete
  <2>4. ReaderInv' BY DEF TypeOK, ReaderInv, Complete
  <2> QED BY <2>1, <2>2, <2>3, <2>4
<1>4. CASE UNCHANGED vars
  BY <1>4 DEF StoreInv, vars, TypeOK, CallInv, ContentInv, ReaderInv, Complete
<1> QED BY <1>1, <1>2, <1>3, <1>4 DEF Next

(* The invariant behind the theorems below is one. *)
THEOREM StoreSafe == Spec => []StoreInv
<1>1. Init => StoreInv
  BY ChunkAssumption DEF Init, StoreInv, TypeOK, Ops, Steps, Replies, CallInv, ContentInv, ReaderInv
<1> QED BY <1>1, StoreInvStep, PTL DEF Spec

(* The store is type correct. *)
THEOREM StoreTypes == Spec => []TypeOK
<1>1. StoreInv => TypeOK BY DEF StoreInv
<1> QED BY <1>1, StoreSafe, PTL

(* LocalFS.Write never shows half a file under a key, whichever system     *)
(* call fails and wherever the process dies.                               *)
THEOREM StoreWhole == Spec => []WholeOrNothing
<1>1. StoreInv => WholeOrNothing BY DEF StoreInv, ContentInv, Complete, WholeOrNothing
<1> QED BY <1>1, StoreSafe, PTL

(* A reader of LocalFS.Read that comes to the end has one Write's content. *)
THEOREM StoreReaders == Spec => []ReadersGetWhole
<1>1. StoreInv => ReadersGetWhole BY DEF StoreInv, ReaderInv, Complete, ReadersGetWhole
<1> QED BY <1>1, StoreSafe, PTL

(* Every step of a call keeps what is known of temporary files.            *)
LEMMA StepTemp ==
    ASSUME StoreInv, TempInv, NoTempsLeft, NEW c \in Calls, Step(c)
    PROVE  TempInv' /\ NoTempsLeft'
<1> USE DEF StoreInv, TypeOK, CallInv, ContentInv, Complete, TempInv, NoTempsLeft, call, read,
            Goto, Settle, Return, Fault, NoFault
<1>1. CASE CreateTemp(c) BY <1>1, CallAssumption DEF CreateTemp
<1>2. CASE Copy(c) BY <1>2 DEF Copy, AppendChunk
<1>3. CASE Close(c) BY <1>3 DEF Close
<1>4. CASE Rename(c) BY <1>4 DEF Rename
<1>5. CASE RemoveTemp(c) BY <1>5 DEF RemoveTemp
<1>6. CASE Open(c) BY <1>6 DEF Open
<1>7. CASE Stream(c) BY <1>7 DEF Stream
<1>8. CASE Delete(c) BY <1>8, CallAssumption DEF Delete
<1>9. CASE Exists(c) BY <1>9 DEF Exists
<1> QED BY <1>1, <1>2, <1>3, <1>4, <1>5, <1>6, <1>7, <1>8, <1>9 DEF Step

(* Every error path of LocalFS.Write removes its temporary file: one that  *)
(* is left behind was cut off by a crash, or two operations have failed.   *)
THEOREM StoreCleansUp == Spec => []NoTempsLeft
<1>1. Init => TempInv /\ NoTempsLeft BY DEF Init, TempInv, NoTempsLeft
<1>2. StoreInv /\ TempInv /\ NoTempsLeft /\ [Next]_vars => TempInv' /\ NoTempsLeft'
  <2> SUFFICES ASSUME StoreInv, TempInv, NoTempsLeft, [Next]_vars PROVE TempInv' /\ NoTempsLeft'
    OBVIOUS
  <2>1. ASSUME NEW c \in Calls, Step(c) PROVE TempInv' /\ NoTempsLeft'
    BY <2>1, StepTemp
  <2>2. ASSUME NEW c \in Calls, NEW what \in Ops \ {"none"}, NEW k \in Keys \cup BadKeys,
               Start(c, what, k)
        PROVE  TempInv' /\ NoTempsLeft'
    BY <2>2 DEF Start, Goto, Return, Settle, StoreInv, TypeOK, TempInv, NoTempsLeft
  <2>3. CASE Crash
    BY <2>3 DEF Crash, Fault, StoreInv, TypeOK, CallInv, ContentInv, Complete, TempInv, NoTempsLeft
  <2>4. CASE UNCHANGED vars BY <2>4 DEF vars, TempInv, NoTempsLeft
  <2> QED BY <2>1, <2>2, <2>3, <2>4 DEF Next
<1> QED BY <1>1, <1>2, StoreSafe, PTL DEF Spec
-----------------------------------------------------------------------------
(* The local store implements the byte store. *)

(* The content under keys, the readers and what they were given to the end *)
(* stay the same in a step that touches no path and ends no reader.        *)
LEMMA Stutter ==
    ASSUME dir' = dir, file' = file,
           \A x \in Calls : /\ (pc'[x] = "stream") <=> (pc[x] = "stream")
                            /\ (op'[x] = "read" /\ reply'[x] = "ok") <=> (op[x] = "read" /\ reply[x] = "ok")
                            /\ op[x] = "read" /\ reply[x] = "ok" => got'[x] = got[x]
    PROVE  UNCHANGED Store!storeVars
BY DEF Store!storeVars

(* Calls that end without having come to the end of what they read. *)
LEMMA Abandoning ==
    ASSUME StoreInv, NEW C \in SUBSET Calls, NEW code \in {"failed", "lost"},
           \A x \in C : reply[x] # "ok" \/ op[x] # "read",
           pc' = [x \in Calls |-> IF x \in C THEN "done" ELSE pc[x]],
           reply' = [x \in Calls |-> IF x \in C THEN code ELSE reply[x]],
           UNCHANGED <<dir, op, file, got>>
    PROVE  Store!Abandon(C)
<1>1. \A x \in Calls : (IF pc'[x] = "stream" THEN file'[x] ELSE Nothing)
                      = (IF x \in C THEN Nothing ELSE IF pc[x] = "stream" THEN file[x] ELSE Nothing)
  OBVIOUS
<1>2. \A x \in Calls : (op'[x] # "read" \/ reply'[x] # "ok") <=> (op[x] # "read" \/ reply[x] # "ok")
  OBVIOUS
<1> QED BY <1>1, <1>2 DEF Store!Abandon

(* Every step of a call is one of the byte store, or changes nothing there.*)
LEMMA StepRefines ==
    ASSUME StoreInv, NEW c \in Calls, Step(c)
    PROVE  [Store!Next]_Store!storeVars
<1> USE CallAssumption DEF StoreInv, TypeOK, CallInv, call, read, Goto, Settle, Return
<1> DEFINE held == [x \in Calls |-> IF pc[x] = "stream" THEN file[x] ELSE Nothing]
           seen == [x \in Calls |-> IF op[x] # "read" \/ reply[x] # "ok" THEN Nothing
                                    ELSE IF got[x] = Chunks THEN file[x] ELSE Torn]
<1>1. CASE CreateTemp(c) BY <1>1, Stutter DEF CreateTemp
<1>2. CASE Copy(c) BY <1>2, Stutter DEF Copy, AppendChunk
<1>3. CASE Close(c) BY <1>3, Stutter DEF Close
<1>4. CASE Rename(c)
  <2>1. CASE dir' = dir BY <1>4, <2>1, Stutter DEF Rename
  <2>2. CASE dir' # dir
    <3>1. key[c] \in Keys /\ dir' = [dir EXCEPT ![key[c]] = c] BY <1>4, <2>2 DEF Rename
    <3>2. Store!Put(c, key[c]) BY <1>4, <3>1 DEF Rename, Store!Put
    <3> QED BY <3>1, <3>2 DEF Store!Next
  <2> QED BY <2>1, <2>2
<1>5. CASE RemoveTemp(c) BY <1>5, Stutter DEF RemoveTemp
<1>6. CASE Open(c)
  <2>1. CASE pc'[c] = "stream"
    <3>1. PICK k \in Keys : /\ k = key[c] /\ dir[k] # Nothing
                            /\ file' = [file EXCEPT ![c] = dir[k]]
                            /\ pc' = [pc EXCEPT ![c] = "stream"]
      BY <1>6, <2>1 DEF Open
    <3>2. UNCHANGED <<dir, op, got, reply>> /\ op[c] = "read" /\ reply[c] = "none"
      BY <1>6, <2>1 DEF Open
    <3>3. \A x \in Calls \ {c} : pc'[x] = pc[x] /\ file'[x] = file[x] BY <3>1
    <3>4. pc'[c] = "stream" /\ file'[c] = dir[k] BY <3>1
    <3>5. held' = [held EXCEPT ![c] = dir[k]] BY <3>3, <3>4
    <3>6. seen' = seen BY <3>2, <3>3
    <3>7. Store!Open(c, k) BY <3>1, <3>2, <3>5, <3>6 DEF Store!Open
    <3> QED BY <3>7 DEF Store!Next
  <2>2. CASE pc'[c] # "stream" BY <1>6, <2>2, Stutter DEF Open
  <2> QED BY <2>1, <2>2
<1>7. CASE Stream(c)
  <2>1. op[c] = "read" /\ reply[c] = "none" /\ file[c] \in Calls /\ size[file[c]] = Chunks
    BY <1>7 DEF Stream, ReaderInv, Complete
  <2>2. CASE pc'[c] = "stream" BY <1>7, <2>1, <2>2, Stutter DEF Stream
  <2>3. CASE reply'[c] = "ok"
    <3>1. /\ pc' = [pc EXCEPT ![c] = "done"] /\ reply' = [reply EXCEPT ![c] = "ok"]
          /\ UNCHANGED <<dir, op, file, got>> /\ got[c] = Chunks /\ pc[c] = "stream"
      BY <1>7, <2>1, <2>3 DEF Stream
    <3>2. \A x \in Calls \ {c} : /\ pc'[x] = pc[x] /\ op'[x] = op[x] /\ reply'[x] = reply[x]
                                 /\ got'[x] = got[x] /\ file'[x] = file[x]
      BY <3>1
    <3>3. /\ pc'[c] = "done" /\ op'[c] = "read" /\ reply'[c] = "ok" /\ got'[c] = Chunks
          /\ file'[c] = file[c] /\ file[c] # Nothing
      BY <2>1, <3>1
    <3>4. \A x \in Calls : (op'[x] # "read" \/ reply'[x] # "ok")
                          <=> (op[x] # "read" \/ reply[x] # "ok") /\ x # c
      BY <2>1, <3>2, <3>3
    <3>5. held[c] = file[c] /\ held' = [held EXCEPT ![c] = Nothing] BY <3>1, <3>2, <3>3
    <3>6. seen' = [seen EXCEPT ![c] = file[c]] BY <3>2, <3>3, <3>4
    <3>7. Store!Finish(c) BY <3>1, <3>3, <3>5, <3>6 DEF Store!Finish
    <3> QED BY <3>7 DEF Store!Next
  <2>4. CASE reply'[c] = "failed"
    <3>1. /\ pc' = [x \in Calls |-> IF x \in {c} THEN "done" ELSE pc[x]]
          /\ reply' = [x \in Calls |-> IF x \in {c} THEN "failed" ELSE reply[x]]
          /\ UNCHANGED <<dir, op, file, got>>
      BY <1>7, <2>1, <2>4 DEF Stream
    <3>2. Store!Abandon({c}) BY <2>1, <3>1, Abandoning
    <3> QED BY <3>2 DEF Store!Next
  <2> QED BY <1>7, <2>2, <2>3, <2>4 DEF Stream
<1>8. CASE Delete(c)
  <2>1. CASE dir' = dir BY <1>8, <2>1, Stutter DEF Delete
  <2>2. CASE dir' # dir
    <3>1. key[c] \in Keys /\ dir' = [dir EXCEPT ![key[c]] = Nothing] BY <1>8, <2>2 DEF Delete
    <3>2. Store!Remove(key[c]) BY <1>8, <3>1 DEF Delete, Store!Remove
    <3> QED BY <3>1, <3>2 DEF Store!Next
  <2> QED BY <2>1, <2>2
<1>9. CASE Exists(c) BY <1>9, Stutter DEF Exists
<1> QED BY <1>1, <1>2, <1>3, <1>4, <1>5, <1>6, <1>7, <1>8, <1>9 DEF Step

(* LocalFS behaves as filestore.Backend promises, each call taking effect  *)
(* in one step, although it is made of several system calls that others    *)
(* run between, that fail and that a crash may cut short.                  *)
THEOREM StoreRefines == Spec => ImplementsByteStore
<1>1. Init => Store!Init
  BY DEF Init, Store!Init
<1>2. StoreInv /\ [Next]_vars => [Store!Next]_Store!storeVars
  <2> SUFFICES ASSUME StoreInv, [Next]_vars PROVE [Store!Next]_Store!storeVars
    OBVIOUS
  <2>1. ASSUME NEW c \in Calls, Step(c) PROVE [Store!Next]_Store!storeVars
    BY <2>1, StepRefines
  <2>2. ASSUME NEW c \in Calls, NEW what \in Ops \ {"none"}, NEW k \in Keys \cup BadKeys,
               Start(c, what, k)
        PROVE  [Store!Next]_Store!storeVars
    BY <2>2, Stutter DEF StoreInv, TypeOK, CallInv, Ops, Start, Goto, Return, Settle, read
  <2>3. CASE Crash
    <3>0. PICK C \in SUBSET Calls : C = {c \in Calls : pc[c] \notin {"new", "done"}} OBVIOUS
    <3>1. \A x \in C : reply[x] # "ok" \/ op[x] # "read"
      BY <3>0 DEF StoreInv, TypeOK, CallInv
    <3>2. /\ pc' = [x \in Calls |-> IF x \in C THEN "done" ELSE pc[x]]
          /\ reply' = [x \in Calls |-> IF x \in C THEN "lost" ELSE reply[x]]
          /\ UNCHANGED <<dir, op, file, got>>
      BY <2>3, <3>0 DEF Crash, call, read
    <3>3. Store!Abandon(C) BY <3>1, <3>2, Abandoning
    <3> QED BY <3>3 DEF Store!Next
  <2>4. CASE UNCHANGED vars BY <2>4, Stutter DEF vars
  <2> QED BY <2>1, <2>2, <2>3, <2>4 DEF Next
<1> QED BY <1>1, <1>2, StoreSafe, PTL DEF Spec, Store!Spec, ImplementsByteStore
=============================================================================
