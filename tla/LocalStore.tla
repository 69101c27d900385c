----------------------------- MODULE LocalStore -----------------------------
(***************************************************************************)
(* The byte store on a local file system, filestore.LocalFS: a Write fills *)
(* a temporary file in the directory of the key, chunk by chunk, renames   *)
(* it over the key's path and, whatever happened, removes the temporary    *)
(* name.  Calls run concurrently, each system call is a step of its own,   *)
(* any of them may fail, and the process may crash between two of them.    *)
(*                                                                         *)
(* A file is named by the Write that created it: os.CreateTemp draws names *)
(* at random until one is free, and they are taken never to come back      *)
(* while the Write that drew them is running.  A reader keeps its file     *)
(* although the path is removed or replaced.                               *)
(***************************************************************************)
EXTENDS Naturals

CONSTANTS
    Keys,        \* keys that keyPath accepts
    BadKeys,     \* keys that it refuses
    Calls,       \* calls of Write, Read, Delete and Exists
    Nothing,     \* "no file"
    Torn,        \* what a reader has that got less than the whole content
    Chunks,      \* chunks in the content of a Write
    Faults,      \* the kinds of mishap that may happen
    MaxMishaps   \* bound: how many of them may happen

ASSUME CallAssumption == Nothing \notin Calls /\ Torn \notin Calls \cup {Nothing}
ASSUME KeyAssumption == Keys \cap BadKeys = {}
ASSUME ChunkAssumption == Chunks \in Nat /\ MaxMishaps \in Nat

VARIABLES
    dir,      \* the file at the path of each key
    temps,    \* the Writes whose temporary name exists
    size,     \* how many chunks the file of each Write has
    op,       \* what each call is
    key,      \* the key it is about
    pc,       \* the system call it is about to make
    reply,    \* its result; a Write has it before the deferred Remove
    file,     \* the file a Read has opened
    got,      \* how many chunks it has read
    mishaps   \* how many mishaps have happened

vars == <<dir, temps, size, op, key, pc, reply, file, got, mishaps>>
call == <<op, key>>
read == <<file, got>>

Ops     == {"none", "write", "read", "delete", "exists"}
Steps   == {"new", "write", "copy", "close", "rename", "remove",
            "read", "stream", "delete", "exists", "done"}
Replies == {"none", "ok", "invalid", "notExist", "failed", "lost"}

TypeOK ==
    /\ dir \in [Keys -> Calls \cup {Nothing}]
    /\ temps \in SUBSET Calls
    /\ size \in [Calls -> 0..Chunks]
    /\ op \in [Calls -> Ops]
    /\ key \in [Calls -> Keys \cup BadKeys \cup {Nothing}]
    /\ pc \in [Calls -> Steps]
    /\ reply \in [Calls -> Replies]
    /\ file \in [Calls -> Calls \cup {Nothing}]
    /\ got \in [Calls -> 0..Chunks]
    /\ mishaps \in Nat

Init ==
    /\ dir = [k \in Keys |-> Nothing]
    /\ temps = {}
    /\ size = [c \in Calls |-> 0]
    /\ op = [c \in Calls |-> "none"]
    /\ key = [c \in Calls |-> Nothing]
    /\ pc = [c \in Calls |-> "new"]
    /\ reply = [c \in Calls |-> "none"]
    /\ file = [c \in Calls |-> Nothing]
    /\ got = [c \in Calls |-> 0]
    /\ mishaps = 0

Goto(c, step) == pc' = [pc EXCEPT ![c] = step] /\ reply' = reply

(* The result is settled; the call goes on with step before it returns. *)
Settle(c, code, step) == /\ pc' = [pc EXCEPT ![c] = step]
                         /\ reply' = [reply EXCEPT ![c] = code]

Return(c, code) == Settle(c, code, "done")

Fault(kind) == /\ kind \in Faults
               /\ mishaps < MaxMishaps
               /\ mishaps' = mishaps + 1

NoFault == mishaps' = mishaps

(* keyPath: a key that is not alphanumeric is refused before anything else.*)
Start(c, what, k) ==
    /\ pc[c] = "new"
    /\ op' = [op EXCEPT ![c] = what]
    /\ key' = [key EXCEPT ![c] = k]
    /\ \/ k \in Keys /\ Goto(c, what)
       \/ k \notin Keys /\ Return(c, "invalid")
    /\ UNCHANGED <<dir, temps, size, read, mishaps>>

-----------------------------------------------------------------------------
(* Write *)

(* Mutant: the file is created at the key's path. *)
CreateInPlace(c) ==
    /\ pc[c] = "write"
    /\ dir' = [dir EXCEPT ![key[c]] = c]
    /\ Goto(c, "copy")
    /\ UNCHANGED <<temps, size, call, read, mishaps>>

(* MkdirAll and CreateTemp. *)
CreateTemp(c) ==
    /\ pc[c] = "write"
    /\ \/ temps' = temps \cup {c} /\ Goto(c, "copy") /\ NoFault
       \/ temps' = temps /\ Return(c, "failed") /\ Fault("disk")
    /\ UNCHANGED <<dir, size, call, read>>

AppendChunk(c) ==
    /\ size[c] < Chunks
    /\ size' = [size EXCEPT ![c] = @ + 1]
    /\ Goto(c, "copy")

(* io.Copy, a chunk at a time; on an error the file is closed. *)
Copy(c) ==
    /\ pc[c] = "copy"
    /\ \/ AppendChunk(c) /\ NoFault
       \/ size[c] = Chunks /\ size' = size /\ Goto(c, "close") /\ NoFault
       \/ size' = size /\ Settle(c, "failed", "remove") /\ Fault("disk")
    /\ UNCHANGED <<dir, temps, call, read>>

(* Mutant: the file is renamed, then closed. *)
CloseAfterRename(c) ==
    /\ pc[c] = "close"
    /\ dir' = [dir EXCEPT ![key[c]] = c]
    /\ temps' = temps \ {c}
    /\ \/ Settle(c, "ok", "remove") /\ NoFault
       \/ Settle(c, "failed", "remove") /\ Fault("disk")
    /\ UNCHANGED <<size, call, read>>

Close(c) ==
    /\ pc[c] = "close"
    /\ \/ Goto(c, "rename") /\ NoFault
       \/ Settle(c, "failed", "remove") /\ Fault("disk")
    /\ UNCHANGED <<dir, temps, size, call, read>>

Rename(c) ==
    /\ pc[c] = "rename"
    /\ \/ /\ dir' = [dir EXCEPT ![key[c]] = c]
          /\ temps' = temps \ {c}
          /\ Settle(c, "ok", "remove")
          /\ NoFault
       \/ dir' = dir /\ temps' = temps /\ Settle(c, "failed", "remove") /\ Fault("disk")
    /\ UNCHANGED <<size, call, read>>

(* Mutant: the temporary file is removed only after success. *)
RemoveAfterSuccess(c) ==
    /\ pc[c] = "remove"
    /\ temps' = IF reply[c] = "ok" THEN temps \ {c} ELSE temps
    /\ Goto(c, "done")
    /\ UNCHANGED <<dir, size, call, read, mishaps>>

(* The deferred os.Remove of the temporary name; its error is ignored. *)
RemoveTemp(c) ==
    /\ pc[c] = "remove"
    /\ \/ temps' = temps \ {c} /\ NoFault
       \/ temps' = temps /\ Fault("disk")
    /\ Goto(c, "done")
    /\ UNCHANGED <<dir, size, call, read>>

-----------------------------------------------------------------------------
(* Read, and the caller copying from the open file *)

Open(c) ==
    /\ pc[c] = "read"
    /\ LET f == dir[key[c]]
       IN \/ f # Nothing /\ file' = [file EXCEPT ![c] = f] /\ Goto(c, "stream") /\ NoFault
          \/ f = Nothing /\ file' = file /\ Return(c, "notExist") /\ NoFault
          \/ file' = file /\ Return(c, "failed") /\ Fault("disk")
    /\ UNCHANGED <<dir, temps, size, call, got>>

(* Chunks are read until there are no more: the end of the file is taken   *)
(* for the end of the content.                                             *)
Stream(c) ==
    /\ pc[c] = "stream"
    /\ \/ /\ got[c] < size[file[c]]
          /\ got' = [got EXCEPT ![c] = @ + 1]
          /\ Goto(c, "stream")
          /\ NoFault
       \/ got[c] = size[file[c]] /\ got' = got /\ Return(c, "ok") /\ NoFault
       \/ got' = got /\ Return(c, "failed") /\ Fault("disk")
    /\ UNCHANGED <<dir, temps, size, call, file>>

-----------------------------------------------------------------------------
(* Delete and Exists *)

(* A path that does not exist is no error. *)
Delete(c) ==
    /\ pc[c] = "delete"
    /\ \/ dir' = [dir EXCEPT ![key[c]] = Nothing] /\ Return(c, "ok") /\ NoFault
       \/ dir' = dir /\ Return(c, "failed") /\ Fault("disk")
    /\ UNCHANGED <<temps, size, call, read>>

Exists(c) ==
    /\ pc[c] = "exists"
    /\ \/ Return(c, IF dir[key[c]] # Nothing THEN "ok" ELSE "notExist") /\ NoFault
       \/ Return(c, "failed") /\ Fault("disk")
    /\ UNCHANGED <<dir, temps, size, call, read>>

-----------------------------------------------------------------------------
(* The process dies and is started again: calls in flight are lost, the    *)
(* directory stays as it is.  NewLocal only makes sure that the root       *)
(* exists, so temporary files stay too.                                    *)
Crash ==
    /\ Fault("crash")
    /\ LET inFlight == {c \in Calls : pc[c] \notin {"new", "done"}}
       IN /\ pc' = [c \in Calls |-> IF c \in inFlight THEN "done" ELSE pc[c]]
          /\ reply' = [c \in Calls |-> IF c \in inFlight THEN "lost" ELSE reply[c]]
    /\ UNCHANGED <<dir, temps, size, call, read>>

Step(c) == \/ CreateTemp(c) \/ Copy(c) \/ Close(c) \/ Rename(c) \/ RemoveTemp(c)
           \/ Open(c) \/ Stream(c) \/ Delete(c) \/ Exists(c)

Next ==
    \/ \E c \in Calls :
        \/ \E what \in Ops \ {"none"}, k \in Keys \cup BadKeys : Start(c, what, k)
        \/ Step(c)
    \/ Crash

Spec == Init /\ [][Next]_vars

-----------------------------------------------------------------------------
(* Properties *)

(* The path of a key never leads to a file that is still being written or  *)
(* was given up: temporary file and rename keep half a Write out of sight. *)
WholeOrNothing ==
    \A k \in Keys : dir[k] # Nothing =>
        /\ size[dir[k]] = Chunks
        /\ pc[dir[k]] \in {"remove", "done"} /\ reply[dir[k]] # "failed"

(* A reader that came to the end has the whole content of one Write,       *)
(* although the path was removed or overwritten while it was reading.      *)
ReadersGetWhole ==
    \A c \in Calls : op[c] = "read" /\ reply[c] = "ok" =>
        file[c] \in Calls /\ op[file[c]] = "write" /\ got[c] = Chunks

(* Temporary files belong to Writes that are running, or that were cut off *)
(* by a crash or could not remove them: every error path cleans up.        *)
NoTempsLeft ==
    \A c \in temps :
        /\ \A k \in Keys : dir[k] # c
        /\ pc[c] = "done" => reply[c] = "lost" \/ (reply[c] = "failed" /\ mishaps > 1)

-----------------------------------------------------------------------------
(* Why WholeOrNothing and ReadersGetWhole hold: the inductive invariant of *)
(* their proofs.                                                           *)

(* What the place of a call says about its kind, its key and its result.   *)
CallInv ==
    \A c \in Calls :
        /\ pc[c] = "new" <=> op[c] = "none"
        /\ pc[c] \notin {"remove", "done"} => reply[c] = "none"
        /\ pc[c] = "remove" => reply[c] \in {"ok", "failed"}
        /\ pc[c] \in {"write", "copy", "close", "rename", "remove"} => op[c] = "write"
        /\ pc[c] \in {"read", "stream"} => op[c] = "read"
        /\ pc[c] \in {"delete", "exists"} => op[c] = pc[c]
        /\ pc[c] \notin {"new", "done"} => key[c] \in Keys

(* The file of Write w is complete and will not be touched again. *)
Complete(w) ==
    w \in Calls /\ op[w] = "write" /\ size[w] = Chunks /\ pc[w] \in {"remove", "done"}

(* A file is renamed only when it is complete, and opened only under the   *)
(* name of a key.                                                          *)
ContentInv ==
    /\ \A c \in Calls : pc[c] \in {"close", "rename"} => size[c] = Chunks
    /\ \A k \in Keys : dir[k] # Nothing => Complete(dir[k]) /\ reply[dir[k]] # "failed"

ReaderInv ==
    \A c \in Calls :
        /\ file[c] # Nothing => Complete(file[c])
        /\ pc[c] = "stream" => file[c] # Nothing
        /\ op[c] = "read" /\ reply[c] = "ok" => file[c] # Nothing /\ got[c] = Chunks

StoreInv == TypeOK /\ CallInv /\ ContentInv /\ ReaderInv

(* A temporary file is there from its creation to its removal; a Write     *)
(* that is about to remove one has failed.                                 *)
TempInv ==
    \A c \in temps :
        /\ pc[c] \in {"copy", "close", "rename", "remove", "done"}
        /\ pc[c] = "remove" => reply[c] = "failed" /\ mishaps > 0
-----------------------------------------------------------------------------
(* The local store is a byte store. *)

Store == INSTANCE ByteStore WITH
    content <- dir,
    held    <- [c \in Calls |-> IF pc[c] = "stream" THEN file[c] ELSE Nothing],
    seen    <- [c \in Calls |->
                  IF op[c] # "read" \/ reply[c] # "ok" THEN Nothing
                  ELSE IF got[c] = Chunks THEN file[c] ELSE Torn]

(* The calls of LocalFS have the effect of the interface's, in one step.   *)
ImplementsByteStore == Store!Spec
=============================================================================
