----------------------------- MODULE ByteStore -----------------------------
(***************************************************************************)
(* What filestore.Backend promises to the services: content is stored and  *)
(* removed as a whole, and a reader gets, as a whole, the content that was *)
(* there when it was opened, whatever is stored or removed meanwhile.      *)
(* Content is named by the call that stored it.                            *)
(***************************************************************************)
CONSTANTS Keys,     \* storage keys
          Calls,    \* calls of the interface; a call that stores names its content
          Nothing   \* "no content"

VARIABLES content,  \* the content under each key
          held,     \* the content a reader has opened and is reading
          seen      \* the content a reader was given to the end

storeVars == <<content, held, seen>>

Init == /\ content = [k \in Keys |-> Nothing]
        /\ held = [c \in Calls |-> Nothing]
        /\ seen = [c \in Calls |-> Nothing]

(* Write takes effect; it overwrites what was there. *)
Put(c, k) ==
    /\ content' = [content EXCEPT ![k] = c]
    /\ UNCHANGED <<held, seen>>

(* Delete takes effect; it does not matter whether there is anything. *)
Remove(k) ==
    /\ content' = [content EXCEPT ![k] = Nothing]
    /\ UNCHANGED <<held, seen>>

(* Read hands out a reader of what is there. *)
Open(c, k) ==
    /\ content[k] # Nothing
    /\ held' = [held EXCEPT ![c] = content[k]]
    /\ UNCHANGED <<content, seen>>

(* The reader has come to the end. *)
Finish(c) ==
    /\ held[c] # Nothing
    /\ seen' = [seen EXCEPT ![c] = held[c]]
    /\ held' = [held EXCEPT ![c] = Nothing]
    /\ UNCHANGED content

(* Readers that end early: an I/O error, or a crash that ends several. *)
Abandon(C) ==
    /\ held' = [c \in Calls |-> IF c \in C THEN Nothing ELSE held[c]]
    /\ UNCHANGED <<content, seen>>

Next == \/ \E k \in Keys : Remove(k) \/ \E c \in Calls : Put(c, k) \/ Open(c, k)
        \/ \E c \in Calls : Finish(c)
        \/ \E C \in SUBSET Calls : Abandon(C)

Spec == Init /\ [][Next]_storeVars
=============================================================================
