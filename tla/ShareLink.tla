----------------------------- MODULE ShareLink -----------------------------
(***************************************************************************)
(* What a pbin share link promises, whatever is behind it: a link that was *)
(* published as one-use is spent by at most one visit and hands its        *)
(* content to at most one visit; a link that was withdrawn admits nobody   *)
(* any more.  A visit that passed the checks holds a ticket until the      *)
(* content is opened for it (Redeem) or the visit ends without content     *)
(* (Forfeit).  File shares and paste shares both implement it.             *)
(***************************************************************************)
CONSTANTS Links,    \* the slugs a link can have
          Visits,   \* the requests that open a link, one visit each
          NoLink    \* the ticket of a visit that holds none

ASSUME NoLinkAssumption == NoLink \notin Links

VARIABLES status,   \* where each link is in its life
          once,     \* the links published as one-use
          ticket,   \* the link each visit may read from, or NoLink
          served    \* the visits each link has handed its content to

linkVars == <<status, once, ticket, served>>

Statuses == {"none", "open", "fresh", "spent", "gone"}

TypeOK == /\ status \in [Links -> Statuses]
          /\ once \in SUBSET Links
          /\ ticket \in [Visits -> Links \cup {NoLink}]
          /\ served \in [Links -> SUBSET Visits]

Init == /\ status = [l \in Links |-> "none"]
        /\ once = {}
        /\ ticket = [v \in Visits |-> NoLink]
        /\ served = [l \in Links |-> {}]

-----------------------------------------------------------------------------
(* The uploader is given the link: reusable ("open") or one-use ("fresh"). *)
Publish(l) ==
    /\ status[l] = "none"
    /\ \/ /\ status' = [status EXCEPT ![l] = "open"]
          /\ once' = once
       \/ /\ status' = [status EXCEPT ![l] = "fresh"]
          /\ once' = once \cup {l}
    /\ UNCHANGED <<ticket, served>>

(* A reusable link admits any number of visits. *)
Admit(v, l) ==
    /\ status[l] = "open"
    /\ ticket[v] = NoLink
    /\ ticket' = [ticket EXCEPT ![v] = l]
    /\ UNCHANGED <<status, once, served>>

(* Mutant: the visit is admitted, the link is spent some other time. *)
SpendLater(v, l) ==
    /\ status[l] = "fresh"
    /\ ticket[v] = NoLink
    /\ ticket' = [ticket EXCEPT ![v] = l]
    /\ UNCHANGED <<status, once, served>>

(* A one-use link admits one visit and is spent in the same step. *)
Spend(v, l) ==
    /\ status[l] = "fresh"
    /\ ticket[v] = NoLink
    /\ status' = [status EXCEPT ![l] = "spent"]
    /\ ticket' = [ticket EXCEPT ![v] = l]
    /\ UNCHANGED <<once, served>>

(* The link is spent but the visit that spent it is told of a failure. *)
SpendInVain(l) ==
    /\ status[l] = "fresh"
    /\ status' = [status EXCEPT ![l] = "spent"]
    /\ UNCHANGED <<once, ticket, served>>

(* The content is opened for the visit that holds a ticket. *)
Redeem(v) ==
    /\ ticket[v] \in Links
    /\ served' = [served EXCEPT ![ticket[v]] = @ \cup {v}]
    /\ ticket' = [ticket EXCEPT ![v] = NoLink]
    /\ UNCHANGED <<status, once>>

(* Visits that end without content: an error, or a crash that ends several.*)
Forfeit(V) ==
    /\ ticket' = [v \in Visits |-> IF v \in V THEN NoLink ELSE ticket[v]]
    /\ UNCHANGED <<status, once, served>>

(* The link is deleted, or its expiry has passed and it is swept away. *)
Withdraw(l) ==
    /\ status[l] \in {"open", "fresh", "spent"}
    /\ status' = [status EXCEPT ![l] = "gone"]
    /\ UNCHANGED <<once, ticket, served>>

Next == \/ \E l \in Links : Publish(l) \/ SpendInVain(l) \/ Withdraw(l)
        \/ \E v \in Visits, l \in Links : Admit(v, l) \/ Spend(v, l)
        \/ \E v \in Visits : Redeem(v)
        \/ \E V \in SUBSET Visits : Forfeit(V)

Spec == Init /\ [][Next]_linkVars

-----------------------------------------------------------------------------
(* A one-use link hands its content to at most one visit. *)
AtMostOnce == \A l \in once : \A v, w \in served[l] : v = w

(* Why: while a one-use link is fresh nobody holds a ticket to it or was   *)
(* served; afterwards a single visit has the ticket or was served.         *)
OneHolder ==
    \A l \in once :
        /\ status[l] \in {"fresh", "spent", "gone"}
        /\ status[l] = "fresh" => served[l] = {} /\ \A v \in Visits : ticket[v] # l
        /\ \A v, w \in Visits : /\ v \in served[l] => ticket[w] # l
                                /\ ticket[v] = l /\ ticket[w] = l => v = w

(* A link nobody was told about has no holder and has served nobody. *)
Unpublished ==
    \A l \in Links : status[l] = "none" =>
        /\ l \notin once
        /\ served[l] = {}
        /\ \A v \in Visits : ticket[v] # l

LinkInv == TypeOK /\ OneHolder /\ Unpublished /\ AtMostOnce
=============================================================================
