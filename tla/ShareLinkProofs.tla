-------------------------- MODULE ShareLinkProofs --------------------------
(* At most one visit is served by a one-use link, for any number of links  *)
(* and visits.                                                             *)
EXTENDS ShareLink, TLAPS

(* A step of the link keeps the inductive invariant. *)
LEMMA LinkInvStep == LinkInv /\ [Next]_linkVars => LinkInv'
<1> SUFFICES ASSUME LinkInv, [Next]_linkVars PROVE LinkInv'
  OBVIOUS
<1> USE NoLinkAssumption DEF LinkInv
<1>1. ASSUME NEW l \in Links, Publish(l) PROVE LinkInv'
  <2>1. TypeOK' BY <1>1 DEF Publish, TypeOK, Statuses
  <2>2. OneHolder' BY <1>1 DEF Publish, TypeOK, OneHolder, Unpublished
  <2>3. Unpublished' BY <1>1 DEF Publish, TypeOK, Unpublished
  <2>4. AtMostOnce' BY <1>1 DEF Publish, TypeOK, AtMostOnce, Unpublished
  <2> QED BY <2>1, <2>2, <2>3, <2>4
<1>2. ASSUME NEW v \in Visits, NEW l \in Links, Admit(v, l) PROVE LinkInv'
  <2>1. TypeOK' BY <1>2 DEF Admit, TypeOK
  <2>2. OneHolder' BY <1>2 DEF Admit, TypeOK, OneHolder
  <2>3. Unpublished' BY <1>2 DEF Admit, TypeOK, Unpublished
  <2>4. AtMostOnce' BY <1>2 DEF Admit, AtMostOnce
  <2> QED BY <2>1, <2>2, <2>3, <2>4
<1>3. ASSUME NEW v \in Visits, NEW l \in Links, Spend(v, l) PROVE LinkInv'
  <2>1. TypeOK' BY <1>3 DEF Spend, TypeOK, Statuses
  <2>2. OneHolder' BY <1>3 DEF Spend, TypeOK, OneHolder
  <2>3. Unpublished' BY <1>3 DEF Spend, TypeOK, Unpublished
  <2>4. AtMostOnce' BY <1>3 DEF Spend, AtMostOnce
  <2> QED BY <2>1, <2>2, <2>3, <2>4
<1>4. ASSUME NEW l \in Links, SpendInVain(l) PROVE LinkInv'
  <2>1. TypeOK' BY <1>4 DEF SpendInVain, TypeOK, Statuses
  <2>2. OneHolder' BY <1>4 DEF SpendInVain, TypeOK, OneHolder
  <2>3. Unpublished' BY <1>4 DEF SpendInVain, TypeOK, Unpublished
  <2>4. AtMostOnce' BY <1>4 DEF SpendInVain, AtMostOnce
  <2> QED BY <2>1, <2>2, <2>3, <2>4
<1>5. ASSUME NEW v \in Visits, Redeem(v) PROVE LinkInv'
  <2>1. TypeOK' BY <1>5 DEF Redeem, TypeOK
  <2>2. OneHolder' BY <1>5 DEF Redeem, TypeOK, OneHolder
  <2>3. Unpublished' BY <1>5 DEF Redeem, TypeOK, Unpublished
  <2>4. AtMostOnce'
    <3>1. SUFFICES ASSUME NEW l \in once, NEW x \in served'[l], NEW y \in served'[l]
                   PROVE x = y
      BY <1>5 DEF Redeem, AtMostOnce
    <3>2. l \in Links BY DEF TypeOK
    <3>3. CASE l # ticket[v] BY <1>5, <3>1, <3>2, <3>3 DEF Redeem, TypeOK, AtMostOnce
    <3>4. CASE l = ticket[v]
      \* the holder of the ticket is the first visit served
      <4>1. served[l] = {} BY <3>2, <3>4 DEF OneHolder, TypeOK
      <4> QED BY <1>5, <3>1, <3>2, <3>4, <4>1 DEF Redeem, TypeOK
    <3> QED BY <3>3, <3>4
  <2> QED BY <2>1, <2>2, <2>3, <2>4
<1>6. ASSUME NEW V \in SUBSET Visits, Forfeit(V) PROVE LinkInv'
  <2>1. TypeOK' BY <1>6 DEF Forfeit, TypeOK
  <2>2. OneHolder' BY <1>6 DEF Forfeit, TypeOK, OneHolder
  <2>3. Unpublished' BY <1>6 DEF Forfeit, TypeOK, Unpublished
  <2>4. AtMostOnce' BY <1>6 DEF Forfeit, AtMostOnce
  <2> QED BY <2>1, <2>2, <2>3, <2>4
<1>7. ASSUME NEW l \in Links, Withdraw(l) PROVE LinkInv'
  <2>1. TypeOK' BY <1>7 DEF Withdraw, TypeOK, Statuses
  <2>2. OneHolder' BY <1>7 DEF Withdraw, TypeOK, OneHolder
  <2>3. Unpublished' BY <1>7 DEF Withdraw, TypeOK, Unpublished
  <2>4. AtMostOnce' BY <1>7 DEF Withdraw, AtMostOnce
  <2> QED BY <2>1, <2>2, <2>3, <2>4
<1>8. CASE UNCHANGED linkVars
  BY <1>8 DEF linkVars, TypeOK, OneHolder, Unpublished, AtMostOnce
<1> QED BY <1>1, <1>2, <1>3, <1>4, <1>5, <1>6, <1>7, <1>8 DEF Next

(* The invariant that carries the proof of AtMostOnce is one. *)
THEOREM LinkSafe == Spec => []LinkInv
<1>1. Init => LinkInv
  BY NoLinkAssumption DEF Init, LinkInv, TypeOK, Statuses, OneHolder, Unpublished, AtMostOnce
<1> QED BY <1>1, LinkInvStep, PTL DEF Spec

(* A one-use link never serves two visits: the promise behind the one-use  *)
(* checkbox (service Get marks the row before it opens the content).       *)
THEOREM LinkAtMostOnce == Spec => []AtMostOnce
<1>1. LinkInv => AtMostOnce BY DEF LinkInv
<1> QED BY <1>1, LinkSafe, PTL
=============================================================================
