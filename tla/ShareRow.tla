------------------------------ MODULE ShareRow ------------------------------
(***************************************************************************)
(* The row that files, buckets and pastes have in common: the options the  *)
(* uploader chose, the expiry and the one-use mark, and how the services   *)
(* and the cleanup worker judge it at a time t.  The clock counts ticks;   *)
(* the tables keep expires_at in whole Unix seconds.                       *)
(***************************************************************************)
EXTENDS Integers

CONSTANTS
    NoRow,           \* "no such row"
    Expiries,        \* durations of the expiry presets, in seconds; 0 is "never"
    TicksPerSecond   \* resolution of time.Now() against Unix seconds

Never == -1          \* expires_at IS NULL

Rows == [oneUse : BOOLEAN, protected : BOOLEAN, expiresAt : Int, downloaded : BOOLEAN]

ASSUME RowAssumption == NoRow \notin Rows
ASSUME ClockAssumption == TicksPerSecond \in Nat \ {0} /\ Expiries \subseteq Nat

(* Seconds since the epoch: t.Unix() in Go, unixepoch() in SQLite. *)
Unix(t) == t \div TicksPerSecond

(* The row of an upload with an expiry preset of d seconds, made at t. *)
NewRow(oneUse, protected, d, t) ==
    [oneUse |-> oneUse, protected |-> protected, downloaded |-> FALSE,
     expiresAt |-> IF d > 0 THEN Unix(t + d * TicksPerSecond) ELSE Never]

(* f.ExpiresAt != nil and t is after it *)
ExpiredAt(f, t) == f.expiresAt # Never /\ t > f.expiresAt * TicksPerSecond

(* Mutant: expires_at <= unixepoch(). *)
SweepableOnTime(f, t) == f # NoRow /\ f.expiresAt # Never /\ f.expiresAt <= Unix(t)

(* WHERE expires_at IS NOT NULL AND expires_at < unixepoch() *)
SweepableAt(f, t) == f # NoRow /\ f.expiresAt # Never /\ f.expiresAt < Unix(t)

(* Mutant: the password is not asked for. *)
AdmissionWithoutPassword(f, good, t) ==
    IF f = NoRow THEN "notFound" ELSE IF ExpiredAt(f, t) THEN "expired" ELSE "ok"

(* Mutant: the expiry is compared in whole seconds, too early by one. *)
AdmissionBySeconds(f, good, t) ==
    IF f = NoRow THEN "notFound"
    ELSE IF f.expiresAt # Never /\ Unix(t) >= f.expiresAt THEN "expired"
    ELSE IF f.protected /\ ~good THEN "wrongPassword"
    ELSE "ok"

(* The checks every read of a share makes on the row it has looked up:     *)
(* existence, then expiry, then password.                                  *)
Admission(f, good, t) ==
    IF f = NoRow THEN "notFound"
    ELSE IF ExpiredAt(f, t) THEN "expired"
    ELSE IF f.protected /\ ~good THEN "wrongPassword"
    ELSE "ok"

(* Mutant: AND downloaded_at IS NULL is missing. *)
FreshForever(f) == f # NoRow

(* UPDATE ... WHERE slug = ? AND downloaded_at IS NULL finds the row. *)
Fresh(f) == f # NoRow /\ ~f.downloaded

Downloaded(f) == [f EXCEPT !.downloaded = TRUE]
=============================================================================
