----------------------------- MODULE RtmxStore -----------------------------
(***************************************************************************)
(* The rtmx database as internal/rtmx/store.go keeps it: one CSV file,     *)
(* replaced whole by an atomic rename, and a claims/ directory with one    *)
(* file per claimed requirement.                                           *)
(*                                                                         *)
(* A requirement is its row number in the CSV (file order matters: Next    *)
(* returns the first claimable row); ids are distinct.  Of a row the model *)
(* keeps the status and the dependencies columns.  A dependency that is    *)
(* not a row number is an id the file does not hold.                       *)
(***************************************************************************)
EXTENDS Naturals

CONSTANTS N,     \* number of rows
          Deps   \* Deps[r]: the ids in row r's dependencies column

ASSUME StoreAssumption == /\ N \in Nat \ {0}
                          /\ Deps \in [1..N -> SUBSET Nat]

VARIABLES db,      \* the status column of database.csv
          claims   \* the requirements that have a file in claims/

storeVars == <<db, claims>>

Req == 1..N

(* The texts of the status column, and the lifecycle states they mean. *)
CsvStatus == {"OPEN", "PLANNED", "PARTIAL", "COMPLETE", "BLOCKED", "PROPOSED"}

statusFromCSV(s) == CASE s = "COMPLETE" -> "closed"
                      [] s = "BLOCKED"  -> "blocked"
                      [] s = "PROPOSED" -> "proposed"
                      [] OTHER          -> "open"

(* Slips of statusToCSV: the lifecycle name written as it is, and a parked *)
(* requirement falling through to the default.                             *)
statusToCSV_Verbatim(st)  == st
statusToCSV_NoBlocked(st) == IF st = "closed" THEN "COMPLETE" ELSE "OPEN"

statusToCSV(st) == CASE st = "closed"   -> "COMPLETE"
                     [] st = "blocked"  -> "BLOCKED"
                     [] st = "proposed" -> "PROPOSED"
                     [] OTHER           -> "OPEN"

(* Slip: an id the file does not hold is taken for satisfied. *)
ready_IgnoringUnknown(rows, r) ==
    \A d \in Deps[r] \cap Req : statusFromCSV(rows[d]) = "closed"

(* Every dependency of r is a row whose status, in the given rows, is closed. *)
ready(rows, r) ==
    \A d \in Deps[r] : d \in Req /\ statusFromCSV(rows[d]) = "closed"

isClaimed(r) == r \in claims

(* Slip: anything that is not finished is handed out. *)
claimable_NotFinished(rows, r) ==
    /\ statusFromCSV(rows[r]) \notin {"closed", "blocked"}
    /\ ~ isClaimed(r)
    /\ ready(rows, r)

(* The test Next applies to one row: open in the rows it has read, no      *)
(* claim file at this moment, dependencies closed in the rows it has read. *)
claimable(rows, r) ==
    /\ statusFromCSV(rows[r]) = "open"
    /\ ~ isClaimed(r)
    /\ ready(rows, r)

(* Slip: the claim file is opened without O_EXCL. *)
Claim_NoExcl(r) == claims' = claims \cup {r}

(* Claim creates the claim file with O_EXCL; its failure is ~ ENABLED. *)
Claim(r) ==
    /\ ~ isClaimed(r)
    /\ claims' = claims \cup {r}

(* Release removes the claim file, whoever created it. *)
Release(r) == claims' = claims \ {r}

(* SetStatus writes back ALL the rows it has read, with row r's changed. *)
SetStatus(rows, r, st) == db' = [rows EXCEPT ![r] = statusToCSV(st)]

StoreTypeOK == /\ db \in [Req -> CsvStatus]
               /\ claims \subseteq Req
=============================================================================
