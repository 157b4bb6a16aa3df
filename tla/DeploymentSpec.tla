--------------------------- MODULE DeploymentSpec ---------------------------
(***************************************************************************)
(* What the lossless deployment promises its operator, with nothing of how *)
(* it keeps the promise: a run replaces the product objects of all its     *)
(* databases in one step, only where every one of them is acceptable, and  *)
(* each database keeps a receipt of the run and the rows it replaced.      *)
(***************************************************************************)
CONSTANTS Databases, \* the databases of the instance
          Runs       \* the identities of deployment runs
VARIABLE db          \* committed contents of every database

(* Contents a run may start from: no table of another shape and no module  *)
(* of another object type under a product name, no custom row on a shipped *)
(* key.                                                                    *)
Acceptable(c) == /\ c.table \in {"absent", "older", "canonical"}
                 /\ c.module \in {"absent", "older", "canonical"}
                 /\ c.row # "conflict"

(* What a run leaves of acceptable contents.                               *)
Installed(c, run) ==
  [table |-> "canonical", row |-> "seed", module |-> "canonical",
   receipts |-> c.receipts \cup {run},
   archive |-> c.archive \cup (IF c.table = "absent" THEN {} ELSE {<<run, c.row>>})]

(* One run, on all its databases at once.                                  *)
Deploy(targets, run) ==
  /\ \A x \in targets : Acceptable(db[x]) /\ run \notin db[x].receipts
  /\ db' = [x \in Databases |-> IF x \in targets THEN Installed(db[x], run) ELSE db[x]]

(* Anybody else changes one product object; receipts and archives are not  *)
(* theirs.                                                                 *)
Outside(x) ==
  \E field \in {"table", "module", "row"} :
    /\ \A y \in Databases \ {x} : db'[y] = db[y]
    /\ \A f \in DOMAIN db[x] \ {field} : db'[x][f] = db[x][f]
    /\ DOMAIN db' = Databases /\ DOMAIN db'[x] = DOMAIN db[x]

Init == \A x \in Databases : db[x].receipts = {} /\ db[x].archive = {}

Next == \/ \E targets \in SUBSET Databases, run \in Runs : Deploy(targets, run)
        \/ \E x \in Databases : Outside(x)

Spec == Init /\ [][Next]_db
=============================================================================
