------------------------------- MODULE MCWalG -------------------------------
(* Instances of WalG for TLC: what each request asks for. *)
EXTENDS WalG

CONSTANTS b1, b2, r1, r2, v1, v2, p1, p2

AllFaults == {"backup-list", "backup-push", "delete", "stop", "clean", "fetch",
              "signal", "start", "mkdir", "report"}

MCKindOf == [op \in Op |-> CASE op = b1          -> "full"
                             [] op = b2          -> "incremental"
                             [] op \in {r1, r2}  -> "restore"
                             [] op \in {v1, v2}  -> "verify"]
=============================================================================
