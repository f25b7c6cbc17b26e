----------------------------- MODULE QueryResult -----------------------------
(***************************************************************************)
(* What an operator tree promises its consumer: between open and close it  *)
(* hands out the rows of its result, in order and each once, says that     *)
(* there are no more exactly when there are none, and starts over when it  *)
(* is opened again.  A tree that sorts on a column that is not there fails *)
(* to open; one that sorts on values that cannot be compared may fail.     *)
(* QueryPlan is shown to implement it.                                     *)
(***************************************************************************)
EXTENDS Integers, Sequences

VARIABLES
    result,
    fails,          \* whether the tree sorts on a missing column
    mayFail,        \* whether it compares values for which lessThan throws
    mode, produced

query == <<result, fails, mayFail>>
qrVars == <<query, mode, produced>>

QRInit == mode = "closed" /\ produced = <<>>

QROpen ==
    /\ mode = "closed"
    /\ mode' = "open"
    /\ produced' = <<>>
    /\ UNCHANGED query

QRFail ==
    /\ mode = "open" /\ (fails \/ mayFail)
    /\ mode' = "failed"
    /\ UNCHANGED <<query, produced>>

QRProduce ==
    /\ mode = "open" /\ ~fails
    /\ Len(produced) < Len(result)
    /\ produced' = Append(produced, result[Len(produced) + 1])
    /\ UNCHANGED <<query, mode>>

QREnd ==
    /\ mode = "open" /\ ~fails
    /\ produced = result
    /\ mode' = "ended"
    /\ UNCHANGED <<query, produced>>

QRClose ==
    /\ mode \in {"open", "ended"}
    /\ mode' = "closed"
    /\ UNCHANGED <<query, produced>>

QRNext == QROpen \/ QRFail \/ QRProduce \/ QREnd \/ QRClose

QRSpec == QRInit /\ [][QRNext]_qrVars
=============================================================================
