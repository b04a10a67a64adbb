------------------------- MODULE BundleStatusFlow -------------------------
(***************************************************************************)
(* What the life of a bundle looks like from outside: the status flow of   *)
(* get_available_actions (one row per status, one entry per button), with  *)
(* a publication that may fail and a deletion.  NEW and DELETED stand for  *)
(* no row.                                                                 *)
(***************************************************************************)
CONSTANT Bundle

VARIABLE status

\* The buttons a bundle offers in each status, as the statuses they lead to;
\* a save that changes no status is a stutter.
Offered(s) ==
  CASE s = "NEW"       -> {"DRAFT"}
    [] s = "DRAFT"     -> {"IN_REVIEW", "DELETED"}
    [] s = "IN_REVIEW" -> {"DRAFT", "APPROVED", "DELETED"}
    [] s = "APPROVED"  -> {"DRAFT", "IN_REVIEW", "PUBLISHED"}
    [] OTHER           -> {}

\* publish_bundle corrects the status of a bundle it could not publish.
Corrected(s) ==
  IF s = "PUBLISHED" THEN {"FAILED", "PARTIALLY_PUBLISHED"} ELSE {}

Init == status = [b \in Bundle |-> "NEW"]

Move(b) ==
  \E s \in Offered(status[b]) \cup Corrected(status[b]) :
    status' = [status EXCEPT ![b] = s]

Next == \E b \in Bundle : Move(b)

Spec == Init /\ [][Next]_status
===========================================================================
