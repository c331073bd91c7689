-------------------------- MODULE MCSelectRetention --------------------------
(***************************************************************************)
(* Seven backups on five days, in three weeks and three months; a week     *)
(* spans the end of a month.                                               *)
(***************************************************************************)
EXTENDS SelectRetention

MCBucketOf == [r \in Rules |->
  CASE r = "daily"   -> [b \in Backups |-> <<1, 1, 2, 3, 4, 4, 5>>[b]]
    [] r = "weekly"  -> [b \in Backups |-> <<1, 1, 1, 2, 2, 2, 3>>[b]]
    [] r = "monthly" -> [b \in Backups |-> <<1, 1, 2, 2, 2, 2, 3>>[b]]]
=============================================================================
