------------------------------- MODULE MCPrune -------------------------------
(***************************************************************************)
(* Three backups on two days; passes that keep one or two days, or one     *)
(* week, or that are refused because they keep nothing.                    *)
(***************************************************************************)
EXTENDS Prune, TLC

MCBucketOf == [r \in Rules |->
  CASE r = "daily" -> [b \in Backups |-> IF b = 1 THEN 1 ELSE b - 1]
    [] r \in {"weekly", "monthly"} -> [b \in Backups |-> 1]]

KeepDays(n) == [r \in Rules |-> IF r = "daily" THEN n ELSE 0]

MCPolicyChoices == {KeepDays(0), KeepDays(1), KeepDays(2)}

PassSymmetry == Permutations(Passes)
=============================================================================
