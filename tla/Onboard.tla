------------------------------- MODULE Onboard -------------------------------
(***************************************************************************)
(* The bucket policy that onboarding writes for a destination, against the *)
(* keys that backups, listings and probes then use.  The policy is a text  *)
(* that is applied once; the runs come later and parse the destination by  *)
(* themselves.                                                             *)
(***************************************************************************)
EXTENDS ObjectKey

\* Mutant: a percent sign is let through.
ValidPrefixLoose(prefix) ==
  LET p == Trim(prefix)
  IN  /\ Range(p) \cap {"*", "?", "$"} = {}
      /\ p # <<>> => Range(Split(p)) \cap {<<>>, <<".">>, <<".", ".">>} = {}

\* Whether ValidatePrefix takes a prefix.  The dollar sign stands for the beginning of
\* a policy variable; control characters are left out.
ValidPrefix(prefix) ==
  LET p == Trim(prefix)
  IN  /\ Range(p) \cap {"*", "?", "%", "$"} = {}
      /\ p # <<>> => Range(Split(p)) \cap {<<>>, <<".">>, <<".", ".">>} = {}

\* S3Policy allows what lies below the prefix, by its own reading of it.
Allows(prefix, path) ==
  Trim(prefix) = <<>> \/ IsStrictPrefix(Split(Trim(prefix)), path)

ProbeKey(prefix) == PathJoin(<<ParseDest(prefix), <<".dbferry-probe">>, <<"probe">> >>)

-----------------------------------------------------------------------------
(* Properties.                                                             *)

\* Whoever was given a policy can work with it: every backup that was written, every
\* scope that is listed and every probe lies where the policy of its prefix allows it.
\* The validator does not know of the fragment of a URL, so a prefix with # is left out
\* (ValidatePrefix and S3Policy against parseDest, objectKey and backupScope).
PolicyCoversKeys ==
  LET fits(c, path) == ValidPrefix(c.prefix) /\ "#" \notin Range(c.prefix) => Allows(c.prefix, path)
  IN  /\ \A i \in DOMAIN written : fits(written[i].conf, written[i].key)
      /\ \A j \in Jobs : fits(conf[j], ScopeOf[conf[j]]) /\ fits(conf[j], ProbeKey(conf[j].prefix))
=============================================================================
