------------------------------ MODULE ObjectKey ------------------------------
(***************************************************************************)
(* Where backups land in a bucket and which of them a retention pass takes *)
(* for its own: object keys, the scope of a configuration, the identity in *)
(* a manifest and the pin of a pass to a backup (RequireScope).            *)
(*                                                                         *)
(* A string is a sequence of characters; the space and the underscore are  *)
(* spelled out.  A key and a scope are what path.Join makes of them: the   *)
(* sequence of their segments, the slash that ends a scope left out.  A    *)
(* pass is one step here; module Prune has its calls.                      *)
(***************************************************************************)
EXTENDS Integers, SequencesExt

CONSTANTS
  Chars,       \* the characters that names are made of
  Configs,     \* the configurations: engine, host, port, database, prefix as it is written
  Jobs,        \* the stored jobs that back up and prune
  BackupIDs,   \* the ids of the backups in the order they are written: as many as may be (bound)
  MaxEdits     \* bound: times that a stored job is edited

Strings == Seq(Chars)

ConfigRecords ==
  [engine : {"postgres", "mysql"}, host : Strings, port : Strings, database : Strings, prefix : Strings]

VARIABLES
  conf,     \* the configuration of each job
  written,  \* the backups in the order they were written: key and configuration
  present,  \* those that are in the bucket
  deletes,  \* history: which backup was deleted by a pass of which configuration
  pass,     \* history: the last pass: configuration, pinning backup, refused or not
  edits     \* bound: edits so far

vars == <<conf, written, present, deletes, pass, edits>>

-----------------------------------------------------------------------------
(* Strings.                                                                *)

\* The hexadecimal digits of the characters that are encoded; control characters
\* go the way of the space.
Encoded ==
  [c \in {"/", "%", "space", "\\"} |->
     CASE c = "/" -> <<"2", "F">> [] c = "%" -> <<"2", "5">> [] c = "space" -> <<"2", "0">> [] c = "\\" -> <<"5", "C">>]

Escape(c) == IF c \in DOMAIN Encoded THEN <<"%">> \o Encoded[c] ELSE <<c>>

\* Mutant: an unsafe character is replaced, not encoded.
SanitizeLossy(s) == [i \in DOMAIN s |-> IF s[i] \in DOMAIN Encoded THEN "underscore" ELSE s[i]]

SanitizeKeySegment(s) ==
  CASE s \in {<<".">>, <<".", ".">>} -> FlattenSeq([i \in DOMAIN s |-> <<"%", "2", "E">>])
    [] s = <<>> -> <<"%">>
    [] OTHER -> FlattenSeq([i \in DOMAIN s |-> Escape(s[i])])

\* The segments between the slashes of a string, character by character.
SplitAt(segs, c) ==
  IF c = "/" THEN Append(segs, <<>>) ELSE [segs EXCEPT ![Len(segs)] = Append(@, c)]

Split(s) ==
  LET segs[i \in 0..Len(s)] == IF i = 0 THEN << <<>> >> ELSE SplitAt(segs[i - 1], s[i])
  IN  segs[Len(s)]

\* path.Clean, segment by segment: empty and "." segments vanish, ".." takes the segment
\* before it along.
Enter(path, seg) ==
  CASE seg \in {<<>>, <<".">>} -> path
    [] seg = <<".", ".">> /\ path # <<>> /\ Last(path) # seg -> Front(path)
    [] OTHER -> Append(path, seg)

Clean(segs) ==
  LET path[i \in 0..Len(segs)] == IF i = 0 THEN <<>> ELSE Enter(path[i - 1], segs[i])
  IN  path[Len(segs)]

PathJoin(strings) == Clean(FlattenSeq([i \in DOMAIN strings |-> Split(strings[i])]))

\* path.Dir of a path that has that many segments to lose.
PathDir(path) == Front(path)

\* strings.Trim of the slashes at both ends.
Trim(s) ==
  LET others == {i \in DOMAIN s : s[i] # "/"}
  IN  IF others = {} THEN <<>> ELSE SubSeq(s, Min(others), Max(others))

\* The path of a URL: what comes before a query or a fragment, percent signs decoded.
BeforeQuery(s) ==
  LET ends == {i \in DOMAIN s : s[i] \in {"?", "#"}}
  IN  IF ends = {} THEN s ELSE SubSeq(s, 1, Min(ends) - 1)

\* A path that url.Parse takes: every percent sign begins a character that can be decoded.
WellFormed(p) ==
  \A i \in DOMAIN p : p[i] = "%" => \E c \in DOMAIN Encoded : i + 2 \in DOMAIN p /\ Encoded[c] = <<p[i + 1], p[i + 2]>>

URLPath(s) ==
  LET p == BeforeQuery(s)
  IN  FlattenSeq([i \in DOMAIN p |->
        CASE p[i] = "%" -> <<CHOOSE c \in DOMAIN Encoded : Encoded[c] = <<p[i + 1], p[i + 2]>> >>
          [] p[i] # "%" /\ \E k \in {i - 1, i - 2} \cap DOMAIN p : p[k] = "%" -> <<>>
          [] OTHER -> <<p[i]>>])

\* The prefix that parseDest finds in the URL of a destination.
ParseDest(prefix) == Trim(URLPath(prefix))

\* The configurations are those whose destination can be parsed.  An id is a letter of its
\* own: newBackupID makes it of digits, letters and a hyphen.
ASSUME ObjectKeyAssumption ==
  /\ {"/", "%", "space", "\\", ".", "underscore", "0", "2", "5", "C", "E", "F"} \subseteq Chars
  /\ Configs \subseteq ConfigRecords /\ Configs # {}
  /\ \A c \in Configs : WellFormed(BeforeQuery(c.prefix))
  /\ BackupIDs \in Seq(Chars \ {"/", "."})

-----------------------------------------------------------------------------
(* Keys, scopes and identities.                                            *)

DefaultPort == [postgres |-> <<"5", "4", "3", "2">>, mysql |-> <<"3", "3", "0", "6">>]

\* The cluster label: a port that is not the default one is folded in.
Label(c) == IF c.port = DefaultPort[c.engine] THEN c.host ELSE c.host \o <<"underscore">> \o c.port

Cluster(c) == SanitizeKeySegment(Label(c))

ObjectKey(c, n) ==
  PathJoin(<<ParseDest(c.prefix), <<c.engine>>, Cluster(c), SanitizeKeySegment(c.database),
             <<"2026">>, <<"01">>, <<BackupIDs[n]>> >>)

Scope(c) == PathJoin(<<ParseDest(c.prefix), <<c.engine>>, Cluster(c), SanitizeKeySegment(c.database)>>)

\* The engine, cluster and database that a manifest claims and a scope requires.
ScopeOwner(c) == <<c.engine, Cluster(c), c.database>>

\* Mutant: the manifest's identity is not compared.
MatchesAny(owner, m) == TRUE

Matches(owner, m) == owner = m

\* Mutant: one path.Dir too few.
BackupScopeShort(key) == PathDir(PathDir(key))

BackupScope(key) == PathDir(PathDir(PathDir(key)))

Inside(scope, key) == IsStrictPrefix(scope, key)

\* The scope and the owner of every configuration.
ScopeOf == [c \in Configs |-> Scope(c)]
OwnerOf == [c \in Configs |-> ScopeOwner(c)]

-----------------------------------------------------------------------------
NoPass == [conf |-> CHOOSE c \in Configs : TRUE, pin |-> 0, refused |-> FALSE]

Init ==
  /\ conf \in [Jobs -> Configs]
  /\ written = <<>> /\ present = {} /\ deletes = {}
  /\ pass = NoPass /\ edits = 0

\* Run writes a backup under the key that its configuration gives.
Run(j) ==
  /\ Len(written) < Len(BackupIDs)
  /\ written' = Append(written, [key |-> ObjectKey(conf[j], Len(written) + 1), conf |-> conf[j], job |-> j])
  /\ present' = present \cup {Len(written) + 1}
  /\ UNCHANGED <<conf, deletes, pass, edits>>

\* What a pass that keeps one backup drops: the listed backups whose manifest has
\* the identity of the scope, all but the newest.
Dropped(c) ==
  LET valid == {i \in present : /\ Inside(ScopeOf[c], written[i].key)
                                /\ Matches(OwnerOf[c], OwnerOf[written[i].conf])}
  IN  {i \in valid : \E k \in valid : k > i}

\* Prune, pinned to a backup of the job or not.  A scope that is not the pinned one
\* is refused before anything is listed, a key outside the scope before anything
\* is deleted (guardKeys).
Prune(j) ==
  /\ \E pin \in {0} \cup {i \in DOMAIN written : written[i].job = j} :
       LET c == conf[j]
           refused == \/ pin # 0 /\ BackupScope(written[pin].key) # ScopeOf[c]
                      \/ \E i \in Dropped(c) : ~Inside(ScopeOf[c], written[i].key)
       IN  /\ pass' = [conf |-> c, pin |-> pin, refused |-> refused]
           /\ present' = IF refused THEN present ELSE present \ Dropped(c)
           /\ deletes' = IF refused THEN deletes ELSE deletes \cup ({c} \X Dropped(c))
  /\ UNCHANGED <<conf, written, edits>>

\* The stored connection or destination is edited.
Edit(j) ==
  /\ edits < MaxEdits /\ edits' = edits + 1
  /\ \E c \in Configs : conf' = [conf EXCEPT ![j] = c]
  /\ UNCHANGED <<written, present, deletes, pass>>

Next == \E j \in Jobs : Run(j) \/ Prune(j) \/ Edit(j)

Spec == Init /\ [][Next]_vars

-----------------------------------------------------------------------------
(* Properties.                                                             *)

Database(c) == <<c.engine, c.host, c.port, c.database>>

\* No two servers have one label: no host is named as another one with its port.
LabelsApart ==
  \A c, d \in Configs : c.engine = d.engine /\ Label(c) = Label(d) => c.host = d.host /\ c.port = d.port

\* A pass deletes only backups of its own database, also where the scopes of two
\* destinations lie inside each other (backupScope, scopeOwner.matches).
OwnBackupsOnly ==
  \A d \in deletes : Database(written[d[2]].conf) = Database(d[1])

\* Under one destination the scopes of two databases are apart: whatever their names
\* are made of, no pass even lists the other's backups (sanitizeKeySegment).
ScopesApart ==
  \A j \in Jobs : \A i \in DOMAIN written :
    written[i].conf.prefix = conf[j].prefix /\ Database(written[i].conf) # Database(conf[j])
      => ~Inside(ScopeOf[conf[j]], written[i].key)

\* A pass pinned to a backup is not refused if its configuration is still the one of
\* that backup, and when it is not refused it works where that backup landed
\* (BackupScope against backupScope, RequireScope).
PinIsRight ==
  pass.pin # 0 =>
    /\ pass.conf = written[pass.pin].conf => ~pass.refused
    /\ ~pass.refused => Inside(ScopeOf[pass.conf], written[pass.pin].key)
=============================================================================
