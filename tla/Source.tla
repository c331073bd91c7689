------------------------------- MODULE Source -------------------------------
(***************************************************************************)
(* The database drivers: what a run checks of its source before it starts  *)
(* the dump client, and what the client then meets.  The server and the    *)
(* installed clients may change between any two steps of the run.          *)
(*                                                                         *)
(* The connection's DSN is a record of what the drivers look at; a         *)
(* parameter that is not given is "unset".  The protection of a connection *)
(* is a level: 0 plain, 1 encrypted, 2 with the certificate's authority    *)
(* verified, 3 with its host name as well; Refused where the two sides     *)
(* cannot agree.                                                           *)
(***************************************************************************)
EXTENDS Integers, SequencesExt

CONSTANTS
  Setups,    \* the situations: DSN, options, server, installed clients
  Majors,    \* the major versions of servers and clients
  MaxEvents  \* bound: changes and failed calls in one behaviour

\* A connection string, a server and a situation.  roots: the dump client has root
\* certificates of its own, from its option file or its home directory.
DSNs == [engine : {"mysql", "postgres"}, database : BOOLEAN, sslMode : STRING, tls : STRING, rootcert : BOOLEAN]

GrantRow == [stmt : {"GRANT", "REVOKE"}, privs : SUBSET STRING, on : STRING, quoted : BOOLEAN]

Servers ==
  [engine : {"mysql", "postgres"}, major : Nat, tls : {"none", "optional", "required"},
   cert : {"private", "wrongHost", "good"}, tables : SUBSET {"unreadable", "nonInnoDB"}, grants : SUBSET GrantRow, old : BOOLEAN]

Situations ==
  [dsn : DSNs, allow : BOOLEAN, server : Servers, clients : Seq(Nat \ {0}), roots : BOOLEAN,
   doctorDB : {"same", "other", "none"}, dest : {"none", "missing", "unresolved", "ok"},
   perms : SUBSET {"write", "read", "delete"}, recipient : {"none", "valid", "bad"}]

\* A run's driver is chosen by the scheme of its DSN, which is the server's protocol; a
\* PostgreSQL DSN has no parameter tls that anything would read.
ASSUME SourceAssumption ==
  /\ Setups \subseteq Situations
  /\ \A s \in Setups : s.dsn.engine = s.server.engine /\ (s.dsn.engine = "postgres" => s.dsn.tls = "unset")
  /\ Majors \subseteq Nat \ {0}

MinSupportedPGMajor == 14
MaxSupportedPGMajor == 18

VARIABLES
  setup,    \* what the run was started with
  db,       \* the server: engine, major, TLS, certificate, tables, grants
  clients,  \* the majors of the installed pg_dump clients, in the order they are found
  events,   \* history: what changed or failed meanwhile
  pc,       \* where the run is
  chosen,   \* the client that Preflight selected, by its major
  warned,   \* whether the user was warned of tables without transactions
  level,    \* history: the protection of the run's own connection and of the client's
  outcome   \* how the run's dump ended

worldVars == <<setup, db, clients, events>>
runVars == <<pc, chosen, warned, level, outcome>>

Refused == -1
NoLevel == 4

Happened(e) == Len(events) < MaxEvents /\ events' = Append(events, e)

-----------------------------------------------------------------------------
(* DSNs and TLS.                                                           *)

\* mysqlSSLModes: the tls parameter of the Go driver for each ssl-mode.
MySQLSSLModes ==
  [m \in {"unset", "DISABLED", "PREFERRED", "REQUIRED", "VERIFY_CA", "VERIFY_IDENTITY"} |->
     CASE m = "unset" -> "unset" [] m = "DISABLED" -> "false" [] m = "PREFERRED" -> "preferred"
       [] m = "REQUIRED" -> "skip-verify" [] m \in {"VERIFY_CA", "VERIFY_IDENTITY"} -> "true"]

\* The ssl-mode that each spelling of tls= stands for.
TLSSpellings ==
  [t \in {"true", "false", "skip-verify", "preferred"} |->
     CASE t = "true" -> "VERIFY_IDENTITY" [] t = "false" -> "DISABLED"
       [] t = "skip-verify" -> "REQUIRED" [] t = "preferred" -> "PREFERRED"]

\* Whether newDriver takes the DSN: a database, known TLS parameters, no two of them
\* that disagree.
ValidDSN(d) ==
  /\ d.database
  /\ d.engine = "mysql" =>
       /\ d.sslMode \in DOMAIN MySQLSSLModes
       /\ d.tls # "unset" => d.tls \in DOMAIN TLSSpellings /\ d.sslMode \in {"unset", TLSSpellings[d.tls]}

SSLMode(d) == IF d.tls = "unset" THEN d.sslMode ELSE TLSSpellings[d.tls]

\* What the server and a client settle on when the client wants at least level low
\* and would take up to level high.
Negotiate(low, high, s, trusted) ==
  LET verified == IF ~trusted THEN 1 ELSE IF s.cert = "wrongHost" THEN 2 ELSE 3
      best == IF s.tls = "none" \/ high = 0 THEN 0 ELSE verified
  IN  IF best < low \/ (s.tls = "required" /\ best = 0) THEN Refused
      ELSE IF best < high THEN best ELSE high

\* The Go driver: no parameter means no TLS, true means verified with the host name.
GoConnect(tls, s) ==
  CASE tls \in {"unset", "false"} -> Negotiate(0, 0, s, FALSE)
    [] tls = "preferred"     -> Negotiate(0, 1, s, FALSE)
    [] tls = "skip-verify"   -> Negotiate(1, 1, s, FALSE)
    [] tls = "true"          -> Negotiate(3, 3, s, s.cert # "private")

\* mysqldump: its own default is PREFERRED, and it verifies against its own roots.
MySQLDumpConnect(mode, roots, s) ==
  CASE mode = "DISABLED"        -> Negotiate(0, 0, s, FALSE)
    [] mode \in {"unset", "PREFERRED"} -> Negotiate(0, 1, s, FALSE)
    [] mode = "REQUIRED"        -> Negotiate(1, 1, s, FALSE)
    [] mode = "VERIFY_CA"       -> Negotiate(2, 2, s, roots /\ s.cert # "private")
    [] mode = "VERIFY_IDENTITY" -> Negotiate(3, 3, s, roots /\ s.cert # "private")

\* libpq's rules, which pgx shares: the default is prefer, a private authority is
\* trusted if its certificate is given, which also makes require verify, and a word that
\* is no mode is an error.
PgConnect(mode, rootcert, roots, s) ==
  LET trusted == rootcert \/ (roots /\ s.cert # "private")
  IN  CASE mode = "disable"        -> Negotiate(0, 0, s, FALSE)
        [] mode = "allow"          -> Negotiate(0, IF s.tls = "required" THEN 1 ELSE 0, s, FALSE)
        [] mode \in {"unset", "prefer"} -> Negotiate(0, 1, s, FALSE)
        [] mode = "require"        -> IF rootcert THEN Negotiate(2, 2, s, TRUE) ELSE Negotiate(1, 1, s, FALSE)
        [] mode = "verify-ca"      -> Negotiate(2, 2, s, trusted)
        [] mode = "verify-full"    -> Negotiate(3, 3, s, trusted)
        [] OTHER                   -> Refused

\* The run's own connection: goDSN, or the whole DSN for pgx.  Go has the roots of the
\* system.
ProbeLevel(d, s) ==
  IF d.engine = "mysql" THEN GoConnect(MySQLSSLModes[SSLMode(d)], s)
                        ELSE PgConnect(d.sslMode, d.rootcert, TRUE, s)

\* Mutant: the dump client is not given the root certificate or the ssl-mode.
DumpLevelBare(d, roots, s) ==
  IF d.engine = "mysql" THEN MySQLDumpConnect("unset", roots, s) ELSE PgConnect(d.sslMode, FALSE, roots, s)

\* The dump client's connection: sslArgs, or the environment of dumpCommandWith.
DumpLevel(d, roots, s) ==
  IF d.engine = "mysql" THEN MySQLDumpConnect(SSLMode(d), roots, s)
                        ELSE PgConnect(d.sslMode, d.rootcert, roots, s)

-----------------------------------------------------------------------------
(* pg_dump clients.                                                        *)

CheckSupportedPGMajor(m) == m \in MinSupportedPGMajor..MaxSupportedPGMajor

\* Mutant: the last newer client wins, not the smallest.
SelectPgDumpLast(cs, server) ==
  IF server \in Range(cs) THEN server
  ELSE FoldLeft(LAMBDA newer, c : IF c > server THEN c ELSE newer, 0, cs)

\* A round of the loop over the clients: the smaller of the newer majors.
SmallerNewer(newer, c, server) == IF c > server /\ (newer = 0 \/ c < newer) THEN c ELSE newer

\* The loop: an exact match, or else the smallest newer major; 0 when there is neither.
SelectPgDump(cs, server) ==
  LET newer[i \in 0..Len(cs)] == IF i = 0 THEN 0 ELSE SmallerNewer(newer[i - 1], cs[i], server)
  IN  IF server \in Range(cs) THEN server ELSE newer[Len(cs)]

-----------------------------------------------------------------------------
(* The run.                                                                *)

RunInit ==
  /\ setup \in Setups
  /\ db = setup.server /\ clients = setup.clients /\ events = <<>>
  /\ pc = "test" /\ chosen = 0 /\ warned = FALSE
  /\ level = [probe |-> NoLevel, dump |-> NoLevel] /\ outcome = "none"

RunEnds(kind) == pc' = "ended" /\ outcome' = kind

\* A call to the server fails.  MySQL's rows may also fail while they are read, which
\* nobody classifies.
CallFails ==
  /\ pc \in {"test", "preflight", "dumping"}
  /\ Happened("fault")
  /\ \E kind \in CASE pc = "test" -> {"connect"}
                   [] pc = "preflight" -> {"connect", "unknown"}
                   [] pc = "dumping" -> {"dump"} :
       (kind = "unknown" => db.engine = "mysql") /\ RunEnds(kind)
  /\ UNCHANGED <<setup, db, clients, chosen, warned, level>>

\* newDriver and TestConnection.  A PostgreSQL DSN that does not parse is not
\* classified.
TestConnection ==
  /\ pc = "test"
  /\ IF ~ValidDSN(setup.dsn)
       THEN RunEnds(IF setup.dsn.engine = "mysql" THEN "connect" ELSE "unknown") /\ UNCHANGED level
       ELSE LET l == ProbeLevel(setup.dsn, db)
            IN  IF l = Refused THEN RunEnds("connect") /\ UNCHANGED level
                ELSE /\ pc' = "preflight" /\ level' = [level EXCEPT !.probe = l]
                     /\ UNCHANGED outcome
  /\ UNCHANGED <<worldVars, chosen, warned>>

\* Preflight of PostgreSQL: a supported server and a client for it.
PreflightPostgres ==
  /\ pc = "preflight" /\ db.engine = "postgres"
  /\ LET c == SelectPgDump(clients, db.major)
     IN  IF CheckSupportedPGMajor(db.major) /\ c # 0
           THEN pc' = "start" /\ chosen' = c /\ UNCHANGED outcome
           ELSE RunEnds("dump") /\ UNCHANGED chosen
  /\ UNCHANGED <<worldVars, warned, level>>

\* Mutant: the engines of the tables are not looked at.
PreflightMySQLBlind ==
  /\ pc = "preflight" /\ db.engine = "mysql"
  /\ pc' = "start"
  /\ UNCHANGED <<worldVars, chosen, warned, level, outcome>>

\* Preflight of MySQL: tables that have no consistent snapshot refuse the run, or warn
\* if the user allowed them.
PreflightMySQL ==
  /\ pc = "preflight" /\ db.engine = "mysql"
  /\ IF "nonInnoDB" \in db.tables /\ ~setup.allow
       THEN RunEnds("dump") /\ UNCHANGED warned
       ELSE pc' = "start" /\ warned' = ("nonInnoDB" \in db.tables) /\ UNCHANGED outcome
  /\ UNCHANGED <<worldVars, chosen, level>>

\* BuildDumpCommand and its start: the client must still be there.
StartDump ==
  /\ pc = "start"
  /\ IF IF db.engine = "postgres" THEN chosen \in Range(clients) ELSE clients # <<>>
       THEN /\ pc' = "dumping" /\ UNCHANGED outcome
            /\ level' = [level EXCEPT !.dump = DumpLevel(setup.dsn, setup.roots, db)]
       ELSE RunEnds("dump") /\ UNCHANGED level
  /\ UNCHANGED <<worldVars, chosen, warned>>

\* The client: it has to connect, to be as new as a PostgreSQL server and to read
\* every table.
DumpEnds ==
  /\ pc = "dumping"
  /\ LET works == /\ level.dump # Refused
                  /\ db.engine = "postgres" => chosen >= db.major
                  /\ "unreadable" \notin db.tables
     IN  RunEnds(IF works THEN "ok" ELSE "dump")
  /\ UNCHANGED <<worldVars, chosen, warned, level>>

\* A table is created or altered, the server is upgraded, the clients are exchanged.
WorldChanges ==
  /\ \/ \E t \in {"unreadable"} \cup {"nonInnoDB" : x \in {db.engine} \cap {"mysql"}} :
          Happened("tables") /\ db' = [db EXCEPT !.tables = @ \cup {t}] /\ UNCHANGED clients
     \/ \E m \in Majors :
          /\ db.engine = "postgres" /\ m > db.major
          /\ Happened("server") /\ db' = [db EXCEPT !.major = m] /\ UNCHANGED clients
     \/ \E m \in Majors : Happened("clients") /\ clients' = <<m>> /\ UNCHANGED db
  /\ UNCHANGED <<setup, runVars>>

RunNext ==
  \/ TestConnection \/ PreflightPostgres \/ PreflightMySQL \/ StartDump \/ DumpEnds
  \/ CallFails \/ WorldChanges

-----------------------------------------------------------------------------
(* Properties.                                                             *)

\* The protection that a word of the DSN asks for, whatever parameter it is given to,
\* and that the words of a DSN ask for, each by itself.
AskedBy(word) ==
  CASE word \in {"VERIFY_IDENTITY", "verify-full", "true"} -> 3
    [] word \in {"VERIFY_CA", "verify-ca"} -> 2
    [] word \in {"REQUIRED", "require", "skip-verify"} -> 1
    [] OTHER -> 0

Asked(d) == IF AskedBy(d.sslMode) > AskedBy(d.tls) THEN AskedBy(d.sslMode) ELSE AskedBy(d.tls)

\* The dump client is to verify the server and has nothing to verify it with.
Rootless == Asked(setup.dsn) >= 2 /\ ~setup.roots /\ (setup.dsn.engine = "postgres" => ~setup.dsn.rootcert)

\* A DSN that asks for TLS gets it, on the run's own connection and on the dump
\* client's, or an error; and the dump client connects wherever the run's own connection
\* did, for every parameter that matters reaches it, unless it has to verify the server
\* and has no roots (parseMySQLDSN, goDSN, sslArgs, dumpCommandWith).
TLSIsHonoured ==
  /\ \A c \in {"probe", "dump"} : level[c] >= Asked(setup.dsn) \/ level[c] = Refused
  /\ level.dump = Refused => Rootless

\* The client that dumps a PostgreSQL server is the one with the smallest major that
\* can, of those that Preflight found, and a run that is refused for want of a client
\* had none (selectPgDump).
RightClient ==
  db.engine = "postgres" /\ events = <<>> =>
    LET able == {m \in Range(clients) : m >= db.major}
    IN  /\ chosen # 0 => chosen \in able /\ \A m \in able : chosen <= m
        /\ outcome = "dump" /\ chosen = 0 => able = {} \/ ~CheckSupportedPGMajor(db.major)

\* A run that ends well without a warning has no table whose snapshot may be
\* inconsistent, unless one appeared after Preflight had looked (mysqlDriver.Preflight).
NoSilentInconsistency ==
  /\ outcome = "ok" /\ db.engine = "mysql" /\ "nonInnoDB" \in db.tables
  /\ "tables" \notin Range(events)
  => warned
=============================================================================
