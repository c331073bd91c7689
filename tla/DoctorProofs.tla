---------------------------- MODULE DoctorProofs ----------------------------
(***************************************************************************)
(* What a run's preflight and the doctors promise, for every situation,    *)
(* any number of doctors and any number of changes meanwhile.              *)
(***************************************************************************)
EXTENDS Doctor, WellFoundedInduction, TLAPS

-----------------------------------------------------------------------------
(* selectPgDump.  Induction over the rounds of its loop is an argument by  *)
(* the least round at which something would be wrong.                      *)

\* A set of naturals has a least one.
LEMMA LeastNatural ==
  ASSUME NEW S \in SUBSET Nat, S # {}
  PROVE  \E m \in S : \A k \in S : m <= k
<1>1. IsWellFoundedOn({p \in Nat \X Nat : p[1] < p[2]}, Nat)
  BY NatLessThanWellFounded, Zenon DEF OpToRel
<1>2. PICK x \in S : \A y \in S : <<y, x>> \notin {p \in Nat \X Nat : p[1] < p[2]}
  BY <1>1, WFMin, Zenon
<1>3. \A y \in S : y \in Nat /\ x \in Nat /\ ~(y < x)
  BY <1>2
<1> QED BY <1>3

\* f has the client found so far after each of the first n rounds of the loop.
IsLoop(f, cs, server, n) == f = [i \in 0..n |-> IF i = 0 THEN 0 ELSE SmallerNewer(f[i - 1], cs[i], server)]

\* The loop can be run for any number of rounds.
LEMMA LoopIsDefined ==
  ASSUME NEW cs, NEW server, NEW n \in Nat
  PROVE  \E f : IsLoop(f, cs, server, n)
<1> DEFINE Loop(f, m) == IsLoop(f, cs, server, m)
           B == {m \in Nat : ~\E f : Loop(f, m)}
<1> SUFFICES ASSUME B # {} PROVE FALSE
  OBVIOUS
<1>1. PICK m \in B : \A k \in B : m <= k
  BY LeastNatural
<1>2. CASE m = 0
  <2>1. Loop([i \in 0..0 |-> 0], 0)
    BY DEF IsLoop
  <2> QED BY <1>1, <1>2, <2>1
<1>3. CASE m # 0
  <2>1. m - 1 \in Nat /\ m - 1 \notin B
    BY <1>1, <1>3
  <2>2. PICK f : Loop(f, m - 1)
    BY <2>1
  <2> DEFINE g == [i \in 0..m |-> IF i = m THEN SmallerNewer(f[m - 1], cs[m], server) ELSE f[i]]
  <2>3. Loop(g, m)
    <3>1. \A i \in 0..m : i # m => i \in 0..(m - 1) /\ (i # 0 => i - 1 \in 0..(m - 1))
      BY <1>1, <1>3
    <3>2. \A i \in 0..m : i # 0 => g[i - 1] = f[i - 1]
      BY <1>1
    <3>3. \A i \in 0..m : g[i] = IF i = 0 THEN 0 ELSE SmallerNewer(g[i - 1], cs[i], server)
      BY <1>1, <1>3, <2>2, <3>1, <3>2 DEF IsLoop
    <3> HIDE DEF g
    <3> QED BY <3>3 DEF g, IsLoop
  <2> QED BY <1>1, <2>3
<1> QED BY <1>2, <1>3

\* What selectPgDump goes through where no client matches exactly.
LEMMA LoopStep ==
  ASSUME NEW cs \in Seq(Nat), NEW server \in Nat, server \notin Range(cs)
  PROVE  \E f : /\ SelectPgDump(cs, server) = f[Len(cs)]
                /\ f[0] = 0
                /\ \A i \in 1..Len(cs) : f[i] = SmallerNewer(f[i - 1], cs[i], server)
<1> DEFINE f == CHOOSE f : IsLoop(f, cs, server, Len(cs))
<1>1. Len(cs) \in Nat
  OBVIOUS
<1>2. IsLoop(f, cs, server, Len(cs))
  BY <1>1, LoopIsDefined
<1>3. SelectPgDump(cs, server) = f[Len(cs)]
  BY DEF SelectPgDump, IsLoop
<1> HIDE DEF f
<1>4. \A i \in 0..Len(cs) : f[i] = IF i = 0 THEN 0 ELSE SmallerNewer(f[i - 1], cs[i], server)
  BY <1>2, Zenon DEF IsLoop
<1>5. f[0] = 0 /\ \A i \in 1..Len(cs) : f[i] = SmallerNewer(f[i - 1], cs[i], server)
  BY <1>1, <1>4
<1> QED BY <1>3, <1>5

\* The loop ends with the smallest of the clients that are newer than the server, and
\* with 0 if there is none.
LEMMA NewerIsSmallest ==
  ASSUME NEW cs \in Seq(Nat), NEW server \in Nat, server \notin Range(cs)
  PROVE  LET c == SelectPgDump(cs, server)
             newer == {m \in Range(cs) : m > server}
         IN  /\ newer = {} => c = 0
             /\ newer # {} => c \in newer /\ \A m \in newer : c <= m
<1>1. PICK f : /\ SelectPgDump(cs, server) = f[Len(cs)]
               /\ f[0] = 0
               /\ \A i \in 1..Len(cs) : f[i] = SmallerNewer(f[i - 1], cs[i], server)
  BY LoopStep
<1> DEFINE Newer(i) == {cs[j] : j \in {x \in 1..i : cs[x] > server}}
           Right(i) == /\ Newer(i) = {} => f[i] = 0
                       /\ Newer(i) # {} => f[i] \in Newer(i) /\ \A m \in Newer(i) : f[i] <= m
           B == {i \in 0..Len(cs) : ~Right(i)}
<1>2. ASSUME B # {} PROVE FALSE
  <2> HIDE DEF Right
  <2>1. B \in SUBSET Nat
    OBVIOUS
  <2>2. PICK i \in B : \A k \in B : i <= k
    BY <1>2, <2>1, LeastNatural
  <2>3. i # 0
    BY <1>1, <2>2 DEF Right
  <2>4. i - 1 \in 0..Len(cs) /\ i \in 1..Len(cs) /\ Right(i - 1)
    BY <2>2, <2>3
  <2>5. Newer(i) = IF cs[i] > server THEN Newer(i - 1) \cup {cs[i]} ELSE Newer(i - 1)
    BY <2>4
  <2>6. f[i] = SmallerNewer(f[i - 1], cs[i], server) /\ cs[i] \in Nat /\ \A m \in Newer(i - 1) : m \in Nat /\ m > server
    BY <1>1, <2>4
  <2> HIDE DEF Newer
  <2>7. Right(i)
    BY <2>4, <2>5, <2>6 DEF SmallerNewer, Right
  <2> QED BY <2>2, <2>7
<1>3. {m \in Range(cs) : m > server} = Newer(Len(cs))
  BY DEF Range
<1>4. Right(Len(cs))
  <2>1. Len(cs) \in 0..Len(cs)
    OBVIOUS
  <2> HIDE DEF Right
  <2> QED BY <1>2, <2>1
<1> QED BY <1>1, <1>3, <1>4

\* selectPgDump returns the smallest major that can dump the server, and an error exactly
\* if there is none: for every list of clients, in every order.
THEOREM SelectPgDumpIsRight ==
  ASSUME NEW cs \in Seq(Nat \ {0}), NEW server \in Nat
  PROVE  LET c == SelectPgDump(cs, server)
             able == {m \in Range(cs) : m >= server}
         IN  /\ c = 0 => able = {}
             /\ c # 0 => c \in able /\ \A m \in able : c <= m
<1>1. Range(cs) \in SUBSET (Nat \ {0}) /\ cs \in Seq(Nat)
  BY DEF Range
<1>2. CASE server \in Range(cs)
  <2>1. SelectPgDump(cs, server) = server
    BY <1>2 DEF SelectPgDump
  <2> QED BY <1>1, <1>2, <2>1
<1>3. CASE server \notin Range(cs)
  <2>1. {m \in Range(cs) : m >= server} = {m \in Range(cs) : m > server}
    BY <1>1, <1>3
  <2> QED BY <1>1, <1>3, <2>1, NewerIsSmallest
<1> QED BY <1>2, <1>3

-----------------------------------------------------------------------------
(* TLS.                                                                    *)

\* The words.
LEMMA Words ==
  /\ \A w \in {"VERIFY_IDENTITY", "verify-full", "true"} : AskedBy(w) = 3
  /\ \A w \in {"VERIFY_CA", "verify-ca"} : AskedBy(w) = 2
  /\ \A w \in {"REQUIRED", "require", "skip-verify"} : AskedBy(w) = 1
  /\ \A w \in {"unset", "DISABLED", "PREFERRED", "false", "preferred", "disable", "allow", "prefer"} : AskedBy(w) = 0
BY DEF AskedBy

\* parseMySQLDSN loses nothing of what the parameters ask for.
LEMMA SSLModeKeepsWords ==
  ASSUME NEW d \in DSNs, d.engine = "mysql", ValidDSN(d)
  PROVE  /\ SSLMode(d) \in {"unset", "DISABLED", "PREFERRED", "REQUIRED", "VERIFY_CA", "VERIFY_IDENTITY"}
         /\ Asked(d) = AskedBy(SSLMode(d))
<1>1. d.sslMode \in {"unset", "DISABLED", "PREFERRED", "REQUIRED", "VERIFY_CA", "VERIFY_IDENTITY"}
  BY DEF ValidDSN, MySQLSSLModes
<1>2. CASE d.tls = "unset"
  <2>1. AskedBy(d.tls) = 0
    BY <1>2, Words
  <2>2. AskedBy(d.sslMode) \in 0..3
    BY <1>1, Words
  <2>3. SSLMode(d) = d.sslMode
    BY <1>2 DEF SSLMode
  <2> QED BY <1>1, <2>1, <2>2, <2>3 DEF Asked
<1>3. CASE d.tls # "unset"
  <2>1. d.tls \in {"true", "false", "skip-verify", "preferred"} /\ d.sslMode \in {"unset", TLSSpellings[d.tls]}
    BY <1>3 DEF ValidDSN, TLSSpellings
  <2>2. SSLMode(d) = TLSSpellings[d.tls]
    BY <1>3 DEF SSLMode
  <2>3. CASE d.tls = "true"
    <3>1. TLSSpellings[d.tls] = "VERIFY_IDENTITY"
      BY <2>3 DEF TLSSpellings
    <3> QED BY <2>1, <2>2, <2>3, <3>1, Words DEF Asked
  <2>4. CASE d.tls = "false"
    <3>1. TLSSpellings[d.tls] = "DISABLED"
      BY <2>4 DEF TLSSpellings
    <3> QED BY <2>1, <2>2, <2>4, <3>1, Words DEF Asked
  <2>5. CASE d.tls = "skip-verify"
    <3>1. TLSSpellings[d.tls] = "REQUIRED"
      BY <2>5 DEF TLSSpellings
    <3> QED BY <2>1, <2>2, <2>5, <3>1, Words DEF Asked
  <2>6. CASE d.tls = "preferred"
    <3>1. TLSSpellings[d.tls] = "PREFERRED"
      BY <2>6 DEF TLSSpellings
    <3> QED BY <2>1, <2>2, <2>6, <3>1, Words DEF Asked
  <2> QED BY <2>1, <2>3, <2>4, <2>5, <2>6
<1> QED BY <1>2, <1>3

\* Where the run's own connection to a MySQL server comes about, both connections have
\* what the DSN asks for.
LEMMA MySQLLevels ==
  ASSUME NEW m \in {"unset", "DISABLED", "PREFERRED", "REQUIRED", "VERIFY_CA", "VERIFY_IDENTITY"},
         NEW s \in Servers, NEW roots \in BOOLEAN, GoConnect(MySQLSSLModes[m], s) # Refused
  PROVE  LET p == GoConnect(MySQLSSLModes[m], s)
             q == MySQLDumpConnect(m, roots, s)
         IN  /\ p \in 0..3 /\ p >= AskedBy(m)
             /\ q \in -1..3 /\ (q = Refused \/ q >= AskedBy(m))
             /\ q = Refused => AskedBy(m) >= 2 /\ ~roots
<1> USE Words DEF Negotiate, Refused, Servers
<1>1. CASE m = "unset"
  <2>1. MySQLSSLModes[m] = "unset"
    BY <1>1 DEF MySQLSSLModes
  <2> QED BY <1>1, <2>1 DEF GoConnect, MySQLDumpConnect
<1>2. CASE m = "DISABLED"
  <2>1. MySQLSSLModes[m] = "false"
    BY <1>2 DEF MySQLSSLModes
  <2> QED BY <1>2, <2>1 DEF GoConnect, MySQLDumpConnect
<1>3. CASE m = "PREFERRED"
  <2>1. MySQLSSLModes[m] = "preferred"
    BY <1>3 DEF MySQLSSLModes
  <2> QED BY <1>3, <2>1 DEF GoConnect, MySQLDumpConnect
<1>4. CASE m = "REQUIRED"
  <2>1. MySQLSSLModes[m] = "skip-verify"
    BY <1>4 DEF MySQLSSLModes
  <2> QED BY <1>4, <2>1 DEF GoConnect, MySQLDumpConnect
<1>5. CASE m = "VERIFY_CA"
  <2>1. MySQLSSLModes[m] = "true"
    BY <1>5 DEF MySQLSSLModes
  <2> QED BY <1>5, <2>1 DEF GoConnect, MySQLDumpConnect
<1>6. CASE m = "VERIFY_IDENTITY"
  <2>1. MySQLSSLModes[m] = "true"
    BY <1>6 DEF MySQLSSLModes
  <2> QED BY <1>6, <2>1 DEF GoConnect, MySQLDumpConnect
<1> QED BY <1>1, <1>2, <1>3, <1>4, <1>5, <1>6

\* The same for PostgreSQL.
LEMMA PostgresLevels ==
  ASSUME NEW d \in DSNs, d.tls = "unset", NEW s \in Servers, NEW roots \in BOOLEAN,
         PgConnect(d.sslMode, d.rootcert, TRUE, s) # Refused
  PROVE  LET p == PgConnect(d.sslMode, d.rootcert, TRUE, s)
             q == PgConnect(d.sslMode, d.rootcert, roots, s)
         IN  /\ p \in 0..3 /\ p >= Asked(d)
             /\ q \in -1..3 /\ (q = Refused \/ q >= Asked(d))
             /\ q = Refused => Asked(d) >= 2 /\ ~roots /\ ~d.rootcert
<1> USE Words DEF Negotiate, Refused, Servers, DSNs
<1>1. d.sslMode \in {"unset", "disable", "allow", "prefer", "require", "verify-ca", "verify-full"}
  BY DEF PgConnect
<1>2. CASE d.sslMode \in {"unset", "prefer"}
  BY <1>2 DEF PgConnect, Asked
<1>3. CASE d.sslMode = "disable"
  BY <1>3 DEF PgConnect, Asked
<1>4. CASE d.sslMode = "allow"
  BY <1>4 DEF PgConnect, Asked
<1>5. CASE d.sslMode = "require"
  BY <1>5 DEF PgConnect, Asked
<1>6. CASE d.sslMode = "verify-ca"
  BY <1>6 DEF PgConnect, Asked
<1>7. CASE d.sslMode = "verify-full"
  BY <1>7 DEF PgConnect, Asked
<1> QED BY <1>1, <1>2, <1>3, <1>4, <1>5, <1>6, <1>7

\* Where the run's own connection comes about, both connections have what the DSN asks
\* for, and only a client without roots is refused.
LEMMA LevelsAreHonest ==
  ASSUME NEW d \in DSNs, d.engine = "postgres" => d.tls = "unset", ValidDSN(d),
         NEW s \in Servers, NEW roots \in BOOLEAN, ProbeLevel(d, s) # Refused
  PROVE  LET p == ProbeLevel(d, s)
             q == DumpLevel(d, roots, s)
         IN  /\ p \in 0..3 /\ p >= Asked(d)
             /\ q \in -1..3 /\ (q = Refused \/ q >= Asked(d))
             /\ q = Refused => Asked(d) >= 2 /\ ~roots /\ (d.engine = "postgres" => ~d.rootcert)
<1>1. CASE d.engine = "mysql"
  BY <1>1, SSLModeKeepsWords, MySQLLevels DEF ProbeLevel, DumpLevel
<1>2. CASE d.engine = "postgres"
  BY <1>2, PostgresLevels DEF ProbeLevel, DumpLevel
<1> QED BY <1>1, <1>2 DEF DSNs

-----------------------------------------------------------------------------
(* The run.                                                                *)

EventNames == {"fault", "tables", "server", "clients", "write", "read", "delete", "killed"}

\* The types, and what of the server never changes.
WorldInv ==
  /\ setup \in Setups /\ events \in Seq(EventNames)
  /\ db \in Servers /\ clients \in Seq(Nat \ {0})
  /\ db.engine = setup.server.engine /\ db.tls = setup.server.tls /\ db.cert = setup.server.cert
  /\ db.grants = setup.server.grants /\ db.old = setup.server.old
  /\ events = <<>> => db = setup.server /\ clients = setup.clients
  /\ level \in [probe : -1..4, dump : -1..4]
  /\ chosen \in Nat
  /\ pc \in {"test", "preflight", "start", "dumping", "ended"}
  /\ outcome \in {"none", "ok", "connect", "dump", "unknown"}
  /\ pc # "ended" <=> outcome = "none"

\* The run's connection.
Connects == ValidDSN(setup.dsn) /\ ProbeLevel(setup.dsn, setup.server) # Refused

\* The levels are those of the two connections, and no client starts before the run's
\* own connection was made.
LevelInv ==
  /\ level.probe = NoLevel \/ (Connects /\ level.probe = ProbeLevel(setup.dsn, setup.server))
  /\ level.dump = NoLevel \/ (Connects /\ level.dump = DumpLevel(setup.dsn, setup.roots, setup.server))
  /\ pc \in {"preflight", "start", "dumping"} \/ outcome = "ok" => Connects
  /\ pc = "dumping" => level.dump # NoLevel

\* The user was warned of what Preflight saw.
WarnInv ==
  /\ pc \in {"start", "dumping"} \/ outcome = "ok"
  /\ db.engine = "mysql" /\ "nonInnoDB" \in db.tables /\ "tables" \notin Range(events)
  => warned

\* What Preflight asks of a PostgreSQL server.
Dumpable == CheckSupportedPGMajor(db.major) /\ SelectPgDump(clients, db.major) # 0

\* As long as nothing changes, the client is the one that Preflight would select again,
\* and a run ends in the way that the situation asks for.
ChosenInv ==
  events = <<>> =>
    /\ chosen # 0 => chosen = SelectPgDump(clients, db.major)
    /\ chosen # 0 \/ pc \in {"start", "dumping"} \/ outcome = "ok" => (db.engine = "postgres" => Dumpable /\ chosen # 0)
    /\ pc = "dumping" \/ outcome = "ok" => (db.engine = "mysql" => clients # <<>>)
    /\ outcome = "ok" => "unreadable" \notin db.tables
    /\ outcome \in {"connect", "unknown"} => ~Connects
    /\ outcome = "dump" =>
         \/ db.engine = "postgres" /\ ~Dumpable /\ chosen = 0
         \/ db.engine = "mysql" /\ ("nonInnoDB" \in db.tables \/ clients = <<>>)
         \/ (db.engine = "postgres" => chosen # 0) /\ ("unreadable" \in db.tables \/ Rootless)

RunInv == WorldInv /\ LevelInv /\ WarnInv /\ ChosenInv

-----------------------------------------------------------------------------
(* The doctors.                                                            *)

\* The doctor's connection.
DoctorConnects == ValidDSN(DoctorDSN) /\ ProbeLevel(DoctorDSN, setup.server) # Refused

\* What a check that fails says of the situation, as long as nothing changes.
Cause(name) ==
  \/ name \in {"dsn", "connect"} /\ ~DoctorConnects
  \/ name = "server version" /\ db.engine = "postgres" /\ ~CheckSupportedPGMajor(db.major)
  \/ name = "pg_dump client" /\ db.engine = "postgres" /\ SelectPgDump(clients, db.major) = 0
  \/ name = "table read access" /\ (setup.doctorDB = "same" => "unreadable" \in db.tables)
  \/ name = "mysqldump client" /\ db.engine = "mysql" /\ clients = <<>>

Healthy ==
  /\ DoctorConnects
  /\ db.engine = "postgres" => Dumpable /\ (setup.doctorDB = "same" => "unreadable" \notin db.tables)
  /\ db.engine = "mysql" => clients # <<>>

Fails(d) == \E c \in report[d] : c[2] = "fail"

\* What a doctor that has come to place p knows, unless it has told of a failure.
Stage(p, failed) ==
  /\ p \in {"diagnose", "client", "access", "routines"} => DoctorConnects
  /\ p \in {"client", "access"} => db.engine = "postgres" /\ CheckSupportedPGMajor(db.major)
  /\ p = "access" => Dumpable \/ failed
  /\ p = "routines" => db.engine = "mysql" /\ clients # <<>>
  /\ p \in {"discover", "put", "head", "delete", "render", "done"} => Healthy \/ failed

Elsewhere == {"write", "destination", "age recipient"}

\* How far each doctor has come and what it has found, as long as nothing changes.
DoctorInv(d) ==
  /\ \A c \in report[d] : c[2] = "fail" /\ c[1] \notin Elsewhere => Cause(c[1])
  /\ Stage(dpc[d], Fails(d))
  /\ exit[d] = 0 => dpc[d] = "done" /\ ~Fails(d)

CheckNames ==
  {"dsn", "connect", "server version", "pg_dump client", "table read access", "mysqldump client", "stored routines",
   "discovery", "read access", "write", "read", "delete", "destination", "age recipient"}

Places ==
  {"source", "diagnose", "client", "access", "routines", "discover", "put", "head", "delete", "render", "done", "killed"}

VerdictInv ==
  /\ probe \in BOOLEAN
  /\ report \in [Doctors -> SUBSET (CheckNames \X {"ok", "warn", "fail"})]
  /\ dpc \in [Doctors -> Places] /\ exit \in [Doctors -> {NoExit, 0, 1}]
  /\ events = <<>> => \A d \in Doctors : DoctorInv(d)

\* A doctor that calls the routines covered has seen a grant that is there for good.
RoutineInv ==
  \A d \in Doctors : <<"stored routines", "ok">> \in report[d] => HasRoutineGrant(setup.server.grants)

\* Whoever might leave the probe object behind is about to delete it, or there is a
\* trace of why not.
ProbeInv ==
  probe => \/ \E d \in Doctors : dpc[d] \in {"head", "delete"} \/ <<"delete", "warn">> \in report[d]
           \/ Range(events) \cap {"write", "killed"} # {}

IInv == RunInv /\ VerdictInv /\ RoutineInv /\ ProbeInv

\* The history grows by what happens.
LEMMA EventsGrow ==
  ASSUME events \in Seq(EventNames), NEW e \in EventNames, Happened(e)
  PROVE  /\ events' \in Seq(EventNames) /\ events' # <<>>
         /\ Range(events') = Range(events) \cup {e}
<1>1. events' = Append(events, e)
  BY DEF Happened
<1>2. events' \in Seq(EventNames) /\ Len(events') = Len(events) + 1 /\ Len(events) \in Nat
  BY <1>1
<1>3. \A i \in 1..Len(events') : events'[i] = IF i = Len(events) + 1 THEN e ELSE events[i]
  BY <1>1
<1>4. Range(events') = Range(events) \cup {e}
  <2>1. DOMAIN events' = 1..(Len(events) + 1) /\ DOMAIN events = 1..Len(events)
    BY <1>2
  <2>2. Range(events') \subseteq Range(events) \cup {e}
    BY <1>2, <1>3, <2>1 DEF Range
  <2>3. Range(events) \cup {e} \subseteq Range(events')
    BY <1>2, <1>3, <2>1 DEF Range
  <2> QED BY <2>2, <2>3
<1> QED BY <1>2, <1>4

\* What the connections depend on.
LEMMA LevelsDependOn ==
  ASSUME NEW d, NEW roots, NEW s, NEW t, s.tls = t.tls, s.cert = t.cert
  PROVE  ProbeLevel(d, s) = ProbeLevel(d, t) /\ DumpLevel(d, roots, s) = DumpLevel(d, roots, t)
BY DEF ProbeLevel, DumpLevel, GoConnect, MySQLDumpConnect, PgConnect, Negotiate

\* The situation of a run is one of the assumed ones.
LEMMA SetupType ==
  ASSUME setup \in Setups
  PROVE  /\ setup \in Situations /\ setup.dsn \in DSNs /\ setup.server \in Servers /\ setup.roots \in BOOLEAN
         /\ setup.dsn.engine = setup.server.engine /\ (setup.dsn.engine = "postgres" => setup.dsn.tls = "unset")
         /\ setup.clients \in Seq(Nat \ {0})
BY SourceAssumption DEF SourceAssumption, Situations

\* The levels of the run's connections.
LEMMA SetupLevels ==
  ASSUME setup \in Setups, Connects
  PROVE  /\ ProbeLevel(setup.dsn, setup.server) \in 0..3
         /\ ProbeLevel(setup.dsn, setup.server) >= Asked(setup.dsn)
         /\ DumpLevel(setup.dsn, setup.roots, setup.server) \in -1..3
         /\ \/ DumpLevel(setup.dsn, setup.roots, setup.server) = Refused
            \/ DumpLevel(setup.dsn, setup.roots, setup.server) >= Asked(setup.dsn)
         /\ DumpLevel(setup.dsn, setup.roots, setup.server) = Refused => Rootless
BY SetupType, LevelsAreHonest DEF Connects, Rootless

\* The protection that a DSN asks for is a number.
LEMMA AskedType == \A d \in DSNs : Asked(d) \in 0..3
<1>1. \A w \in STRING : AskedBy(w) \in 0..3
  BY DEF AskedBy
<1> QED BY <1>1 DEF Asked, DSNs

\* The invariant holds initially.
LEMMA DoctorInit == Init => IInv
<1> SUFFICES ASSUME Init PROVE IInv
  OBVIOUS
<1>1. WorldInv
  BY SetupType DEF Init, RunInit, WorldInv, NoLevel, Situations
<1>2. LevelInv /\ WarnInv /\ ChosenInv
  BY DEF Init, RunInit, LevelInv, WarnInv, ChosenInv
<1>3. \A d \in Doctors : DoctorInv(d)
  BY DEF Init, DoctorInv, NoExit, Fails, Stage
<1>4. VerdictInv /\ RoutineInv /\ ProbeInv
  BY <1>3 DEF Init, VerdictInv, RoutineInv, ProbeInv, Places
<1> QED BY <1>1, <1>2, <1>4 DEF IInv, RunInv

\* A step that leaves the run and the server alone keeps what is known of the run.
LEMMA RunStays ==
  ASSUME RunInv, UNCHANGED <<setup, db, clients, runVars>>,
         events' = events \/ \E e \in EventNames \ {"tables"} : Happened(e)
  PROVE  RunInv'
<1>1. CASE events' = events
  BY <1>1 DEF RunInv, WorldInv, LevelInv, WarnInv, ChosenInv, runVars, Connects, Dumpable, Rootless
<1>2. CASE \E e \in EventNames \ {"tables"} : Happened(e)
  <2>1. PICK e \in EventNames \ {"tables"} : Happened(e)
    BY <1>2
  <2>2. events' \in Seq(EventNames) /\ events' # <<>> /\ Range(events') = Range(events) \cup {e}
    BY <2>1, EventsGrow DEF RunInv, WorldInv
  <2> QED BY <2>2 DEF RunInv, WorldInv, LevelInv, WarnInv, ChosenInv, runVars, Connects
<1> QED BY <1>1, <1>2

\* The steps of a doctor are such steps.
LEMMA DoctorKeepsRun ==
  ASSUME RunInv, NEW d \in Doctors, DoctorStep(d)
  PROVE  RunInv'
<1>1. UNCHANGED <<setup, db, clients, runVars>>
  BY DEF DoctorStep, SourceTest, DiagnoseVersion, DiagnoseClient, CheckReadAccess, DiagnoseMySQL, DiagnoseRoutineAccess,
         Discover, SourceCallFails, ProbePut, ProbeHead, ProbeDelete, Render, Killed, worldVars
<1>2. events' = events \/ \E e \in EventNames \ {"tables"} : Happened(e)
  <2>1. CASE SourceCallFails(d)
    BY <2>1 DEF SourceCallFails, EventNames
  <2>2. CASE ProbePut(d)
    BY <2>2 DEF ProbePut, Errs, EventNames
  <2>3. CASE ProbeHead(d)
    BY <2>3 DEF ProbeHead, Errs, EventNames
  <2>4. CASE ProbeDelete(d)
    BY <2>4 DEF ProbeDelete, Errs, EventNames
  <2>5. CASE Killed(d)
    BY <2>5 DEF Killed, EventNames
  <2> QED BY <2>1, <2>2, <2>3, <2>4, <2>5
          DEF DoctorStep, SourceTest, DiagnoseVersion, DiagnoseClient, CheckReadAccess, DiagnoseMySQL,
              DiagnoseRoutineAccess, Discover, Render, worldVars
<1> QED BY <1>1, <1>2, RunStays

\* The steps of the run keep what is known of it.
LEMMA RunStep ==
  ASSUME RunInv, RunNext
  PROVE  RunInv'
<1> USE DEF RunInv
<1>1. CASE TestConnection
  <2>1. /\ UNCHANGED <<setup, db, clients, events, chosen, warned>> /\ pc = "test"
        /\ \/ pc' = "ended" /\ outcome' \in {"connect", "unknown"} /\ ~Connects /\ level' = level
           \/ /\ pc' = "preflight" /\ Connects /\ outcome' = outcome
              /\ level' = [level EXCEPT !.probe = ProbeLevel(setup.dsn, setup.server)]
    <3>1. ProbeLevel(setup.dsn, db) = ProbeLevel(setup.dsn, setup.server)
      BY LevelsDependOn DEF WorldInv
    <3> QED BY <1>1, <3>1 DEF TestConnection, worldVars, RunEnds, Connects
  <2>2. Connects => ProbeLevel(setup.dsn, setup.server) \in 0..3
    BY SetupLevels DEF WorldInv
  <2>3. WorldInv'
    BY <2>1, <2>2 DEF WorldInv
  <2>4. LevelInv'
    BY <2>1, <2>2 DEF WorldInv, LevelInv, Connects
  <2>5. WarnInv' /\ ChosenInv'
    BY <2>1 DEF WorldInv, WarnInv, ChosenInv, Connects, Dumpable, Rootless
  <2> QED BY <2>3, <2>4, <2>5
<1>2. CASE PreflightPostgres
  <2> DEFINE c == SelectPgDump(clients, db.major)
  <2>1. /\ UNCHANGED <<setup, db, clients, events, warned, level>> /\ pc = "preflight" /\ db.engine = "postgres"
        /\ \/ Dumpable /\ pc' = "start" /\ chosen' = c /\ c # 0 /\ outcome' = outcome
           \/ ~Dumpable /\ pc' = "ended" /\ outcome' = "dump" /\ chosen' = chosen
    BY <1>2 DEF PreflightPostgres, worldVars, RunEnds, Dumpable
  <2>2. c \in Nat
    <3>1. clients \in Seq(Nat \ {0}) /\ db.major \in Nat
      BY DEF WorldInv, Servers
    <3>2. Range(clients) \subseteq Nat
      BY <3>1 DEF Range
    <3> QED BY <3>1, <3>2, SelectPgDumpIsRight
  <2> HIDE DEF c
  <2>3. WorldInv'
    BY <2>1, <2>2 DEF WorldInv
  <2>4. LevelInv' /\ WarnInv'
    BY <2>1 DEF WorldInv, LevelInv, WarnInv, Connects
  <2>5. ChosenInv'
    BY <2>1 DEF WorldInv, ChosenInv, Connects, Dumpable, Rootless, c
  <2> QED BY <2>3, <2>4, <2>5
<1>3. CASE PreflightMySQL
  <2>1. /\ UNCHANGED <<setup, db, clients, events, chosen, level>> /\ pc = "preflight" /\ db.engine = "mysql"
        /\ \/ "nonInnoDB" \in db.tables /\ pc' = "ended" /\ outcome' = "dump" /\ warned' = warned
           \/ pc' = "start" /\ outcome' = outcome /\ warned' = ("nonInnoDB" \in db.tables)
    BY <1>3 DEF PreflightMySQL, worldVars, RunEnds
  <2>2. WorldInv' /\ LevelInv'
    BY <2>1 DEF WorldInv, LevelInv, Connects
  <2>3. WarnInv'
    BY <2>1 DEF WorldInv, WarnInv
  <2>4. ChosenInv'
    BY <2>1 DEF WorldInv, ChosenInv, Connects, Dumpable, Rootless
  <2> QED BY <2>2, <2>3, <2>4
<1>4. CASE StartDump
  <2> DEFINE q == DumpLevel(setup.dsn, setup.roots, setup.server)
  <2>1. /\ UNCHANGED <<setup, db, clients, events, chosen, warned>> /\ pc = "start"
        /\ \/ /\ pc' = "dumping" /\ outcome' = outcome /\ level' = [level EXCEPT !.dump = q]
              /\ db.engine = "mysql" => clients # <<>>
           \/ /\ pc' = "ended" /\ outcome' = "dump" /\ level' = level
              /\ IF db.engine = "postgres" THEN chosen \notin Range(clients) ELSE clients = <<>>
    <3>1. DumpLevel(setup.dsn, setup.roots, db) = q
      BY LevelsDependOn DEF WorldInv
    <3> QED BY <1>4, <3>1 DEF StartDump, worldVars, RunEnds
  <2>2. Connects /\ q \in -1..3
    BY <2>1, SetupLevels DEF WorldInv, LevelInv
  <2> HIDE DEF q
  <2>3. WorldInv'
    BY <2>1, <2>2 DEF WorldInv
  <2>4. LevelInv'
    BY <2>1, <2>2 DEF WorldInv, LevelInv, Connects, NoLevel, q
  <2>5. WarnInv'
    BY <2>1 DEF WorldInv, WarnInv
  <2>6. ASSUME events = <<>>, db.engine = "postgres" PROVE chosen \in Range(clients)
    <3>1. chosen # 0 /\ chosen = SelectPgDump(clients, db.major)
      BY <2>1, <2>6 DEF ChosenInv
    <3>2. clients \in Seq(Nat \ {0}) /\ db.major \in Nat
      BY DEF WorldInv, Servers
    <3> QED BY <3>1, <3>2, SelectPgDumpIsRight
  <2>7. ChosenInv'
    BY <2>1, <2>6 DEF WorldInv, ChosenInv, Connects, Dumpable, Rootless, Servers
  <2> QED BY <2>3, <2>4, <2>5, <2>7
<1>5. CASE DumpEnds
  <2>1. /\ UNCHANGED <<setup, db, clients, events, chosen, warned, level>> /\ pc = "dumping" /\ pc' = "ended"
        /\ \/ outcome' = "ok" /\ level.dump # Refused /\ "unreadable" \notin db.tables
           \/ /\ outcome' = "dump"
              /\ \/ level.dump = Refused \/ "unreadable" \in db.tables
                 \/ db.engine = "postgres" /\ ~(chosen >= db.major)
    BY <1>5 DEF DumpEnds, worldVars, RunEnds
  <2>2. WorldInv' /\ LevelInv' /\ WarnInv'
    BY <2>1 DEF WorldInv, LevelInv, WarnInv, Connects
  <2>3. ASSUME events = <<>>, db.engine = "postgres" PROVE chosen >= db.major
    <3>1. chosen # 0 /\ chosen = SelectPgDump(clients, db.major)
      BY <2>1, <2>3 DEF ChosenInv
    <3>2. clients \in Seq(Nat \ {0}) /\ db.major \in Nat
      BY DEF WorldInv, Servers
    <3> QED BY <3>1, <3>2, SelectPgDumpIsRight
  <2>4. level.dump = Refused => Rootless
    BY SetupLevels DEF WorldInv, LevelInv, NoLevel, Refused
  <2>5. ChosenInv'
    BY <2>1, <2>3, <2>4 DEF WorldInv, ChosenInv, Connects, Dumpable, Rootless
  <2> QED BY <2>2, <2>5
<1>6. CASE CallFails
  <2>1. /\ UNCHANGED <<setup, db, clients, chosen, warned, level>> /\ pc \in {"test", "preflight", "dumping"}
        /\ pc' = "ended" /\ Happened("fault") /\ outcome' \in {"connect", "unknown", "dump"}
    BY <1>6 DEF CallFails, RunEnds
  <2>2. events' \in Seq(EventNames) /\ events' # <<>>
    BY <2>1, EventsGrow DEF WorldInv, EventNames
  <2> QED BY <2>1, <2>2 DEF WorldInv, LevelInv, WarnInv, ChosenInv, Connects
<1>7. CASE WorldChanges
  <2>1. /\ UNCHANGED <<setup, pc, chosen, warned, level, outcome>>
        /\ \/ \E t \in {"unreadable", "nonInnoDB"} : Happened("tables") /\ db' = [db EXCEPT !.tables = @ \cup {t}] /\ UNCHANGED clients
           \/ \E m \in Majors : Happened("server") /\ db' = [db EXCEPT !.major = m] /\ UNCHANGED clients
           \/ \E m \in Majors : Happened("clients") /\ clients' = <<m>> /\ UNCHANGED db
    BY <1>7 DEF WorldChanges, runVars
  <2>2. \E e \in {"tables", "server", "clients"} :
          /\ events' \in Seq(EventNames) /\ events' # <<>> /\ Range(events') = Range(events) \cup {e}
          /\ e # "tables" => db'.tables = db.tables
    BY <2>1, EventsGrow DEF WorldInv, Servers, EventNames
  <2>3. /\ db' \in Servers /\ clients' \in Seq(Nat \ {0})
        /\ db'.engine = db.engine /\ db'.tls = db.tls /\ db'.cert = db.cert /\ db'.grants = db.grants /\ db'.old = db.old
    <3>1. CASE \E t \in {"unreadable", "nonInnoDB"} : db' = [db EXCEPT !.tables = @ \cup {t}] /\ UNCHANGED clients
      BY <3>1 DEF WorldInv, Servers
    <3>2. CASE \E m \in Majors : db' = [db EXCEPT !.major = m] /\ UNCHANGED clients
      BY <3>2, SourceAssumption DEF SourceAssumption, WorldInv, Servers
    <3>3. CASE \E m \in Majors : clients' = <<m>> /\ UNCHANGED db
      BY <3>3, SourceAssumption DEF SourceAssumption, WorldInv
    <3> QED BY <2>1, <3>1, <3>2, <3>3
  <2>4. WorldInv'
    BY <2>1, <2>2, <2>3 DEF WorldInv
  <2>5. LevelInv' /\ WarnInv' /\ ChosenInv'
    BY <2>1, <2>2, <2>3 DEF LevelInv, WarnInv, ChosenInv, Connects
  <2> QED BY <2>4, <2>5
<1> QED BY <1>1, <1>2, <1>3, <1>4, <1>5, <1>6, <1>7 DEF RunNext

\* A doctor that reports a check adds it to its own report and to no other.
LEMMA SaysType ==
  ASSUME VerdictInv, NEW d \in Doctors, NEW n \in CheckNames, NEW s \in {"ok", "warn", "fail"}, NEW p \in Places,
         Says(d, n, s, p)
  PROVE  /\ report' \in [Doctors -> SUBSET (CheckNames \X {"ok", "warn", "fail"})] /\ dpc' \in [Doctors -> Places]
         /\ report'[d] = report[d] \cup {<<n, s>>} /\ dpc'[d] = p
         /\ \A x \in Doctors \ {d} : report'[x] = report[x] /\ dpc'[x] = dpc[x]
BY DEF VerdictInv, Says

\* A check keeps what is known of the doctors if it has a cause where it fails and leads
\* to a place that the doctor has a right to be at.
LEMMA SaysKeeps ==
  ASSUME VerdictInv, UNCHANGED <<setup, db, clients, exit>>, events' = <<>> => events = <<>>, probe' \in BOOLEAN,
         NEW d \in Doctors, NEW n \in CheckNames, NEW s \in {"ok", "warn", "fail"}, NEW p \in Places,
         Says(d, n, s, p), dpc[d] # "done",
         events = <<>> /\ events' = <<>> =>
           /\ s = "fail" /\ n \notin Elsewhere => Cause(n)
           /\ Stage(p, Fails(d) \/ s = "fail")
  PROVE  VerdictInv'
<1>1. /\ report' \in [Doctors -> SUBSET (CheckNames \X {"ok", "warn", "fail"})] /\ dpc' \in [Doctors -> Places]
      /\ report'[d] = report[d] \cup {<<n, s>>} /\ dpc'[d] = p
      /\ \A x \in Doctors \ {d} : report'[x] = report[x] /\ dpc'[x] = dpc[x]
  BY SaysType
<1>2. ASSUME events' = <<>>, NEW x \in Doctors PROVE DoctorInv(x)'
  <2>1. DoctorInv(x)
    BY <1>2 DEF VerdictInv
  <2>2. ASSUME NEW name PROVE Cause(name)' <=> Cause(name)
    BY DEF Cause, DoctorConnects, DoctorDSN
  <2>3. ASSUME NEW y, NEW failed PROVE Stage(y, failed)' <=> Stage(y, failed)
    BY DEF Stage, DoctorConnects, DoctorDSN, Healthy, Dumpable
  <2>4. CASE x # d
    <3>1. report'[x] = report[x] /\ dpc'[x] = dpc[x] /\ exit' = exit
      BY <1>1, <2>4
    <3>2. Fails(x)' <=> Fails(x)
      BY <3>1 DEF Fails
    <3>3. Stage(dpc[x], Fails(x))'
      BY <2>1, <2>3, <3>1, <3>2 DEF DoctorInv, Stage, DoctorConnects, DoctorDSN, Healthy, Dumpable
    <3> QED BY <2>1, <2>2, <3>1, <3>2, <3>3 DEF DoctorInv
  <2>5. CASE x = d
    <3>1. Fails(d)' <=> Fails(d) \/ s = "fail"
      <4>1. \A c : c \in report'[d] <=> c \in report[d] \/ c = <<n, s>>
        BY <1>1
      <4>2. <<n, s>>[2] = s
        OBVIOUS
      <4>3. ASSUME s = "fail" PROVE Fails(d)'
        BY <4>1, <4>2, <4>3 DEF Fails
      <4>4. ASSUME Fails(d) PROVE Fails(d)'
        BY <4>1, <4>4 DEF Fails
      <4>5. ASSUME Fails(d)', s # "fail" PROVE Fails(d)
        BY <4>1, <4>2, <4>5 DEF Fails
      <4> QED BY <4>3, <4>4, <4>5
    <3>2. Stage(dpc[d], Fails(d))'
      BY <1>1, <1>2, <3>1 DEF Stage, DoctorConnects, DoctorDSN, Healthy, Dumpable
    <3>3. exit'[d] # 0
      BY <2>1, <2>5 DEF DoctorInv
    <3>4. ASSUME NEW c \in report'[d], c[2] = "fail", c[1] \notin Elsewhere PROVE Cause(c[1])'
      <4>1. CASE c \in report[d]
        BY <2>1, <2>2, <2>5, <3>4, <4>1 DEF DoctorInv
      <4>2. CASE c = <<n, s>>
        BY <1>2, <2>2, <3>4, <4>2
      <4> QED BY <1>1, <4>1, <4>2
    <3> QED BY <2>5, <3>2, <3>3, <3>4 DEF DoctorInv
  <2> QED BY <2>4, <2>5
<1> QED BY <1>1, <1>2 DEF VerdictInv

\* The checks of the source keep what is known of the doctors.
LEMMA SourceKeepsVerdict ==
  ASSUME RunInv, VerdictInv, NEW d \in Doctors,
         \/ SourceTest(d) \/ DiagnoseVersion(d) \/ DiagnoseClient(d) \/ CheckReadAccess(d)
         \/ DiagnoseMySQL(d) \/ DiagnoseRoutineAccess(d) \/ Discover(d) \/ SourceCallFails(d)
  PROVE  VerdictInv'
<1> DEFINE Right(n, s, p) == events = <<>> /\ events' = <<>> =>
                               /\ s = "fail" /\ n \notin Elsewhere => Cause(n)
                               /\ Stage(p, Fails(d) \/ s = "fail")
<1>1. AfterSource \in {"put", "render"} /\ AfterSource \in Places
  BY DEF AfterSource, Places
<1>2. UNCHANGED <<setup, db, clients, exit, probe>> /\ probe' \in BOOLEAN /\ (events' = <<>> => events = <<>>)
  <2>1. UNCHANGED <<setup, db, clients, exit, probe>>
    BY DEF SourceTest, DiagnoseVersion, DiagnoseClient, CheckReadAccess, DiagnoseMySQL, DiagnoseRoutineAccess, Discover,
           SourceCallFails, worldVars
  <2>2. CASE SourceCallFails(d)
    BY <2>1, <2>2, EventsGrow DEF SourceCallFails, RunInv, WorldInv, VerdictInv, EventNames
  <2>3. CASE ~SourceCallFails(d)
    BY <2>1, <2>3 DEF SourceTest, DiagnoseVersion, DiagnoseClient, CheckReadAccess, DiagnoseMySQL, DiagnoseRoutineAccess,
           Discover, worldVars, VerdictInv
  <2> QED BY <2>2, <2>3
<1>3. events = <<>> => DoctorInv(d) /\ db = setup.server
  BY DEF VerdictInv, RunInv, WorldInv
<1>4. \E n \in CheckNames, s \in {"ok", "warn", "fail"}, p \in Places :
        Says(d, n, s, p) /\ Right(n, s, p) /\ dpc[d] # "done"
  <2> USE DEF CheckNames, Places
  <2>1. CASE SourceTest(d)
    <3>1. dpc[d] = "source"
      BY <2>1 DEF SourceTest
    <3>2. CASE ~ValidDSN(DoctorDSN)
      <4>1. Says(d, "dsn", "fail", AfterSource)
        BY <2>1, <3>2 DEF SourceTest
      <4>2. Right("dsn", "fail", AfterSource)
        BY <1>1, <3>2 DEF Cause, Stage, DoctorConnects
      <4> QED BY <1>1, <3>1, <4>1, <4>2
    <3>3. CASE ValidDSN(DoctorDSN) /\ ProbeLevel(DoctorDSN, db) = Refused
      <4>1. Says(d, "connect", "fail", AfterSource)
        BY <2>1, <3>3 DEF SourceTest
      <4>2. Right("connect", "fail", AfterSource)
        BY <1>1, <1>3, <3>3 DEF Cause, Stage, DoctorConnects
      <4> QED BY <1>1, <3>1, <4>1, <4>2
    <3>4. CASE ValidDSN(DoctorDSN) /\ ProbeLevel(DoctorDSN, db) # Refused
      <4>1. Says(d, "connect", "ok", "diagnose")
        BY <2>1, <3>4 DEF SourceTest
      <4>2. Right("connect", "ok", "diagnose")
        BY <1>3, <3>4 DEF Stage, DoctorConnects
      <4> QED BY <3>1, <4>1, <4>2
    <3> QED BY <3>2, <3>3, <3>4
  <2>2. CASE DiagnoseVersion(d)
    <3>1. dpc[d] = "diagnose" /\ db.engine = "postgres"
      BY <2>2 DEF DiagnoseVersion
    <3>2. CASE CheckSupportedPGMajor(db.major)
      <4>1. Says(d, "server version", "ok", "client")
        BY <2>2, <3>2 DEF DiagnoseVersion
      <4>2. Right("server version", "ok", "client")
        BY <1>3, <3>1, <3>2 DEF Stage, DoctorInv
      <4> QED BY <3>1, <4>1, <4>2
    <3>3. CASE ~CheckSupportedPGMajor(db.major)
      <4>1. Says(d, "server version", "fail", "discover")
        BY <2>2, <3>3 DEF DiagnoseVersion
      <4>2. Right("server version", "fail", "discover")
        BY <3>1, <3>3 DEF Stage, Cause
      <4> QED BY <3>1, <4>1, <4>2
    <3> QED BY <3>2, <3>3
  <2>3. CASE DiagnoseClient(d)
    <3> DEFINE c == SelectPgDump(clients, db.major)
               s == IF c = 0 THEN "fail" ELSE IF c = db.major THEN "ok" ELSE "warn"
    <3>1. dpc[d] = "client" /\ Says(d, "pg_dump client", s, "access")
      BY <2>3 DEF DiagnoseClient
    <3>2. s \in {"ok", "warn", "fail"} /\ (s = "fail" <=> c = 0)
      OBVIOUS
    <3> HIDE DEF s
    <3>3. Right("pg_dump client", s, "access")
      BY <1>3, <3>1, <3>2 DEF Stage, Cause, DoctorInv, Dumpable
    <3> QED BY <3>1, <3>2, <3>3
  <2>4. CASE CheckReadAccess(d)
    <3>1. PICK unreadable \in BOOLEAN :
            /\ setup.doctorDB = "same" => unreadable = ("unreadable" \in db.tables)
            /\ Says(d, "table read access", IF unreadable THEN "fail" ELSE "ok", "discover")
      BY <2>4 DEF CheckReadAccess
    <3>2. dpc[d] = "access"
      BY <2>4 DEF CheckReadAccess
    <3>3. CASE unreadable
      <4>1. Right("table read access", "fail", "discover")
        BY <3>1, <3>3 DEF Stage, Cause
      <4> QED BY <3>1, <3>2, <3>3, <4>1
    <3>4. CASE ~unreadable
      <4>1. Right("table read access", "ok", "discover")
        BY <1>3, <3>1, <3>2, <3>4 DEF Stage, DoctorInv, Healthy
      <4> QED BY <3>1, <3>2, <3>4, <4>1
    <3> QED BY <3>3, <3>4
  <2>5. CASE DiagnoseMySQL(d)
    <3>1. dpc[d] = "diagnose" /\ db.engine = "mysql"
      BY <2>5 DEF DiagnoseMySQL
    <3>2. CASE clients = <<>>
      <4>1. Says(d, "mysqldump client", "fail", "discover")
        BY <2>5, <3>2 DEF DiagnoseMySQL
      <4>2. Right("mysqldump client", "fail", "discover")
        BY <3>1, <3>2 DEF Stage, Cause
      <4> QED BY <3>1, <4>1, <4>2
    <3>3. CASE clients # <<>>
      <4>1. Says(d, "mysqldump client", "ok", "routines")
        BY <2>5, <3>3 DEF DiagnoseMySQL
      <4>2. Right("mysqldump client", "ok", "routines")
        BY <1>3, <3>1, <3>3 DEF Stage, DoctorInv
      <4> QED BY <3>1, <4>1, <4>2
    <3> QED BY <3>2, <3>3
  <2>6. CASE DiagnoseRoutineAccess(d)
    <3>1. PICK s \in {"ok", "warn"} : Says(d, "stored routines", s, "discover")
      BY <2>6 DEF DiagnoseRoutineAccess
    <3>2. dpc[d] = "routines"
      BY <2>6 DEF DiagnoseRoutineAccess
    <3>3. Right("stored routines", s, "discover")
      BY <1>3, <3>1, <3>2 DEF Stage, DoctorInv, Healthy
    <3> QED BY <3>1, <3>2, <3>3
  <2>7. CASE Discover(d)
    <3>1. dpc[d] = "discover" /\ Says(d, "discovery", "ok", AfterSource)
      BY <2>7 DEF Discover
    <3>2. Right("discovery", "ok", AfterSource)
      BY <1>1, <1>3, <3>1 DEF Stage, DoctorInv
    <3> QED BY <1>1, <3>1, <3>2
  <2>8. CASE SourceCallFails(d)
    <3>1. events' # <<>>
      BY <2>8, EventsGrow DEF SourceCallFails, RunInv, WorldInv, EventNames
    <3>2. /\ dpc[d] # "done"
          /\ \/ Says(d, "connect", "fail", AfterSource) \/ Says(d, "server version", "fail", "discover")
             \/ Says(d, "table read access", "fail", "discover") \/ Says(d, "table read access", "warn", "discover")
             \/ Says(d, "stored routines", "warn", "discover") \/ Says(d, "read access", "warn", AfterSource)
      BY <2>8 DEF SourceCallFails
    <3>3. ASSUME NEW n, NEW s, NEW p PROVE Right(n, s, p)
      BY <3>1
    <3> QED BY <1>1, <3>2, <3>3
  <2> QED BY <2>1, <2>2, <2>3, <2>4, <2>5, <2>6, <2>7, <2>8
<1>5. PICK n \in CheckNames, s \in {"ok", "warn", "fail"}, p \in Places :
        Says(d, n, s, p) /\ Right(n, s, p) /\ dpc[d] # "done"
  BY <1>4
<1> QED BY <1>2, <1>5, SaysKeeps

\* The calls to the destination keep what is known of the doctors.
LEMMA ProbeKeepsVerdict ==
  ASSUME RunInv, VerdictInv, NEW d \in Doctors, ProbePut(d) \/ ProbeHead(d) \/ ProbeDelete(d)
  PROVE  VerdictInv'
<1>1. UNCHANGED <<setup, db, clients, exit>>
  BY DEF ProbePut, ProbeHead, ProbeDelete
<1>2. probe' \in BOOLEAN
  BY DEF ProbePut, ProbeHead, ProbeDelete, MayHave, VerdictInv
<1>3. events' = <<>> => events = <<>>
  <2>1. \/ UNCHANGED events
        \/ \E e \in EventNames : Happened(e)
    BY DEF ProbePut, ProbeHead, ProbeDelete, Errs, EventNames
  <2> QED BY <2>1, EventsGrow DEF RunInv, WorldInv
<1>4. \E n \in {"write", "read", "delete"}, s \in {"ok", "warn", "fail"}, p \in {"head", "delete", "render"} :
        /\ Says(d, n, s, p) /\ dpc[d] \in {"put", "head", "delete"}
        /\ s = "fail" => n = "write"
  <2>1. CASE ProbePut(d)
    BY <2>1 DEF ProbePut
  <2>2. CASE ProbeHead(d)
    BY <2>2 DEF ProbeHead
  <2>3. CASE ProbeDelete(d)
    BY <2>3 DEF ProbeDelete
  <2> QED BY <2>1, <2>2, <2>3
<1>5. PICK n \in {"write", "read", "delete"}, s \in {"ok", "warn", "fail"}, p \in {"head", "delete", "render"} :
        /\ Says(d, n, s, p) /\ dpc[d] \in {"put", "head", "delete"}
        /\ s = "fail" => n = "write"
  BY <1>4
<1>6. n \in CheckNames /\ p \in Places /\ (s = "fail" => n \in Elsewhere)
  BY <1>5 DEF CheckNames, Places, Elsewhere
<1>7. events = <<>> => Stage(p, Fails(d) \/ s = "fail")
  BY <1>5 DEF VerdictInv, DoctorInv, Stage
<1> QED BY <1>1, <1>2, <1>3, <1>5, <1>6, <1>7, SaysKeeps

\* The end of the report keeps it too, and sets the exit code.
LEMMA RenderKeepsVerdict ==
  ASSUME RunInv, VerdictInv, NEW d \in Doctors, Render(d)
  PROVE  VerdictInv'
<1>1. RestOfReport \in SUBSET (Elsewhere \X {"ok", "fail"})
  <2>1. SUFFICES ASSUME NEW c \in RestOfReport PROVE c \in Elsewhere \X {"ok", "fail"}
    OBVIOUS
  <2>2. CASE c \in {<<"destination", "fail">> : x \in {setup.dest} \cap {"missing", "unresolved"}}
    <3>1. c = <<"destination", "fail">>
      BY <2>2
    <3> QED BY <3>1 DEF Elsewhere
  <2>3. CASE c \in {<<"age recipient", IF setup.recipient = "bad" THEN "fail" ELSE "ok">> : x \in {setup.recipient} \ {"none"}}
    <3>1. c = <<"age recipient", IF setup.recipient = "bad" THEN "fail" ELSE "ok">>
      BY <2>3
    <3>2. CASE setup.recipient = "bad"
      BY <3>1, <3>2 DEF Elsewhere
    <3>3. CASE setup.recipient # "bad"
      BY <3>1, <3>3 DEF Elsewhere
    <3> QED BY <3>2, <3>3
  <2> QED BY <2>1, <2>2, <2>3 DEF RestOfReport
<1>2. /\ UNCHANGED <<setup, db, clients, events, probe>> /\ dpc[d] = "render"
      /\ dpc' \in [Doctors -> Places] /\ dpc'[d] = "done"
      /\ report'[d] = report[d] \cup RestOfReport
      /\ exit' \in [Doctors -> {NoExit, 0, 1}] /\ (exit'[d] = 0 => ~\E c \in report'[d] : c[2] = "fail")
      /\ \A x \in Doctors \ {d} : report'[x] = report[x] /\ dpc'[x] = dpc[x] /\ exit'[x] = exit[x]
  BY DEF Render, worldVars, VerdictInv, Places
<1>3. report' \in [Doctors -> SUBSET (CheckNames \X {"ok", "warn", "fail"})]
  <2>1. Elsewhere \X {"ok", "fail"} \subseteq CheckNames \X {"ok", "warn", "fail"}
    BY DEF Elsewhere, CheckNames
  <2>2. RestOfReport \in SUBSET (CheckNames \X {"ok", "warn", "fail"})
    BY <1>1, <2>1
  <2> QED BY <2>2 DEF Render, VerdictInv
<1>4. ASSUME events' = <<>>, NEW x \in Doctors PROVE DoctorInv(x)'
  <2>1. DoctorInv(x)
    BY <1>2, <1>4 DEF VerdictInv
  <2>2. ASSUME NEW name PROVE Cause(name)' <=> Cause(name)
    BY <1>2 DEF Cause, DoctorConnects, DoctorDSN
  <2>3. CASE x # d
    <3>1. report'[x] = report[x] /\ dpc'[x] = dpc[x] /\ exit'[x] = exit[x]
      BY <1>2, <2>3
    <3>2. Fails(x)' <=> Fails(x)
      BY <3>1 DEF Fails
    <3>3. Stage(dpc[x], Fails(x))'
      BY <1>2, <2>1, <3>1, <3>2 DEF DoctorInv, Stage, DoctorConnects, DoctorDSN, Healthy, Dumpable
    <3> QED BY <2>1, <2>2, <3>1, <3>2, <3>3 DEF DoctorInv
  <2>4. CASE x = d
    <3>1. Fails(d) => Fails(d)'
      BY <1>2 DEF Fails
    <3>2. Stage(dpc[d], Fails(d))'
      <4>1. Healthy \/ Fails(d)
        BY <1>2, <2>1, <2>4 DEF DoctorInv, Stage
      <4>2. Healthy' <=> Healthy
        BY <1>2 DEF Healthy, DoctorConnects, DoctorDSN, Dumpable
      <4> QED BY <1>2, <3>1, <4>1, <4>2 DEF Stage
    <3>3. exit'[d] = 0 => ~Fails(d)'
      BY <1>2 DEF Fails
    <3>4. ASSUME NEW c \in report'[d], c[2] = "fail", c[1] \notin Elsewhere PROVE Cause(c[1])'
      <4>1. c \in report[d]
        BY <1>1, <1>2, <3>4
      <4> QED BY <2>1, <2>2, <2>4, <3>4, <4>1 DEF DoctorInv
    <3> QED BY <1>2, <2>4, <3>2, <3>3, <3>4 DEF DoctorInv
  <2> QED BY <2>3, <2>4
<1> QED BY <1>2, <1>3, <1>4 DEF VerdictInv

\* A doctor that goes on reports a check; only DiagnoseRoutineAccess calls the routines
\* covered.
LEMMA DoctorSpeaks ==
  ASSUME NEW d \in Doctors, DoctorStep(d), ~Render(d), ~Killed(d), ~DiagnoseRoutineAccess(d)
  PROVE  \E n \in CheckNames, s \in {"ok", "warn", "fail"}, p \in Places :
           Says(d, n, s, p) /\ (n # "stored routines" \/ s # "ok")
<1> USE DEF CheckNames, Places
<1>0. AfterSource \in Places
  BY DEF AfterSource
<1>1. CASE SourceTest(d)
  <2>1. \/ Says(d, "dsn", "fail", AfterSource) \/ Says(d, "connect", "fail", AfterSource) \/ Says(d, "connect", "ok", "diagnose")
    BY <1>1 DEF SourceTest
  <2> QED BY <1>0, <2>1
<1>2. CASE DiagnoseVersion(d)
  <2>1. \/ Says(d, "server version", "ok", "client") \/ Says(d, "server version", "fail", "discover")
    BY <1>2 DEF DiagnoseVersion
  <2> QED BY <1>0, <2>1
<1>3. CASE DiagnoseClient(d)
  <2>1. \/ Says(d, "pg_dump client", "ok", "access") \/ Says(d, "pg_dump client", "warn", "access")
        \/ Says(d, "pg_dump client", "fail", "access")
    BY <1>3 DEF DiagnoseClient
  <2> QED BY <1>0, <2>1
<1>4. CASE CheckReadAccess(d)
  <2>1. Says(d, "table read access", "fail", "discover") \/ Says(d, "table read access", "ok", "discover")
    BY <1>4 DEF CheckReadAccess
  <2> QED BY <1>0, <2>1
<1>5. CASE DiagnoseMySQL(d)
  <2>1. \/ Says(d, "mysqldump client", "fail", "discover") \/ Says(d, "mysqldump client", "ok", "routines")
    BY <1>5 DEF DiagnoseMySQL
  <2> QED BY <1>0, <2>1
<1>6. CASE Discover(d)
  BY <1>0, <1>6 DEF Discover
<1>7. CASE SourceCallFails(d)
  <2>1. \/ Says(d, "connect", "fail", AfterSource) \/ Says(d, "server version", "fail", "discover")
        \/ Says(d, "table read access", "fail", "discover") \/ Says(d, "table read access", "warn", "discover")
        \/ Says(d, "stored routines", "warn", "discover") \/ Says(d, "read access", "warn", AfterSource)
    BY <1>7 DEF SourceCallFails
  <2> QED BY <1>0, <2>1
<1>8. CASE ProbePut(d) \/ ProbeHead(d) \/ ProbeDelete(d)
  <2>1. \/ Says(d, "write", "ok", "head") \/ Says(d, "write", "fail", "render") \/ Says(d, "read", "ok", "delete")
        \/ Says(d, "read", "warn", "delete") \/ Says(d, "delete", "ok", "render") \/ Says(d, "delete", "warn", "render")
    BY <1>8 DEF ProbePut, ProbeHead, ProbeDelete
  <2> QED BY <1>0, <2>1
<1> QED BY <1>1, <1>2, <1>3, <1>4, <1>5, <1>6, <1>7, <1>8 DEF DoctorStep

\* What is known of the reports and of the probe object stays known.
LEMMA DoctorKeepsRest ==
  ASSUME IInv, NEW d \in Doctors, DoctorStep(d)
  PROVE  RoutineInv' /\ ProbeInv'
<1> USE DEF IInv, RunInv
<1>1. setup' = setup
  BY DEF DoctorStep, SourceTest, DiagnoseVersion, DiagnoseClient, CheckReadAccess, DiagnoseMySQL, DiagnoseRoutineAccess,
         Discover, SourceCallFails, ProbePut, ProbeHead, ProbeDelete, Render, Killed, worldVars
<1>2. Range(events) \subseteq Range(events')
  <2>1. events' = events \/ \E e \in EventNames : Happened(e)
    <3>1. CASE SourceCallFails(d)
      BY <3>1 DEF SourceCallFails, EventNames
    <3>2. CASE ProbePut(d) \/ ProbeHead(d) \/ ProbeDelete(d)
      BY <3>2 DEF ProbePut, ProbeHead, ProbeDelete, Errs, EventNames
    <3>3. CASE Killed(d)
      BY <3>3 DEF Killed, EventNames
    <3> QED BY <3>1, <3>2, <3>3
            DEF DoctorStep, SourceTest, DiagnoseVersion, DiagnoseClient, CheckReadAccess, DiagnoseMySQL,
                DiagnoseRoutineAccess, Discover, Render, worldVars
  <2> QED BY <2>1, EventsGrow DEF WorldInv
<1>3. RoutineInv'
  <2>1. CASE DiagnoseRoutineAccess(d)
    <3>1. db.grants = setup.server.grants
      BY DEF WorldInv
    <3> QED BY <1>1, <2>1, <3>1 DEF DiagnoseRoutineAccess, Says, RoutineInv, VerdictInv
  <2>2. CASE ~DiagnoseRoutineAccess(d)
    <3>1. \A x \in Doctors : <<"stored routines", "ok">> \in report'[x] => <<"stored routines", "ok">> \in report[x]
      <4>1. CASE Render(d)
        <5>1. <<"stored routines", "ok">> \notin RestOfReport
          BY DEF RestOfReport
        <5> QED BY <4>1, <5>1 DEF Render, VerdictInv
      <4>2. CASE Killed(d)
        BY <4>2 DEF Killed
      <4>3. CASE ~Render(d) /\ ~Killed(d)
        <5>1. PICK n \in CheckNames, s \in {"ok", "warn", "fail"}, p \in Places :
                Says(d, n, s, p) /\ (n # "stored routines" \/ s # "ok")
          BY <2>2, <4>3, DoctorSpeaks
        <5>2. <<"stored routines", "ok">> # <<n, s>>
          BY <5>1
        <5> QED BY <5>1, <5>2 DEF Says, VerdictInv
      <4> QED BY <4>1, <4>2, <4>3
    <3> QED BY <1>1, <3>1 DEF RoutineInv
  <2> QED BY <2>1, <2>2
<1>4. ProbeInv'
  <2>1. CASE Killed(d)
    <3>1. Range(events') = Range(events) \cup {"killed"}
      BY <2>1, EventsGrow DEF Killed, WorldInv, EventNames
    <3> QED BY <3>1 DEF ProbeInv
  <2>2. CASE ProbePut(d)
    <3>1. CASE "write" \in setup.perms /\ Says(d, "write", "ok", "head")
      BY <3>1 DEF Says, ProbeInv, VerdictInv
    <3>2. CASE Errs("write") /\ MayHave("write", TRUE) /\ Says(d, "write", "fail", "render")
      <4>1. CASE "write" \in setup.perms
        <5>1. Range(events') = Range(events) \cup {"write"}
          BY <3>2, <4>1, EventsGrow DEF Errs, WorldInv, EventNames
        <5> QED BY <5>1 DEF ProbeInv
      <4>2. CASE "write" \notin setup.perms
        <5>1. probe' = probe /\ dpc[d] = "put"
          BY <2>2, <3>2, <4>2 DEF MayHave, ProbePut
        <5> QED BY <1>2, <3>2, <5>1 DEF Says, ProbeInv, VerdictInv
      <4> QED BY <4>1, <4>2
    <3> QED BY <2>2, <3>1, <3>2 DEF ProbePut
  <2>3. CASE ProbeHead(d)
    <3>1. dpc' = [dpc EXCEPT ![d] = "delete"] /\ probe' = probe
      BY <2>3 DEF ProbeHead, Says
    <3> QED BY <3>1 DEF ProbeInv, VerdictInv
  <2>4. CASE ProbeDelete(d)
    <3>1. probe' = FALSE \/ Says(d, "delete", "warn", "render")
      BY <2>4 DEF ProbeDelete
    <3> QED BY <3>1 DEF Says, ProbeInv, VerdictInv
  <2>5. CASE ~(Killed(d) \/ ProbePut(d) \/ ProbeHead(d) \/ ProbeDelete(d))
    <3>1. probe' = probe /\ dpc[d] \notin {"head", "delete"}
      BY <2>5 DEF DoctorStep, SourceTest, DiagnoseVersion, DiagnoseClient, CheckReadAccess, DiagnoseMySQL,
                  DiagnoseRoutineAccess, Discover, SourceCallFails, Render
    <3>2. \A x \in Doctors : report[x] \subseteq report'[x] /\ (x # d => dpc'[x] = dpc[x])
      <4>1. CASE Render(d)
        BY <4>1 DEF Render, VerdictInv
      <4>2. CASE DiagnoseRoutineAccess(d)
        BY <4>2 DEF DiagnoseRoutineAccess, Says, VerdictInv
      <4>3. CASE ~Render(d) /\ ~DiagnoseRoutineAccess(d)
        <5>1. PICK n \in CheckNames, s \in {"ok", "warn", "fail"}, p \in Places : Says(d, n, s, p)
          BY <2>5, <4>3, DoctorSpeaks
        <5> QED BY <5>1 DEF Says, VerdictInv
      <4> QED BY <4>1, <4>2, <4>3
    <3> QED BY <1>2, <3>1, <3>2 DEF ProbeInv
  <2> QED BY <2>1, <2>2, <2>3, <2>4, <2>5
<1> QED BY <1>3, <1>4

\* What happens to the run and to the server leaves the reports as they are, and what
\* they say of a situation holds until the situation changes.
LEMMA VerdictStays ==
  ASSUME IInv, UNCHANGED <<setup, doctorVars>>,
         \/ UNCHANGED <<db, clients, events>>
         \/ events' # <<>> /\ Range(events) \subseteq Range(events')
  PROVE  VerdictInv' /\ RoutineInv' /\ ProbeInv'
<1>1. RoutineInv'
  BY DEF IInv, RoutineInv, doctorVars
<1>2. ProbeInv'
  <2>1. Range(events) \subseteq Range(events')
    OBVIOUS
  <2> QED BY <2>1 DEF IInv, ProbeInv, doctorVars
<1>3. ASSUME events' = <<>>, NEW d \in Doctors PROVE DoctorInv(d)'
  <2>1. UNCHANGED <<setup, db, clients, events, dpc, report, exit>>
    BY <1>3 DEF doctorVars
  <2>2. DoctorInv(d)
    BY <1>3, <2>1 DEF IInv, VerdictInv
  <2>3. ASSUME NEW name PROVE Cause(name)' <=> Cause(name)
    BY <2>1 DEF Cause, DoctorConnects, DoctorDSN
  <2>4. Fails(d)' <=> Fails(d)
    BY <2>1 DEF Fails
  <2>5. Stage(dpc[d], Fails(d))'
    BY <2>1, <2>2, <2>4 DEF DoctorInv, Stage, DoctorConnects, DoctorDSN, Healthy, Dumpable
  <2> QED BY <2>1, <2>2, <2>3, <2>4, <2>5 DEF DoctorInv
<1>4. VerdictInv'
  BY <1>3 DEF IInv, VerdictInv, doctorVars
<1> QED BY <1>1, <1>2, <1>4

\* A step of the run leaves the situation alone or leaves a trace in the history.
LEMMA RunLeavesTrace ==
  ASSUME RunInv, RunNext
  PROVE  /\ UNCHANGED setup
         /\ \/ UNCHANGED <<db, clients, events>>
            \/ events' # <<>> /\ Range(events) \subseteq Range(events')
<1>1. CASE TestConnection \/ PreflightPostgres \/ PreflightMySQL \/ StartDump \/ DumpEnds
  BY <1>1 DEF TestConnection, PreflightPostgres, PreflightMySQL, StartDump, DumpEnds, worldVars
<1>2. CASE CallFails
  <2>1. Happened("fault") /\ UNCHANGED setup
    BY <1>2 DEF CallFails
  <2> QED BY <2>1, EventsGrow DEF RunInv, WorldInv, EventNames
<1>3. CASE WorldChanges
  <2>1. UNCHANGED setup /\ (Happened("tables") \/ Happened("server") \/ Happened("clients"))
    BY <1>3 DEF WorldChanges
  <2> QED BY <2>1, EventsGrow DEF RunInv, WorldInv, EventNames
<1> QED BY <1>1, <1>2, <1>3 DEF RunNext

\* The invariant of the run, of the doctors beside it and of the probe object that they
\* share.
THEOREM DoctorInvariance == Spec => []IInv
<1>1. Init => IInv
  BY DoctorInit
<1>2. IInv /\ [Next]_vars => IInv'
  <2> SUFFICES ASSUME IInv, [Next]_vars PROVE IInv'
    OBVIOUS
  <2>1. CASE RunNext /\ UNCHANGED doctorVars
    <3>1. RunInv'
      BY <2>1, RunStep DEF IInv
    <3>2. VerdictInv' /\ RoutineInv' /\ ProbeInv'
      BY <2>1, RunLeavesTrace, VerdictStays DEF IInv
    <3> QED BY <3>1, <3>2 DEF IInv
  <2>2. ASSUME NEW d \in Doctors, DoctorStep(d) PROVE IInv'
    <3>1. RunInv'
      BY <2>2, DoctorKeepsRun DEF IInv
    <3>2. RoutineInv' /\ ProbeInv'
      BY <2>2, DoctorKeepsRest
    <3>3. VerdictInv'
      <4>1. CASE \/ SourceTest(d) \/ DiagnoseVersion(d) \/ DiagnoseClient(d) \/ CheckReadAccess(d)
                 \/ DiagnoseMySQL(d) \/ DiagnoseRoutineAccess(d) \/ Discover(d) \/ SourceCallFails(d)
        BY <4>1, SourceKeepsVerdict DEF IInv
      <4>2. CASE ProbePut(d) \/ ProbeHead(d) \/ ProbeDelete(d)
        BY <4>2, ProbeKeepsVerdict DEF IInv
      <4>3. CASE Render(d)
        BY <4>3, RenderKeepsVerdict DEF IInv
      <4>4. CASE Killed(d)
        <5>1. events' # <<>>
          BY <4>4, EventsGrow DEF Killed, IInv, RunInv, WorldInv, EventNames
        <5>2. probe' = probe /\ report' = report /\ exit' = exit /\ dpc' \in [Doctors -> Places]
          BY <4>4 DEF Killed, IInv, VerdictInv, Places
        <5> QED BY <5>1, <5>2 DEF IInv, VerdictInv
      <4> QED BY <2>2, <4>1, <4>2, <4>3, <4>4 DEF DoctorStep
    <3> QED BY <3>1, <3>2, <3>3 DEF IInv
  <2>3. CASE UNCHANGED vars
    <3>1. UNCHANGED <<setup, db, clients, events, runVars, doctorVars>>
      BY <2>3 DEF vars, worldVars
    <3>2. RunInv'
      BY <3>1, RunStays DEF IInv
    <3>3. VerdictInv' /\ RoutineInv' /\ ProbeInv'
      BY <3>1, VerdictStays
    <3> QED BY <3>2, <3>3 DEF IInv
  <2> QED BY <2>1, <2>2, <2>3 DEF Next
<1> QED BY <1>1, <1>2, PTL DEF Spec

-----------------------------------------------------------------------------
(* The properties.                                                         *)

\* Whatever the DSN asks for, on every server: the run's connection and the dump
\* client's have it or are refused, and only a client without roots is refused where the
\* run's connection was not (goDSN, sslArgs, dumpCommandWith).
THEOREM TLSIsAlwaysHonoured == Spec => []TLSIsHonoured
<1>1. IInv => TLSIsHonoured
  <2> SUFFICES ASSUME IInv PROVE TLSIsHonoured
    OBVIOUS
  <2>1. Asked(setup.dsn) \in 0..3
    BY SetupType, AskedType DEF IInv, RunInv, WorldInv
  <2>2. level.probe >= Asked(setup.dsn) \/ level.probe = Refused
    BY <2>1, SetupLevels DEF IInv, RunInv, WorldInv, LevelInv, NoLevel
  <2>3. level.dump >= Asked(setup.dsn) \/ level.dump = Refused
    BY <2>1, SetupLevels DEF IInv, RunInv, WorldInv, LevelInv, NoLevel
  <2>4. level.dump = Refused => Rootless
    BY SetupLevels DEF IInv, RunInv, WorldInv, LevelInv, NoLevel, Refused
  <2> QED BY <2>2, <2>3, <2>4 DEF TLSIsHonoured
<1> QED BY <1>1, DoctorInvariance, PTL

\* Whatever clients are installed, the dump is made by the oldest that is new enough, and
\* a run is refused only where there is none (selectPgDump in Preflight).
THEOREM ClientIsAlwaysRight == Spec => []RightClient
<1>1. IInv => RightClient
  <2> SUFFICES ASSUME IInv, db.engine = "postgres", events = <<>>
               PROVE  LET able == {m \in Range(clients) : m >= db.major}
                      IN  /\ chosen # 0 => chosen \in able /\ \A m \in able : chosen <= m
                          /\ outcome = "dump" /\ chosen = 0 => able = {} \/ ~CheckSupportedPGMajor(db.major)
    BY DEF RightClient
  <2>1. clients \in Seq(Nat \ {0}) /\ db.major \in Nat
    BY DEF IInv, RunInv, WorldInv, Servers
  <2>2. ASSUME chosen # 0 PROVE chosen = SelectPgDump(clients, db.major)
    BY <2>2 DEF IInv, RunInv, ChosenInv
  <2>3. ASSUME outcome = "dump", chosen = 0
        PROVE  SelectPgDump(clients, db.major) = 0 \/ ~CheckSupportedPGMajor(db.major)
    BY <2>3 DEF IInv, RunInv, ChosenInv, Dumpable
  <2> QED BY <2>1, <2>2, <2>3, SelectPgDumpIsRight
<1> QED BY <1>1, DoctorInvariance, PTL

\* A dump that ends well and may be inconsistent was warned of, however the tables, the
\* server and the clients change meanwhile (mysqlDriver.Preflight).
THEOREM InconsistencyIsNeverSilent == Spec => []NoSilentInconsistency
<1>1. IInv => NoSilentInconsistency
  BY DEF IInv, RunInv, WarnInv, NoSilentInconsistency
<1> QED BY <1>1, DoctorInvariance, PTL

\* Any number of doctors, at any speed: as long as nothing changes, the verdict on the
\* source is the one that the run comes to, the blind spots aside (DiagnoseSource).
THEOREM DoctorIsAlwaysRight == Spec => []DoctorIsRight
<1>1. IInv => DoctorIsRight
  <2> SUFFICES ASSUME IInv, events = <<>>, NEW d \in Doctors
               PROVE  /\ exit[d] = 0 /\ outcome \in {"connect", "dump", "unknown"} => BlindSpot
                      /\ SourceFails(d) /\ setup.doctorDB = "same" => outcome # "ok"
    BY DEF DoctorIsRight
  <2>1. DoctorInv(d) /\ LevelInv /\ ChosenInv
    BY DEF IInv, VerdictInv, RunInv
  <2>2. db.engine \in {"mysql", "postgres"}
    BY DEF IInv, RunInv, WorldInv, Servers
  <2>3. ASSUME setup.doctorDB = "same" PROVE DoctorConnects <=> Connects
    <3>1. DoctorDSN = setup.dsn
      BY <2>3, SetupType DEF IInv, RunInv, WorldInv, DoctorDSN, DSNs
    <3> QED BY <3>1 DEF DoctorConnects, Connects
  <2>4. ASSUME exit[d] = 0, outcome \in {"connect", "dump", "unknown"}, ~BlindSpot PROVE FALSE
    <3>1. Healthy
      BY <2>1, <2>4 DEF DoctorInv, Stage
    <3>2. setup.doctorDB = "same" /\ ~Rootless /\ (db.engine = "mysql" => db.tables = {})
      BY <2>4 DEF BlindSpot
    <3> QED BY <2>1, <2>2, <2>3, <2>4, <3>1, <3>2 DEF Healthy, ChosenInv
  <2>5. ASSUME SourceFails(d), setup.doctorDB = "same", outcome = "ok" PROVE FALSE
    <3>1. PICK c \in report[d] : c[2] = "fail" /\ c[1] \notin Elsewhere
      BY <2>5 DEF SourceFails, Elsewhere
    <3>2. Cause(c[1])
      BY <2>1, <3>1 DEF DoctorInv
    <3> QED BY <2>1, <2>3, <2>5, <3>2 DEF Cause, LevelInv, ChosenInv, Dumpable
  <2> QED BY <2>4, <2>5
<1> QED BY <1>1, DoctorInvariance, PTL

\* Whatever rows SHOW GRANTS has: routines that the doctor calls covered are in the dump,
\* new servers with a grant on mysql.* aside (hasRoutineGrant, selectRestricted).
THEOREM RoutineVerdictIsAlwaysSafe == Spec => []RoutineVerdictIsSafe
<1>1. IInv => RoutineVerdictIsSafe
  <2> SUFFICES ASSUME IInv, NEW d \in Doctors, <<"stored routines", "ok">> \in report[d]
               PROVE  ShowsRoutines(db) \/ (~db.old /\ \E g \in db.grants : g.on \in {"mysql.proc", "mysql.*"})
    BY DEF RoutineVerdictIsSafe
  <2>1. HasRoutineGrant(db.grants)
    BY DEF IInv, RunInv, WorldInv, RoutineInv
  <2>2. PICK g \in db.grants :
          /\ IsPrivilegeRow(g, "GRANT")
          /\ \/ g.on = "*.*" /\ "SHOW_ROUTINE" \in g.privs
             \/ g.on = "*.*" /\ ~SelectRestricted(db.grants) /\ g.privs \cap {"SELECT", "ALL PRIVILEGES"} # {}
             \/ g.on \in {"mysql.proc", "mysql.*"} /\ ~SelectRestricted(db.grants) /\ "SELECT" \in g.privs
    BY <2>1 DEF HasRoutineGrant
  <2>3. g \in {h \in db.grants : h.stmt = "GRANT" /\ ~h.quoted}
    BY <2>2 DEF IsPrivilegeRow
  <2>4. CASE g.on = "*.*" /\ "SHOW_ROUTINE" \in g.privs
    BY <2>3, <2>4 DEF ShowsRoutines
  <2>5. CASE g.on = "*.*" /\ ~SelectRestricted(db.grants) /\ g.privs \cap {"SELECT", "ALL PRIVILEGES"} # {}
    BY <2>3, <2>5 DEF ShowsRoutines, SelectRestricted, IsPrivilegeRow
  <2>6. CASE g.on \in {"mysql.proc", "mysql.*"} /\ "SELECT" \in g.privs
    BY <2>3, <2>6 DEF ShowsRoutines
  <2> QED BY <2>2, <2>4, <2>5, <2>6
<1> QED BY <1>1, DoctorInvariance, PTL

\* Any number of doctors share the probe object, and it is not left behind without a
\* word in a report, a put that seemed to fail or a doctor that was killed
\* (ProbeDestination).
THEOREM LeftoverIsAlwaysReported == Spec => []LeftoverIsReported
<1>1. IInv => LeftoverIsReported
  BY DEF IInv, ProbeInv, LeftoverIsReported
<1> QED BY <1>1, DoctorInvariance, PTL
=============================================================================
