------------------------------- MODULE MCDoctor -------------------------------
(***************************************************************************)
(* Situations for a run and its doctors, each family varying one thing:    *)
(* versions and clients, tables and databases, TLS parameters against      *)
(* servers, grants, and destinations.                                      *)
(***************************************************************************)
EXTENDS Doctor, TLC

Plain(engine) == [engine |-> engine, database |-> TRUE, sslMode |-> "unset", tls |-> "unset", rootcert |-> FALSE]

PgServer(major) ==
  [engine |-> "postgres", major |-> major, tls |-> "optional", cert |-> "private",
   tables |-> {}, grants |-> {}, old |-> FALSE]

MySQLServer == [PgServer(0) EXCEPT !.engine = "mysql"]

Base(server, clientList) ==
  [dsn |-> Plain(server.engine), allow |-> FALSE, server |-> server, clients |-> clientList, roots |-> TRUE,
   doctorDB |-> "same", dest |-> "none", perms |-> {}, recipient |-> "none"]

Pg == Base(PgServer(16), <<16>>)
MySQL == Base(MySQLServer, <<16>>)

ClientLists == UNION {[1..n -> Majors] : n \in 0..2} \cup {<<18, 17, 13>>, <<18, 13, 16>>}

Versions == {Base(PgServer(major), cs) : major \in Majors, cs \in ClientLists}

Tables ==
  {[s EXCEPT !.server.tables = ts, !.allow = a, !.doctorDB = w] :
     s \in {Pg, MySQL}, ts \in SUBSET {"unreadable", "nonInnoDB"}, a \in BOOLEAN, w \in {"same", "other", "none"}}

MySQLWords ==
  {<<m, t>> : m \in {"unset", "DISABLED", "PREFERRED", "REQUIRED", "VERIFY_CA", "VERIFY_IDENTITY", "?"},
              t \in {"unset", "true", "false", "skip-verify", "preferred", "?"}}

TLSServers == {<<t, c>> : t \in {"none", "optional", "required"}, c \in {"private", "wrongHost", "good"}}

TLS ==
  {[MySQL EXCEPT !.dsn.sslMode = w[1], !.dsn.tls = w[2], !.dsn.database = b, !.server.tls = x[1], !.server.cert = x[2]] :
     w \in MySQLWords, b \in BOOLEAN, x \in TLSServers}
  \cup
  {[Pg EXCEPT !.dsn.sslMode = m, !.dsn.rootcert = r, !.roots = b, !.server.tls = x[1], !.server.cert = x[2]] :
     m \in {"unset", "disable", "allow", "prefer", "require", "verify-ca", "verify-full", "?"},
     r \in BOOLEAN, b \in BOOLEAN, x \in TLSServers}
  \cup
  {[MySQL EXCEPT !.roots = FALSE, !.dsn.sslMode = m, !.server.tls = x[1], !.server.cert = x[2]] :
     m \in {"REQUIRED", "VERIFY_CA", "VERIFY_IDENTITY"}, x \in TLSServers}
  \cup {[Pg EXCEPT !.dsn.database = FALSE]}

Row(stmt, privs, on, quoted) == [stmt |-> stmt, privs |-> privs, on |-> on, quoted |-> quoted]

GrantRows ==
  {Row("GRANT", {"SHOW_ROUTINE"}, "*.*", FALSE), Row("GRANT", {"SHOW_ROUTINE"}, "*.*", TRUE),
   Row("GRANT", {"SELECT", "EVENT"}, "*.*", FALSE), Row("GRANT", {"ALL PRIVILEGES"}, "*.*", FALSE),
   Row("GRANT", {"SELECT"}, "mysql.proc", FALSE), Row("GRANT", {"SELECT"}, "db.*", FALSE),
   Row("REVOKE", {"SELECT"}, "db.*", FALSE)}

Grants == {[MySQL EXCEPT !.server.grants = gs, !.server.old = o] : gs \in SUBSET GrantRows, o \in BOOLEAN}

Destinations ==
  {[Pg EXCEPT !.dest = x, !.perms = ps, !.recipient = r] :
     x \in {"none", "missing", "unresolved", "ok"}, ps \in SUBSET {"write", "read", "delete"},
     r \in {"none", "valid", "bad"}}

DoctorSymmetry == Permutations(Doctors)

MCSetups == Versions \cup Tables \cup TLS \cup Grants \cup Destinations
=============================================================================
