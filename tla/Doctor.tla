------------------------------- MODULE Doctor -------------------------------
(***************************************************************************)
(* The doctor: its checks of the source and of the destination, beside the *)
(* run that they are meant to predict.  Several doctors may look at one    *)
(* destination at the same time; they all write, read and delete the same  *)
(* probe object.                                                           *)
(***************************************************************************)
EXTENDS Source

CONSTANTS Doctors  \* the doctor commands, each run once

VARIABLES
  probe,   \* the probe object is in the bucket
  dpc,     \* where each doctor is
  report,  \* the checks that it has so far: name and status
  exit     \* its exit code, NoExit before it has one

doctorVars == <<probe, dpc, report, exit>>
vars == <<worldVars, runVars, doctorVars>>

NoExit == -1

\* The DSN that the doctor connects with (ConnectDSN): the database of the template or
\* the default one, which need not be the one that the run is told to back up.
DoctorDSN == [setup.dsn EXCEPT !.database = (setup.doctorDB = "same" /\ @) \/ setup.doctorDB = "other"]

Init ==
  /\ RunInit
  /\ probe = FALSE
  /\ dpc = [d \in Doctors |-> "source"]
  /\ report = [d \in Doctors |-> {}]
  /\ exit = [d \in Doctors |-> NoExit]

\* A doctor adds a check to its report and goes on.
Says(d, name, status, next) ==
  /\ report' = [report EXCEPT ![d] = @ \cup {<<name, status>>}]
  /\ dpc' = [dpc EXCEPT ![d] = next]

-----------------------------------------------------------------------------
(* DiagnoseSource.                                                         *)

\* Where a doctor goes after the source: only a destination that could be resolved is
\* probed.
AfterSource == IF setup.dest = "ok" THEN "put" ELSE "render"

SourceTest(d) ==
  /\ dpc[d] = "source"
  /\ CASE ~ValidDSN(DoctorDSN) -> Says(d, "dsn", "fail", AfterSource)
       [] ValidDSN(DoctorDSN) /\ ProbeLevel(DoctorDSN, db) = Refused -> Says(d, "connect", "fail", AfterSource)
       [] OTHER -> Says(d, "connect", "ok", "diagnose")
  /\ UNCHANGED <<worldVars, runVars, probe, exit>>

\* postgresDriver.Diagnose: the version, then the client.
DiagnoseVersion(d) ==
  /\ dpc[d] = "diagnose" /\ db.engine = "postgres"
  /\ IF CheckSupportedPGMajor(db.major) THEN Says(d, "server version", "ok", "client")
                                        ELSE Says(d, "server version", "fail", "discover")
  /\ UNCHANGED <<worldVars, runVars, probe, exit>>

\* Mutant: any client is good enough.
DiagnoseClientAny(d) ==
  /\ dpc[d] = "client"
  /\ Says(d, "pg_dump client", IF clients = <<>> THEN "fail" ELSE "ok", "access")
  /\ UNCHANGED <<worldVars, runVars, probe, exit>>

DiagnoseClient(d) ==
  /\ dpc[d] = "client"
  /\ LET c == SelectPgDump(clients, db.major)
     IN  Says(d, "pg_dump client", IF c = 0 THEN "fail" ELSE IF c = db.major THEN "ok" ELSE "warn", "access")
  /\ UNCHANGED <<worldVars, runVars, probe, exit>>

\* checkReadAccess: the tables, sequences and large objects of the database that it is
\* connected to.
CheckReadAccess(d) ==
  /\ dpc[d] = "access"
  /\ \E unreadable \in BOOLEAN :
       /\ setup.doctorDB = "same" => unreadable = ("unreadable" \in db.tables)
       /\ Says(d, "table read access", IF unreadable THEN "fail" ELSE "ok", "discover")
  /\ UNCHANGED <<worldVars, runVars, probe, exit>>

\* mysqlDriver.Diagnose: the client, then the grants.
DiagnoseMySQL(d) ==
  /\ dpc[d] = "diagnose" /\ db.engine = "mysql"
  /\ IF clients = <<>> THEN Says(d, "mysqldump client", "fail", "discover")
                       ELSE Says(d, "mysqldump client", "ok", "routines")
  /\ UNCHANGED <<worldVars, runVars, probe, exit>>

\* A row of SHOW GRANTS: the statement, its privileges and what they are on.  In a role
\* assignment the privileges are names in quotes.
IsPrivilegeRow(g, stmt) == g.stmt = stmt /\ ~g.quoted

\* Mutant: a partial revoke is not noticed.
SelectNeverRestricted(grants) == FALSE

SelectRestricted(grants) ==
  \E g \in grants : IsPrivilegeRow(g, "REVOKE") /\ g.privs \cap {"SELECT", "ALL PRIVILEGES"} # {}

HasRoutineGrant(grants) ==
  \E g \in grants :
    /\ IsPrivilegeRow(g, "GRANT")
    /\ \/ g.on = "*.*" /\ "SHOW_ROUTINE" \in g.privs
       \/ g.on = "*.*" /\ ~SelectRestricted(grants) /\ g.privs \cap {"SELECT", "ALL PRIVILEGES"} # {}
       \/ g.on \in {"mysql.proc", "mysql.*"} /\ ~SelectRestricted(grants) /\ "SELECT" \in g.privs

DiagnoseRoutineAccess(d) ==
  /\ dpc[d] = "routines"
  /\ Says(d, "stored routines", IF HasRoutineGrant(db.grants) THEN "ok" ELSE "warn", "discover")
  /\ UNCHANGED <<worldVars, runVars, probe, exit>>

Discover(d) ==
  /\ dpc[d] = "discover"
  /\ Says(d, "discovery", "ok", AfterSource)
  /\ UNCHANGED <<worldVars, runVars, probe, exit>>

\* A call to the server fails: each check has its own answer to that.
SourceCallFails(d) ==
  /\ Happened("fault")
  /\ \/ dpc[d] = "source" /\ Says(d, "connect", "fail", AfterSource)
     \/ dpc[d] = "diagnose" /\ db.engine = "postgres" /\ Says(d, "server version", "fail", "discover")
     \/ dpc[d] = "access" /\ \E s \in {"fail", "warn"} : Says(d, "table read access", s, "discover")
     \/ dpc[d] = "routines" /\ Says(d, "stored routines", "warn", "discover")
     \/ dpc[d] = "discover" /\ Says(d, "read access", "warn", AfterSource)
  /\ UNCHANGED <<setup, db, clients, runVars, probe, exit>>

-----------------------------------------------------------------------------
(* DiagnoseDestination: ProbeDestination's calls and what it makes of them.*)

\* A call answers an error: it is not permitted, or it failed on the way.
Errs(op) == IF op \in setup.perms THEN Happened(op) ELSE UNCHANGED events

\* A call that failed on the way may have been carried out all the same.
MayHave(op, present) == probe' \in {probe} \cup {present : x \in {op} \cap setup.perms}

ProbePut(d) ==
  /\ dpc[d] = "put"
  /\ \/ "write" \in setup.perms /\ probe' = TRUE /\ Says(d, "write", "ok", "head") /\ UNCHANGED events
     \/ Errs("write") /\ MayHave("write", TRUE) /\ Says(d, "write", "fail", "render")
  /\ UNCHANGED <<setup, db, clients, runVars, exit>>

\* Mutant: a probe object that cannot be read is not deleted either.
ProbeHeadGivesUp(d) ==
  /\ dpc[d] = "head"
  /\ IF "read" \in setup.perms /\ probe
       THEN Says(d, "read", "ok", "delete")
       ELSE Says(d, "read", "warn", "render")
  /\ UNCHANGED <<worldVars, runVars, probe, exit>>

\* HeadObject also fails when another doctor has deleted the object.
ProbeHead(d) ==
  /\ dpc[d] = "head"
  /\ \/ "read" \in setup.perms /\ probe /\ Says(d, "read", "ok", "delete") /\ UNCHANGED events
     \/ "read" \in setup.perms /\ ~probe /\ Says(d, "read", "warn", "delete") /\ UNCHANGED events
     \/ Errs("read") /\ Says(d, "read", "warn", "delete")
  /\ UNCHANGED <<setup, db, clients, runVars, probe, exit>>

\* A delete that fails leaves the object, and the report says where.
ProbeDelete(d) ==
  /\ dpc[d] = "delete"
  /\ \/ "delete" \in setup.perms /\ probe' = FALSE /\ Says(d, "delete", "ok", "render") /\ UNCHANGED events
     \/ Errs("delete") /\ MayHave("delete", FALSE) /\ Says(d, "delete", "warn", "render")
  /\ UNCHANGED <<setup, db, clients, runVars, exit>>

-----------------------------------------------------------------------------
(* cmdDoctor.                                                              *)

\* The checks that need no call: a destination that is missing or that has no
\* credentials, and the recipient if one is set.
RestOfReport ==
  {<<"destination", "fail">> : x \in {setup.dest} \cap {"missing", "unresolved"}}
  \cup {<<"age recipient", IF setup.recipient = "bad" THEN "fail" ELSE "ok">> : x \in {setup.recipient} \ {"none"}}

\* renderChecks: the exit code says whether any check failed.
Render(d) ==
  /\ dpc[d] = "render" /\ dpc' = [dpc EXCEPT ![d] = "done"]
  /\ report' = [report EXCEPT ![d] = @ \cup RestOfReport]
  /\ exit' = [exit EXCEPT ![d] = IF \E c \in report'[d] : c[2] = "fail" THEN 1 ELSE 0]
  /\ UNCHANGED <<worldVars, runVars, probe>>

\* The doctor is killed.
Killed(d) ==
  /\ dpc[d] \notin {"done", "killed"} /\ Happened("killed")
  /\ dpc' = [dpc EXCEPT ![d] = "killed"]
  /\ UNCHANGED <<setup, db, clients, runVars, probe, report, exit>>

DoctorStep(d) ==
  \/ SourceTest(d) \/ DiagnoseVersion(d) \/ DiagnoseClient(d) \/ CheckReadAccess(d)
  \/ DiagnoseMySQL(d) \/ DiagnoseRoutineAccess(d) \/ Discover(d) \/ SourceCallFails(d)
  \/ ProbePut(d) \/ ProbeHead(d) \/ ProbeDelete(d) \/ Render(d) \/ Killed(d)

Next ==
  \/ RunNext /\ UNCHANGED doctorVars
  \/ \E d \in Doctors : DoctorStep(d)

Spec == Init /\ [][Next]_vars

-----------------------------------------------------------------------------
(* Properties.                                                             *)

SourceFails(d) ==
  \E c \in report[d] : c[2] = "fail" /\ c[1] \notin {"write", "destination", "age recipient"}

\* What the doctor does not look at: the tables of a MySQL database, any database but
\* the one that it connects to, and the roots of the dump client.
BlindSpot == setup.doctorDB # "same" \/ (db.engine = "mysql" /\ db.tables # {}) \/ Rootless

\* As long as nothing changes the doctor's verdict is the run's: a source that passes
\* is not refused, and one that fails cannot be dumped (DiagnoseSource against
\* TestConnection, Preflight and the dump).
DoctorIsRight ==
  events = <<>> =>
    \A d \in Doctors :
      /\ exit[d] = 0 /\ outcome \in {"connect", "dump", "unknown"} => BlindSpot
      /\ SourceFails(d) /\ setup.doctorDB = "same" => outcome # "ok"

\* The server shows stored routines to the user: SHOW_ROUTINE, a SELECT on everything
\* that the database is not exempt from, or on old servers the table they are kept in.
ShowsRoutines(s) ==
  \E g \in {h \in s.grants : h.stmt = "GRANT" /\ ~h.quoted} :
    \/ g.on = "*.*" /\ "SHOW_ROUTINE" \in g.privs
    \/ /\ g.on = "*.*" /\ g.privs \cap {"SELECT", "ALL PRIVILEGES"} # {}
       /\ ~\E r \in s.grants :
            r.stmt = "REVOKE" /\ ~r.quoted /\ r.on = "db.*" /\ r.privs \cap {"SELECT", "ALL PRIVILEGES"} # {}
    \/ s.old /\ g.on \in {"mysql.proc", "mysql.*"} /\ "SELECT" \in g.privs

\* The doctor never calls stored routines covered when the dump would miss them.  It
\* does not ask for the server's version, so a grant on mysql.* is believed of new
\* servers too (hasRoutineGrant).
RoutineVerdictIsSafe ==
  \A d \in Doctors : <<"stored routines", "ok">> \in report[d] =>
    \/ ShowsRoutines(db)
    \/ ~db.old /\ \E g \in db.grants : g.on \in {"mysql.proc", "mysql.*"}

\* A probe object that is still there when every doctor is done was left by a delete
\* that the report tells of, or by a put that had seemed to fail, or by a killed doctor
\* (ProbeDestination).
LeftoverIsReported ==
  /\ probe /\ \A d \in Doctors : dpc[d] \in {"done", "killed"}
  => \/ \E d \in Doctors : <<"delete", "warn">> \in report[d]
     \/ Range(events) \cap {"write", "killed"} # {}
=============================================================================
