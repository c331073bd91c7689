----------------------------- MODULE ConfigStore -----------------------------
(***************************************************************************)
(* The configuration file and the OS keychain under concurrent dbferry     *)
(* commands.  Each command is a process of its own; a step is one call     *)
(* that another process can see: a keychain call, the flock, the read of   *)
(* the file or the rename that replaces it.                                *)
(*                                                                         *)
(* An entry is a named connection or destination.  Of its record only the  *)
(* keychain references matter here: the file maps an entry to the set of   *)
(* them (empty for environment references), or to Unlisted.  The value     *)
(* that a command stores in the keychain is named by the command.          *)
(***************************************************************************)
EXTENDS Integers

CONSTANTS
  Procs,        \* the processes, each running one command
  Entries,      \* names of connections and destinations
  Keyrings,     \* names of keychain items
  Command,      \* the command of each process
  InitialFile,  \* the configuration before them
  NoSecret, OldSecret, NoRef, NoProc

\* op "add": connections add;  "init": the wizard, which may also create the
\* destination dest;  "put": destinations add;  "rm": connections or destinations rm;
\* "use": a command that only reads the entry, its destination dest and their secrets,
\* as run and doctor do.
Commands == [op : {"add", "init", "put", "rm", "use"}, entry : Entries, ref : Keyrings \cup {NoRef}, dest : Entries]

\* What stands for the record of an entry that is not there.
Unlisted == {NoRef}

Records == (SUBSET Keyrings) \cup {Unlisted}

ASSUME ConfigAssumption ==
  /\ Command \in [Procs -> Commands]
  /\ InitialFile \in [Entries -> Records]
  /\ NoRef \notin Keyrings /\ NoProc \notin Procs
  /\ NoSecret \notin Procs \cup {OldSecret}

VARIABLES
  file,      \* the configuration on disk
  keychain,  \* the value of each keychain item
  lock,      \* the process that holds the flock
  pc,        \* where each command is
  mem,       \* the configuration that it loaded
  prev,      \* the keychain value that it found
  items,     \* the keychain items that it has yet to look at
  intended,  \* history: every finished change applied in turn to InitialFile
  owner,     \* history: the command that wrote each entry last
  view       \* history: the records a reading command has read, whose they were, which
             \* commands were to change them, and the secrets that it got

vars == <<file, keychain, lock, pc, mem, prev, items, intended, owner, view>>

Op(p) == Command[p].op
Ref(p) == Command[p].ref
Stores(p) == Op(p) \in {"add", "init"} /\ Ref(p) # NoRef

\* Where a command that wants to write the configuration goes next.
WriteFrom(p) == IF Stores(p) THEN "get" ELSE "lock"

Referenced(f) == {k \in Keyrings : \E e \in Entries : f[e] # Unlisted /\ k \in f[e]}

\* What nothing in the code keeps apart, since the user names the keychain items: no two
\* commands store in the same item, none stores in an item that a record of another entry
\* has, and none removes an entry that another adds with a secret.
Apart ==
  \A p \in {x \in Procs : Stores(x)} :
    /\ \A q \in Procs : Stores(q) /\ Ref(q) = Ref(p) => q = p
    /\ \A q \in Procs : Op(q) = "rm" => Command[q].entry # Command[p].entry
    /\ \A e \in Entries : Ref(p) \in InitialFile[e] => e = Command[p].entry

Init ==
  /\ file = InitialFile /\ intended = InitialFile
  /\ keychain = [k \in Keyrings |-> IF k \in Referenced(InitialFile) THEN OldSecret ELSE NoSecret]
  /\ lock = NoProc
  /\ pc = [p \in Procs |-> CASE Op(p) = "init" -> "choose" [] Op(p) = "use" -> "use" [] OTHER -> WriteFrom(p)]
  /\ mem = [p \in Procs |-> InitialFile]
  /\ prev = [p \in Procs |-> NoSecret]
  /\ items = [p \in Procs |-> {}]
  /\ owner = [e \in Entries |-> OldSecret]
  /\ view = [p \in Procs |-> [read |-> <<>>, by |-> <<>>, rivals |-> {}, got |-> {}]]

-----------------------------------------------------------------------------
(* StoreWithRollback.                                                      *)

\* keyring.Get; any error but ErrNotFound refuses to overwrite.
GetPrevious(p) ==
  /\ pc[p] = "get"
  /\ \/ prev' = [prev EXCEPT ![p] = keychain[Ref(p)]] /\ pc' = [pc EXCEPT ![p] = "set"]
     \/ pc' = [pc EXCEPT ![p] = "failed"] /\ UNCHANGED prev
  /\ UNCHANGED <<file, keychain, lock, mem, items, intended, owner, view>>

\* keyring.Set; an error leaves nothing to roll back.
Store(p) ==
  /\ pc[p] = "set"
  /\ \/ keychain' = [keychain EXCEPT ![Ref(p)] = p] /\ pc' = [pc EXCEPT ![p] = "lock"]
     \/ pc' = [pc EXCEPT ![p] = "failed"] /\ UNCHANGED keychain
  /\ UNCHANGED <<file, lock, mem, prev, items, intended, owner, view>>

\* Mutant: the rollback is not called.
RollbackForgotten(p) ==
  /\ pc[p] = "rollback" /\ pc' = [pc EXCEPT ![p] = "failed"]
  /\ lock' = IF lock = p THEN NoProc ELSE lock
  /\ UNCHANGED <<file, keychain, mem, prev, items, intended, owner, view>>

\* The rollback: the previous value back, or no item if there was none.  If the
\* keychain refuses, the user is warned that it holds the new value.  The wizard
\* rolls back before its deferred unlock.
Rollback(p) ==
  /\ pc[p] = "rollback"
  /\ \/ keychain' = [keychain EXCEPT ![Ref(p)] = prev[p]] /\ pc' = [pc EXCEPT ![p] = "failed"]
     \/ pc' = [pc EXCEPT ![p] = "warned"] /\ UNCHANGED keychain
  /\ lock' = IF lock = p THEN NoProc ELSE lock
  /\ UNCHANGED <<file, mem, prev, items, intended, owner, view>>

-----------------------------------------------------------------------------
(* Load, change and save under the lock.                                   *)

\* A command gives up.  One that stored a secret has to roll back, and only the
\* wizard still holds the lock then.
GiveUp(p) ==
  /\ pc' = [pc EXCEPT ![p] = IF Stores(p) /\ pc[p] \in {"lock", "load", "save"} THEN "rollback" ELSE "failed"]
  /\ lock' = IF lock = p /\ ~(Op(p) = "init" /\ pc'[p] = "rollback") THEN NoProc ELSE lock
  /\ UNCHANGED <<file, keychain, mem, prev, items, intended, owner, view>>

\* Mutant: the lock is not exclusive.
LockShared(p) ==
  /\ pc[p] \in {"choose", "lock"}
  /\ lock' = p
  /\ pc' = [pc EXCEPT ![p] = IF pc[p] = "choose" THEN "chooseLoad" ELSE "load"]
  /\ UNCHANGED <<file, keychain, mem, prev, items, intended, owner, view>>

\* TryLock: it never waits.
Lock(p) ==
  /\ pc[p] \in {"choose", "lock"}
  /\ \/ /\ lock = NoProc /\ lock' = p
        /\ pc' = [pc EXCEPT ![p] = IF pc[p] = "choose" THEN "chooseLoad" ELSE "load"]
        /\ UNCHANGED <<file, keychain, mem, prev, items, intended, owner, view>>
     \/ lock # NoProc /\ GiveUp(p)

\* Load, and what the command checks before it changes anything: rm needs a listed
\* entry and the user's consent.
Load(p) ==
  /\ pc[p] = "load"
  /\ \/ /\ Op(p) = "rm" => file[Command[p].entry] # Unlisted
        /\ mem' = [mem EXCEPT ![p] = file] /\ pc' = [pc EXCEPT ![p] = "save"]
        /\ UNCHANGED <<file, keychain, lock, prev, items, intended, owner, view>>
     \/ GiveUp(p)

\* chooseDestination: an existing destination is taken as it is and a new one is
\* to be saved; the user may also give up.
ChooseLoad(p) ==
  /\ pc[p] = "chooseLoad"
  /\ \/ /\ mem' = [mem EXCEPT ![p] = file]
        /\ IF file[Command[p].dest] # Unlisted
             THEN lock' = NoProc /\ pc' = [pc EXCEPT ![p] = WriteFrom(p)]
             ELSE pc' = [pc EXCEPT ![p] = "chooseSave"] /\ UNCHANGED lock
        /\ UNCHANGED <<file, keychain, prev, items, intended, owner, view>>
     \/ GiveUp(p)

\* SaveLocked replaces the file by the changed copy, wholly or not at all.
Replace(p, e, r) ==
  /\ file' = [mem[p] EXCEPT ![e] = r]
  /\ intended' = [intended EXCEPT ![e] = r]
  /\ owner' = [owner EXCEPT ![e] = p]

ChooseSave(p) ==
  /\ pc[p] = "chooseSave"
  /\ \/ /\ Replace(p, Command[p].dest, {}) /\ UNCHANGED lock
        /\ pc' = [pc EXCEPT ![p] = "probe"]
        /\ UNCHANGED <<keychain, mem, prev, items, view>>
     \/ GiveUp(p)

\* The new destination is probed before the deferred unlock; whatever the probe finds
\* is only shown.
ProbeReturns(p) ==
  /\ pc[p] = "probe" /\ pc' = [pc EXCEPT ![p] = WriteFrom(p)] /\ lock' = NoProc
  /\ UNCHANGED <<file, keychain, mem, prev, items, intended, owner, view>>

\* The record that a command writes.
RecordOf(p) ==
  CASE Op(p) \in {"add", "init"} -> {Ref(p)} \ {NoRef}
    [] Op(p) = "put" -> {}
    [] OTHER -> Unlisted

\* rm keeps the lock and turns to the keychain; the others are done.
Save(p) ==
  /\ pc[p] = "save"
  /\ \/ /\ Replace(p, Command[p].entry, RecordOf(p))
        /\ IF Op(p) = "rm"
             THEN /\ pc' = [pc EXCEPT ![p] = "delete"] /\ UNCHANGED lock
                  /\ items' = [items EXCEPT ![p] = mem[p][Command[p].entry]]
             ELSE pc' = [pc EXCEPT ![p] = "done"] /\ lock' = NoProc /\ UNCHANGED items
        /\ UNCHANGED <<keychain, mem, prev, view>>
     \/ GiveUp(p)

\* Mutant: rm deletes a secret that other records share.
NeverStillUsed(p, k) == FALSE

\* Whether another record of the configuration that rm wrote has the reference.
SecretRefStillUsed(p, k) == k \in Referenced([mem[p] EXCEPT ![Command[p].entry] = Unlisted])

\* rm deletes the items that no record needs; an error is only a warning.
DeleteSecret(p) ==
  /\ pc[p] = "delete"
  /\ \E k \in items[p] :
       /\ items' = [items EXCEPT ![p] = @ \ {k}]
       /\ \/ ~SecretRefStillUsed(p, k) /\ keychain' = [keychain EXCEPT ![k] = NoSecret]
          \/ UNCHANGED keychain
  /\ UNCHANGED <<file, lock, pc, mem, prev, intended, owner, view>>

RmReturns(p) ==
  /\ pc[p] = "delete" /\ items[p] = {}
  /\ pc' = [pc EXCEPT ![p] = "done"] /\ lock' = NoProc
  /\ UNCHANGED <<file, keychain, mem, prev, items, intended, owner, view>>

-----------------------------------------------------------------------------
(* Reading commands.                                                       *)

Uses(p) == {Command[p].entry, Command[p].dest}

ItemsOf(p) == {k \in Keyrings : \E e \in Uses(p) : k \in file[e]}

\* The commands that change what p uses and have not come to a good end.
Rivals(p) == {q \in Procs : Op(q) # "use" /\ Command[q].entry \in Uses(p) /\ pc[q] \notin {"done", "failed"}}

\* Load without the lock, and the entry: no such connection is the user's error, and so
\* is no such destination, which only the doctor reports and goes on.
ReadFile(p) ==
  /\ pc[p] = "use"
  /\ \/ /\ file[Command[p].entry] # Unlisted
        /\ pc' = [pc EXCEPT ![p] = "resolve"]
        /\ items' = [items EXCEPT ![p] = ItemsOf(p)]
        /\ view' = [view EXCEPT ![p] = [read |-> [e \in Uses(p) |-> file[e]], by |-> [e \in Uses(p) |-> owner[e]],
                                       rivals |-> Rivals(p), got |-> {}]]
     \/ pc' = [pc EXCEPT ![p] = "failed"] /\ UNCHANGED <<items, view>>
  /\ UNCHANGED <<file, keychain, lock, mem, prev, intended, owner>>

\* SecretRef.Resolve, the connection's item first.  An item that is not there ends the
\* command, and so does a keychain that does not answer.
Resolve(p) ==
  /\ pc[p] = "resolve"
  /\ \/ \E k \in items[p] :
          /\ \/ k \in view[p].read[Command[p].entry]
             \/ items[p] \cap view[p].read[Command[p].entry] = {}
          /\ items' = [items EXCEPT ![p] = @ \ {k}]
          /\ view' = [view EXCEPT ![p].got = @ \cup {<<k, keychain[k]>>}]
          /\ pc' = [pc EXCEPT ![p] = IF keychain[k] = NoSecret THEN "failed" ELSE @]
     \/ /\ pc' = [pc EXCEPT ![p] = IF items[p] = {} THEN "done" ELSE "failed"]
        /\ UNCHANGED <<items, view>>
  /\ UNCHANGED <<file, keychain, lock, mem, prev, intended, owner>>

-----------------------------------------------------------------------------
\* Mutant: a dead process leaves its lock behind.
DieKeepingLock(p) ==
  /\ pc[p] \notin {"done", "failed", "warned", "dead"}
  /\ pc' = [pc EXCEPT ![p] = "dead"]
  /\ UNCHANGED <<file, keychain, lock, mem, prev, items, intended, owner, view>>

\* The process is killed: the flock goes with it, a temporary file stays unused.
Die(p) ==
  /\ pc[p] \notin {"done", "failed", "warned", "dead"}
  /\ pc' = [pc EXCEPT ![p] = "dead"]
  /\ lock' = IF lock = p THEN NoProc ELSE lock
  /\ UNCHANGED <<file, keychain, mem, prev, items, intended, owner, view>>

Step(p) ==
  \/ GetPrevious(p) \/ Store(p) \/ Rollback(p)
  \/ Lock(p) \/ Load(p) \/ Save(p) \/ ChooseLoad(p) \/ ChooseSave(p) \/ ProbeReturns(p)
  \/ DeleteSecret(p) \/ RmReturns(p) \/ ReadFile(p) \/ Resolve(p) \/ Die(p)

Next == \E p \in Procs : Step(p)

Spec == Init /\ [][Next]_vars

-----------------------------------------------------------------------------
(* Properties.                                                             *)

Holding == {"chooseLoad", "chooseSave", "probe", "load", "save", "delete"}

TypeOK ==
  /\ file \in [Entries -> Records] /\ intended \in [Entries -> Records]
  /\ keychain \in [Keyrings -> Procs \cup {OldSecret, NoSecret}]
  /\ pc \in [Procs -> Holding \cup {"choose", "get", "set", "lock", "rollback", "use", "resolve",
                                    "done", "failed", "warned", "dead"}]
  /\ mem \in [Procs -> [Entries -> Records]]
  /\ prev \in [Procs -> Procs \cup {OldSecret, NoSecret}]
  /\ items \in [Procs -> SUBSET Keyrings]
  /\ owner \in [Entries -> Procs \cup {OldSecret}]
  /\ lock \in Procs \cup {NoProc}
  /\ lock # NoProc => pc[lock] \in Holding \cup {"rollback"}

\* No update is lost: the file is the initial one with every change that a command
\* made, whatever they load, fail and die in between (Lock, Load, SaveLocked).
NoLostUpdate == file = intended

\* Every listed connection and destination has its secrets: rm never takes one
\* that a record still needs, nor before its own record is gone for good
\* (connectionsRm, destinationsRm, StoreWithRollback).
ListedIsUsable == \A k \in Referenced(file) : keychain[k] # NoSecret

\* The commands that are between the store and the end of their work on item k, or
\* were stopped there.
Unsettled(k) == {p \in Procs : Stores(p) /\ Ref(p) = k /\ pc[p] \in {"lock", "load", "save", "rollback", "warned", "dead"}}

\* A listed entry has the password of the command that wrote it: one that fails
\* over an existing connection leaves the password that works (StoreWithRollback).
PasswordMatchesEntry ==
  \A e \in Entries : file[e] # Unlisted =>
    \A k \in file[e] : Unsettled(k) = {} => keychain[k] = owner[e]

\* Whether a command has got as far as to change the keychain.
Begun(q) == ~(pc[q] \in {"choose", "chooseLoad", "chooseSave", "probe", "get", "set"} \/ (pc[q] = "lock" /\ ~Stores(q)))

\* A command that reads the configuration without the lock and the keychain after it
\* gets the secrets that belong to the entries it has read, unless a command that
\* changes this very entry was under way or began meanwhile: one that removes another
\* entry with the same item, or that failed and rolled back before, is never felt
\* (config.Load and SecretRef.Resolve in cmdRun, cmdDoctor and connFlags.source).
SecretOfOneMoment ==
  \A p \in Procs : \A kv \in view[p].got : \A e \in {x \in Uses(p) : kv[1] \in view[p].read[x]} :
    \/ kv[2] = view[p].by[e]
    \/ \E q \in view[p].rivals : Command[q].entry = e /\ Begun(q)
=============================================================================
