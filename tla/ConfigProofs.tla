---------------------------- MODULE ConfigProofs ----------------------------
(***************************************************************************)
(* The configuration file loses no update, every listed entry keeps its   *)
(* secret and a reader gets the secrets of one moment, for any number of   *)
(* concurrent commands, entries and keychain items.                        *)
(***************************************************************************)
EXTENDS ConfigStore, TLAPS

\* A command reads and writes the file only while it has the lock, so the copy
\* that it is about to write is still the file.
LockInv ==
  \A p \in Procs :
    /\ pc[p] \in Holding => lock = p
    /\ pc[p] \in {"save", "chooseSave"} => mem[p] = file
    /\ pc[p] = "save" /\ Op(p) = "rm" => mem[p][Command[p].entry] # Unlisted
    /\ pc[p] \in {"get", "set"} => Stores(p)

IInv == TypeOK /\ LockInv /\ NoLostUpdate

\* Where a command goes next is always a place of its program.
LEMMA WriteFromType ==
  \A p \in Procs : WriteFrom(p) \in {"get", "lock"} /\ (WriteFrom(p) = "get" => Stores(p))
BY DEF WriteFrom

\* A keychain item that a command names is one.
LEMMA RefType == \A p \in Procs : Stores(p) => Ref(p) \in Keyrings
BY ConfigAssumption DEF ConfigAssumption, Commands, Stores, Ref

\* The record that a command writes is a record.
LEMMA RecordType ==
  \A p \in Procs : RecordOf(p) \in Records /\ {} \in Records
                   /\ Command[p].entry \in Entries /\ Command[p].dest \in Entries
<1> SUFFICES ASSUME NEW p \in Procs
             PROVE  RecordOf(p) \in Records /\ {} \in Records
                    /\ Command[p].entry \in Entries /\ Command[p].dest \in Entries
  OBVIOUS
<1>1. Command[p] \in Commands
  BY ConfigAssumption DEF ConfigAssumption
<1>2. Op(p) \in {"add", "init", "put", "rm", "use"} /\ {Ref(p)} \ {NoRef} \in SUBSET Keyrings
  BY <1>1 DEF Commands, Op, Ref
<1>3. RecordOf(p) \in {{Ref(p)} \ {NoRef}, {}, Unlisted}
  BY <1>2 DEF RecordOf
<1>4. RecordOf(p) \in Records /\ {} \in Records
  BY <1>2, <1>3 DEF Records
<1>5. Command[p].entry \in Entries /\ Command[p].dest \in Entries
  BY <1>1 DEF Commands
<1> QED BY <1>4, <1>5

\* Giving up changes neither the file nor the keychain.
LEMMA GiveUpInv ==
  ASSUME IInv, NEW p \in Procs, GiveUp(p), pc[p] \in {"lock", "choose"} => lock # p
  PROVE  IInv'
<1>1. /\ UNCHANGED <<file, keychain, mem, prev, items, intended, owner>>
      /\ pc' = [pc EXCEPT ![p] = pc'[p]] /\ pc'[p] \in {"rollback", "failed"}
      /\ lock' = IF lock = p /\ ~(Op(p) = "init" /\ pc'[p] = "rollback") THEN NoProc ELSE lock
  BY DEF GiveUp, IInv, TypeOK
<1>2. TypeOK'
  BY <1>1, ConfigAssumption DEF IInv, TypeOK, ConfigAssumption
<1>3. LockInv'
  BY <1>1 DEF IInv, LockInv, TypeOK, Holding
<1> QED BY <1>1, <1>2, <1>3 DEF IInv, NoLostUpdate

\* Replacing the file by a copy loaded under the lock changes one entry of it.
LEMMA ReplaceIsAnUpdate ==
  ASSUME IInv, NEW p \in Procs, NEW e \in Entries, NEW r \in Records,
         pc[p] \in {"save", "chooseSave"}, Replace(p, e, r)
  PROVE  /\ file' = intended' /\ file' \in [Entries -> Records]
         /\ owner' \in [Entries -> Procs \cup {OldSecret}]
BY DEF IInv, TypeOK, LockInv, NoLostUpdate, Replace

\* Where the commands begin.
LEMMA InitialPlaces == ASSUME Init PROVE \A p \in Procs : pc[p] \in {"choose", "get", "lock", "use"}
BY WriteFromType DEF Init

\* The invariant of the lock and of the file holds in every reachable state.
THEOREM ConfigInvariance == Spec => []IInv
<1>1. Init => IInv
  <2> SUFFICES ASSUME Init PROVE IInv
    OBVIOUS
  <2>1. \A p \in Procs : pc[p] \in {"choose", "get", "lock", "use"}
    BY InitialPlaces
  <2>2. TypeOK
    BY <2>1, ConfigAssumption DEF Init, TypeOK, ConfigAssumption
  <2>3. \A p \in Procs : pc[p] = "get" => Stores(p)
    BY WriteFromType DEF Init
  <2> QED BY <2>1, <2>2, <2>3 DEF Init, IInv, LockInv, NoLostUpdate, Holding
<1>2. IInv /\ [Next]_vars => IInv'
  <2> SUFFICES ASSUME IInv, [Next]_vars PROVE IInv'
    OBVIOUS
  <2> USE DEF IInv
  <2>1. CASE UNCHANGED vars
    BY <2>1 DEF vars, TypeOK, LockInv, NoLostUpdate
  <2>2. ASSUME NEW p \in Procs, GetPrevious(p) \/ Store(p) PROVE IInv'
    <3>1. TypeOK'
      <4>1. Ref(p) \in Keyrings
        BY <2>2, RefType DEF GetPrevious, Store, LockInv
      <4>2. lock # p
        BY <2>2, ConfigAssumption DEF GetPrevious, Store, TypeOK, Holding, ConfigAssumption
      <4>3. CASE GetPrevious(p)
        <5>1. prev' \in [Procs -> Procs \cup {OldSecret, NoSecret}]
          BY <4>1, <4>3 DEF GetPrevious, TypeOK
        <5> QED BY <4>2, <4>3, <5>1 DEF GetPrevious, TypeOK
      <4>4. CASE Store(p)
        BY <4>1, <4>2, <4>4 DEF Store, TypeOK
      <4> QED BY <2>2, <4>3, <4>4
    <3>2. LockInv' /\ NoLostUpdate'
      BY <2>2 DEF GetPrevious, Store, TypeOK, LockInv, NoLostUpdate, Holding
    <3> QED BY <3>1, <3>2
  <2>3. ASSUME NEW p \in Procs, Rollback(p) PROVE IInv'
    <3>1. TypeOK'
      BY <2>3, RefType, ConfigAssumption DEF Rollback, TypeOK, ConfigAssumption
    <3>2. LockInv' /\ NoLostUpdate'
      BY <2>3 DEF Rollback, TypeOK, LockInv, NoLostUpdate, Holding
    <3> QED BY <3>1, <3>2
  <2>4. ASSUME NEW p \in Procs, Lock(p) PROVE IInv'
    <3>1. CASE lock = NoProc /\ ~GiveUp(p)
      BY <2>4, <3>1, ConfigAssumption DEF Lock, TypeOK, LockInv, NoLostUpdate, Holding, ConfigAssumption
    <3>2. CASE GiveUp(p)
      <4>1. lock # p
        BY <2>4, ConfigAssumption DEF Lock, TypeOK, Holding, ConfigAssumption
      <4> QED BY <3>2, <4>1, GiveUpInv
    <3> QED BY <2>4, <3>1, <3>2 DEF Lock
  <2>5. ASSUME NEW p \in Procs, Load(p) \/ ChooseLoad(p) PROVE IInv'
    <3>1. CASE GiveUp(p)
      BY <2>5, <3>1, GiveUpInv DEF Load, ChooseLoad
    <3>2. CASE ~GiveUp(p)
      <4>1. lock = p
        BY <2>5 DEF Load, ChooseLoad, LockInv, Holding
      <4>2. /\ UNCHANGED <<file, keychain, prev, items, intended, owner>>
            /\ mem' = [mem EXCEPT ![p] = file]
            /\ \/ /\ pc' = [pc EXCEPT ![p] = "save"] /\ lock' = lock
                  /\ Op(p) = "rm" => file[Command[p].entry] # Unlisted
               \/ pc' = [pc EXCEPT ![p] = "chooseSave"] /\ lock' = lock
               \/ pc' = [pc EXCEPT ![p] = WriteFrom(p)] /\ lock' = NoProc
        BY <2>5, <3>2 DEF Load, ChooseLoad
      <4>3. TypeOK'
        BY <4>1, <4>2, WriteFromType, ConfigAssumption DEF TypeOK, Holding, ConfigAssumption
      <4>4. LockInv'
        BY <4>1, <4>2, WriteFromType DEF TypeOK, LockInv, Holding
      <4> QED BY <4>2, <4>3, <4>4 DEF NoLostUpdate
    <3> QED BY <3>1, <3>2
  <2>6. ASSUME NEW p \in Procs, Save(p) \/ ChooseSave(p) PROVE IInv'
    <3>1. CASE GiveUp(p)
      BY <2>6, <3>1, GiveUpInv DEF Save, ChooseSave
    <3>2. CASE ~GiveUp(p)
      <4>1. lock = p /\ pc[p] \in {"save", "chooseSave"}
        BY <2>6 DEF Save, ChooseSave, LockInv, Holding
      <4>2. /\ file' = intended' /\ file' \in [Entries -> Records]
            /\ owner' \in [Entries -> Procs \cup {OldSecret}]
        BY <2>6, <3>2, <4>1, RecordType, ReplaceIsAnUpdate DEF Save, ChooseSave
      <4>3. /\ UNCHANGED <<keychain, mem, prev>> /\ items' \in [Procs -> SUBSET Keyrings]
            /\ \/ pc' = [pc EXCEPT ![p] = "delete"] /\ lock' = lock
               \/ pc' = [pc EXCEPT ![p] = "probe"] /\ lock' = lock
               \/ pc' = [pc EXCEPT ![p] = "done"] /\ lock' = NoProc
        <5>1. Save(p) /\ Op(p) = "rm" => mem[p][Command[p].entry] \in SUBSET Keyrings
          <6>1. mem[p][Command[p].entry] \in Records
            BY RecordType DEF TypeOK
          <6> QED BY <6>1 DEF Save, LockInv, Records
        <5> QED BY <2>6, <3>2, <5>1 DEF Save, ChooseSave, TypeOK
      <4>4. TypeOK'
        BY <4>1, <4>2, <4>3, WriteFromType, ConfigAssumption DEF TypeOK, Holding, ConfigAssumption
      <4>5. LockInv'
        BY <4>1, <4>3, WriteFromType DEF TypeOK, LockInv, Holding
      <4> QED BY <4>2, <4>4, <4>5 DEF NoLostUpdate
    <3> QED BY <3>1, <3>2
  <2>7. ASSUME NEW p \in Procs, DeleteSecret(p) PROVE IInv'
    BY <2>7 DEF DeleteSecret, TypeOK, LockInv, NoLostUpdate
  <2>8. ASSUME NEW p \in Procs, RmReturns(p) \/ Die(p) PROVE IInv'
    <3>1. TypeOK'
      <4>1. CASE RmReturns(p)
        BY <4>1, ConfigAssumption DEF RmReturns, TypeOK, LockInv, Holding, ConfigAssumption
      <4>2. CASE Die(p)
        BY <4>2, ConfigAssumption DEF Die, TypeOK, LockInv, Holding, ConfigAssumption
      <4> QED BY <2>8, <4>1, <4>2
    <3>2. LockInv' /\ NoLostUpdate'
      BY <2>8 DEF RmReturns, Die, TypeOK, LockInv, NoLostUpdate, Holding
    <3> QED BY <3>1, <3>2
  <2>9. ASSUME NEW p \in Procs, ProbeReturns(p) PROVE IInv'
    BY <2>9, WriteFromType, ConfigAssumption
       DEF ProbeReturns, TypeOK, LockInv, NoLostUpdate, Holding, ConfigAssumption
  <2>10. ASSUME NEW p \in Procs, ReadFile(p) \/ Resolve(p) PROVE IInv'
    <3>1. /\ UNCHANGED <<file, keychain, lock, mem, prev, intended, owner>>
          /\ pc[p] \in {"use", "resolve"}
          /\ pc' = [pc EXCEPT ![p] = pc'[p]] /\ pc'[p] \in {"resolve", "done", "failed"}
      BY <2>10 DEF ReadFile, Resolve, TypeOK
    <3>2. items' \in [Procs -> SUBSET Keyrings]
      <4>1. ItemsOf(p) \in SUBSET Keyrings
        BY DEF ItemsOf
      <4>2. CASE ReadFile(p)
        BY <4>1, <4>2 DEF ReadFile, TypeOK
      <4>3. CASE Resolve(p)
        BY <4>3 DEF Resolve, TypeOK
      <4> QED BY <2>10, <4>2, <4>3
    <3>3. lock # p
      BY <3>1, ConfigAssumption DEF TypeOK, Holding, ConfigAssumption
    <3>4. TypeOK'
      BY <3>1, <3>2, <3>3 DEF TypeOK
    <3>5. LockInv' /\ NoLostUpdate'
      BY <3>1 DEF TypeOK, LockInv, NoLostUpdate, Holding
    <3> QED BY <3>4, <3>5
  <2> QED BY <2>1, <2>2, <2>3, <2>4, <2>5, <2>6, <2>7, <2>8, <2>9, <2>10 DEF Next, Step
<1> QED BY <1>1, <1>2, PTL DEF Spec

\* The variables of the configuration and of its commands keep their types, and the
\* lock is only ever held by a command that will give it back.
THEOREM ConfigTypes == Spec => []TypeOK
<1>1. IInv => TypeOK
  BY DEF IInv
<1> QED BY <1>1, ConfigInvariance, PTL

\* No update of the configuration is lost (Lock, Load, SaveLocked).
THEOREM NoUpdateIsLost == Spec => []NoLostUpdate
<1>1. IInv => NoLostUpdate
  BY DEF IInv
<1> QED BY <1>1, ConfigInvariance, PTL

-----------------------------------------------------------------------------
(* The keychain.  What follows holds of commands that are Apart.           *)

\* The value that an item had before the commands.
InitialValue(k) == IF k \in Referenced(InitialFile) THEN OldSecret ELSE NoSecret

\* Each command is on the path of its operation, and the wizard creates a destination
\* only where there is none.
PathInv ==
  \A p \in Procs :
    /\ pc[p] \in {"use", "resolve"} => Op(p) = "use"
    /\ Op(p) = "use" => pc[p] \in {"use", "resolve", "done", "failed", "dead"}
    /\ pc[p] = "delete" => Op(p) = "rm" /\ file = [mem[p] EXCEPT ![Command[p].entry] = Unlisted]
    /\ pc[p] = "chooseSave" => mem[p][Command[p].dest] = Unlisted
    /\ pc[p] = "rollback" => Stores(p)

\* The item that a command stores in has the command's value exactly while the command
\* is past the store, and the value that it would put back is the one from before.
StoredInv ==
  \A p \in Procs : Stores(p) =>
    /\ pc[p] \in {"set", "lock", "load", "save", "rollback"} => prev[p] = InitialValue(Ref(p))
    /\ pc[p] \in {"lock", "load", "save", "rollback", "warned", "done"} => keychain[Ref(p)] = p
    /\ pc[p] = "dead" => keychain[Ref(p)] \in {p, InitialValue(Ref(p))}
    /\ pc[p] \notin {"lock", "load", "save", "rollback", "warned", "done", "dead"} =>
         keychain[Ref(p)] = InitialValue(Ref(p))

\* A record with a secret is the initial one or that of a command that is done, and a
\* done command's item is in no older record of its entry.
RecordInv ==
  /\ \A e \in Entries :
       \/ file[e] = InitialFile[e] /\ owner[e] = OldSecret
       \/ file[e] \in {{}, Unlisted}
       \/ \E q \in Procs : /\ Stores(q) /\ pc[q] = "done"
                           /\ e = Command[q].entry /\ owner[e] = q /\ file[e] = {Ref(q)}
  /\ \A q \in Procs : Stores(q) /\ pc[q] = "done" /\ Ref(q) \in file[Command[q].entry] => owner[Command[q].entry] = q

\* The other items keep their value as long as a record has them, and these are the only
\* ones that rm deletes.
OtherInv ==
  /\ \A k \in Keyrings : \/ \E q \in Procs : Stores(q) /\ Ref(q) = k
                         \/ k \in Referenced(file) => keychain[k] = OldSecret
  /\ \A p \in Procs : pc[p] = "delete" => \A q \in Procs : Stores(q) => Ref(q) \notin items[p]

KeyInv == PathInv /\ StoredInv /\ RecordInv /\ OtherInv

\* A command that changes entry e, and that was under way when p read e, has begun.
Touched(p, e) == \E q \in view[p].rivals : Command[q].entry = e /\ Begun(q)

\* While a command resolves the secrets of the records it has read, each item has the
\* value it had then and its record is still there, unless one of the rivals has begun;
\* who is no rival is done with the entries.
Resolving(p) ==
  /\ \A q \in Procs : Op(q) # "use" /\ Command[q].entry \in Uses(p) =>
       q \in view[p].rivals \/ pc[q] \in {"done", "failed"}
  /\ \A e \in Uses(p) : \A k \in Keyrings : k \in view[p].read[e] =>
       /\ \A q \in Procs : Stores(q) /\ Ref(q) = k => Command[q].entry = e
       /\ keychain[k] = view[p].by[e] \/ Touched(p, e)
       /\ k \in file[e] \/ Touched(p, e)

\* Whatever has been read is explained.
Explained(p) ==
  \A kv \in view[p].got : \A e \in Uses(p) :
    kv[1] \in view[p].read[e] => kv[2] = view[p].by[e] \/ Touched(p, e)

ViewInv ==
  /\ view = [p \in Procs |-> view[p]]
  /\ \A p \in Procs :
       /\ view[p] = [read |-> view[p].read, by |-> view[p].by, rivals |-> view[p].rivals, got |-> view[p].got]
       /\ view[p].rivals \in SUBSET Procs
       /\ Explained(p)
       /\ pc[p] = "resolve" => Resolving(p)

\* The operation of a command is one of five, and a command that stores a secret is an
\* add or the wizard.
LEMMA OpType ==
  \A p \in Procs : Op(p) \in {"add", "init", "put", "rm", "use"} /\ (Stores(p) => Op(p) \in {"add", "init"})
BY ConfigAssumption DEF ConfigAssumption, Commands, Op, Stores

\* Giving up keeps what is known of the keychain: who has stored goes on to roll back.
LEMMA GiveUpKeyInv ==
  ASSUME IInv, IInv', KeyInv, NEW p \in Procs, GiveUp(p),
         pc[p] \in {"choose", "lock", "load", "save", "chooseLoad", "chooseSave"}
  PROVE  KeyInv'
<1>1. /\ UNCHANGED <<file, keychain, mem, prev, items, intended, owner, view>>
      /\ pc' = [pc EXCEPT ![p] = pc'[p]] /\ pc'[p] \in {"rollback", "failed"}
      /\ pc'[p] = "rollback" <=> Stores(p) /\ pc[p] \in {"lock", "load", "save"}
  BY DEF GiveUp, IInv, TypeOK
<1>2. PathInv'
  BY <1>1, OpType DEF KeyInv, PathInv, IInv, TypeOK
<1>3. StoredInv'
  BY <1>1 DEF KeyInv, StoredInv, IInv, TypeOK
<1>4. RecordInv'
  BY <1>1 DEF KeyInv, RecordInv, IInv, TypeOK
<1>5. OtherInv'
  BY <1>1 DEF KeyInv, OtherInv, IInv, TypeOK
<1> QED BY <1>2, <1>3, <1>4, <1>5 DEF KeyInv

\* The invariant of the keychain holds in the initial state.
LEMMA KeyInit == Init => KeyInv
<1> SUFFICES ASSUME Init PROVE KeyInv
  OBVIOUS
<1>1. ASSUME NEW p \in Procs
      PROVE  /\ pc[p] \in {"choose", "get", "lock", "use"}
             /\ Op(p) = "use" <=> pc[p] = "use"
             /\ pc[p] = "lock" => ~Stores(p)
  <2>1. CASE Op(p) = "init"
    BY <2>1 DEF Init
  <2>2. CASE Op(p) = "use"
    BY <2>2 DEF Init
  <2>3. CASE Op(p) \notin {"init", "use"}
    <3>1. pc[p] = WriteFrom(p)
      BY <2>3 DEF Init
    <3> QED BY <2>3, <3>1 DEF WriteFrom
  <2> QED BY <2>1, <2>2, <2>3
<1>2. PathInv
  <2> SUFFICES ASSUME NEW p \in Procs
               PROVE  /\ pc[p] \in {"use", "resolve"} => Op(p) = "use"
                      /\ Op(p) = "use" => pc[p] \in {"use", "resolve", "done", "failed", "dead"}
                      /\ pc[p] \notin {"delete", "chooseSave", "rollback"}
    BY Zenon DEF PathInv
  <2> QED BY <1>1
<1>3. StoredInv
  BY <1>1, RefType DEF StoredInv, Init, InitialValue
<1>4. RecordInv
  BY <1>1, OpType DEF RecordInv, Init
<1>5. OtherInv
  BY <1>1 DEF OtherInv, Init
<1> QED BY <1>2, <1>3, <1>4, <1>5 DEF KeyInv

\* A command writes one record: nothing or its own item.
LEMMA RecordOfType ==
  ASSUME NEW p \in Procs
  PROVE  /\ Op(p) = "rm" => RecordOf(p) = Unlisted
         /\ Op(p) # "rm" /\ Stores(p) => RecordOf(p) = {Ref(p)}
         /\ Op(p) \notin {"rm", "use"} /\ ~Stores(p) => RecordOf(p) = {}
<1>1. CASE Op(p) \in {"add", "init"}
  <2>1. RecordOf(p) = {Ref(p)} \ {NoRef}
    BY <1>1 DEF RecordOf
  <2>2. Stores(p) <=> Ref(p) # NoRef
    BY <1>1 DEF Stores
  <2> QED BY <1>1, <2>1, <2>2
<1>2. CASE Op(p) = "put"
  <2>1. RecordOf(p) = {} /\ ~Stores(p)
    BY <1>2 DEF RecordOf, Stores
  <2> QED BY <1>2, <2>1
<1>3. CASE Op(p) \in {"rm", "use"}
  <2>1. RecordOf(p) = Unlisted /\ ~Stores(p)
    BY <1>3 DEF RecordOf, Stores
  <2> QED BY <1>3, <2>1
<1> QED BY <1>1, <1>2, <1>3, OpType

\* Commands that are apart keep what is known of the keychain.
LEMMA KeyStep ==
  ASSUME Apart, IInv, IInv', KeyInv, [Next]_vars
  PROVE  KeyInv'
<1> USE DEF KeyInv
<1>1. CASE UNCHANGED vars
  BY <1>1 DEF vars, PathInv, StoredInv, RecordInv, OtherInv
<1>2. ASSUME NEW p \in Procs, GetPrevious(p) PROVE KeyInv'
  <2>1. /\ UNCHANGED <<file, keychain, mem, items, owner>> /\ Stores(p) /\ Ref(p) \in Keyrings /\ pc[p] = "get"
        /\ pc' = [pc EXCEPT ![p] = pc'[p]]
        /\ \/ pc'[p] = "set" /\ prev' = [prev EXCEPT ![p] = keychain[Ref(p)]]
           \/ pc'[p] = "failed" /\ prev' = prev
    BY <1>2, RefType DEF GetPrevious, IInv, LockInv, TypeOK
  <2>2. PathInv'
    BY <2>1, OpType DEF PathInv, IInv, TypeOK
  <2>3. StoredInv'
    BY <2>1 DEF StoredInv, IInv, TypeOK
  <2>4. RecordInv' /\ OtherInv'
    BY <2>1 DEF RecordInv, OtherInv, IInv, TypeOK
  <2> QED BY <2>2, <2>3, <2>4
<1>3. ASSUME NEW p \in Procs, Store(p) \/ Rollback(p) PROVE KeyInv'
  <2>1. /\ UNCHANGED <<file, mem, prev, items, owner>> /\ Stores(p) /\ Ref(p) \in Keyrings
        /\ pc' = [pc EXCEPT ![p] = pc'[p]]
        /\ \/ /\ pc[p] = "set"
              /\ \/ pc'[p] = "lock" /\ keychain' = [keychain EXCEPT ![Ref(p)] = p]
                 \/ pc'[p] = "failed" /\ keychain' = keychain
           \/ /\ pc[p] = "rollback"
              /\ \/ pc'[p] = "failed" /\ keychain' = [keychain EXCEPT ![Ref(p)] = prev[p]]
                 \/ pc'[p] = "warned" /\ keychain' = keychain
    BY <1>3, RefType DEF Store, Rollback, IInv, LockInv, TypeOK, PathInv
  <2>2. PathInv'
    BY <2>1, OpType DEF PathInv, IInv, TypeOK
  <2>3. \A k \in Keyrings : k # Ref(p) => keychain'[k] = keychain[k]
    BY <2>1 DEF IInv, TypeOK
  <2>4. keychain'[Ref(p)] = IF pc'[p] = "failed" THEN InitialValue(Ref(p)) ELSE p
    BY <2>1 DEF IInv, TypeOK, StoredInv
  <2>5. StoredInv'
    <3> SUFFICES ASSUME NEW q \in Procs, Stores(q)
                 PROVE  /\ pc'[q] \in {"set", "lock", "load", "save", "rollback"} => prev'[q] = InitialValue(Ref(q))
                        /\ pc'[q] \in {"lock", "load", "save", "rollback", "warned", "done"} => keychain'[Ref(q)] = q
                        /\ pc'[q] = "dead" => keychain'[Ref(q)] \in {q, InitialValue(Ref(q))}
                        /\ pc'[q] \notin {"lock", "load", "save", "rollback", "warned", "done", "dead"} =>
                             keychain'[Ref(q)] = InitialValue(Ref(q))
      BY DEF StoredInv, Stores, Op, Ref, InitialValue, Referenced
    <3>1. CASE q = p
      BY <2>1, <2>4, <3>1 DEF StoredInv, IInv, TypeOK
    <3>2. CASE q # p
      <4>1. Ref(q) # Ref(p) /\ Ref(q) \in Keyrings
        BY <2>1, <3>2, RefType DEF Apart
      <4> QED BY <2>1, <2>3, <3>2, <4>1 DEF StoredInv, IInv, TypeOK
    <3> QED BY <3>1, <3>2
  <2>6. RecordInv'
    BY <2>1 DEF RecordInv, IInv, TypeOK
  <2>7. OtherInv'
    BY <2>1, <2>3 DEF OtherInv, IInv, TypeOK
  <2> QED BY <2>2, <2>5, <2>6, <2>7
<1>4. ASSUME NEW p \in Procs, GiveUp(p),
             pc[p] \in {"choose", "lock", "load", "save", "chooseLoad", "chooseSave"}
      PROVE  KeyInv'
  BY <1>4, GiveUpKeyInv
<1>5. ASSUME NEW p \in Procs, Lock(p) \/ Load(p) \/ ChooseLoad(p) \/ ProbeReturns(p), ~GiveUp(p) PROVE KeyInv'
  <2>1. /\ UNCHANGED <<file, keychain, prev, items, owner>>
        /\ pc[p] \in {"choose", "lock", "load", "chooseLoad", "probe"}
        /\ pc' = [pc EXCEPT ![p] = pc'[p]]
        /\ mem' = [mem EXCEPT ![p] = mem'[p]]
        /\ pc'[p] \in CASE pc[p] = "choose" -> {"chooseLoad"}
                        [] pc[p] = "lock" -> {"load"}
                        [] pc[p] = "load" -> {"save"}
                        [] pc[p] = "chooseLoad" -> {WriteFrom(p), "chooseSave"}
                        [] OTHER -> {WriteFrom(p)}
        /\ pc'[p] = "chooseSave" => mem'[p][Command[p].dest] = Unlisted
    <3>1. CASE Lock(p)
      BY <1>5, <3>1 DEF Lock, IInv, TypeOK
    <3>2. CASE Load(p)
      BY <1>5, <3>2 DEF Load, IInv, TypeOK
    <3>3. CASE ChooseLoad(p)
      BY <1>5, <3>3, WriteFromType DEF ChooseLoad, IInv, TypeOK
    <3>4. CASE ProbeReturns(p)
      BY <1>5, <3>4, WriteFromType DEF ProbeReturns, IInv, TypeOK
    <3> QED BY <1>5, <3>1, <3>2, <3>3, <3>4
  <2>2. PathInv'
    BY <2>1, OpType, WriteFromType DEF PathInv, IInv, TypeOK
  <2>3. StoredInv'
    BY <2>1 DEF StoredInv, IInv, TypeOK, WriteFrom
  <2>4. RecordInv'
    BY <2>1, WriteFromType DEF RecordInv, IInv, TypeOK
  <2>5. OtherInv'
    BY <2>1, WriteFromType DEF OtherInv, IInv, TypeOK
  <2> QED BY <2>2, <2>3, <2>4, <2>5
<1>6. ASSUME NEW p \in Procs, RmReturns(p) \/ Die(p) \/ ReadFile(p) \/ Resolve(p) PROVE KeyInv'
  <2>1. /\ UNCHANGED <<file, keychain, mem, prev, owner>>
        /\ pc[p] \notin {"done", "failed", "warned", "dead"}
        /\ pc' = [pc EXCEPT ![p] = pc'[p]]
        /\ pc'[p] \in CASE pc[p] = "delete" -> {"done", "dead"}
                        [] pc[p] = "use" -> {"resolve", "failed", "dead"}
                        [] pc[p] = "resolve" -> {"resolve", "failed", "done", "dead"}
                        [] OTHER -> {"dead"}
        /\ \A q \in Procs : q # p => items'[q] = items[q]
    BY <1>6 DEF RmReturns, Die, ReadFile, Resolve, IInv, TypeOK
  <2>2. PathInv'
    BY <2>1, OpType DEF PathInv, IInv, TypeOK
  <2>3. StoredInv'
    BY <2>1, OpType DEF StoredInv, PathInv, IInv, TypeOK
  <2>4. RecordInv'
    BY <2>1, OpType DEF RecordInv, PathInv, IInv, TypeOK
  <2>5. OtherInv'
    BY <2>1 DEF OtherInv, IInv, TypeOK
  <2> QED BY <2>2, <2>3, <2>4, <2>5
<1>7. ASSUME NEW p \in Procs, Save(p), ~GiveUp(p) PROVE KeyInv'
  <2> DEFINE e == Command[p].entry
  <2>1. /\ file' = [file EXCEPT ![e] = RecordOf(p)] /\ owner' = [owner EXCEPT ![e] = p]
        /\ UNCHANGED <<keychain, mem, prev>> /\ pc[p] = "save" /\ e \in Entries
        /\ pc' = [pc EXCEPT ![p] = pc'[p]] /\ mem[p] = file
        /\ \/ Op(p) = "rm" /\ pc'[p] = "delete" /\ items' = [items EXCEPT ![p] = file[e]] /\ file[e] # Unlisted
           \/ Op(p) # "rm" /\ pc'[p] = "done" /\ items' = items
    BY <1>7, RecordType DEF Save, Replace, IInv, LockInv, TypeOK
  <2>2. Op(p) # "use" /\ file \in [Entries -> Records]
    BY <2>1 DEF PathInv, IInv, TypeOK
  <2>3. PathInv'
    <3>1. \A q \in Procs : q # p => pc[q] # "delete"
      BY <2>1 DEF IInv, LockInv, Holding
    <3>2. \A q \in Procs : q # p => pc'[q] = pc[q]
      BY <2>1 DEF IInv, TypeOK
    <3>3. Op(p) = "rm" => file' = [mem[p] EXCEPT ![e] = Unlisted]
      BY <2>1, RecordOfType
    <3> QED BY <2>1, <2>2, <3>1, <3>2, <3>3 DEF PathInv
  <2>4. StoredInv'
    BY <2>1, OpType DEF StoredInv, IInv, TypeOK
  <2>5. \A k \in Keyrings : k \in file'[e] => Stores(p) /\ k = Ref(p) /\ Op(p) # "rm"
    BY <2>1, <2>2, RecordOfType, ConfigAssumption DEF Unlisted, ConfigAssumption
  <2>6. RecordInv'
    <3>1. ASSUME NEW x \in Entries
          PROVE  \/ file'[x] = InitialFile[x] /\ owner'[x] = OldSecret
                 \/ file'[x] \in {{}, Unlisted}
                 \/ \E q \in Procs : /\ Stores(q) /\ pc'[q] = "done"
                                     /\ x = Command[q].entry /\ owner'[x] = q /\ file'[x] = {Ref(q)}
      <4>1. CASE x = e
        BY <2>1, <2>2, <4>1, RecordOfType DEF IInv, TypeOK
      <4>2. CASE x # e
        BY <2>1, <4>2 DEF RecordInv, IInv, TypeOK
      <4> QED BY <4>1, <4>2
    <3>2. ASSUME NEW q \in Procs, Stores(q), pc'[q] = "done", Ref(q) \in file'[Command[q].entry]
          PROVE  owner'[Command[q].entry] = q
      <4>1. CASE Command[q].entry = e
        <5>1. Stores(p) /\ Ref(p) = Ref(q)
          BY <2>5, <3>2, <4>1, RefType
        <5> QED BY <2>1, <3>2, <4>1, <5>1 DEF Apart, IInv, TypeOK
      <4>2. CASE Command[q].entry # e
        BY <2>1, <3>2, <4>2, RecordType DEF RecordInv, IInv, TypeOK
      <4> QED BY <4>1, <4>2
    <3> QED BY <3>1, <3>2 DEF RecordInv, Stores, Op, Ref
  <2>7. OtherInv'
    <3>1. ASSUME NEW k \in Keyrings, \A q \in Procs : Stores(q) => Ref(q) # k, k \in Referenced(file)'
          PROVE  keychain'[k] = OldSecret
      <4>1. PICK x \in Entries : file'[x] # Unlisted /\ k \in file'[x]
        BY <3>1 DEF Referenced
      <4>2. x # e
        BY <2>5, <3>1, <4>1
      <4>3. k \in Referenced(file)
        BY <2>1, <4>1, <4>2 DEF Referenced, IInv, TypeOK
      <4> QED BY <2>1, <3>1, <4>3 DEF OtherInv
    <3>2. ASSUME NEW x \in Procs, pc'[x] = "delete", NEW q \in Procs, Stores(q)
          PROVE  Ref(q) \notin items'[x]
      <4>1. CASE x = p
        <5>1. Op(p) = "rm" /\ items'[p] = file[e] /\ file[e] # Unlisted
          BY <2>1, <3>2, <4>1 DEF IInv, TypeOK
        <5>2. Command[q].entry # e
          BY <3>2, <5>1 DEF Apart
        <5>3. Ref(q) \notin InitialFile[e]
          BY <2>1, <3>2, <5>2 DEF Apart
        <5>4. \A r \in Procs : Stores(r) /\ e = Command[r].entry => Ref(r) # Ref(q)
          BY <3>2, <5>2 DEF Apart
        <5> QED BY <2>1, <4>1, <5>1, <5>3, <5>4 DEF RecordInv
      <4>2. CASE x # p
        BY <2>1, <3>2, <4>2 DEF OtherInv, IInv, TypeOK
      <4> QED BY <4>1, <4>2
    <3> QED BY <3>1, <3>2 DEF OtherInv, Stores, Op, Ref
  <2> QED BY <2>3, <2>4, <2>6, <2>7
<1>8. ASSUME NEW p \in Procs, ChooseSave(p), ~GiveUp(p) PROVE KeyInv'
  <2> DEFINE e == Command[p].dest
  <2>1. /\ file' = [file EXCEPT ![e] = {}] /\ owner' = [owner EXCEPT ![e] = p]
        /\ UNCHANGED <<keychain, mem, prev, items>> /\ pc[p] = "chooseSave" /\ e \in Entries
        /\ pc' = [pc EXCEPT ![p] = "probe"]
    BY <1>8, RecordType DEF ChooseSave, Replace, IInv, LockInv, TypeOK
  <2>2. PathInv'
    <3>1. \A q \in Procs : pc[q] # "delete"
      BY <2>1 DEF IInv, LockInv, Holding
    <3> QED BY <2>1, <3>1, OpType DEF PathInv, IInv, TypeOK
  <2>3. StoredInv'
    BY <2>1 DEF StoredInv, IInv, TypeOK
  <2>4. RecordInv'
    BY <2>1 DEF RecordInv, IInv, TypeOK
  <2>5. OtherInv'
    <3>1. \A k \in Keyrings : k \in Referenced(file)' => k \in Referenced(file)
      BY <2>1 DEF Referenced, IInv, TypeOK
    <3> QED BY <2>1, <3>1 DEF OtherInv, IInv, TypeOK
  <2> QED BY <2>2, <2>3, <2>4, <2>5
<1>9. ASSUME NEW p \in Procs, DeleteSecret(p) PROVE KeyInv'
  <2>1. PICK k \in items[p] :
          /\ items' = [items EXCEPT ![p] = @ \ {k}]
          /\ \/ ~SecretRefStillUsed(p, k) /\ keychain' = [keychain EXCEPT ![k] = NoSecret]
             \/ UNCHANGED keychain
    BY <1>9 DEF DeleteSecret
  <2>2. /\ UNCHANGED <<file, pc, mem, prev, owner>> /\ pc[p] = "delete" /\ k \in Keyrings
        /\ file = [mem[p] EXCEPT ![Command[p].entry] = Unlisted]
    BY <1>9 DEF DeleteSecret, PathInv, IInv, TypeOK
  <2>3. \A x \in Keyrings : keychain'[x] # keychain[x] => x = k /\ x \notin Referenced(file)
    BY <2>1, <2>2 DEF SecretRefStillUsed, IInv, TypeOK
  <2>4. \A q \in Procs : Stores(q) => Ref(q) # k /\ keychain'[Ref(q)] = keychain[Ref(q)]
    BY <2>2, <2>3, RefType DEF OtherInv
  <2>5. PathInv' /\ RecordInv'
    BY <2>2 DEF PathInv, RecordInv
  <2>6. StoredInv'
    BY <2>2, <2>4 DEF StoredInv
  <2>7. OtherInv'
    BY <2>1, <2>2, <2>3 DEF OtherInv, IInv, TypeOK
  <2> QED BY <2>5, <2>6, <2>7
<1>10. ASSUME NEW p \in Procs, Step(p) PROVE KeyInv'
  <2>1. CASE GiveUp(p) /\ (Lock(p) \/ Load(p) \/ Save(p) \/ ChooseLoad(p) \/ ChooseSave(p))
    BY <1>4, <2>1 DEF Lock, Load, Save, ChooseLoad, ChooseSave
  <2>2. CASE ~GiveUp(p) /\ (Lock(p) \/ Load(p) \/ Save(p) \/ ChooseLoad(p) \/ ChooseSave(p) \/ ProbeReturns(p))
    BY <1>5, <1>7, <1>8, <2>2
  <2>3. CASE GiveUp(p) /\ ProbeReturns(p)
    BY <2>3 DEF GiveUp, ProbeReturns, WriteFrom, IInv, TypeOK
  <2> QED BY <1>2, <1>3, <1>6, <1>9, <1>10, <2>1, <2>2, <2>3 DEF Step
<1> QED BY <1>1, <1>10 DEF Next

\* What is known of the keychain holds in every reachable state.
THEOREM KeychainInvariance == ASSUME Apart PROVE Spec => []KeyInv
<1>1. IInv /\ IInv' /\ KeyInv /\ [Next]_vars => KeyInv'
  BY KeyStep
<1> QED BY <1>1, KeyInit, ConfigInvariance, PTL DEF Spec

\* The value of an item that a record has: OldSecret if the record is an initial one and
\* no command stores there.
LEMMA ReferencedValue ==
  ASSUME Apart, IInv, KeyInv, NEW e \in Entries, NEW k \in Keyrings, file[e] # Unlisted, k \in file[e]
  PROVE  /\ keychain[k] # NoSecret
         /\ Unsettled(k) = {} => keychain[k] = owner[e]
         /\ \A q \in Procs : Stores(q) /\ Ref(q) = k => Command[q].entry = e
<1>1. CASE file[e] = InitialFile[e] /\ owner[e] = OldSecret
  <2>1. k \in Referenced(InitialFile) /\ k \in Referenced(file)
    BY <1>1 DEF Referenced
  <2>2. InitialValue(k) = OldSecret /\ OldSecret # NoSecret /\ NoSecret \notin Procs
    BY <2>1, ConfigAssumption DEF InitialValue, ConfigAssumption
  <2>3. CASE \E q \in Procs : Stores(q) /\ Ref(q) = k
    <3>1. PICK q \in Procs : Stores(q) /\ Ref(q) = k
      BY <2>3
    <3>2. Command[q].entry = e /\ \A r \in Procs : Stores(r) /\ Ref(r) = k => r = q
      BY <1>1, <3>1 DEF Apart
    <3>3. keychain[k] \in {q, OldSecret}
      BY <2>2, <3>1 DEF KeyInv, StoredInv
    <3>4. Unsettled(k) = {} => keychain[k] = owner[e]
      <4> SUFFICES ASSUME Unsettled(k) = {} PROVE keychain[k] = owner[e]
        OBVIOUS
      <4>1. pc[q] \notin {"lock", "load", "save", "rollback", "warned", "dead"}
        BY <3>1 DEF Unsettled
      <4>2. CASE pc[q] = "done"
        <5>1. owner[e] = q
          BY <3>1, <3>2, <4>2 DEF KeyInv, RecordInv
        <5> QED BY <3>1, <4>2, <5>1 DEF KeyInv, StoredInv
      <4>3. CASE pc[q] # "done"
        BY <1>1, <2>2, <3>1, <4>1, <4>3 DEF KeyInv, StoredInv
      <4> QED BY <4>2, <4>3
    <3> QED BY <2>2, <3>2, <3>3, <3>4
  <2>4. CASE ~\E q \in Procs : Stores(q) /\ Ref(q) = k
    BY <1>1, <2>1, <2>2, <2>4 DEF KeyInv, OtherInv
  <2> QED BY <2>3, <2>4
<1>2. CASE \E q \in Procs : /\ Stores(q) /\ pc[q] = "done"
                            /\ e = Command[q].entry /\ owner[e] = q /\ file[e] = {Ref(q)}
  BY <1>2, ConfigAssumption DEF KeyInv, StoredInv, Apart, ConfigAssumption
<1> QED BY <1>1, <1>2 DEF KeyInv, RecordInv

\* Every listed connection and destination has its secrets, whatever number of commands
\* that are apart add, remove, fail and die (connectionsRm, destinationsRm,
\* StoreWithRollback).
THEOREM ListedIsAlwaysUsable == ASSUME Apart PROVE Spec => []ListedIsUsable
<1>1. IInv /\ KeyInv => ListedIsUsable
  BY ReferencedValue DEF ListedIsUsable, Referenced
<1> QED BY <1>1, ConfigInvariance, KeychainInvariance, PTL

\* A listed entry has the password of the command that wrote it (StoreWithRollback).
THEOREM PasswordAlwaysMatches == ASSUME Apart PROVE Spec => []PasswordMatchesEntry
<1>1. IInv /\ KeyInv => PasswordMatchesEntry
  <2> SUFFICES ASSUME IInv, KeyInv, NEW e \in Entries, file[e] # Unlisted, NEW k \in file[e], Unsettled(k) = {}
               PROVE  keychain[k] = owner[e]
    BY DEF PasswordMatchesEntry
  <2>1. k \in Keyrings
    BY DEF IInv, TypeOK, Records
  <2> QED BY <2>1, ReferencedValue
<1> QED BY <1>1, ConfigInvariance, KeychainInvariance, PTL

-----------------------------------------------------------------------------
(* The commands that read.                                                 *)

\* A command that has begun stays so: its steps lead from the places before its first
\* change of the keychain, or its lock, away from them for good.
LEMMA BegunStays ==
  ASSUME IInv, IInv', KeyInv, [Next]_vars, NEW q \in Procs, Begun(q)
  PROVE  Begun(q)'
<1>1. CASE UNCHANGED vars
  BY <1>1 DEF vars, Begun, Stores, Op, Ref
<1>2. ASSUME NEW p \in Procs, Step(p) PROVE Begun(q)'
  <2>1. CASE q # p
    <3>1. pc'[q] = pc[q]
      BY <1>2, <2>1 DEF Step, GetPrevious, Store, Rollback, Lock, Load, Save, ChooseLoad, ChooseSave, ProbeReturns,
                        DeleteSecret, RmReturns, ReadFile, Resolve, Die, GiveUp, IInv, TypeOK
    <3> QED BY <3>1 DEF Begun, Stores, Op, Ref
  <2>2. CASE q = p
    <3> DEFINE Later == {"load", "save", "delete", "rollback", "resolve", "done", "failed", "warned", "dead"}
    <3>1. pc[p] \notin {"choose", "chooseLoad", "chooseSave", "probe", "get", "set"}
      BY <2>2 DEF Begun
    <3>2. pc'[p] \in Later
      <4>1. CASE Rollback(p)
        BY <4>1 DEF Rollback, IInv, TypeOK
      <4>2. CASE GiveUp(p)
        BY <4>2 DEF GiveUp, IInv, TypeOK
      <4>3. CASE Lock(p) /\ ~GiveUp(p)
        BY <3>1, <4>3 DEF Lock, IInv, TypeOK
      <4>4. CASE Load(p) /\ ~GiveUp(p)
        BY <4>4 DEF Load, IInv, TypeOK
      <4>5. CASE Save(p) /\ ~GiveUp(p)
        BY <4>5 DEF Save, IInv, TypeOK
      <4>6. CASE DeleteSecret(p) \/ RmReturns(p)
        BY <4>6 DEF DeleteSecret, RmReturns, IInv, TypeOK
      <4>7. CASE ReadFile(p) \/ Resolve(p) \/ Die(p)
        BY <4>7 DEF ReadFile, Resolve, Die, IInv, TypeOK
      <4> QED BY <1>2, <3>1, <4>1, <4>2, <4>3, <4>4, <4>5, <4>6, <4>7
              DEF Step, GetPrevious, Store, ChooseLoad, ChooseSave, ProbeReturns
    <3> QED BY <2>2, <3>2 DEF Begun
  <2> QED BY <2>1, <2>2
<1> QED BY <1>1, <1>2 DEF Next

\* A command that has ended stays where it is.
LEMMA EndedStays ==
  ASSUME IInv, [Next]_vars, NEW q \in Procs, pc[q] \in {"done", "failed"}
  PROVE  pc'[q] = pc[q]
<1>1. CASE UNCHANGED vars
  BY <1>1 DEF vars
<1>2. ASSUME NEW p \in Procs, Step(p) PROVE pc'[q] = pc[q]
  <2>1. p # q
    BY <1>2 DEF Step, GetPrevious, Store, Rollback, Lock, Load, Save, ChooseLoad, ChooseSave, ProbeReturns,
                DeleteSecret, RmReturns, ReadFile, Resolve, Die, IInv, TypeOK
  <2> QED BY <1>2, <2>1 DEF Step, GetPrevious, Store, Rollback, Lock, Load, Save, ChooseLoad, ChooseSave, ProbeReturns,
                            DeleteSecret, RmReturns, ReadFile, Resolve, Die, GiveUp, IInv, TypeOK
<1> QED BY <1>1, <1>2 DEF Next

\* Who changes an item: a command that stores there and has begun then, or rm, and
\* that only if no record has it.
LEMMA KeychainChanges ==
  ASSUME IInv, KeyInv, [Next]_vars, NEW k \in Keyrings, keychain'[k] # keychain[k]
  PROVE  \/ \E r \in Procs : Stores(r) /\ Ref(r) = k /\ pc[r] \in {"set", "rollback"} /\ Begun(r)'
         \/ k \notin Referenced(file)
<1>1. PICK p \in Procs : Store(p) \/ Rollback(p) \/ DeleteSecret(p)
  BY DEF Next, Step, vars, GetPrevious, Lock, Load, Save, ChooseLoad, ChooseSave, ProbeReturns, RmReturns,
         ReadFile, Resolve, Die, GiveUp
<1>2. CASE Store(p) \/ Rollback(p)
  <2>1. /\ Stores(p) /\ Ref(p) = k /\ pc[p] \in {"set", "rollback"}
        /\ pc'[p] \in {"lock", "failed", "warned"}
    BY <1>2 DEF Store, Rollback, IInv, TypeOK, LockInv, KeyInv, PathInv
  <2>2. Begun(p)'
    BY <2>1 DEF Begun, Stores, Op, Ref
  <2> QED BY <2>1, <2>2
<1>3. CASE DeleteSecret(p)
  <2>1. PICK x \in items[p] :
          \/ ~SecretRefStillUsed(p, x) /\ keychain' = [keychain EXCEPT ![x] = NoSecret]
          \/ UNCHANGED keychain
    BY <1>3 DEF DeleteSecret
  <2>2. x = k /\ ~SecretRefStillUsed(p, k)
    BY <2>1 DEF IInv, TypeOK
  <2>3. file = [mem[p] EXCEPT ![Command[p].entry] = Unlisted]
    BY <1>3 DEF DeleteSecret, KeyInv, PathInv
  <2> QED BY <2>2, <2>3 DEF SecretRefStillUsed
<1> QED BY <1>1, <1>2, <1>3

\* Who changes a record: a command on this very entry, which has begun, or the wizard,
\* and that only where there was none.
LEMMA FileChanges ==
  ASSUME IInv, KeyInv, [Next]_vars, NEW e \in Entries, file'[e] # file[e]
  PROVE  \/ \E r \in Procs : Op(r) # "use" /\ Command[r].entry = e /\ pc[r] = "save" /\ Begun(r)'
         \/ file[e] = Unlisted
<1>1. PICK p \in Procs : (Save(p) \/ ChooseSave(p)) /\ ~GiveUp(p)
  BY DEF Next, Step, vars, GetPrevious, Store, Rollback, Lock, Load, ChooseLoad, ChooseSave, ProbeReturns, RmReturns,
         DeleteSecret, ReadFile, Resolve, Die, GiveUp, Save
<1>2. CASE Save(p)
  <2>1. /\ pc[p] = "save" /\ file' = [file EXCEPT ![Command[p].entry] = RecordOf(p)]
        /\ pc'[p] \in {"delete", "done"}
    BY <1>1, <1>2 DEF Save, Replace, IInv, TypeOK, LockInv
  <2>2. Op(p) # "use" /\ Command[p].entry = e
    BY <2>1 DEF IInv, TypeOK, KeyInv, PathInv
  <2>3. Begun(p)'
    BY <2>1 DEF Begun
  <2> QED BY <2>1, <2>2, <2>3
<1>3. CASE ChooseSave(p)
  BY <1>1, <1>3 DEF ChooseSave, Replace, IInv, TypeOK, LockInv, KeyInv, PathInv
<1> QED BY <1>1, <1>2, <1>3

\* A rival that has begun stays one that has begun.
LEMMA TouchedStays ==
  ASSUME IInv, IInv', KeyInv, [Next]_vars, NEW p \in Procs, NEW e, view[p].rivals \in SUBSET Procs,
         view'[p].rivals = view[p].rivals, Touched(p, e)
  PROVE  Touched(p, e)'
BY BegunStays DEF Touched

\* A step of any command leaves what a resolving command relies on as it is, or makes a
\* rival begin.
LEMMA ResolvingStays ==
  ASSUME Apart, IInv, IInv', KeyInv, [Next]_vars, NEW p \in Procs, Resolving(p), view[p].rivals \in SUBSET Procs,
         view'[p].rivals = view[p].rivals, view'[p].read = view[p].read, view'[p].by = view[p].by
  PROVE  Resolving(p)'
<1>1. ASSUME NEW q \in Procs, Op(q) # "use", Command[q].entry \in Uses(p)
      PROVE  q \in view'[p].rivals \/ pc'[q] \in {"done", "failed"}
  BY <1>1, EndedStays DEF Resolving
<1>2. ASSUME NEW e \in Uses(p), NEW k \in Keyrings, k \in view[p].read[e]
      PROVE  /\ keychain'[k] = view[p].by[e] \/ Touched(p, e)'
             /\ k \in file'[e] \/ Touched(p, e)'
  <2>1. CASE Touched(p, e)
    BY <2>1, TouchedStays
  <2>2. CASE ~Touched(p, e)
    <3>1. keychain[k] = view[p].by[e] /\ k \in file[e] /\ e \in Entries
      BY <1>2, <2>2, RecordType DEF Resolving, Uses
    <3>2. file[e] # Unlisted /\ k \in Referenced(file)
      BY <3>1, ConfigAssumption DEF Unlisted, ConfigAssumption, Referenced
    <3>3. CASE keychain'[k] # keychain[k]
      <4>1. PICK r \in Procs : Stores(r) /\ Ref(r) = k /\ pc[r] \in {"set", "rollback"} /\ Begun(r)'
        BY <3>2, <3>3, KeychainChanges
      <4>2. Command[r].entry = e /\ Op(r) # "use"
        BY <1>2, <4>1, OpType DEF Resolving
      <4>3. r \in view[p].rivals
        BY <4>1, <4>2 DEF Resolving
      <4> QED BY <4>1, <4>2, <4>3 DEF Touched
    <3>4. CASE file'[e] # file[e]
      <4>1. PICK r \in Procs : Op(r) # "use" /\ Command[r].entry = e /\ pc[r] = "save" /\ Begun(r)'
        BY <3>1, <3>2, <3>4, FileChanges
      <4>2. r \in view[p].rivals
        BY <4>1 DEF Resolving
      <4> QED BY <4>1, <4>2 DEF Touched
    <3> QED BY <3>1, <3>3, <3>4
  <2> QED BY <2>1, <2>2
<1>3. \A e \in Uses(p) : \A k \in Keyrings : k \in view[p].read[e] =>
        \A q \in Procs : Stores(q) /\ Ref(q) = k => Command[q].entry = e
  BY DEF Resolving
<1> QED BY <1>1, <1>2, <1>3 DEF Resolving, Uses, Stores, Op, Ref

\* A command that reads the file knows who is about to change its entries.
LEMMA ReadIsExplained ==
  ASSUME Apart, IInv, IInv', KeyInv, ViewInv, NEW p \in Procs, ReadFile(p), pc'[p] = "resolve"
  PROVE  Resolving(p)'
<1>1. /\ view'[p].read = [e \in Uses(p) |-> file[e]] /\ view'[p].by = [e \in Uses(p) |-> owner[e]]
      /\ view'[p].rivals = Rivals(p)
      /\ UNCHANGED <<file, keychain, owner>> /\ Op(p) = "use"
      /\ \A q \in Procs : q # p => pc'[q] = pc[q]
  BY DEF ReadFile, IInv, TypeOK, KeyInv, PathInv, ViewInv
<1>2. ASSUME NEW q \in Procs, Op(q) # "use", Command[q].entry \in Uses(p)
      PROVE  q \in view'[p].rivals \/ pc'[q] \in {"done", "failed"}
  BY <1>1, <1>2 DEF Rivals
<1>3. ASSUME NEW e \in Uses(p), NEW k \in Keyrings, k \in view'[p].read[e]
      PROVE  /\ \A q \in Procs : Stores(q) /\ Ref(q) = k => Command[q].entry = e
             /\ keychain'[k] = view'[p].by[e] \/ Touched(p, e)'
             /\ k \in file'[e]
  <2>1. e \in Entries /\ k \in file[e] /\ file[e] # Unlisted /\ view'[p].by[e] = owner[e]
    BY <1>1, <1>3, RecordType, ConfigAssumption DEF Uses, Unlisted, ConfigAssumption
  <2>2. \A q \in Procs : Stores(q) /\ Ref(q) = k => Command[q].entry = e
    BY <2>1, ReferencedValue
  <2>3. CASE Unsettled(k) = {}
    BY <1>1, <2>1, <2>2, <2>3, ReferencedValue
  <2>4. CASE Unsettled(k) # {}
    <3>1. PICK q \in Procs : Stores(q) /\ Ref(q) = k /\ pc[q] \in {"lock", "load", "save", "rollback", "warned", "dead"}
      BY <2>4 DEF Unsettled
    <3>2. Command[q].entry = e /\ Op(q) # "use" /\ q # p
      BY <1>1, <2>2, <3>1, OpType
    <3>3. q \in Rivals(p)
      BY <3>1, <3>2 DEF Rivals
    <3>4. Begun(q)'
      BY <1>1, <3>1, <3>2 DEF Begun, Stores, Op, Ref
    <3> QED BY <1>1, <2>1, <2>2, <3>2, <3>3, <3>4 DEF Touched
  <2> QED BY <2>3, <2>4
<1> QED BY <1>2, <1>3 DEF Resolving, Uses, Stores, Op, Ref

\* The invariant of the reading commands holds in every reachable state.
THEOREM ViewInvariance == ASSUME Apart PROVE Spec => []ViewInv
<1>1. Init => ViewInv
  <2> SUFFICES ASSUME Init PROVE ViewInv
    OBVIOUS
  <2>1. view = [p \in Procs |-> view[p]] /\ \A p \in Procs : view[p] = [read |-> <<>>, by |-> <<>>, rivals |-> {}, got |-> {}]
    BY DEF Init
  <2>2. \A p \in Procs : pc[p] \in {"choose", "get", "lock", "use"}
    BY InitialPlaces
  <2> QED BY <2>1, <2>2 DEF ViewInv, Explained
<1>2. IInv /\ IInv' /\ KeyInv /\ ViewInv /\ [Next]_vars => ViewInv'
  <2> SUFFICES ASSUME IInv, IInv', KeyInv, ViewInv, [Next]_vars PROVE ViewInv'
    OBVIOUS
  <2>1. CASE UNCHANGED view
    <3>1. ASSUME NEW p \in Procs PROVE Explained(p)'
      BY <2>1, TouchedStays DEF ViewInv, Explained, Uses
    <3>2. ASSUME NEW p \in Procs, pc'[p] = "resolve" PROVE Resolving(p)'
      <4>1. CASE pc[p] = "resolve"
        BY <2>1, <4>1, ResolvingStays DEF ViewInv
      <4>2. CASE pc[p] # "resolve"
        <5>1. ReadFile(p)
          <6>1. PICK q \in Procs : Step(q)
            BY <3>2, <4>2 DEF Next, vars
          <6>2. q = p
            BY <3>2, <4>2, <6>1
               DEF Step, GetPrevious, Store, Rollback, Lock, Load, Save, ChooseLoad, ChooseSave, ProbeReturns,
                   DeleteSecret, RmReturns, ReadFile, Resolve, Die, GiveUp, IInv, TypeOK
          <6>3. CASE GiveUp(p)
            BY <3>2, <6>3 DEF GiveUp, IInv, TypeOK
          <6>4. CASE ChooseLoad(p) \/ ProbeReturns(p)
            BY <3>2, <6>3, <6>4, WriteFromType DEF ChooseLoad, ProbeReturns, IInv, TypeOK
          <6> QED BY <3>2, <4>2, <6>1, <6>2, <6>3, <6>4
                  DEF Step, GetPrevious, Store, Rollback, Lock, Load, Save, ChooseSave, DeleteSecret, RmReturns,
                      Resolve, Die, IInv, TypeOK
        <5> QED BY <3>2, <5>1, ReadIsExplained
      <4> QED BY <4>1, <4>2
    <3> QED BY <2>1, <3>1, <3>2 DEF ViewInv
  <2>2. ASSUME NEW r \in Procs, ReadFile(r), pc'[r] = "resolve" PROVE ViewInv'
    <3>1. /\ \A p \in Procs \ {r} : view'[p] = view[p] /\ pc'[p] = pc[p]
          /\ view'[r] = [read |-> [e \in Uses(r) |-> file[e]], by |-> [e \in Uses(r) |-> owner[e]],
                         rivals |-> Rivals(r), got |-> {}]
          /\ view' = [p \in Procs |-> view'[p]]
      BY <2>2 DEF ReadFile, ViewInv, IInv, TypeOK
    <3>2. view'[r].rivals \in SUBSET Procs /\ Explained(r)'
      BY <3>1 DEF Rivals, Explained
    <3>3. Resolving(r)'
      BY <2>2, ReadIsExplained
    <3>4. ASSUME NEW p \in Procs \ {r}
          PROVE  Explained(p)' /\ (pc'[p] = "resolve" => Resolving(p)')
      BY <3>1, TouchedStays, ResolvingStays DEF ViewInv, Explained, Uses
    <3> QED BY <3>1, <3>2, <3>3, <3>4 DEF ViewInv
  <2>3. ASSUME NEW r \in Procs, Resolve(r), view' # view PROVE ViewInv'
    <3>1. PICK k \in items[r] : view' = [view EXCEPT ![r].got = @ \cup {<<k, keychain[k]>>}]
      BY <2>3 DEF Resolve
    <3>2. /\ \A p \in Procs \ {r} : view'[p] = view[p] /\ pc'[p] = pc[p]
          /\ view'[r] = [read |-> view[r].read, by |-> view[r].by, rivals |-> view[r].rivals,
                         got |-> view[r].got \cup {<<k, keychain[k]>>}]
          /\ view' = [p \in Procs |-> view'[p]] /\ pc[r] = "resolve" /\ k \in Keyrings
      <4>1. view'[r] = [read |-> view[r].read, by |-> view[r].by, rivals |-> view[r].rivals,
                        got |-> view[r].got \cup {<<k, keychain[k]>>}]
        <5>1. view[r] = [read |-> view[r].read, by |-> view[r].by, rivals |-> view[r].rivals, got |-> view[r].got]
          BY DEF ViewInv
        <5>2. view'[r] = [view[r] EXCEPT !.got = view[r].got \cup {<<k, keychain[k]>>}]
          BY <3>1 DEF ViewInv
        <5> QED BY <5>1, <5>2
      <4>2. (\A p \in Procs \ {r} : view'[p] = view[p]) /\ view' = [p \in Procs |-> view'[p]]
        BY <3>1 DEF ViewInv
      <4>3. (\A p \in Procs \ {r} : pc'[p] = pc[p]) /\ pc[r] = "resolve" /\ k \in Keyrings
        BY <2>3 DEF Resolve, IInv, TypeOK
      <4> QED BY <4>1, <4>2, <4>3
    <3>3. Resolving(r)'
      BY <3>2, ResolvingStays DEF ViewInv
    <3>4. Explained(r)'
      <4> SUFFICES ASSUME NEW kv \in view'[r].got, NEW e \in Uses(r), kv[1] \in view[r].read[e]
                   PROVE  kv[2] = view[r].by[e] \/ Touched(r, e)'
        BY <3>2 DEF Explained, Uses
      <4>1. kv[2] = view[r].by[e] \/ Touched(r, e)
        <5>1. CASE kv \in view[r].got
          BY <5>1 DEF ViewInv, Explained
        <5>2. CASE kv = <<k, keychain[k]>>
          BY <3>2, <5>2 DEF ViewInv, Resolving
        <5> QED BY <3>2, <5>1, <5>2
      <4> QED BY <3>2, <4>1, TouchedStays DEF ViewInv
    <3>5. ASSUME NEW p \in Procs \ {r}
          PROVE  Explained(p)' /\ (pc'[p] = "resolve" => Resolving(p)')
      BY <3>2, TouchedStays, ResolvingStays DEF ViewInv, Explained, Uses
    <3> QED BY <3>2, <3>3, <3>4, <3>5 DEF ViewInv
  <2>4. view' # view => \E r \in Procs : (ReadFile(r) /\ pc'[r] = "resolve") \/ Resolve(r)
    BY DEF Next, Step, vars, GetPrevious, Store, Rollback, Lock, Load, Save, ChooseLoad, ChooseSave, ProbeReturns,
           DeleteSecret, RmReturns, ReadFile, Die, GiveUp, IInv, TypeOK
  <2> QED BY <2>1, <2>2, <2>3, <2>4
<1> QED BY <1>1, <1>2, ConfigInvariance, KeychainInvariance, PTL DEF Spec

\* A command that reads the file without the lock, and the keychain after it, gets the
\* secrets of the records it has read, unless a command on this very entry is in its way
\* (config.Load and SecretRef.Resolve).
THEOREM SecretsOfOneMoment == ASSUME Apart PROVE Spec => []SecretOfOneMoment
<1>1. ViewInv => SecretOfOneMoment
  BY DEF ViewInv, Explained, Touched, SecretOfOneMoment
<1> QED BY <1>1, ViewInvariance, PTL
=============================================================================
