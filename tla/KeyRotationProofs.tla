------------------------- MODULE KeyRotationProofs -------------------------
(***************************************************************************)
(* Proofs about KeyRotation.                                               *)
(***************************************************************************)
EXTENDS KeyRotation, FiniteSetTheorems, TLAPS

Ops == {"idle", "generate", "rotate", "auto", "get", "master"}
Places == {"end", "load", "id", "key", "check", "store", "cache", "cleanup", "unwrap",
           "kek", "newRoot", "setRoot", "setKey", "setId"}
Calls == [op : Ops, at : Places, version : Nat, id : Nat, key : Nat, stored : BOOLEAN]

MasterKeys == 1..Len(masters)

\* The master keys a call is about to use or to set are among those in S.
Known(r, S) ==
  /\ r.at \in {"setRoot", "setKey", "setId", "check", "store"} => r.key \in S
  /\ r.at \in {"key", "check", "store"} => r.id \in S

\* The variables have their types; master keys are the ones in the database,
\* the first of which is a root key.
TypeOK ==
  /\ rows \in [Versions -> Rows \union {None}]
  /\ masters \in Seq({"root", "kek"}) /\ masters # <<>> /\ masters[1] = "root"
  /\ root \in [Managers -> MasterKeys]
  /\ wrapKey \in [Managers -> MasterKeys] /\ wrapId \in [Managers -> MasterKeys]
  /\ cache \in [Managers -> Cached \union {None}]
  /\ task \in [Tasks -> Calls]
  /\ \A t \in Tasks : Known(task[t], MasterKeys)
  /\ dues \in Nat /\ autos \in Nat

\* A finite set of numbers that is not empty has a largest member.
LEMMA LargestMember ==
  ASSUME NEW S \in SUBSET Nat, IsFiniteSet(S), S # {}
  PROVE  Max(S) \in S /\ \A y \in S : y <= Max(S)
<1> DEFINE Above(x) == {y \in S : y > x}
           T == {Above(x) : x \in S}
           R == StrictSubsetOrdering(S)
<1>1. IsWellFoundedOn(R, FiniteSubsetsOf(S))
  BY FS_StrictSubsetOrderingWellFounded
<1>2. T \subseteq FiniteSubsetsOf(S) /\ T # {}
  <2>1. T \subseteq SUBSET S /\ T # {}
    OBVIOUS
  <2>2. FiniteSubsetsOf(S) = SUBSET S
    BY FS_FiniteSubsetsOfFinite
  <2> HIDE DEF T
  <2> QED BY <2>1, <2>2
<1>3. \E U \in T : \A V \in T : ~(<<V, U>> \in R)
  <2> HIDE DEF T, R
  <2> QED BY <1>1, <1>2, WFMin
<1>4. PICK x \in S : \A V \in T : ~(<<V, Above(x)>> \in R)
  BY <1>3
<1>5. \A y \in S : x >= y
  <2>1. SUFFICES ASSUME NEW y \in S, y > x PROVE FALSE
    OBVIOUS
  <2>2. Above(y) \subseteq Above(x) /\ y \in Above(x) /\ y \notin Above(y)
    <3>1. S \subseteq Nat /\ x \in Nat /\ y \in Nat
      OBVIOUS
    <3>2. \A z \in Nat : z > y => z > x
      BY <2>1, <3>1
    <3>3. ~(y > y)
      BY <3>1
    <3> QED BY <2>1, <3>2, <3>3, <3>1
  <2>3. Above(y) \in SUBSET S /\ Above(x) \in SUBSET S /\ Above(y) \in T
    OBVIOUS
  <2> HIDE DEF Above, T
  <2>4. <<Above(y), Above(x)>> \in R
    BY <2>2, <2>3 DEF StrictSubsetOrdering
  <2> QED BY <1>4, <2>3, <2>4
<1> HIDE DEF T, R, Above
<1> QED BY <1>5 DEF Max

\* The newest version is stored and no stored version is newer.
LEMMA LatestFacts ==
  TypeOK => /\ Latest \in Nat
            /\ Stored \subseteq Versions /\ IsFiniteSet(Stored)
            /\ Stored = {} => Latest = 0
            /\ Stored # {} => Latest \in Stored
            /\ \A v \in Stored : v <= Latest
<1> SUFFICES ASSUME TypeOK PROVE /\ Latest \in Nat
                                 /\ Stored \subseteq Versions /\ IsFiniteSet(Stored)
                                 /\ Stored = {} => Latest = 0
                                 /\ Stored # {} => Latest \in Stored
                                 /\ \A v \in Stored : v <= Latest
  OBVIOUS
<1>1. Stored \subseteq Versions /\ Versions \subseteq Nat /\ IsFiniteSet(Versions)
  BY KeyRotationAssumptions, FS_Interval DEF Stored, Versions
<1>2. IsFiniteSet(Stored) /\ Stored \in SUBSET Nat
  BY <1>1, FS_Subset
<1>3. CASE Stored = {}
  BY <1>1, <1>2, <1>3 DEF Latest
<1>4. CASE Stored # {}
  <2>1. Max(Stored) \in Stored /\ \A v \in Stored : v <= Max(Stored)
    BY <1>2, <1>4, LargestMember
  <2> QED BY <1>1, <1>2, <1>4, <2>1 DEF Latest
<1> QED BY <1>3, <1>4

\* load_master_key finds a master key.
LEMMA LoadedFacts ==
  ASSUME TypeOK
  PROVE  LoadedRoot \in MasterKeys /\ LoadedMaster \in MasterKeys
<1> DEFINE S(kind) == {i \in DOMAIN masters : masters[i] = kind}
<1>1. /\ DOMAIN masters = MasterKeys /\ Len(masters) \in Nat
      /\ 1 \in MasterKeys /\ masters[1] = "root"
  BY DEF TypeOK, MasterKeys
<1>2. ASSUME NEW kind, S(kind) # {}
      PROVE  NewestOf(kind) \in MasterKeys
  <2>1. IsFiniteSet(MasterKeys) /\ MasterKeys \subseteq Nat
    BY <1>1, FS_Interval DEF MasterKeys
  <2>2. S(kind) \subseteq MasterKeys
    BY <1>1
  <2>3. IsFiniteSet(S(kind)) /\ S(kind) \in SUBSET Nat
    BY <2>1, <2>2, FS_Subset
  <2> HIDE DEF S
  <2>4. Max(S(kind)) \in S(kind)
    BY <1>2, <2>3, LargestMember
  <2>5. NewestOf(kind) = Max(S(kind))
    BY <1>2 DEF NewestOf, S
  <2> QED BY <1>1, <2>2, <2>4, <2>5
<1>3. S("kek") = {} => NewestOf("kek") = 0
  BY DEF NewestOf
<1>4. S("root") # {}
  BY <1>1
<1>5. LoadedRoot \in MasterKeys
  BY <1>2, <1>4 DEF LoadedRoot
<1> HIDE DEF S
<1> QED BY <1>2, <1>3, <1>5 DEF LoadedMaster

\* Making a master key adds one at the end.
LEMMA MasterAdded ==
  ASSUME TypeOK, NEW kind \in {"root", "kek"}, masters' = Append(masters, kind)
  PROVE  /\ masters' \in Seq({"root", "kek"}) /\ masters' # <<>> /\ masters'[1] = "root"
         /\ Len(masters') = Len(masters) + 1
         /\ MasterKeys \subseteq MasterKeys' /\ Len(masters') \in MasterKeys'
<1>1. masters \in Seq({"root", "kek"}) /\ Len(masters) \in Nat /\ Len(masters) > 0
  BY DEF TypeOK
<1>2. masters' = Append(masters, kind)
  OBVIOUS
<1>3. masters' \in Seq({"root", "kek"}) /\ Len(masters') = Len(masters) + 1
  BY <1>1
<1>4. masters'[1] = "root"
  BY <1>1 DEF TypeOK
<1> QED BY <1>1, <1>3, <1>4 DEF MasterKeys

-----------------------------------------------------------------------------
(* Types.                                                                  *)

TaskStep(t) == Begin(t) \/ KeyStep(t) \/ MasterStep(t) \/ CallFails(t)

\* Calls begin without master keys.
LEMMA CallsBegin ==
  ASSUME TypeOK, NEW t \in Tasks, Begin(t), NEW S
  PROVE  \E r \in Calls : GoesOn(t, r) /\ Known(r, S)
<1>1. ASSUME NEW op \in Ops, NEW at \in {"load", "id", "kek"}, Call(t, op, at)
      PROVE  \E r \in Calls : GoesOn(t, r) /\ Known(r, S)
  <2> DEFINE r == [Idle EXCEPT !.op = op, !.at = at]
  <2>1. r \in Calls /\ r.at = at
    BY DEF Idle, Calls, Places
  <2>2. GoesOn(t, r)
    BY <1>1 DEF Call
  <2>3. Known(r, S)
    BY <2>1 DEF Known
  <2> QED BY <2>1, <2>2, <2>3
<1>2. CASE RotateRootKey(t)
  <2> DEFINE r == [Idle EXCEPT !.op = "master", !.at = "newRoot", !.id = Owned(t, root)]
  <2>0. Owned(t, root) \in Nat
    BY KeyRotationAssumptions DEF Owned, TypeOK, MasterKeys
  <2>1. r \in Calls /\ r.at = "newRoot"
    BY <2>0 DEF Idle, Calls, Places, Ops
  <2>2. GoesOn(t, r)
    BY <1>2 DEF RotateRootKey
  <2>3. Known(r, S)
    BY <2>1 DEF Known
  <2> QED BY <2>1, <2>2, <2>3
<1> QED BY <1>1, <1>2
        DEF Begin, GenerateKey, RotateKey, AutoRotate, GetKey, GenerateMasterKey, Ops

\* How a step of a task changes its call.
LEMMA CallsMade ==
  ASSUME TypeOK, NEW t \in Tasks, TaskStep(t)
  PROVE  \E r \in Calls : GoesOn(t, r) /\ Known(r, MasterKeys')
<1>0. /\ task[t] \in Calls /\ Owner[t] \in Managers /\ MasterKeys \subseteq Nat
      /\ Owned(t, wrapId) \in MasterKeys /\ Owned(t, wrapKey) \in MasterKeys
      /\ Known(task[t], MasterKeys)
  BY KeyRotationAssumptions DEF TypeOK, Owned, MasterKeys
<1>1. Idle \in Calls /\ Known(Idle, MasterKeys')
  BY DEF Idle, Calls, Ops, Places, Known
<1>2. CASE Begin(t)
  BY <1>2, CallsBegin
<1>3. CASE LoadVersion(t) \/ LoadRow(t)
  <2>1. Latest \in Nat /\ Latest # 0 => Latest \in Stored
    BY LatestFacts
  <2>2. CASE Latest = 0
    BY <1>1, <1>3, <2>2 DEF LoadVersion, LoadRow
  <2>3. CASE Latest # 0 /\ LoadVersion(t)
    <3> DEFINE r == [task[t] EXCEPT !.at = "id", !.version = Latest]
    <3>1. r \in Calls /\ r.at = "id"
      BY <1>0, <2>1, LatestFacts DEF Calls, Places
    <3>2. GoesOn(t, r) /\ Known(r, MasterKeys')
      BY <2>3, <3>1 DEF LoadVersion, Known
    <3> QED BY <3>1, <3>2
  <2>4. CASE Latest # 0 /\ LoadRow(t)
    <3> DEFINE r == [task[t] EXCEPT !.at = "unwrap", !.version = Latest,
                                    !.id = rows[Latest].master, !.key = rows[Latest].key]
    <3>1. rows[Latest] \in Rows /\ Latest \in Nat
      BY <2>4, LatestFacts DEF TypeOK, Stored
    <3>2. r \in Calls /\ r.at = "unwrap"
      BY <1>0, <3>1 DEF Calls, Places, Rows
    <3>3. GoesOn(t, r) /\ Known(r, MasterKeys')
      BY <2>4, <3>2 DEF LoadRow, Known
    <3> QED BY <3>2, <3>3
  <2> QED BY <1>3, <2>2, <2>3, <2>4
<1>4. CASE ReadMasterId(t)
  <2> DEFINE r == [task[t] EXCEPT !.at = "key", !.id = Owned(t, wrapId)]
  <2>1. r \in Calls /\ r.at = "key" /\ r.id \in MasterKeys
    BY <1>0 DEF Calls, Places
  <2>2. GoesOn(t, r) /\ MasterKeys' = MasterKeys
    BY <1>4 DEF ReadMasterId, MasterKeys
  <2> QED BY <2>1, <2>2 DEF Known
<1>5. CASE ReadMasterKey(t)
  <2> DEFINE r == [task[t] EXCEPT !.at = IF task[t].op = "auto" THEN "check" ELSE "store",
                                  !.key = Owned(t, wrapKey)]
  <2>1. r \in Calls /\ r.key \in MasterKeys /\ r.id = task[t].id
    BY <1>0 DEF Calls, Places
  <2>2. GoesOn(t, r) /\ MasterKeys' = MasterKeys /\ task[t].at = "key"
    BY <1>5 DEF ReadMasterKey, MasterKeys
  <2>3. r.id \in MasterKeys
    BY <1>0, <2>1, <2>2 DEF Known
  <2>4. r.at \in {"check", "store"}
    BY <1>0 DEF Calls
  <2> HIDE DEF r
  <2> QED BY <2>1, <2>2, <2>3, <2>4 DEF Known
<1>6. CASE CheckDue(t)
  <2> DEFINE r == [task[t] EXCEPT !.at = "store"]
  <2>1. r \in Calls /\ r.at = "store" /\ r.key = task[t].key /\ r.id = task[t].id
    BY <1>0 DEF Calls, Places
  <2>2. MasterKeys' = MasterKeys /\ task[t].at = "check" /\ (GoesOn(t, r) \/ GoesOn(t, Idle))
    BY <1>6 DEF CheckDue, Doing, MasterKeys
  <2> HIDE DEF r
  <2> QED BY <1>0, <1>1, <2>1, <2>2 DEF Known
<1>7. CASE StoreVersion(t) \/ CacheVersion(t)
  <2> DEFINE s == [task[t] EXCEPT !.at = "cache", !.id = 0, !.key = 0, !.stored = TRUE]
             c == [task[t] EXCEPT !.at = "cleanup"]
  <2>1. s \in Calls /\ s.at = "cache" /\ c \in Calls /\ c.at = "cleanup"
    BY <1>0 DEF Calls, Places
  <2>2. GoesOn(t, s) \/ GoesOn(t, c) \/ GoesOn(t, Idle)
    BY <1>7 DEF StoreVersion, CacheVersion
  <2> HIDE DEF s, c
  <2> QED BY <1>1, <2>1, <2>2 DEF Known
<1>8. CASE InsertKek(t) \/ InsertRoot(t)
  <2>1. PICK kind \in {"kek", "root"} : InsertMaster(t, kind)
    BY <1>8 DEF InsertKek, InsertRoot
  <2>2. Len(masters') \in MasterKeys' /\ Len(masters') \in Nat
    BY <2>1, MasterAdded DEF InsertMaster, MasterKeys
  <2> DEFINE r(at) == [task[t] EXCEPT !.at = at, !.key = Len(masters')]
  <2>3. \A at \in {"setRoot", "setKey"} : r(at) \in Calls /\ r(at).at = at /\ r(at).key = Len(masters')
    BY <1>0, <2>2 DEF Calls, Places
  <2>4. \E at \in {"setRoot", "setKey"} : GoesOn(t, r(at))
    BY <1>8 DEF InsertKek, InsertRoot
  <2> HIDE DEF r
  <2> QED BY <2>2, <2>3, <2>4 DEF Known
<1>9. CASE SetRootKey(t) \/ SetMasterKey(t)
  <2> DEFINE s == [task[t] EXCEPT !.at = "setKey", !.id = 0]
             c == [task[t] EXCEPT !.at = "setId"]
  <2>1. s \in Calls /\ s.at = "setKey" /\ s.key = task[t].key
        /\ c \in Calls /\ c.at = "setId" /\ c.key = task[t].key
    BY <1>0 DEF Calls, Places
  <2>2. /\ GoesOn(t, s) \/ GoesOn(t, c) \/ GoesOn(t, Idle)
        /\ MasterKeys' = MasterKeys /\ task[t].at \in {"setRoot", "setKey"}
    BY <1>9 DEF SetRootKey, SetMasterKey, Doing, MasterKeys
  <2> HIDE DEF s, c
  <2> QED BY <1>0, <1>1, <2>1, <2>2 DEF Known
<1>10. CASE StoreUnanswered(t) \/ RefuseVersion(t) \/ CleanUp(t) \/ UnwrapRow(t)
            \/ InsertUnanswered(t) \/ SetMasterId(t) \/ CallFails(t)
  BY <1>1, <1>10 DEF StoreUnanswered, RefuseVersion, CleanUp, UnwrapRow, InsertUnanswered,
                     SetMasterId, CallFails, Finish
<1> QED BY <1>2, <1>3, <1>4, <1>5, <1>6, <1>7, <1>8, <1>9, <1>10
        DEF TaskStep, KeyStep, MasterStep

\* A call that goes on keeps the types of the calls.
LEMMA CallsTyped ==
  ASSUME TypeOK, NEW t \in Tasks, NEW r \in Calls, GoesOn(t, r), Known(r, MasterKeys'),
         MasterKeys \subseteq MasterKeys'
  PROVE  /\ task' \in [Tasks -> Calls]
         /\ \A u \in Tasks : Known(task'[u], MasterKeys')
<1>1. task' \in [Tasks -> Calls] /\ \A u \in Tasks : task'[u] = IF u = t THEN r ELSE task[u]
  BY DEF TypeOK, GoesOn
<1>2. ASSUME NEW u \in Tasks PROVE Known(task[u], MasterKeys')
  BY DEF TypeOK, Known
<1> QED BY <1>1, <1>2

\* Which variables a step of a task can change.
LEMMA MastersKept ==
  ASSUME TypeOK, NEW t \in Tasks, TaskStep(t)
  PROVE  /\ masters' \in Seq({"root", "kek"}) /\ masters' # <<>> /\ masters'[1] = "root"
         /\ MasterKeys \subseteq MasterKeys'
<1>1. masters' = masters \/ \E kind \in {"root", "kek"} : masters' = Append(masters, kind)
  BY DEF TaskStep, Begin, KeyStep, MasterStep, CallFails, GenerateKey, RotateKey, AutoRotate,
         GetKey, GenerateMasterKey, RotateRootKey, Call, LoadVersion, ReadMasterId, ReadMasterKey,
         CheckDue, StoreVersion, StoreUnanswered, Commit, RefuseVersion, CacheVersion, CleanUp,
         LoadRow, UnwrapRow, InsertKek, InsertRoot, InsertUnanswered, InsertMaster, SetRootKey,
         SetMasterKey, SetMasterId
<1>2. CASE masters' = masters
  BY <1>2 DEF TypeOK, MasterKeys
<1>3. CASE \E kind \in {"root", "kek"} : masters' = Append(masters, kind)
  BY <1>3, MasterAdded
<1> QED BY <1>1, <1>2, <1>3

LEMMA ManagersTyped ==
  ASSUME TypeOK, NEW t \in Tasks, TaskStep(t)
  PROVE  /\ root' \in [Managers -> MasterKeys]
         /\ wrapKey' \in [Managers -> MasterKeys] /\ wrapId' \in [Managers -> MasterKeys]
         /\ cache' \in [Managers -> Cached \union {None}]
<1>0. /\ Owner[t] \in Managers /\ task[t] \in Calls
      /\ task[t].at \in {"setRoot", "setKey", "setId"} => task[t].key \in MasterKeys
  BY KeyRotationAssumptions DEF TypeOK, Known
<1>1. CASE SetRootKey(t) \/ SetMasterKey(t) \/ SetMasterId(t)
  BY <1>0, <1>1 DEF TypeOK, SetRootKey, SetMasterKey, SetMasterId, Doing
<1>2. CASE CacheVersion(t) \/ UnwrapRow(t)
  <2>1. \A v \in Nat, b \in BOOLEAN :
          CacheKey(t, v, b) => cache' \in [Managers -> Cached \union {None}]
    BY <1>0 DEF CacheKey, Cached, TypeOK
  <2>2. task[t].version + 1 \in Nat /\ task[t].version \in Nat /\ task[t].stored \in BOOLEAN
    BY <1>0 DEF Calls
  <2>3. \/ cache' = cache
        \/ CacheKey(t, task[t].version + 1, task[t].stored)
        \/ CacheKey(t, task[t].version, TRUE)
    BY <1>2 DEF CacheVersion, UnwrapRow
  <2>4. cache' \in [Managers -> Cached \union {None}]
    BY <2>1, <2>2, <2>3 DEF TypeOK
  <2> QED BY <1>2, <2>4 DEF TypeOK, CacheVersion, UnwrapRow
<1>3. UNCHANGED managerVars \/ SetRootKey(t) \/ SetMasterKey(t) \/ SetMasterId(t)
      \/ CacheVersion(t) \/ UnwrapRow(t)
  BY DEF TaskStep, Begin, KeyStep, MasterStep, CallFails, GenerateKey, RotateKey, AutoRotate,
         GetKey, GenerateMasterKey, RotateRootKey, Call, LoadVersion, ReadMasterId, ReadMasterKey,
         CheckDue, StoreVersion, StoreUnanswered, Commit, RefuseVersion, CleanUp,
         LoadRow, InsertKek, InsertRoot, InsertUnanswered, InsertMaster, managerVars
<1> QED BY <1>1, <1>2, <1>3 DEF TypeOK, managerVars

\* Which steps change the versions.
LEMMA RowSteps ==
  ASSUME NEW t \in Tasks, TaskStep(t)
  PROVE  \/ UNCHANGED <<rows, dues, autos>>
         \/ (StoreVersion(t) \/ StoreUnanswered(t)) /\ Commit(t) /\ dues' = dues
         \/ CleanUp(t)
  BY DEF TaskStep, Begin, KeyStep, MasterStep, CallFails, GenerateKey, RotateKey, AutoRotate,
         GetKey, GenerateMasterKey, RotateRootKey, Call, LoadVersion, ReadMasterId, ReadMasterKey,
         CheckDue, StoreVersion, StoreUnanswered, Commit, RefuseVersion, CacheVersion,
         LoadRow, UnwrapRow, InsertKek, InsertRoot, InsertUnanswered, InsertMaster, SetRootKey,
         SetMasterKey, SetMasterId, countVars

\* What a commit does to the versions.
LEMMA CommitRows ==
  ASSUME TypeOK, NEW t \in Tasks, Commit(t), NEW v, v = task[t].version
  PROVE  /\ v \in Nat /\ v + 1 \in Versions /\ v + 1 \notin Stored
         /\ rows' \in [Versions -> Rows \union {None}]
         /\ Stored' = Stored \union {v + 1} /\ Active' = (Active \ {v}) \union {v + 1}
         /\ rows'[v + 1] = Row(task[t].key, task[t].id)
         /\ \A w \in Stored : /\ rows'[w].key = rows[w].key
                              /\ rows'[w].master = rows[w].master
                              /\ rows'[w].due = rows[w].due
<1>1. task[t] \in Calls /\ v \in Nat /\ v # v + 1
  BY DEF TypeOK, Calls
<1>2. v + 1 \in Versions /\ rows[v + 1] = None /\ rows' = StoredRows(t)
  BY <1>1, KeyRotationAssumptions DEF Commit, Versions
<1> DEFINE new == Row(task[t].key, task[t].id)
           old(w) == [rows[w] EXCEPT !.status = "Retired"]
<1>3. new \in Rows /\ new.status = "Active"
  BY <1>1 DEF Row, Rows, Calls
<1>4. ASSUME NEW w \in Active
      PROVE  /\ old(w) \in Rows /\ old(w).status # "Active"
             /\ old(w).key = rows[w].key /\ old(w).master = rows[w].master
             /\ old(w).due = rows[w].due
  BY DEF TypeOK, Rows, Active, Stored
<1>5. new # None /\ \A w \in Active : old(w) # None
  BY <1>3, <1>4, KeyRotationAssumptions
<1>6. \A w \in Versions : rows'[w] = IF w = v + 1 THEN new
                                     ELSE IF w = v /\ w \in Active THEN old(w) ELSE rows[w]
  BY <1>2 DEF StoredRows
<1>7. rows' \in [Versions -> Rows \union {None}]
  <2>1. \A w \in Versions : rows[w] \in Rows \union {None}
    BY DEF TypeOK
  <2>2. DOMAIN rows' = Versions /\ rows' = [w \in Versions |-> rows'[w]]
    BY <1>2 DEF StoredRows
  <2> HIDE DEF new, old
  <2>3. \A w \in Versions : rows'[w] \in Rows \union {None}
    BY <1>3, <1>4, <1>6, <2>1
  <2> QED BY <2>2, <2>3
<1> HIDE DEF new, old
<1>8. \A w \in Versions : rows'[w] # None <=> w = v + 1 \/ rows[w] # None
  BY <1>5, <1>6 DEF Active, Stored
<1>9. Stored' = Stored \union {v + 1} /\ v + 1 \notin Stored
  BY <1>2, <1>8 DEF Stored
<1>10. /\ Active = {w \in Stored : rows[w].status = "Active"}
       /\ Active' = {w \in Stored' : rows'[w].status = "Active"}
  BY DEF Active
<1>11. rows'[v + 1] = new
  BY <1>2, <1>6
<1>12. \A w \in Stored : rows'[w] = IF w = v /\ w \in Active THEN old(w) ELSE rows[w]
  BY <1>2, <1>6 DEF Stored
<1>13. Active' = (Active \ {v}) \union {v + 1}
  BY <1>1, <1>3, <1>4, <1>9, <1>10, <1>11, <1>12
<1>14. \A w \in Stored : /\ rows'[w].key = rows[w].key
                         /\ rows'[w].master = rows[w].master
                         /\ rows'[w].due = rows[w].due
  BY <1>4, <1>12
<1> QED BY <1>1, <1>2, <1>7, <1>9, <1>11, <1>13, <1>14 DEF new

\* What clean-up does to them.
LEMMA CleanUpRows ==
  ASSUME TypeOK, NEW t \in Tasks, CleanUp(t)
  PROVE  /\ rows' \in [Versions -> Rows \union {None}]
         /\ Stored' = {v \in Stored : ~(Keep > 0 /\ v + Keep <= Latest)}
         /\ Active' = {v \in Active : ~(Keep > 0 /\ v + Keep <= Latest)}
         /\ \A v \in Stored' : rows'[v] = rows[v]
<1>1. rows' = [v \in Versions |-> IF Keep > 0 /\ v + Keep <= Latest THEN None ELSE rows[v]]
  BY DEF CleanUp
<1>2. \A v \in Versions :
        rows'[v] = IF Keep > 0 /\ v + Keep <= Latest THEN None ELSE rows[v]
  BY <1>1
<1>3. Stored' = {v \in Stored : ~(Keep > 0 /\ v + Keep <= Latest)}
  BY <1>2 DEF Stored
<1>4. \A v \in Stored' : rows'[v] = rows[v]
  BY <1>2 DEF Stored
<1>5. Active' = {v \in Active : ~(Keep > 0 /\ v + Keep <= Latest)}
  BY <1>3, <1>4 DEF Active
<1>6. rows' \in [Versions -> Rows \union {None}]
  BY <1>1 DEF TypeOK
<1> QED BY <1>3, <1>4, <1>5, <1>6

\* What a due date and a change of the schedule do to them.
LEMMA DateRows ==
  ASSUME TypeOK, FallsDue \/ Reschedule
  PROVE  /\ rows' \in [Versions -> Rows \union {None}]
         /\ Stored' = Stored /\ Active' = Active
         /\ \A v \in Stored : rows'[v].key = rows[v].key /\ rows'[v].master = rows[v].master
         /\ Reschedule => \A v \in Active : ~rows'[v].due
<1>1. ASSUME NEW w \in Active, NEW b \in BOOLEAN
      PROVE  LET r == [rows[w] EXCEPT !.due = b] IN
               /\ r \in Rows /\ r.due = b /\ r.status = rows[w].status
               /\ r.key = rows[w].key /\ r.master = rows[w].master
  BY DEF TypeOK, Rows, Active, Stored
<1>2. \A w \in Versions : \/ rows'[w] = rows[w]
                          \/ w \in Active /\ \E b \in BOOLEAN :
                                                rows'[w] = [rows[w] EXCEPT !.due = b]
  <2>1. CASE FallsDue
    BY <2>1 DEF FallsDue, TypeOK, Active, Stored
  <2>2. CASE Reschedule
    BY <2>2 DEF Reschedule, TypeOK
  <2> QED BY <2>1, <2>2
<1>3. ASSUME NEW w \in Active
      PROVE  /\ rows'[w] \in Rows /\ rows'[w].status = rows[w].status
             /\ rows'[w].key = rows[w].key /\ rows'[w].master = rows[w].master
  <2>1. w \in Versions /\ rows[w] \in Rows
    BY DEF TypeOK, Active, Stored
  <2>2. CASE rows'[w] = rows[w]
    BY <2>1, <2>2
  <2>3. ASSUME NEW b \in BOOLEAN, rows'[w] = [rows[w] EXCEPT !.due = b]
        PROVE  /\ rows'[w] \in Rows /\ rows'[w].status = rows[w].status
               /\ rows'[w].key = rows[w].key /\ rows'[w].master = rows[w].master
    BY <1>1, <2>3
  <2> QED BY <1>2, <2>1, <2>2, <2>3
<1>4. Active \subseteq Stored /\ Stored \subseteq Versions
      /\ \A w \in Versions \ Active : rows'[w] = rows[w]
  BY <1>2 DEF Active, Stored
<1>5. \A w \in Active : rows'[w] # None /\ rows[w] # None
  BY <1>3, KeyRotationAssumptions DEF Active, Stored
<1>6. Stored' = Stored
  <2>1. \A w \in Versions : rows'[w] # None <=> rows[w] # None
    BY <1>4, <1>5
  <2> QED BY <2>1 DEF Stored
<1>7. Active' = Active
  <2>1. \A w \in Stored : rows'[w].status = rows[w].status
    BY <1>3, <1>4
  <2> QED BY <1>6, <2>1 DEF Active
<1>8. rows' \in [Versions -> Rows \union {None}]
  <2>1. \A w \in Versions : rows'[w] \in Rows \union {None}
    BY <1>3, <1>4 DEF TypeOK
  <2>2. rows' = [w \in Versions |-> rows'[w]]
    BY DEF FallsDue, Reschedule, TypeOK
  <2> QED BY <2>1, <2>2
<1>9. Reschedule => \A v \in Active : ~rows'[v].due
  <2>1. SUFFICES ASSUME Reschedule, NEW v \in Active PROVE ~rows'[v].due
    OBVIOUS
  <2>2. rows'[v] = [rows[v] EXCEPT !.due = FALSE]
    BY <1>4, <2>1 DEF Reschedule
  <2> QED BY <1>1, <2>2
<1>10. \A v \in Stored : rows'[v].key = rows[v].key /\ rows'[v].master = rows[v].master
  BY <1>3, <1>4
<1> QED BY <1>6, <1>7, <1>8, <1>9, <1>10

\* Steps keep the types.
LEMMA TypeKept == TypeOK /\ [Next]_vars => TypeOK'
<1> SUFFICES ASSUME TypeOK, [Next]_vars PROVE TypeOK'
  OBVIOUS
<1>1. CASE UNCHANGED vars
  BY <1>1 DEF vars, managerVars, countVars, TypeOK, MasterKeys
<1>2. ASSUME NEW t \in Tasks, TaskStep(t)
      PROVE  TypeOK'
  <2>1. /\ masters' \in Seq({"root", "kek"}) /\ masters' # <<>> /\ masters'[1] = "root"
        /\ MasterKeys \subseteq MasterKeys'
    BY <1>2, MastersKept
  <2>2. /\ task' \in [Tasks -> Calls]
        /\ \A u \in Tasks : Known(task'[u], MasterKeys')
    BY <1>2, <2>1, CallsMade, CallsTyped
  <2>3. /\ root' \in [Managers -> MasterKeys']
        /\ wrapKey' \in [Managers -> MasterKeys'] /\ wrapId' \in [Managers -> MasterKeys']
        /\ cache' \in [Managers -> Cached \union {None}]
    <3>1. /\ root' \in [Managers -> MasterKeys]
          /\ wrapKey' \in [Managers -> MasterKeys] /\ wrapId' \in [Managers -> MasterKeys]
          /\ cache' \in [Managers -> Cached \union {None}]
      BY <1>2, ManagersTyped
    <3> QED BY <2>1, <3>1
  <2>4. rows' \in [Versions -> Rows \union {None}] /\ dues' \in Nat /\ autos' \in Nat
    <3>1. CASE UNCHANGED <<rows, dues, autos>>
      BY <3>1 DEF TypeOK
    <3>2. CASE Commit(t) /\ dues' = dues
      <4>1. rows' \in [Versions -> Rows \union {None}]
        BY <3>2, CommitRows
      <4>2. autos' \in {autos, autos + 1}
        BY <3>2 DEF Commit
      <4> QED BY <3>2, <4>1, <4>2 DEF TypeOK
    <3>3. CASE CleanUp(t)
      BY <3>3, CleanUpRows DEF CleanUp, countVars, TypeOK
    <3> QED BY <1>2, <3>1, <3>2, <3>3, RowSteps
  <2> QED BY <2>1, <2>2, <2>3, <2>4 DEF TypeOK
<1>3. ASSUME NEW m \in Managers, CacheExpires(m)
      PROVE  TypeOK'
  BY <1>3 DEF TypeOK, CacheExpires, countVars, MasterKeys
<1>4. ASSUME NEW m \in Managers, Restart(m)
      PROVE  TypeOK'
  <2>1. LoadedRoot \in MasterKeys /\ LoadedMaster \in MasterKeys
    BY LoadedFacts
  <2>2. Idle \in Calls /\ Known(Idle, MasterKeys) /\ MasterKeys' = MasterKeys
    BY <1>4 DEF Idle, Calls, Ops, Places, Known, Restart, MasterKeys
  <2> QED BY <1>4, <2>1, <2>2 DEF TypeOK, Restart
<1>5. CASE FallsDue \/ Reschedule
  <2>1. rows' \in [Versions -> Rows \union {None}]
    BY <1>5, DateRows
  <2>2. dues' \in Nat /\ UNCHANGED <<masters, managerVars, task, autos>>
    BY <1>5 DEF TypeOK, FallsDue, Reschedule, countVars
  <2> QED BY <2>1, <2>2 DEF TypeOK, managerVars, MasterKeys
<1> QED BY <1>1, <1>2, <1>3, <1>4, <1>5 DEF Next, TaskStep

LEMMA TypeInit == Init => TypeOK
  BY KeyRotationAssumptions DEF Init, TypeOK, MasterKeys, Idle, Calls, Ops, Places, Known

-----------------------------------------------------------------------------
(* The active version.                                                     *)

\* Versions that are to be kept are stored, and no call knows of a version that
\* has not been made.
VersionInv ==
  /\ TypeOK
  /\ \A v \in 1..Latest : v \in Stored \/ (Keep > 0 /\ v + Keep <= Latest)
  /\ \A t \in Tasks : task[t].version <= Latest
  /\ OneActiveVersion

\* A version that no stored version follows is the newest.
LEMMA LatestIs ==
  TypeOK => \A x \in Stored : (\A y \in Stored : y <= x) => Latest = x
<1> SUFFICES ASSUME TypeOK, NEW x \in Stored, \A y \in Stored : y <= x
             PROVE  Latest = x
  OBVIOUS
<1>1. Latest \in Stored /\ Latest <= x /\ x <= Latest
  BY LatestFacts
<1>2. Latest \in Nat /\ x \in Nat
  BY <1>1, LatestFacts DEF Versions
<1> QED BY <1>1, <1>2

\* What a step of a task does to the versions the calls know of.
LEMMA VersionsKnown ==
  ASSUME TypeOK, NEW t \in Tasks, TaskStep(t), NEW u \in Tasks
  PROVE  task'[u].version \in {0, Latest, task[u].version}
<1>0. task[t] \in Calls /\ task[u] \in Calls
  BY DEF TypeOK
<1>1. SUFFICES ASSUME NEW r, GoesOn(t, r), r.version \notin {0, Latest, task[t].version}
               PROVE  FALSE
  <2>1. \E r : GoesOn(t, r)
    BY CallsMade
  <2>2. \A r : GoesOn(t, r) => task'[u] = IF u = t THEN r ELSE task[u]
    BY DEF GoesOn, TypeOK
  <2> QED BY <1>1, <2>1, <2>2
<1>2. \A q : GoesOn(t, q) => q = r
  BY <1>1 DEF GoesOn, TypeOK
<1>3. Idle.version = 0 /\ r # Idle
  BY <1>1 DEF Idle
<1>4. CASE Begin(t)
  BY <1>1, <1>2, <1>4
  DEF Begin, GenerateKey, RotateKey, AutoRotate, GetKey, GenerateMasterKey, RotateRootKey, Call, Idle
<1>5. CASE KeyStep(t)
  BY <1>0, <1>1, <1>2, <1>3, <1>5
  DEF KeyStep, LoadVersion, ReadMasterId, ReadMasterKey, CheckDue, StoreVersion, StoreUnanswered,
      RefuseVersion, CacheVersion, CleanUp, LoadRow, UnwrapRow, Finish, Calls
<1>6. CASE MasterStep(t) \/ CallFails(t)
  BY <1>0, <1>1, <1>2, <1>3, <1>6
  DEF MasterStep, CallFails, InsertKek, InsertRoot, InsertUnanswered, SetRootKey, SetMasterKey,
      SetMasterId, Finish, Calls
<1> QED BY <1>4, <1>5, <1>6 DEF TaskStep

\* The newest version after a commit, and after the other steps.
LEMMA LatestAfterCommit ==
  ASSUME VersionInv, TypeOK', NEW t \in Tasks, Commit(t), NEW v, v = task[t].version
  PROVE  \/ v = Latest /\ Latest' = Latest + 1
         \/ v # Latest /\ Latest' = Latest /\ Keep > 0 /\ v + 1 + Keep <= Latest
<1>0. TypeOK
  BY DEF VersionInv
<1>1. /\ v \in Nat /\ v + 1 \in Versions /\ v + 1 \notin Stored
      /\ Stored' = Stored \union {v + 1}
  BY <1>0, CommitRows
<1>2. /\ Latest \in Nat /\ Stored \subseteq Nat /\ Latest' \in Nat
      /\ Stored = {} => Latest = 0
      /\ Stored # {} => Latest \in Stored
      /\ \A w \in Stored : w <= Latest
  <2>1. TypeOK' => (Latest \in Nat)'
    BY LatestFacts, PTL
  <2> QED BY <1>0, <2>1, LatestFacts DEF Versions
<1>3. v <= Latest
  BY DEF VersionInv
<1>4. \A x \in Stored' : (\A y \in Stored' : y <= x) => Latest' = x
  <2>1. TypeOK' => (\A x \in Stored : (\A y \in Stored : y <= x) => Latest = x)'
    BY LatestIs, PTL
  <2> QED BY <2>1
<1>5. CASE v = Latest
  <2>1. \A y \in Stored' : y <= v + 1
    BY <1>1, <1>2, <1>5
  <2> QED BY <1>1, <1>4, <1>5, <2>1
<1>6. CASE v # Latest
  <2>1. v + 1 \in 1..Latest
    BY <1>1, <1>2, <1>3, <1>6
  <2>2. Keep > 0 /\ v + 1 + Keep <= Latest
    BY <1>1, <2>1 DEF VersionInv
  <2>3. Latest \in Stored /\ \A y \in Stored' : y <= Latest
    BY <1>1, <1>2, <1>3, <1>6, <2>1
  <2> QED BY <1>1, <1>4, <1>6, <2>2, <2>3
<1> QED BY <1>5, <1>6

LEMMA LatestElse ==
  ASSUME TypeOK, TypeOK', NEW t \in Tasks,
         rows' = rows \/ CleanUp(t) \/ FallsDue \/ Reschedule
  PROVE  Latest' = Latest
<1>1. /\ Latest \in Nat /\ Stored \subseteq Versions
      /\ Stored = {} => Latest = 0
      /\ Stored # {} => Latest \in Stored
      /\ \A w \in Stored : w <= Latest
  BY LatestFacts
<1>2. \A x \in Stored' : (\A y \in Stored' : y <= x) => Latest' = x
  <2>1. TypeOK' => (\A x \in Stored : (\A y \in Stored : y <= x) => Latest = x)'
    BY LatestIs, PTL
  <2> QED BY <2>1
<1>3. CASE rows' = rows
  BY <1>3 DEF Latest, Stored
<1>4. CASE FallsDue \/ Reschedule
  <2>1. Stored' = Stored
    BY <1>4, DateRows
  <2> QED BY <1>1, <1>2, <2>1 DEF Latest
<1>5. CASE CleanUp(t)
  <2>1. Stored' = {v \in Stored : ~(Keep > 0 /\ v + Keep <= Latest)}
    BY <1>5, CleanUpRows
  <2>2. CASE Stored = {}
    BY <1>1, <2>1, <2>2 DEF Latest
  <2>3. CASE Stored # {}
    <3>1. ~(Keep > 0 /\ Latest + Keep <= Latest)
      BY <1>1, KeyRotationAssumptions
    <3> QED BY <1>1, <1>2, <2>1, <2>3, <3>1
  <2> QED BY <2>2, <2>3
<1> QED BY <1>3, <1>4, <1>5

\* Steps keep the versions that are to be kept, and the newest active.
LEMMA VersionKept == VersionInv /\ [Next]_vars => VersionInv'
<1> SUFFICES ASSUME VersionInv, [Next]_vars PROVE VersionInv'
  OBVIOUS
<1>0. TypeOK /\ TypeOK' /\ OneActiveVersion
  BY TypeKept DEF VersionInv
<1>1. /\ Latest \in Nat /\ Stored \subseteq Nat /\ Active \subseteq Stored /\ Keep \in Nat
      /\ Stored = {} => Latest = 0
      /\ Stored # {} => Latest \in Stored
      /\ \A v \in Stored : v <= Latest
      /\ \A v \in 1..Latest : v \in Stored \/ (Keep > 0 /\ v + Keep <= Latest)
      /\ \A t \in Tasks : task[t].version <= Latest /\ task[t].version \in Nat
      /\ Latest' \in Nat /\ \A t \in Tasks : task'[t].version \in Nat
  <2>1. TypeOK' => (Latest \in Nat)'
    BY LatestFacts, PTL
  <2>2. \A t \in Tasks : task[t].version \in Nat /\ task'[t].version \in Nat
    BY <1>0 DEF TypeOK, Calls
  <2>3. /\ \A v \in 1..Latest : v \in Stored \/ (Keep > 0 /\ v + Keep <= Latest)
        /\ \A t \in Tasks : task[t].version <= Latest
    BY DEF VersionInv
  <2>4. Versions \subseteq Nat /\ Active \subseteq Stored
    BY DEF Versions, Active
  <2> QED BY <1>0, <2>1, <2>2, <2>3, <2>4, LatestFacts, KeyRotationAssumptions
<1> DEFINE Kept == \A v \in 1..Latest' : v \in Stored' \/ (Keep > 0 /\ v + Keep <= Latest')
           One == Stored' # {} =>
                    /\ Latest' \in Active'
                    /\ \A v \in Active' \ {Latest'} : Keep > 0 /\ v + Keep <= Latest'
           Heard == \A t \in Tasks : task'[t].version <= Latest'
\* The same versions are stored and active.
<1>2. ASSUME Stored' = Stored, Active' = Active, Latest' = Latest
      PROVE  Kept /\ One
  BY <1>0, <1>1, <1>2 DEF OneActiveVersion
<1>3. ASSUME Latest' >= Latest, \A u \in Tasks : task'[u].version \in {0, Latest, task[u].version}
      PROVE  Heard
  <2>1. \A u \in Tasks : task'[u].version <= Latest
    BY <1>1, <1>3
  <2> QED BY <1>1, <1>3, <2>1
<1>4. ASSUME NEW t \in Tasks, Commit(t)
      PROVE  Kept /\ One /\ Latest' >= Latest
  <2>1. PICK v : v = task[t].version
    OBVIOUS
  <2>2. /\ v \in Nat /\ v + 1 \notin Stored
        /\ Stored' = Stored \union {v + 1} /\ Active' = (Active \ {v}) \union {v + 1}
    BY <1>0, <1>4, <2>1, CommitRows
  <2>3. \/ v = Latest /\ Latest' = Latest + 1
        \/ v # Latest /\ Latest' = Latest /\ Keep > 0 /\ v + 1 + Keep <= Latest
    BY <1>0, <1>4, <2>1, LatestAfterCommit
  <2>4. CASE v = Latest /\ Latest' = Latest + 1
    <3>1. Kept
      <4>1. SUFFICES ASSUME NEW w \in 1..Latest', w \notin Stored'
                     PROVE  Keep > 0 /\ w + Keep <= Latest'
        OBVIOUS
      <4>2. w \in 1..Latest /\ w \notin Stored
        BY <1>1, <2>2, <2>4, <4>1
      <4> QED BY <1>1, <2>4, <4>2
    <3>2. One
      <4>1. Latest' \in Active'
        BY <2>2, <2>4
      <4>2. SUFFICES ASSUME NEW w \in Active' \ {Latest'} PROVE Keep > 0 /\ w + Keep <= Latest'
        BY <4>1
      <4>3. w \in Active \ {Latest}
        BY <2>2, <2>4, <4>2
      <4>4. Keep > 0 /\ w + Keep <= Latest /\ w \in Nat
        BY <1>0, <1>1, <4>3 DEF OneActiveVersion
      <4> QED BY <1>1, <2>4, <4>4
    <3> QED BY <1>1, <2>4, <3>1, <3>2
  <2>5. CASE v # Latest /\ Latest' = Latest /\ Keep > 0 /\ v + 1 + Keep <= Latest
    <3>1. Stored # {}
      BY <1>1, <2>2, <2>5
    <3>2. Latest \in Active
      BY <1>0, <3>1 DEF OneActiveVersion
    <3> QED BY <1>0, <1>1, <2>2, <2>5, <3>1, <3>2 DEF OneActiveVersion
  <2> QED BY <2>3, <2>4, <2>5
<1>5. ASSUME NEW t \in Tasks, CleanUp(t)
      PROVE  Kept /\ One /\ Latest' = Latest
  <2>1. /\ Stored' = {v \in Stored : ~(Keep > 0 /\ v + Keep <= Latest)}
        /\ Active' = {v \in Active : ~(Keep > 0 /\ v + Keep <= Latest)}
        /\ Latest' = Latest
    BY <1>0, <1>5, CleanUpRows, LatestElse
  <2>2. ~(Keep > 0 /\ Latest + Keep <= Latest)
    BY <1>1
  <2>3. Kept
    BY <1>1, <2>1
  <2>4. One
    BY <1>0, <1>1, <2>1, <2>2 DEF OneActiveVersion
  <2> QED BY <2>1, <2>3, <2>4
<1>6. CASE \E t \in Tasks : TaskStep(t)
  <2>1. PICK t \in Tasks : TaskStep(t)
    BY <1>6
  <2>2. Kept /\ One /\ Latest' >= Latest
    <3>1. CASE UNCHANGED <<rows, dues, autos>>
      <4>1. Stored' = Stored /\ Active' = Active /\ Latest' = Latest
        BY <3>1 DEF Latest, Active, Stored
      <4> QED BY <1>1, <1>2, <4>1
    <3>2. CASE CleanUp(t)
      <4>1. Kept /\ One /\ Latest' = Latest
        BY <1>5, <3>2
      <4> QED BY <1>1, <4>1
    <3>3. CASE Commit(t)
      BY <1>4, <3>3
    <3> HIDE DEF Kept, One
    <3> QED BY <2>1, <3>1, <3>2, <3>3, RowSteps
  <2>3. Heard
    BY <1>0, <1>3, <2>1, <2>2, VersionsKnown
  <2> QED BY <1>0, <2>2, <2>3 DEF VersionInv, OneActiveVersion
<1>7. CASE FallsDue \/ Reschedule \/ UNCHANGED vars \/ \E m \in Managers : CacheExpires(m) \/ Restart(m)
  <2>1. Stored' = Stored /\ Active' = Active /\ Latest' = Latest
    <3>1. CASE FallsDue \/ Reschedule
      <4>1. Stored' = Stored /\ Active' = Active
        BY <1>0, <3>1, DateRows
      <4> QED BY <4>1 DEF Latest
    <3>2. CASE rows' = rows
      BY <3>2 DEF Latest, Active, Stored
    <3> QED BY <1>7, <3>1, <3>2 DEF vars, CacheExpires, Restart
  <2>2. \A u \in Tasks : task'[u].version \in {0, task[u].version}
    BY <1>7 DEF vars, FallsDue, Reschedule, CacheExpires, Restart, Idle
  <2> QED BY <1>0, <1>1, <1>2, <1>3, <2>1, <2>2 DEF VersionInv, OneActiveVersion
<1> QED BY <1>6, <1>7 DEF Next, TaskStep

\* However many processes and tasks make and rotate the key at once, its newest
\* version is active, and another one can be so only where clean-up has removed
\* versions and will remove this one (rotate_key_if_current retires the previous
\* version in the transaction that stores the next, and the unique index lets
\* one of two through).
THEOREM NewestIsActive == Spec => []OneActiveVersion
<1>1. Init => VersionInv
  <2>1. Init => Stored = {} /\ Active = {} /\ Latest = 0
    BY DEF Init, Active, Stored, Latest
  <2>2. Init => \A t \in Tasks : task[t].version <= 0
    BY DEF Init, Idle
  <2> QED BY <2>1, <2>2, TypeInit DEF VersionInv, OneActiveVersion
<1>2. VersionInv => OneActiveVersion
  BY DEF VersionInv
<1> QED BY <1>1, <1>2, VersionKept, PTL DEF Spec

-----------------------------------------------------------------------------
(* Automatic rotations.                                                    *)

\* An automatic rotation of the newest version is still to come: it is due, or
\* a call has found it due and not yet stored the next one.
Pending ==
  /\ Latest # 0
  /\ \/ rows[Latest].due
     \/ \E t \in Tasks : Doing(t, "auto", "store") /\ task[t].version = Latest

DueInv ==
  /\ VersionInv
  /\ autos <= dues /\ (Pending => autos # dues)
  /\ \A t \in Tasks : Doing(t, "auto", "store") => task[t].version # 0

\* Only the check takes a call to the point where it stores an automatic rotation.
LEMMA StoreReached ==
  ASSUME TypeOK, NEW t \in Tasks, TaskStep(t), NEW u \in Tasks, Doing(u, "auto", "store")'
  PROVE  /\ task'[u].version = task[u].version
         /\ \/ Doing(u, "auto", "store")
            \/ task[u].version \in Active /\ rows[task[u].version].due
<1>0. task[t] \in Calls /\ task[u] \in Calls
  BY DEF TypeOK
<1>1. PICK r : GoesOn(t, r)
  BY CallsMade
<1>2. task'[u] = IF u = t THEN r ELSE task[u]
  BY <1>1 DEF GoesOn, TypeOK
<1>3. CASE u # t
  BY <1>2, <1>3 DEF Doing
<1>4. CASE u = t
  <2>1. r.op = "auto" /\ r.at = "store"
    BY <1>2, <1>4 DEF Doing
  <2>2. \A q : GoesOn(t, q) => q = r
    BY <1>1 DEF GoesOn, TypeOK
  <2>3. r # Idle
    BY <2>1 DEF Idle
  <2>4. ~Begin(t)
    <3>1. Begin(t) => r.at # "store"
      BY <2>2 DEF Begin, GenerateKey, RotateKey, AutoRotate, GetKey, GenerateMasterKey,
                  RotateRootKey, Call, Idle
    <3> QED BY <2>1, <3>1
  <2>5. ~(MasterStep(t) \/ CallFails(t))
    BY <1>0, <2>1, <2>2, <2>3
    DEF MasterStep, CallFails, InsertKek, InsertRoot, InsertUnanswered, SetRootKey, SetMasterKey,
        SetMasterId, Finish, Doing, Calls
  <2>6. ReadMasterKey(t) \/ CheckDue(t)
    <3>1. CASE LoadVersion(t) \/ ReadMasterId(t) \/ LoadRow(t)
      BY <1>0, <2>1, <2>2, <2>3, <3>1 DEF LoadVersion, ReadMasterId, LoadRow, Calls
    <3>2. CASE StoreVersion(t) \/ CacheVersion(t)
      BY <1>0, <2>1, <2>2, <2>3, <3>2 DEF StoreVersion, CacheVersion, Calls
    <3>3. CASE StoreUnanswered(t) \/ RefuseVersion(t) \/ CleanUp(t) \/ UnwrapRow(t)
      BY <2>2, <2>3, <3>3 DEF StoreUnanswered, RefuseVersion, CleanUp, UnwrapRow, Finish
    <3> QED BY <2>4, <2>5, <3>1, <3>2, <3>3 DEF TaskStep, KeyStep
  <2>7. ~ReadMasterKey(t)
    BY <1>0, <2>1, <2>2 DEF ReadMasterKey, Calls
  <2>8. /\ r = [task[t] EXCEPT !.at = "store"]
        /\ task[t].version \in Active /\ rows[task[t].version].due
    BY <2>2, <2>3, <2>6, <2>7 DEF CheckDue
  <2>9. r.version = task[t].version
    BY <1>0, <2>8 DEF Calls
  <2> QED BY <1>2, <1>4, <2>8, <2>9
<1> QED BY <1>3, <1>4

\* Steps keep the account of due dates.
LEMMA DueKept == DueInv /\ [Next]_vars => DueInv'
<1> SUFFICES ASSUME DueInv, [Next]_vars PROVE DueInv'
  OBVIOUS
<1>0. /\ TypeOK /\ TypeOK' /\ VersionInv /\ VersionInv'
      /\ autos <= dues /\ (Pending => autos # dues)
      /\ \A u \in Tasks : Doing(u, "auto", "store") => task[u].version # 0
  BY TypeKept, VersionKept DEF DueInv, VersionInv
<1>1. /\ {autos, dues, autos', dues', Latest} \subseteq Nat
      /\ Active \subseteq Stored /\ 0 \notin Stored
      /\ Latest # 0 => Latest \in Active
      /\ Keep \in Nat
  BY <1>0, LatestFacts, KeyRotationAssumptions
  DEF TypeOK, VersionInv, OneActiveVersion, Active, Stored, Versions
<1>2. \A u \in Tasks : (Doing(u, "auto", "store") => task[u].version # 0)'
  <2>1. SUFFICES ASSUME NEW u \in Tasks, Doing(u, "auto", "store")' PROVE task'[u].version # 0
    BY DEF Doing
  <2>2. CASE \E t \in Tasks : TaskStep(t)
    BY <1>0, <1>1, <2>1, <2>2, StoreReached
  <2>3. CASE ~\E t \in Tasks : TaskStep(t)
    <3>1. task'[u] \in {task[u], Idle}
      BY <2>3 DEF Next, TaskStep, vars, FallsDue, Reschedule, CacheExpires, Restart
    <3>2. task'[u] = task[u]
      BY <2>1, <3>1 DEF Doing, Idle
    <3> QED BY <1>0, <2>1, <3>2 DEF Doing
  <2> QED BY <2>2, <2>3
<1> SUFFICES autos' <= dues' /\ (Pending' => autos' # dues')
  BY <1>0, <1>2 DEF DueInv
\* A step that leaves the counters and the newest version alone only has to
\* bring about no pending rotation.
<1>3. ASSUME autos' = autos, dues' = dues, Pending' => Pending
      PROVE  autos' <= dues' /\ (Pending' => autos' # dues')
  BY <1>0, <1>3
<1>4. ASSUME Latest' = Latest, Latest # 0 => rows'[Latest].due = rows[Latest].due,
             NEW t \in Tasks, TaskStep(t)
      PROVE  Pending' => Pending
  <2>1. SUFFICES ASSUME Pending', ~rows'[Latest'].due PROVE Pending
    BY <1>4 DEF Pending
  <2>2. PICK u \in Tasks : Doing(u, "auto", "store")' /\ task'[u].version = Latest'
    BY <2>1 DEF Pending
  <2>3. /\ task[u].version = Latest
        /\ Doing(u, "auto", "store") \/ rows[Latest].due
    BY <1>0, <1>4, <2>2, StoreReached
  <2> QED BY <1>4, <2>1, <2>3 DEF Pending
<1>5. CASE \E t \in Tasks : TaskStep(t)
  <2>1. PICK t \in Tasks : TaskStep(t)
    BY <1>5
  <2>2. CASE UNCHANGED <<rows, dues, autos>>
    <3>1. Latest' = Latest
      BY <2>2 DEF Latest, Stored
    <3> QED BY <1>3, <1>4, <2>1, <2>2, <3>1
  <2>3. CASE CleanUp(t)
    <3>1. Latest' = Latest
      BY <1>0, <2>3, LatestElse
    <3>2. Latest # 0 => Latest \in Stored'
      <4>1. ~(Keep > 0 /\ Latest + Keep <= Latest)
        BY <1>1, KeyRotationAssumptions
      <4> QED BY <1>0, <1>1, <2>3, <4>1, CleanUpRows DEF Active
    <3>3. Latest # 0 => rows'[Latest].due = rows[Latest].due
      BY <1>0, <2>3, <3>2, CleanUpRows
    <3>4. autos' = autos /\ dues' = dues
      BY <2>3 DEF CleanUp, countVars
    <3> QED BY <1>3, <1>4, <2>1, <3>1, <3>3, <3>4
  <2>4. CASE Commit(t) /\ dues' = dues
    <3>1. PICK v : v = task[t].version
      OBVIOUS
    <3>2. \/ v = Latest /\ Latest' = Latest + 1
          \/ v # Latest /\ Latest' = Latest /\ Keep > 0 /\ v + 1 + Keep <= Latest
      BY <1>0, <2>4, <3>1, LatestAfterCommit
    <3>3. /\ rows'[v + 1] = Row(task[t].key, task[t].id)
          /\ \A w \in Stored : rows'[w].due = rows[w].due
      BY <1>0, <2>4, <3>1, CommitRows
    <3>4. CASE v = Latest /\ Latest' = Latest + 1
      <4>1. ~rows'[Latest'].due
        BY <3>3, <3>4 DEF Row
      <4>2. ASSUME NEW u \in Tasks, Doing(u, "auto", "store")'
            PROVE  task'[u].version # Latest'
        <5>1. task'[u].version = task[u].version
          BY <1>0, <2>1, <4>2, StoreReached
        <5>2. task[u].version <= Latest /\ task[u].version \in Nat
          BY <1>0 DEF VersionInv, TypeOK, Calls
        <5> QED BY <1>1, <3>4, <5>1, <5>2
      <4>3. ~Pending'
        BY <4>1, <4>2 DEF Pending
      <4>4. CASE task[t].op = "auto"
        <5>1. autos' = autos + 1
          BY <2>4, <3>1, <3>4, <4>4 DEF Commit
        <5>2. Pending
          <6>1. Doing(t, "auto", "store") /\ Latest # 0
            BY <1>0, <2>4, <3>1, <3>4, <4>4 DEF Doing, Commit
          <6> QED BY <3>1, <3>4, <6>1 DEF Pending
        <5>3. autos # dues
          BY <1>0, <5>2
        <5>4. autos + 1 <= dues
          BY <1>0, <1>1, <5>3
        <5> QED BY <2>4, <4>3, <5>1, <5>4
      <4>5. CASE task[t].op # "auto"
        <5>1. autos' = autos
          BY <2>4, <4>5 DEF Commit
        <5> QED BY <1>0, <2>4, <4>3, <5>1
      <4> QED BY <4>4, <4>5
    <3>5. CASE v # Latest /\ Latest' = Latest
      <4>1. autos' = autos
        BY <2>4, <3>1, <3>5 DEF Commit
      <4>2. Latest # 0 => rows'[Latest].due = rows[Latest].due
        BY <1>1, <3>3 DEF Active
      <4> QED BY <1>3, <1>4, <2>1, <2>4, <3>5, <4>1, <4>2
    <3> QED BY <3>2, <3>4, <3>5
  <2> QED BY <2>1, <2>2, <2>3, <2>4, RowSteps
<1>6. CASE FallsDue
  <2>1. autos' = autos /\ dues' = dues + 1
    BY <1>6 DEF FallsDue
  <2> QED BY <1>0, <1>1, <2>1
<1>7. CASE Reschedule
  <2>1. Latest' = Latest
    <3>1. Stored' = Stored
      BY <1>0, <1>7, DateRows
    <3> QED BY <3>1 DEF Latest
  <2>2. UNCHANGED <<task, autos, dues>>
    BY <1>7 DEF Reschedule, countVars
  <2>3. Latest # 0 => ~rows'[Latest].due
    BY <1>0, <1>1, <1>7, DateRows
  <2> QED BY <1>3, <2>1, <2>2, <2>3 DEF Pending, Doing
<1>8. CASE UNCHANGED vars \/ \E m \in Managers : CacheExpires(m) \/ Restart(m)
  <2>1. UNCHANGED <<rows, autos, dues>>
    BY <1>8 DEF vars, CacheExpires, Restart, countVars
  <2>2. \A u \in Tasks : task'[u] \in {task[u], Idle}
    BY <1>8 DEF vars, CacheExpires, Restart
  <2>3. \A u \in Tasks : Doing(u, "auto", "store")' => task'[u] = task[u]
    BY <2>2 DEF Doing, Idle
  <2>4. Latest' = Latest
    BY <2>1 DEF Latest, Stored
  <2> QED BY <1>3, <2>1, <2>3, <2>4 DEF Pending, Doing
<1> QED BY <1>5, <1>6, <1>7, <1>8 DEF Next, TaskStep

\* However many processes and tasks notice that a rotation is due, there are
\* never more automatic rotations of the newest version than due dates
\* (rotate_key_if_current counts again before it inserts; the count locks
\* nothing, and the unique index does the rest).
THEOREM DueRotatedOnce == Spec => []DueOnce
<1>1. Init => DueInv
  <2>1. Init => Stored = {} /\ Active = {} /\ Latest = 0
    BY DEF Init, Active, Stored, Latest
  <2>2. Init => /\ \A t \in Tasks : task[t].version <= 0 /\ ~Doing(t, "auto", "store")
                /\ autos = 0 /\ dues = 0
    BY DEF Init, Idle, Doing
  <2> QED BY <2>1, <2>2, TypeInit DEF DueInv, Pending, VersionInv, OneActiveVersion
<1>2. DueInv => DueOnce
  BY DEF DueInv, DueOnce
<1> QED BY <1>1, <1>2, DueKept, PTL DEF Spec

-----------------------------------------------------------------------------
(* Master keys.                                                            *)

\* A call wraps with one key: key and id are the same, and were the manager's
\* when it read them.
Wrapping(t) ==
  /\ Making(t) /\ task[t].at = "key" => task[t].id = Owned(t, wrapId)
  /\ Making(t) /\ task[t].at \in {"check", "store"} => task[t].key = task[t].id
  /\ Doing(t, "master", "setId") => Owned(t, wrapKey) = task[t].key

\* Outside of a change a manager's master key and id are the same.
Settled(m) ==
  (\A t \in Tasks : Owner[t] = m => ~Doing(t, "master", "setId")) => wrapKey[m] = wrapId[m]

\* All this for the managers whose master key calls did not mix.
WrappingInv ==
  /\ \A m \in Managers \ mixed : Settled(m)
  /\ \A t \in Tasks : Owner[t] \notin mixed => Wrapping(t)

ReadableInv == TypeOK /\ WrappingInv /\ EveryKeyIsReadable

\* Steps of a task, by what they do with the master key: the four that read or
\* set it, and the others, which leave a call where it wraps nothing or only
\* pass the check.
LEMMA WrappingSteps ==
  ASSUME TypeOK, NEW t \in Tasks, TaskStep(t)
  PROVE  \/ ReadMasterId(t) \/ ReadMasterKey(t) \/ SetMasterKey(t) \/ SetMasterId(t)
         \/ /\ UNCHANGED <<wrapKey, wrapId, mixed>>
            /\ ~Doing(t, "master", "setId") /\ ~Doing(t, "master", "setId")'
            /\ Making(t)' => task'[t].at # "key"
            /\ Making(t)' /\ task'[t].at \in {"check", "store"} =>
                 /\ Making(t) /\ task[t].at = "check"
                 /\ task'[t].key = task[t].key /\ task'[t].id = task[t].id
<1>0. task[t] \in Calls
  BY DEF TypeOK
<1>1. PICK r : GoesOn(t, r)
  BY CallsMade
<1>2. task'[t] = r /\ \A q : GoesOn(t, q) => q = r
  BY <1>1 DEF GoesOn, TypeOK
<1>3. task'[t] = Idle => ~Doing(t, "master", "setId")' /\ ~Making(t)'
  BY DEF Idle, Doing, Making
<1>4. CASE Begin(t)
  <2>1. UNCHANGED <<wrapKey, wrapId, mixed>> /\ task[t] = Idle
    BY <1>4 DEF Begin, GenerateKey, RotateKey, AutoRotate, GetKey, GenerateMasterKey,
                RotateRootKey, Call, managerVars, ghosts
  <2>2. r.at \in {"id", "load", "kek", "newRoot"}
    BY <1>2, <1>4 DEF Begin, GenerateKey, RotateKey, AutoRotate, GetKey, GenerateMasterKey,
                      RotateRootKey, Call, Idle
  <2> QED BY <1>2, <2>1, <2>2 DEF Doing, Making, Idle
<1>5. CASE LoadVersion(t) \/ LoadRow(t)
  <2>1. UNCHANGED <<wrapKey, wrapId, mixed>> /\ task[t].at = "load"
    BY <1>5 DEF LoadVersion, LoadRow, Doing, managerVars, ghosts
  <2>2. r = Idle \/ r.at \in {"id", "unwrap"}
    BY <1>0, <1>2, <1>5 DEF LoadVersion, LoadRow, Calls
  <2> QED BY <1>2, <1>3, <2>1, <2>2 DEF Doing, Making
<1>6. CASE CheckDue(t)
  <2>1. UNCHANGED <<wrapKey, wrapId, mixed>> /\ task[t].at = "check" /\ task[t].op = "auto"
    BY <1>6 DEF CheckDue, Doing, managerVars, ghosts
  <2>2. \/ r = Idle
        \/ r.at = "store" /\ r.key = task[t].key /\ r.id = task[t].id
    BY <1>0, <1>2, <1>6 DEF CheckDue, Calls
  <2> QED BY <1>2, <1>3, <2>1, <2>2 DEF Doing, Making
<1>7. CASE StoreVersion(t) \/ CacheVersion(t)
  <2>1. UNCHANGED <<wrapKey, wrapId, mixed>> /\ task[t].at \in {"store", "cache"}
    BY <1>7 DEF StoreVersion, CacheVersion, Commit, managerVars, ghosts
  <2>2. r = Idle \/ r.at \in {"cache", "cleanup"}
    BY <1>0, <1>2, <1>7 DEF StoreVersion, CacheVersion, Calls
  <2> QED BY <1>2, <1>3, <2>1, <2>2 DEF Doing, Making
<1>8. CASE StoreUnanswered(t) \/ RefuseVersion(t) \/ CleanUp(t) \/ UnwrapRow(t) \/ CallFails(t)
           \/ InsertUnanswered(t)
  <2>1. UNCHANGED <<wrapKey, wrapId, mixed>> /\ task[t].at # "setId"
    BY <1>8 DEF StoreUnanswered, Commit, RefuseVersion, Refused, CleanUp, UnwrapRow, CallFails,
                InsertUnanswered, InsertMaster, Doing, managerVars, ghosts
  <2>2. r = Idle
    BY <1>2, <1>8 DEF StoreUnanswered, RefuseVersion, CleanUp, UnwrapRow, CallFails,
                      InsertUnanswered, Finish
  <2> QED BY <1>2, <1>3, <2>1, <2>2 DEF Doing
<1>9. CASE InsertKek(t) \/ InsertRoot(t) \/ SetRootKey(t)
  <2>1. /\ UNCHANGED <<wrapKey, wrapId, mixed>>
        /\ task[t].op = "master" /\ task[t].at # "setId"
    BY <1>9 DEF InsertKek, InsertRoot, InsertMaster, SetRootKey, Doing, managerVars, ghosts
  <2>2. r = Idle \/ (r.at \in {"setKey", "setRoot"} /\ r.op = "master")
    BY <1>0, <1>2, <1>9, <2>1 DEF InsertKek, InsertRoot, SetRootKey, Calls
  <2> QED BY <1>2, <1>3, <2>1, <2>2 DEF Doing, Making
<1> QED BY <1>4, <1>5, <1>6, <1>7, <1>8, <1>9 DEF TaskStep, KeyStep, MasterStep

\* Steps of a task keep key and id together.
LEMMA WrappingByTask ==
  ASSUME TypeOK, WrappingInv, NEW t \in Tasks, TaskStep(t)
  PROVE  WrappingInv'
<1> DEFINE o == Owner[t]
<1>0. /\ task[t] \in Calls /\ \A u \in Tasks : Owner[u] \in Managers
      /\ wrapKey \in [Managers -> MasterKeys] /\ wrapId \in [Managers -> MasterKeys]
  BY KeyRotationAssumptions DEF TypeOK
<1>1. /\ \A m \in Managers \ mixed : Settled(m)
      /\ \A u \in Tasks : Owner[u] \notin mixed => Wrapping(u)
  BY DEF WrappingInv
<1>2. PICK r \in Calls : GoesOn(t, r)
  BY CallsMade
<1>3. task'[t] = r /\ (\A u \in Tasks \ {t} : task'[u] = task[u]) /\ \A q : GoesOn(t, q) => q = r
  BY <1>2 DEF GoesOn, TypeOK
<1>4. \A u \in Tasks \ {t} : /\ Making(u)' = Making(u)
                             /\ Doing(u, "master", "setId")' = Doing(u, "master", "setId")
  BY <1>3 DEF Making, Doing
\* Only the manager of t is concerned.
<1>5. ASSUME \A m \in Managers \ {o} : /\ wrapKey'[m] = wrapKey[m] /\ wrapId'[m] = wrapId[m]
                                       /\ m \in mixed => m \in mixed',
             o \notin mixed' => /\ Settled(o)'
                                /\ \A u \in Tasks : Owner[u] = o => Wrapping(u)'
      PROVE  WrappingInv'
  <2>1. ASSUME NEW m \in Managers, m \notin mixed', m # o
        PROVE  Settled(m)'
    <3>1. Settled(m) /\ wrapKey'[m] = wrapKey[m] /\ wrapId'[m] = wrapId[m]
      BY <1>1, <1>5, <2>1
    <3>2. \A u \in Tasks : Owner[u] = m => (Doing(u, "master", "setId")' = Doing(u, "master", "setId"))
      BY <1>4, <2>1
    <3> QED BY <3>1, <3>2 DEF Settled
  <2>2. ASSUME NEW u \in Tasks, Owner[u] \notin mixed', Owner[u] # o
        PROVE  Wrapping(u)'
    <3>1. /\ Wrapping(u) /\ task'[u] = task[u]
          /\ wrapKey'[Owner[u]] = wrapKey[Owner[u]] /\ wrapId'[Owner[u]] = wrapId[Owner[u]]
      BY <1>0, <1>1, <1>3, <1>5, <2>2
    <3> QED BY <3>1 DEF Wrapping, Making, Doing, Owned
  <2> QED BY <1>5, <2>1, <2>2 DEF WrappingInv
<1>6. CASE /\ UNCHANGED <<wrapKey, wrapId, mixed>>
           /\ ~Doing(t, "master", "setId") /\ ~Doing(t, "master", "setId")'
           /\ Making(t)' => task'[t].at # "key"
           /\ Making(t)' /\ task'[t].at \in {"check", "store"} =>
                /\ Making(t) /\ task[t].at = "check"
                /\ task'[t].key = task[t].key /\ task'[t].id = task[t].id
  <2>1. SUFFICES ASSUME o \notin mixed
                 PROVE  Settled(o)' /\ \A u \in Tasks : Owner[u] = o => Wrapping(u)'
    BY <1>5, <1>6
  <2>2. Settled(o)'
    BY <1>0, <1>1, <1>4, <1>6, <2>1 DEF Settled
  <2>3. Wrapping(t) /\ Wrapping(t)'
    BY <1>1, <1>6, <2>1 DEF Wrapping
  <2>4. ASSUME NEW u \in Tasks \ {t}, Owner[u] = o
        PROVE  Wrapping(u)'
    BY <1>1, <1>3, <1>6, <2>1, <2>4 DEF Wrapping, Making, Doing, Owned
  <2> QED BY <2>2, <2>3, <2>4
\* The steps that read or set the master key without another call at work.
<1>7. ASSUME NoteMix(t)
      PROVE  /\ \A m \in Managers \ {o} : m \in mixed => m \in mixed'
             /\ o \notin mixed' => o \notin mixed /\ ~Mixes(t)
  BY <1>7 DEF NoteMix
<1>8. ASSUME ~Mixes(t), NEW u \in Tasks \ {t}, Owner[u] = o
      PROVE  /\ ~Doing(u, "master", "setId")
             /\ Making(u) /\ task[u].at = "key" => Making(t)
  BY <1>8 DEF Mixes
<1>9. CASE ReadMasterId(t) \/ ReadMasterKey(t)
  <2>1. /\ NoteMix(t) /\ wrapKey' = wrapKey /\ wrapId' = wrapId /\ Making(t)
        /\ r.op = task[t].op
        /\ \/ task[t].at = "id" /\ r.at = "key" /\ r.id = Owned(t, wrapId)
           \/ /\ task[t].at = "key" /\ r.at \in {"check", "store"}
              /\ r.key = Owned(t, wrapKey) /\ r.id = task[t].id
    <3>1. CASE ReadMasterId(t)
      <4>1. r = [task[t] EXCEPT !.at = "key", !.id = Owned(t, wrapId)]
        BY <1>3, <3>1 DEF ReadMasterId
      <4>2. r.op = task[t].op /\ r.at = "key" /\ r.id = Owned(t, wrapId)
        BY <1>0, <4>1 DEF Calls
      <4> QED BY <3>1, <4>2 DEF ReadMasterId, managerVars
    <3>2. CASE ReadMasterKey(t)
      <4>1. r = [task[t] EXCEPT !.at = IF task[t].op = "auto" THEN "check" ELSE "store",
                                !.key = Owned(t, wrapKey)]
        BY <1>3, <3>2 DEF ReadMasterKey
      <4>2. /\ r.op = task[t].op /\ r.at \in {"check", "store"}
            /\ r.key = Owned(t, wrapKey) /\ r.id = task[t].id
        BY <1>0, <4>1 DEF Calls
      <4> QED BY <3>2, <4>2 DEF ReadMasterKey, managerVars
    <3> QED BY <1>9, <3>1, <3>2
  <2>2. SUFFICES ASSUME o \notin mixed, ~Mixes(t)
                 PROVE  Settled(o)' /\ \A u \in Tasks : Owner[u] = o => Wrapping(u)'
    BY <1>5, <1>7, <2>1
  <2>3. \A u \in Tasks : Owner[u] = o => ~Doing(u, "master", "setId")
    BY <1>8, <2>1, <2>2 DEF Doing, Making
  <2>4. wrapKey[o] = wrapId[o]
    BY <1>0, <1>1, <2>2, <2>3 DEF Settled
  <2>5. Wrapping(t)'
    <3>1. task[t].at = "key" => task[t].id = wrapId[o]
      BY <1>1, <2>1, <2>2 DEF Wrapping, Owned
    <3>2. ~Doing(t, "master", "setId")'
      BY <1>3, <2>1 DEF Doing, Making
    <3> QED BY <1>3, <2>1, <2>4, <3>1, <3>2 DEF Wrapping, Owned
  <2>6. ASSUME NEW u \in Tasks \ {t}, Owner[u] = o
        PROVE  Wrapping(u)'
    BY <1>1, <1>3, <2>1, <2>2, <2>6 DEF Wrapping, Making, Doing, Owned
  <2> QED BY <2>1, <2>4, <2>5, <2>6 DEF Settled
<1>10. CASE SetMasterKey(t) \/ SetMasterId(t)
  <2>1. NoteMix(t) /\ task[t].op = "master" /\ ~Making(t)
    BY <1>10 DEF SetMasterKey, SetMasterId, Doing, Making
  <2>2. \A m \in Managers \ {o} : wrapKey'[m] = wrapKey[m] /\ wrapId'[m] = wrapId[m]
    BY <1>0, <1>10 DEF SetMasterKey, SetMasterId
  <2>3. SUFFICES ASSUME o \notin mixed, ~Mixes(t)
                 PROVE  Settled(o)' /\ \A u \in Tasks : Owner[u] = o => Wrapping(u)'
    BY <1>5, <1>7, <2>1, <2>2
  <2>4. ASSUME NEW u \in Tasks \ {t}, Owner[u] = o
        PROVE  Wrapping(u)'
    <3>1. ~Doing(u, "master", "setId") /\ ~(Making(u) /\ task[u].at = "key")
      BY <1>8, <2>1, <2>3, <2>4
    <3>2. Wrapping(u) /\ task'[u] = task[u]
      BY <1>1, <1>3, <2>3, <2>4
    <3> QED BY <3>1, <3>2 DEF Wrapping, Making, Doing
  <2>5. CASE SetMasterKey(t)
    <3>1. wrapKey'[o] = task[t].key /\ r.op = "master" /\ r.at = "setId" /\ r.key = task[t].key
      BY <1>0, <1>3, <2>1, <2>5 DEF SetMasterKey, Calls
    <3>2. Doing(t, "master", "setId")' /\ ~Making(t)'
      BY <1>3, <3>1 DEF Doing, Making
    <3>3. Settled(o)'
      BY <3>2 DEF Settled
    <3>4. Wrapping(t)'
      BY <1>3, <3>1, <3>2 DEF Wrapping, Owned
    <3> QED BY <2>4, <3>3, <3>4
  <2>6. CASE SetMasterId(t)
    <3>1. wrapId'[o] = task[t].key /\ wrapKey' = wrapKey /\ r = Idle
      BY <1>0, <1>3, <2>6 DEF SetMasterId, Finish
    <3>2. wrapKey[o] = task[t].key
      BY <1>1, <2>3, <2>6 DEF Wrapping, Owned, SetMasterId
    <3>3. Wrapping(t)'
      BY <1>3, <3>1 DEF Wrapping, Making, Doing, Idle
    <3>4. Settled(o)'
      BY <3>1, <3>2 DEF Settled
    <3> QED BY <2>4, <3>3, <3>4
  <2> QED BY <1>10, <2>5, <2>6
<1> QED BY <1>6, <1>9, <1>10, WrappingSteps

\* Steps keep key and id together.
LEMMA WrappingKept == TypeOK /\ WrappingInv /\ [Next]_vars => WrappingInv'
<1> SUFFICES ASSUME TypeOK, WrappingInv, [Next]_vars PROVE WrappingInv'
  OBVIOUS
<1>1. CASE UNCHANGED <<wrapKey, wrapId, task, mixed>>
  BY <1>1 DEF WrappingInv, Wrapping, Settled, Making, Doing, Owned
<1>2. ASSUME NEW m \in Managers, Restart(m)
      PROVE  WrappingInv'
  <2>0. \A u \in Tasks : Owner[u] \in Managers
    BY KeyRotationAssumptions
  <2>1. /\ wrapKey'[m] = LoadedMaster /\ wrapId'[m] = LoadedMaster
        /\ \A n \in Managers \ {m} : wrapKey'[n] = wrapKey[n] /\ wrapId'[n] = wrapId[n]
        /\ \A u \in Tasks : task'[u] = IF Owner[u] = m THEN Idle ELSE task[u]
        /\ mixed' = mixed \ {m}
    BY <1>2 DEF Restart, TypeOK
  <2>2. ASSUME NEW n \in Managers \ mixed' PROVE Settled(n)'
    <3>1. CASE n = m
      BY <2>1, <3>1 DEF Settled
    <3>2. CASE n # m
      <4>1. Settled(n) /\ wrapKey'[n] = wrapKey[n] /\ wrapId'[n] = wrapId[n]
        BY <2>1, <2>2, <3>2 DEF WrappingInv
      <4>2. \A u \in Tasks : Owner[u] = n => task'[u] = task[u]
        BY <2>1, <3>2
      <4> QED BY <4>1, <4>2 DEF Settled, Doing
    <3> QED BY <3>1, <3>2
  <2>3. ASSUME NEW u \in Tasks, Owner[u] \notin mixed' PROVE Wrapping(u)'
    <3>1. CASE Owner[u] = m
      BY <2>1, <3>1 DEF Wrapping, Making, Doing, Idle
    <3>2. CASE Owner[u] # m
      <4>1. /\ Wrapping(u) /\ task'[u] = task[u]
            /\ wrapKey'[Owner[u]] = wrapKey[Owner[u]] /\ wrapId'[Owner[u]] = wrapId[Owner[u]]
        BY <2>0, <2>1, <2>3, <3>2 DEF WrappingInv
      <4> QED BY <4>1 DEF Wrapping, Making, Doing, Owned
    <3> QED BY <3>1, <3>2
  <2> QED BY <2>2, <2>3 DEF WrappingInv
<1>3. CASE FallsDue \/ Reschedule \/ UNCHANGED vars \/ \E m \in Managers : CacheExpires(m)
  BY <1>1, <1>3 DEF FallsDue, Reschedule, CacheExpires, vars, managerVars, ghosts
<1> QED BY <1>2, <1>3, WrappingByTask DEF Next, TaskStep

\* Steps keep the stored versions readable.
LEMMA ReadableKept == ReadableInv /\ [Next]_vars => ReadableInv'
<1> SUFFICES ASSUME ReadableInv, [Next]_vars PROVE ReadableInv'
  OBVIOUS
<1>0. TypeOK /\ TypeOK' /\ WrappingInv /\ WrappingInv' /\ EveryKeyIsReadable
  BY TypeKept, WrappingKept DEF ReadableInv
<1>1. /\ DOMAIN masters = MasterKeys /\ DOMAIN masters' = MasterKeys'
      /\ MasterKeys \subseteq MasterKeys'
  <2>1. CASE \E t \in Tasks : TaskStep(t)
    BY <1>0, <2>1, MastersKept DEF TypeOK, MasterKeys
  <2>2. CASE ~\E t \in Tasks : TaskStep(t)
    BY <1>0, <2>2 DEF Next, TaskStep, vars, FallsDue, Reschedule, CacheExpires, Restart, TypeOK,
                      MasterKeys
  <2> QED BY <2>1, <2>2
<1>2. SUFFICES ASSUME NEW v \in Stored'
               PROVE  /\ rows'[v].key \in MasterKeys /\ rows'[v].master \in MasterKeys
                      /\ v \in exposed' \/ rows'[v].key = rows'[v].master
  BY <1>0, <1>1 DEF ReadableInv, EveryKeyIsReadable
\* A row that was there keeps its keys.
<1>3. ASSUME v \in Stored, v \in exposed => v \in exposed',
             rows'[v].key = rows[v].key, rows'[v].master = rows[v].master
      PROVE  /\ rows'[v].key \in MasterKeys /\ rows'[v].master \in MasterKeys
             /\ v \in exposed' \/ rows'[v].key = rows'[v].master
  BY <1>0, <1>1, <1>3 DEF EveryKeyIsReadable
<1>4. ASSUME NEW t \in Tasks, TaskStep(t)
      PROVE  /\ rows'[v].key \in MasterKeys /\ rows'[v].master \in MasterKeys
             /\ v \in exposed' \/ rows'[v].key = rows'[v].master
  <2>1. CASE Commit(t)
    <3>1. PICK w : w = task[t].version
      OBVIOUS
    <3>2. /\ Stored' = Stored \union {w + 1} /\ w + 1 \notin Stored
          /\ rows'[w + 1] = Row(task[t].key, task[t].id)
          /\ \A x \in Stored : rows'[x].key = rows[x].key /\ rows'[x].master = rows[x].master
      BY <1>0, <2>1, <3>1, CommitRows
    <3>3. exposed' = IF Owner[t] \in mixed THEN exposed \union {w + 1} ELSE exposed \ {w + 1}
      BY <2>1, <3>1 DEF Commit
    <3>4. CASE v = w + 1
      <4>1. /\ task[t].key \in MasterKeys /\ task[t].id \in MasterKeys
            /\ Owner[t] \notin mixed => task[t].key = task[t].id
        BY <1>0, <2>1 DEF Commit, TypeOK, Known, WrappingInv, Wrapping
      <4>2. rows'[v].key = task[t].key /\ rows'[v].master = task[t].id
        BY <3>2, <3>4 DEF Row
      <4>3. v \in exposed' \/ Owner[t] \notin mixed
        BY <3>3, <3>4
      <4> QED BY <4>1, <4>2, <4>3
    <3>5. CASE v # w + 1
      BY <1>2, <1>3, <3>2, <3>3, <3>5
    <3> QED BY <3>4, <3>5
  <2>2. CASE CleanUp(t)
    <3>1. v \in Stored /\ rows'[v] = rows[v]
      BY <1>0, <1>2, <2>2, CleanUpRows
    <3> QED BY <1>3, <2>2, <3>1 DEF CleanUp, ghosts
  <2>3. CASE UNCHANGED <<rows, exposed>>
    BY <1>2, <1>3, <2>3 DEF Stored
  <2> QED
    BY <1>4, <2>1, <2>2, <2>3
    DEF TaskStep, Begin, KeyStep, MasterStep, CallFails, GenerateKey, RotateKey, AutoRotate,
        GetKey, GenerateMasterKey, RotateRootKey, Call, LoadVersion, ReadMasterId, ReadMasterKey,
        CheckDue, StoreVersion, StoreUnanswered, RefuseVersion, CacheVersion,
        LoadRow, UnwrapRow, InsertKek, InsertRoot, InsertUnanswered, InsertMaster, SetRootKey,
        SetMasterKey, SetMasterId, ghosts
<1>5. CASE FallsDue \/ Reschedule
  <2>1. /\ Stored' = Stored
        /\ \A x \in Stored : rows'[x].key = rows[x].key /\ rows'[x].master = rows[x].master
    BY <1>0, <1>5, DateRows
  <2>2. exposed' = exposed
    BY <1>5 DEF FallsDue, Reschedule, ghosts
  <2> QED BY <1>2, <1>3, <2>1, <2>2
<1>6. CASE UNCHANGED vars \/ \E m \in Managers : CacheExpires(m) \/ Restart(m)
  <2>1. rows' = rows /\ exposed' = exposed
    BY <1>6 DEF vars, CacheExpires, Restart, ghosts
  <2> QED BY <1>2, <1>3, <2>1 DEF Stored
<1> QED BY <1>4, <1>5, <1>6 DEF Next, TaskStep

\* Whatever processes and clones of their managers make keys and master keys at
\* once, each stored version names a master key of the database, and is wrapped
\* with it unless its manager was used and changed at once (current_master_key,
\* generate_master_key, rotate_kms_master_key).
THEOREM KeysStayReadable == Spec => []EveryKeyIsReadable
<1>1. Init => ReadableInv
  <2>1. Init => Stored = {}
    BY DEF Init, Stored
  <2>2. Init => WrappingInv
    BY DEF Init, WrappingInv, Wrapping, Settled, Doing, Making, Idle
  <2> QED BY <2>1, <2>2, TypeInit DEF ReadableInv, EveryKeyIsReadable
<1>2. ReadableInv => EveryKeyIsReadable
  BY DEF ReadableInv
<1> QED BY <1>1, <1>2, ReadableKept, PTL DEF Spec

-----------------------------------------------------------------------------
(* Caches.                                                                 *)

\* A version about to be cached is stored.
CachedInv ==
  /\ TypeOK
  /\ \A t \in Tasks : Making(t) /\ task[t].at = "cache" => task[t].stored
  /\ CachedWasStored

\* Steps keep it.
LEMMA CachedKept == CachedInv /\ [Next]_vars => CachedInv'
<1> SUFFICES ASSUME CachedInv, [Next]_vars PROVE CachedInv'
  OBVIOUS
<1>0. /\ TypeOK /\ TypeOK'
      /\ \A u \in Tasks : Making(u) /\ task[u].at = "cache" => task[u].stored
      /\ \A m \in Managers : cache[m] # None => cache[m].stored
  BY TypeKept DEF CachedInv, CachedWasStored
<1>1. SUFFICES /\ \A u \in Tasks : (Making(u) /\ task[u].at = "cache" => task[u].stored)'
               /\ \A m \in Managers : cache'[m] # None => cache'[m].stored
  BY <1>0 DEF CachedInv, CachedWasStored
<1>2. ASSUME NEW t \in Tasks, TaskStep(t)
      PROVE  /\ \A u \in Tasks : (Making(u) /\ task[u].at = "cache" => task[u].stored)'
             /\ \A m \in Managers : cache'[m] # None => cache'[m].stored
  <2>0. task[t] \in Calls /\ Owner[t] \in Managers
    BY <1>0, KeyRotationAssumptions DEF TypeOK
  <2>1. PICK r \in Calls : GoesOn(t, r)
    BY <1>0, <1>2, CallsMade
  <2>2. task'[t] = r /\ (\A u \in Tasks \ {t} : task'[u] = task[u]) /\ \A q : GoesOn(t, q) => q = r
    BY <1>0, <2>1 DEF GoesOn, TypeOK
  <2>3. r.at = "cache" => r.stored
    <3>1. CASE Begin(t)
      BY <2>2, <3>1 DEF Begin, GenerateKey, RotateKey, AutoRotate, GetKey, GenerateMasterKey,
                        RotateRootKey, Call, Idle
    <3>2. CASE StoreVersion(t)
      BY <2>0, <2>2, <3>2 DEF StoreVersion, Calls
    <3>3. CASE r = Idle
      BY <3>3 DEF Idle
    <3>4. CASE LoadVersion(t) \/ ReadMasterId(t) \/ ReadMasterKey(t)
      BY <2>0, <2>2, <3>3, <3>4 DEF LoadVersion, ReadMasterId, ReadMasterKey, Calls
    <3>5. CASE CheckDue(t) \/ CacheVersion(t) \/ LoadRow(t)
      BY <2>0, <2>2, <3>3, <3>5 DEF CheckDue, CacheVersion, LoadRow, Calls
    <3>6. CASE StoreUnanswered(t) \/ RefuseVersion(t) \/ CleanUp(t) \/ UnwrapRow(t)
               \/ InsertUnanswered(t) \/ SetMasterId(t) \/ CallFails(t)
      BY <2>2, <3>3, <3>6 DEF StoreUnanswered, RefuseVersion, CleanUp, UnwrapRow,
                              InsertUnanswered, SetMasterId, CallFails, Finish
    <3>7. CASE InsertKek(t) \/ InsertRoot(t) \/ SetRootKey(t) \/ SetMasterKey(t)
      BY <2>0, <2>2, <3>3, <3>7 DEF InsertKek, InsertRoot, SetRootKey, SetMasterKey, Calls
    <3> QED BY <1>2, <3>1, <3>2, <3>4, <3>5, <3>6, <3>7 DEF TaskStep, KeyStep, MasterStep
  <2>4. \A u \in Tasks : (Making(u) /\ task[u].at = "cache" => task[u].stored)'
    BY <1>0, <2>2, <2>3 DEF Making
  <2>5. \A m \in Managers : cache'[m] # None => cache'[m].stored
    <3>1. \/ cache' = cache
          \/ \E v \in Nat : CacheKey(t, v, TRUE)
      <4>1. CASE CacheVersion(t)
        <5>1. task[t].stored /\ task[t].version + 1 \in Nat /\ task[t].stored \in BOOLEAN
          BY <1>0, <2>0, <4>1 DEF CacheVersion, Calls
        <5>2. CacheKey(t, task[t].version + 1, task[t].stored)
          BY <4>1 DEF CacheVersion
        <5>3. task[t].stored = TRUE
          BY <5>1
        <5> QED BY <5>1, <5>2, <5>3
      <4>2. CASE UnwrapRow(t)
        BY <2>0, <4>2 DEF UnwrapRow, Calls
      <4> QED
        BY <1>2, <4>1, <4>2
        DEF TaskStep, Begin, KeyStep, MasterStep, CallFails, GenerateKey, RotateKey, AutoRotate,
            GetKey, GenerateMasterKey, RotateRootKey, Call, LoadVersion, ReadMasterId,
            ReadMasterKey, CheckDue, StoreVersion, StoreUnanswered, Commit, RefuseVersion, CleanUp,
            LoadRow, InsertKek, InsertRoot, InsertUnanswered, InsertMaster, SetRootKey,
            SetMasterKey, SetMasterId, managerVars
    <3>2. CASE \E v \in Nat : CacheKey(t, v, TRUE)
      <4>1. PICK v \in Nat : CacheKey(t, v, TRUE)
        BY <3>2
      <4>2. \A m \in Managers : cache'[m] = IF m = Owner[t] THEN [version |-> v, stored |-> TRUE]
                                           ELSE cache[m]
        BY <1>0, <4>1 DEF CacheKey, TypeOK
      <4> QED BY <1>0, <4>2
    <3> QED BY <1>0, <3>1, <3>2
  <2> QED BY <2>4, <2>5
<1>3. CASE ~\E t \in Tasks : TaskStep(t)
  <2>1. \A u \in Tasks : task'[u] \in {task[u], Idle}
    BY <1>3 DEF Next, TaskStep, vars, FallsDue, Reschedule, CacheExpires, Restart
  <2>2. \A m \in Managers : cache'[m] \in {cache[m], None}
    BY <1>0, <1>3 DEF Next, TaskStep, vars, managerVars, FallsDue, Reschedule, CacheExpires,
                      Restart, TypeOK
  <2>3. Idle.at # "cache"
    BY DEF Idle
  <2>4. ASSUME NEW u \in Tasks, Making(u)', task'[u].at = "cache"
        PROVE  task'[u].stored
    <3>1. task'[u] = task[u]
      BY <2>1, <2>3, <2>4
    <3> QED BY <1>0, <2>4, <3>1 DEF Making
  <2> QED BY <1>0, <2>2, <2>4
<1> QED BY <1>2, <1>3

\* Whatever calls are refused, fail or are not answered, and whichever clones
\* share a cache, a manager's cache holds only material that was stored
\* (generate_key and rotate_key_guarded cache after the insertion succeeded).
THEOREM CachesAreStored == Spec => []CachedWasStored
<1>1. Init => CachedInv
  BY TypeInit DEF Init, CachedInv, CachedWasStored, Making, Idle
<1>2. CachedInv => CachedWasStored
  BY DEF CachedInv
<1> QED BY <1>1, <1>2, CachedKept, PTL DEF Spec
=============================================================================
