----------------------------- MODULE KeyRotation -----------------------------
(***************************************************************************)
(* The versions of one encryption key and the master keys that wrap them   *)
(* (src/encryption/key_manager.rs, src/encryption/envelope.rs).            *)
(*                                                                         *)
(* Several processes share the database; each has a key manager with its   *)
(* own copy of the master key and its own cache of the key.  The clones of *)
(* a manager share both, so that several tasks work on one manager: the    *)
(* rotation service is one such task, the application's are others.        *)
(* Ciphers are external: a row remembers which master key wrapped its      *)
(* material and which one it names, and is readable when the two are the   *)
(* same.                                                                   *)
(***************************************************************************)
EXTENDS Naturals, Sequences, FiniteSets, FiniteSetsExt

CONSTANTS
  Managers,
  Tasks,         \* tasks that call a manager, one call at a time each
  Owner,         \* the manager of each task
  Keep,          \* max_key_versions; 0 keeps all
  MaxVersions,   \* bound: versions of the key
  MaxMasters,    \* bound: master keys
  MaxDues,       \* bound: times a rotation falls due
  MaxCalls,      \* bound: calls of the key managers
  MaxFaults,     \* bound: failed calls and restarts
  None

\* A row of hammerwork_encryption_keys: the version's status, whether its
\* rotation is due, the master key that wrapped it and the one it names.
Rows == [status : {"Active", "Retired"}, due : BOOLEAN, key : Nat, master : Nat]

\* A cached version; stored tells whether its material ever was in a row.
Cached == [version : Nat, stored : BOOLEAN]

ASSUME KeyRotationAssumptions ==
  /\ Owner \in [Tasks -> Managers]
  /\ None \notin Rows \union Cached
  /\ Keep \in Nat /\ MaxVersions \in Nat \ {0} /\ MaxMasters \in Nat \ {0}
  /\ MaxDues \in Nat /\ MaxCalls \in Nat /\ MaxFaults \in Nat

VARIABLES
  rows,     \* hammerwork_encryption_keys: the versions of the key
  masters,  \* master keys in the database, in the order they were made: "root" or "kek"
  root,     \* by manager: root_key
  wrapKey,  \* by manager: master_key, the material
  wrapId,   \* by manager: master_key_id
  cache,    \* by manager: what its cache holds of the key, or None
  task,     \* by task: the call it is in
  dues,     \* times a rotation fell due
  autos,    \* automatic rotations that made the newest version
  calls, faults,
  mixed,    \* ghost: managers whose master key calls used and changed at once
  exposed   \* ghost: the versions stored by such a manager

managerVars == <<root, wrapKey, wrapId, cache>>
countVars == <<dues, autos, calls, faults>>
ghosts == <<mixed, exposed>>
vars == <<rows, masters, managerVars, task, countVars, ghosts>>

-----------------------------------------------------------------------------
Versions == 1..MaxVersions
Stored == {v \in Versions : rows[v] # None}
Latest == IF Stored = {} THEN 0 ELSE Max(Stored)
Active == {v \in Stored : rows[v].status = "Active"}

Row(key, id) == [status |-> "Active", due |-> FALSE, key |-> key, master |-> id]
Idle == [op |-> "idle", at |-> "end", version |-> 0, id |-> 0, key |-> 0, stored |-> FALSE]
Doing(t, op, at) == task[t].op = op /\ task[t].at = at
Owned(t, f) == f[Owner[t]]

\* What load_master_key finds: the newest root key, and the newest
\* key-encryption key if there is one.
NewestOf(kind) ==
  LET S == {i \in DOMAIN masters : masters[i] = kind} IN IF S = {} THEN 0 ELSE Max(S)
LoadedRoot == NewestOf("root")
LoadedMaster == IF NewestOf("kek") = 0 THEN LoadedRoot ELSE NewestOf("kek")

\* The call of t is now r, or over.
GoesOn(t, r) == task' = [task EXCEPT ![t] = r]
Finish(t) == GoesOn(t, Idle)

\* cache_key
CacheKey(t, version, stored) ==
  cache' = [cache EXCEPT ![Owner[t]] = [version |-> version, stored |-> stored]]

Call(t, op, at) ==
  /\ task[t] = Idle
  /\ calls < MaxCalls /\ calls' = calls + 1
  /\ GoesOn(t, [Idle EXCEPT !.op = op, !.at = at])
  /\ UNCHANGED <<rows, masters, managerVars, dues, autos, faults, ghosts>>

-----------------------------------------------------------------------------
(* Creating and rotating the key.                                          *)

\* generate_key makes version 1; rotate_key starts from the newest one, and so
\* does an automatic rotation once it has found the key among those due.
GenerateKey(t) == Call(t, "generate", "id")
RotateKey(t) == Call(t, "rotate", "load")
AutoRotate(t) == (\E v \in Active : rows[v].due) /\ Call(t, "auto", "load")

Making(t) == task[t].op \in {"generate", "rotate", "auto"}

\* load_key; there may be none.
LoadVersion(t) ==
  /\ Making(t) /\ task[t].at = "load"
  /\ GoesOn(t, IF Latest = 0 THEN Idle ELSE [task[t] EXCEPT !.at = "id", !.version = Latest])
  /\ UNCHANGED <<rows, masters, managerVars, countVars, ghosts>>

\* Another call on the same manager is between the locks of the master key and
\* of its id, and one of the two calls changes them.
Mixes(t) ==
  \E u \in Tasks \ {t} :
    /\ Owner[u] = Owner[t]
    /\ \/ Doing(u, "master", "setId")
       \/ Making(u) /\ task[u].at = "key" /\ ~Making(t)

NoteMix(t) == mixed' = IF Mixes(t) THEN mixed \union {Owner[t]} ELSE mixed

\* current_master_key reads the id and the key under two locks.
ReadMasterId(t) ==
  /\ Making(t) /\ task[t].at = "id"
  /\ GoesOn(t, [task[t] EXCEPT !.at = "key", !.id = Owned(t, wrapId)])
  /\ NoteMix(t)
  /\ UNCHANGED <<rows, masters, managerVars, countVars, exposed>>

ReadMasterKey(t) ==
  /\ Making(t) /\ task[t].at = "key"
  /\ GoesOn(t, [task[t] EXCEPT !.at = IF task[t].op = "auto" THEN "check" ELSE "store",
                               !.key = Owned(t, wrapKey)])
  /\ NoteMix(t)
  /\ UNCHANGED <<rows, masters, managerVars, countVars, exposed>>

\* Mutant: an automatic rotation does not check again.
CheckNothing(t) ==
  /\ Doing(t, "auto", "check")
  /\ GoesOn(t, [task[t] EXCEPT !.at = "store"])
  /\ UNCHANGED <<rows, masters, managerVars, countVars, ghosts>>

\* rotate_key_if_current: an automatic rotation counts the version it loaded if
\* that still is active and due.  The count locks nothing.
CheckDue(t) ==
  /\ Doing(t, "auto", "check")
  /\ LET v == task[t].version IN
       GoesOn(t, IF v \in Active /\ rows[v].due THEN [task[t] EXCEPT !.at = "store"] ELSE Idle)
  /\ UNCHANGED <<rows, masters, managerVars, countVars, ghosts>>

\* Mutant: the previous version is not retired.
StoredRowsBothActive(t) ==
  LET v == task[t].version IN
  [w \in Versions |-> IF w = v + 1 THEN Row(task[t].key, task[t].id) ELSE rows[w]]

\* The new version, and the previous one retired, if it still is there.
StoredRows(t) ==
  LET v == task[t].version IN
  [w \in Versions |->
     IF w = v + 1 THEN Row(task[t].key, task[t].id)
     ELSE IF w = v /\ w \in Active THEN [rows[w] EXCEPT !.status = "Retired"] ELSE rows[w]]

\* The transaction that inserts the version commits.  All that stands in its
\* way is the unique index on versions.
Commit(t) ==
  /\ Making(t) /\ task[t].at = "store"
  /\ task[t].version < MaxVersions /\ rows[task[t].version + 1] = None
  /\ rows' = StoredRows(t)
  /\ autos' = IF task[t].op = "auto" /\ task[t].version = Latest THEN autos + 1 ELSE autos
  /\ exposed' = IF Owner[t] \in mixed THEN exposed \union {task[t].version + 1}
                ELSE exposed \ {task[t].version + 1}
  /\ UNCHANGED <<masters, managerVars, dues, calls, mixed>>

StoreVersion(t) ==
  /\ Commit(t)
  /\ GoesOn(t, [task[t] EXCEPT !.at = "cache", !.id = 0, !.key = 0, !.stored = TRUE])
  /\ UNCHANGED faults

\* The answer is lost: the call fails.
StoreUnanswered(t) ==
  /\ faults < MaxFaults /\ faults' = faults + 1
  /\ Commit(t)
  /\ Finish(t)

\* The version exists (or is one too many for the bound).
Refused(t) ==
  /\ Making(t) /\ task[t].at = "store"
  /\ task[t].version < MaxVersions => rows[task[t].version + 1] # None

\* Mutant: a refused version counts as stored.
RefuseNothing(t) ==
  /\ Refused(t)
  /\ GoesOn(t, [task[t] EXCEPT !.at = "cache", !.id = 0, !.key = 0])
  /\ UNCHANGED <<rows, masters, managerVars, countVars, ghosts>>

RefuseVersion(t) ==
  /\ Refused(t)
  /\ Finish(t)
  /\ UNCHANGED <<rows, masters, managerVars, countVars, ghosts>>

CacheVersion(t) ==
  /\ Making(t) /\ task[t].at = "cache"
  /\ CacheKey(t, task[t].version + 1, task[t].stored)
  /\ GoesOn(t, IF task[t].op = "generate" THEN Idle ELSE [task[t] EXCEPT !.at = "cleanup"])
  /\ UNCHANGED <<rows, masters, root, wrapKey, wrapId, countVars, ghosts>>

\* cleanup_old_key_versions; the call returns.
CleanUp(t) ==
  /\ Making(t) /\ task[t].at = "cleanup"
  /\ rows' = [v \in Versions |-> IF Keep > 0 /\ v + Keep <= Latest THEN None ELSE rows[v]]
  /\ Finish(t)
  /\ UNCHANGED <<masters, managerVars, countVars, ghosts>>

-----------------------------------------------------------------------------
(* Reading the key.                                                        *)

\* get_key without a cached version
GetKey(t) == Owned(t, cache) = None /\ Call(t, "get", "load")

LoadRow(t) ==
  /\ Doing(t, "get", "load")
  /\ GoesOn(t, IF Latest = 0 THEN Idle
               ELSE [task[t] EXCEPT !.at = "unwrap", !.version = Latest,
                                    !.id = rows[Latest].master, !.key = rows[Latest].key])
  /\ UNCHANGED <<rows, masters, managerVars, countVars, ghosts>>

\* unwrap_key_material: the row is opened with the master key it names, from the
\* manager or from the database (no master key is ever deleted), or with what
\* the manager holds while its master key changes.  What opens is cached.
UnwrapRow(t) ==
  /\ Doing(t, "get", "unwrap")
  /\ \E k \in {task[t].id, Owned(t, wrapKey)} :
       IF k = task[t].key THEN CacheKey(t, task[t].version, TRUE) ELSE UNCHANGED cache
  /\ Finish(t)
  /\ UNCHANGED <<rows, masters, root, wrapKey, wrapId, countVars, ghosts>>

\* A cached version is used for an hour.
CacheExpires(m) ==
  /\ cache[m] # None
  /\ cache' = [cache EXCEPT ![m] = None]
  /\ UNCHANGED <<rows, masters, root, wrapKey, wrapId, task, countVars, ghosts>>

-----------------------------------------------------------------------------
(* Master keys.                                                            *)

\* generate_master_key makes a key-encryption key under the root key,
\* rotate_kms_master_key a new root key in the place of the one it finds.
GenerateMasterKey(t) == Call(t, "master", "kek")

RotateRootKey(t) ==
  /\ task[t] = Idle
  /\ calls < MaxCalls /\ calls' = calls + 1
  /\ GoesOn(t, [Idle EXCEPT !.op = "master", !.at = "newRoot", !.id = Owned(t, root)])
  /\ UNCHANGED <<rows, masters, managerVars, dues, autos, faults, ghosts>>

\* insert_master_key, and envelope::rotate
InsertMaster(t, kind) ==
  /\ Len(masters) < MaxMasters
  /\ masters' = Append(masters, kind)
  /\ UNCHANGED <<rows, managerVars, dues, autos, calls, ghosts>>

InsertKek(t) ==
  /\ Doing(t, "master", "kek")
  /\ InsertMaster(t, "kek")
  /\ GoesOn(t, [task[t] EXCEPT !.at = "setKey", !.key = Len(masters')])
  /\ UNCHANGED faults

InsertRoot(t) ==
  /\ Doing(t, "master", "newRoot")
  /\ InsertMaster(t, "root")
  /\ GoesOn(t, [task[t] EXCEPT !.at = "setRoot", !.key = Len(masters')])
  /\ UNCHANGED faults

\* The answer to the insertion is lost.
InsertUnanswered(t) ==
  /\ faults < MaxFaults /\ faults' = faults + 1
  /\ \/ Doing(t, "master", "kek") /\ InsertMaster(t, "kek")
     \/ Doing(t, "master", "newRoot") /\ InsertMaster(t, "root")
  /\ Finish(t)

\* The new root key also wraps new keys if the old one did.
SetRootKey(t) ==
  /\ Doing(t, "master", "setRoot")
  /\ root' = [root EXCEPT ![Owner[t]] = task[t].key]
  /\ GoesOn(t, IF Owned(t, wrapId) = task[t].id
                 THEN [task[t] EXCEPT !.at = "setKey", !.id = 0] ELSE Idle)
  /\ UNCHANGED <<rows, masters, wrapKey, wrapId, cache, countVars, ghosts>>

\* Mutant: the id of the new master key is not kept.
SetMasterKeyOnly(t) ==
  /\ Doing(t, "master", "setKey")
  /\ wrapKey' = [wrapKey EXCEPT ![Owner[t]] = task[t].key]
  /\ Finish(t)
  /\ NoteMix(t)
  /\ UNCHANGED <<rows, masters, root, wrapId, cache, countVars, exposed>>

\* The key and its id are set under two locks.
SetMasterKey(t) ==
  /\ Doing(t, "master", "setKey")
  /\ wrapKey' = [wrapKey EXCEPT ![Owner[t]] = task[t].key]
  /\ GoesOn(t, [task[t] EXCEPT !.at = "setId"])
  /\ NoteMix(t)
  /\ UNCHANGED <<rows, masters, root, wrapId, cache, countVars, exposed>>

SetMasterId(t) ==
  /\ Doing(t, "master", "setId")
  /\ wrapId' = [wrapId EXCEPT ![Owner[t]] = task[t].key]
  /\ Finish(t)
  /\ NoteMix(t)
  /\ UNCHANGED <<rows, masters, root, wrapKey, cache, countVars, exposed>>

-----------------------------------------------------------------------------
(* Schedule, failures and restarts.                                        *)

\* The rotation time of an active version comes.
FallsDue ==
  /\ dues < MaxDues /\ dues' = dues + 1
  /\ \E v \in Active :
       /\ ~rows[v].due
       /\ rows' = [rows EXCEPT ![v].due = TRUE]
  /\ UNCHANGED <<masters, managerVars, task, autos, calls, faults, ghosts>>

\* update_key_rotation_schedule and schedule_key_rotation put it off.
Reschedule ==
  /\ \E v \in Active : rows[v].due
  /\ rows' = [v \in Versions |-> IF v \in Active THEN [rows[v] EXCEPT !.due = FALSE] ELSE rows[v]]
  /\ UNCHANGED <<masters, managerVars, task, countVars, ghosts>>

\* A call fails at the database, or at the key management service, with no
\* effect there.  (A failure to record the audit event comes after all else.)
CallFails(t) ==
  /\ faults < MaxFaults /\ faults' = faults + 1
  /\ task[t].at \in {"load", "unwrap", "check", "store", "cleanup", "kek", "newRoot"}
  /\ Finish(t)
  /\ UNCHANGED <<rows, masters, managerVars, dues, autos, calls, ghosts>>

\* The process ends at any point and starts again.
Restart(m) ==
  /\ faults < MaxFaults /\ faults' = faults + 1
  /\ root' = [root EXCEPT ![m] = LoadedRoot]
  /\ wrapKey' = [wrapKey EXCEPT ![m] = LoadedMaster]
  /\ wrapId' = [wrapId EXCEPT ![m] = LoadedMaster]
  /\ cache' = [cache EXCEPT ![m] = None]
  /\ task' = [t \in Tasks |-> IF Owner[t] = m THEN Idle ELSE task[t]]
  /\ mixed' = mixed \ {m}
  /\ UNCHANGED <<rows, masters, dues, autos, calls, exposed>>

Init ==
  /\ rows = [v \in Versions |-> None]
  /\ masters = <<"root">>
  /\ root = [m \in Managers |-> 1] /\ wrapKey = root /\ wrapId = root
  /\ cache = [m \in Managers |-> None]
  /\ task = [t \in Tasks |-> Idle]
  /\ dues = 0 /\ autos = 0 /\ calls = 0 /\ faults = 0
  /\ mixed = {} /\ exposed = {}

Begin(t) ==
  \/ GenerateKey(t) \/ RotateKey(t) \/ AutoRotate(t) \/ GetKey(t)
  \/ GenerateMasterKey(t) \/ RotateRootKey(t)

KeyStep(t) ==
  \/ LoadVersion(t) \/ ReadMasterId(t) \/ ReadMasterKey(t) \/ CheckDue(t)
  \/ StoreVersion(t) \/ StoreUnanswered(t) \/ RefuseVersion(t)
  \/ CacheVersion(t) \/ CleanUp(t) \/ LoadRow(t) \/ UnwrapRow(t)

MasterStep(t) ==
  \/ InsertKek(t) \/ InsertRoot(t) \/ InsertUnanswered(t)
  \/ SetRootKey(t) \/ SetMasterKey(t) \/ SetMasterId(t)

Next ==
  \/ \E t \in Tasks : Begin(t) \/ KeyStep(t) \/ MasterStep(t) \/ CallFails(t)
  \/ \E m \in Managers : CacheExpires(m) \/ Restart(m)
  \/ FallsDue \/ Reschedule

Spec == Init /\ [][Next]_vars

-----------------------------------------------------------------------------
(* Properties.                                                             *)

\* Whatever master keys are made, by whichever process and task, every stored
\* version names a master key of the database, and that key opens it.  Excepted
\* from the latter are versions stored by a manager whose clones have used and
\* changed its master key at once since it started: the two locks
\* (current_master_key, generate_master_key, rotate_kms_master_key) keep key and
\* id together for one task only.
EveryKeyIsReadable ==
  \A v \in Stored :
    /\ {rows[v].key, rows[v].master} \subseteq DOMAIN masters
    /\ v \in exposed \/ rows[v].key = rows[v].master

\* The same without the exception.
NoKeyExposed == \A v \in Stored : rows[v].key = rows[v].master

\* However many processes and tasks create and rotate the key at once, its
\* newest version is active and no other among those that are to be kept
\* (rotate_key: "so the key never has two active versions").  A call that
\* was overtaken can leave another one behind, but only where clean-up has
\* removed a version and the next one will.
OneActiveVersion ==
  Stored # {} =>
    /\ Latest \in Active
    /\ \A v \in Active \ {Latest} : Keep > 0 /\ v + Keep <= Latest

\* What the documentation says.
NeverTwoActive == Cardinality(Active) <= 1

\* However many processes notice that a rotation is due, it gives the key one
\* newest version (perform_automatic_rotation).
DueOnce == autos <= dues

\* No manager encrypts with material that no row has ever held, whichever of
\* its calls were refused, failed or were not answered (rotate_key_guarded,
\* generate_key).
CachedWasStored == \A m \in Managers : cache[m] # None => cache[m].stored
=============================================================================
