---------------------------- MODULE SqliteStore ----------------------------
(***************************************************************************)
(* The store of a client on a database file (extensions/sqlite/src:        *)
(* lib.rs, kv.rs, identity.rs, migrations.rs).  Several stores may be open *)
(* on one file: two processes of one user, or a restart that overlaps the  *)
(* last run.  kv and conversations are tables, sets of rows under a        *)
(* primary key; the statements are the SQL of the source.                  *)
(***************************************************************************)
EXTENDS SqliteFile

CONSTANTS
  Stores,         \* connections held by a SqliteStore
  Namespaces, Instances, Keys, Values, Convos, Kinds, Installations,
  Absent,         \* no record
  NumMigrations,  \* length of get_migrations
  MaxStoreWrites  \* bound: a store writes only among that many first statements

VARIABLES
  at,       \* the migration each store is opening at; 0 is closed
  pending   \* the store's check found that migration not applied

store == <<at, pending>>

Open(c) == at[c] = NumMigrations + 1
Scopes == Namespaces \X Instances

StoreInit ==
  /\ at = [c \in Stores |-> 0]
  /\ pending = [c \in Stores |-> FALSE]

----------------------------------------------------------------------------
\* SqliteStore::new.
OpenStore(c) ==
  /\ c \in users /\ at[c] = 0
  /\ at' = [at EXCEPT ![c] = 1]
  /\ UNCHANGED <<file, pending>>

\* apply_migrations looks a migration up outside the transaction that would
\* apply it.
CheckMigration(c) ==
  /\ at[c] \in 1 .. NumMigrations /\ ~pending[c]
  /\ IF at[c] \in Range(Current.schema)
     THEN at' = [at EXCEPT ![c] = @ + 1] /\ UNCHANGED pending
     ELSE pending' = [pending EXCEPT ![c] = TRUE] /\ UNCHANGED at
  /\ UNCHANGED file

\* Mutant: the migration's name is not unique in _migrations.
ApplyUnguarded(c) ==
  /\ pending[c] /\ writer = Nobody
  /\ Land([Current EXCEPT !.schema = Append(@, at[c])])
  /\ work' = Current' /\ UNCHANGED <<writer, writes, users>>
  /\ at' = [at EXCEPT ![c] = @ + 1]
  /\ pending' = [pending EXCEPT ![c] = FALSE]

\* The transaction: the script, then the name, which is the primary key.  The
\* second of two racing stores is refused, at the script or at the name.
ApplyMigration(c) ==
  /\ pending[c] /\ writer = Nobody
  /\ IF at[c] \in Range(Current.schema)
     THEN at' = [at EXCEPT ![c] = 0] /\ UNCHANGED file
     ELSE /\ Land([Current EXCEPT !.schema = Append(@, at[c])])
          /\ work' = Current' /\ UNCHANGED <<writer, writes, users>>
          /\ at' = [at EXCEPT ![c] = @ + 1]
  /\ pending' = [pending EXCEPT ![c] = FALSE]

\* Somebody else holds the lock past the busy timeout: new returns an error.
OpenBusy(c) ==
  /\ pending[c] /\ writer # Nobody
  /\ at' = [at EXCEPT ![c] = 0]
  /\ pending' = [pending EXCEPT ![c] = FALSE]
  /\ UNCHANGED file

\* The store is dropped, or its process ends, at any moment.
CloseStore(c) ==
  /\ at[c] # 0
  /\ at' = [at EXCEPT ![c] = 0]
  /\ pending' = [pending EXCEPT ![c] = FALSE]
  /\ Abandon(c)

----------------------------------------------------------------------------
\* The kv table.
Row(s, k, v) == [scope |-> s, key |-> k, value |-> v]

\* substr(key, 1, n): the first n bytes, NULL for an empty key.
Substr(key, n) ==
  IF key = <<>> THEN Absent ELSE SubSeq(key, 1, IF n < Len(key) THEN n ELSE Len(key))

\* Mutant: the empty prefix is compared like any other.
KeyUnderPrefixPlain(key, prefix) == Substr(key, Len(prefix)) = prefix

KeyUnderPrefix(key, prefix) == Len(prefix) = 0 \/ Substr(key, Len(prefix)) = prefix

\* INSERT OR REPLACE
Put(rows, s, k, v) ==
  {r \in rows : ~(r.scope = s /\ r.key = k)} \cup {Row(s, k, v)}
DeleteKey(rows, s, k) == {r \in rows : ~(r.scope = s /\ r.key = k)}
DeletePrefix(rows, s, p) == {r \in rows : ~(r.scope = s /\ KeyUnderPrefix(r.key, p))}
DeleteScope(rows, s) == {r \in rows : r.scope # s}
DeleteNamespace(rows, ns) == {r \in rows : r.scope[1] # ns}

SqlGet(rows, s, k) ==
  LET found == {r \in rows : r.scope = s /\ r.key = k}
  IN  IF found = {} THEN Absent ELSE (CHOOSE r \in found : TRUE).value
SqlScan(rows, s, p) ==
  {<<r.key, r.value>> : r \in {r \in rows : r.scope = s /\ KeyUnderPrefix(r.key, p)}}

\* load_conversation, load_conversations, has_conversation and
\* load_installation.
LoadConversation(image, id) ==
  LET found == {r \in image.convos : r[1] = id}
  IN  IF found = {} THEN Absent ELSE (CHOOSE r \in found : TRUE)[2]
LoadConversations(image) == {<<r[1], r[2]>> : r \in image.convos}
HasConversation(image, id) == \E r \in image.convos : r[1] = id
LoadInstallation(image) ==
  IF image.installation = {} THEN Absent ELSE CHOOSE i \in image.installation : TRUE

\* KvStore::begin, the verbs of the transaction, commit and Drop.
BeginKv(c) == Open(c) /\ Begin(c) /\ UNCHANGED store
CommitKv(c) == Commit(c) /\ UNCHANGED store
DropKv(c) == Rollback(c) /\ UNCHANGED store

\* One statement of the transaction, which leaves rows in the table.
Verb(c, rows) ==
  /\ writer = c /\ writes < MaxStoreWrites
  /\ Execute(c, [work EXCEPT !.kv = rows])
  /\ UNCHANGED store

KvVerb(c) ==
  \/ \E s \in Scopes, k \in Keys :
       \/ \E v \in Values : Verb(c, Put(work.kv, s, k, v))
       \/ Verb(c, DeleteKey(work.kv, s, k))
       \/ Verb(c, DeletePrefix(work.kv, s, k))
  \/ \E s \in Scopes : Verb(c, DeleteScope(work.kv, s))
  \/ \E ns \in Namespaces : Verb(c, DeleteNamespace(work.kv, ns))

----------------------------------------------------------------------------
\* The typed records, each statement by itself: the borrow of begin keeps
\* them out of a transaction of their own store.
Alone(c, image) ==
  /\ Open(c) /\ writer # c /\ writes < MaxStoreWrites
  /\ Execute(c, image)
  /\ UNCHANGED store

\* INSERT OR REPLACE under local_convo_id
SaveConversation(c, id, kind) ==
  Alone(c, [Current EXCEPT !.convos = {r \in @ : r[1] # id} \cup {<<id, kind>>}])

RemoveConversation(c, id) ==
  Alone(c, [Current EXCEPT !.convos = {r \in @ : r[1] # id}])

\* Mutant: INSERT OR REPLACE
SaveInstallationOver(c, i) ==
  Alone(c, [Current EXCEPT !.installation = {i}])

\* INSERT with id 1; a constraint violation is InvalidData.
SaveInstallation(c, i) ==
  /\ Current.installation = {}
  /\ Alone(c, [Current EXCEPT !.installation = {i}])

StoreNext ==
  \E c \in Stores :
    \/ OpenStore(c) \/ CheckMigration(c) \/ ApplyMigration(c) \/ OpenBusy(c) \/ CloseStore(c)
    \/ BeginKv(c) \/ KvVerb(c) \/ CommitKv(c) \/ DropKv(c)
    \/ \E id \in Convos : RemoveConversation(c, id) \/ \E kind \in Kinds : SaveConversation(c, id, kind)
    \/ \E i \in Installations : SaveInstallation(c, i)
============================================================================
