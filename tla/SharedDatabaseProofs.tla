------------------------ MODULE SharedDatabaseProofs ------------------------
(***************************************************************************)
(* Proofs about SharedDatabase, for any connections, keys, records, chats  *)
(* and bounds.  The inductive invariant Shared has four parts: History     *)
(* (what the committed images are, each and in their order), Transaction   *)
(* (what the open one has made of the current image), Opening (how far the *)
(* schemas are) and Reading (how far a reader has paged back).             *)
(***************************************************************************)
EXTENDS SharedDatabase, TLAPS, FiniteSetTheorems

\* Most leaves are first-order reasoning; the others are arithmetic.
USE ZenonT(2), SMT

----------------------------------------------------------------------------
(* What an image holds.                                                    *)

KvRow == [scope : Scopes, key : Keys, value : Values]
Message == [seq : Nat, chat : Chats, id : Nat]
Image ==
  [kv : SUBSET KvRow, convos : SUBSET (Convos \X Kinds),
   installation : SUBSET Installations, schema : Seq(Nat), tables : {0, 1},
   messages : SUBSET Message, sequence : Nat]

\* The primary keys of the tables.
KvKeyed(rows) ==
  \A r, q \in rows : r.scope = q.scope /\ r.key = q.key => r = q
ConvosKeyed(convos) == \A r, q \in convos : r[1] = q[1] => r = q
OneInstallation(installation) == \A i, j \in installation : i = j

\* The first migrations of the list, in order.
Scripts(schema) ==
  /\ Len(schema) <= NumMigrations
  /\ schema = [n \in 1 .. Len(schema) |-> n]

\* The messages have seqs of their own, none above the last one given out.
Numbered(ms, sequence) ==
  /\ IsFiniteSet(ms)
  /\ \A m \in ms : m.seq <= sequence
  /\ \A m, n \in ms : m.seq = n.seq => m = n

Good(image) ==
  /\ image \in Image
  /\ KvKeyed(image.kv) /\ ConvosKeyed(image.convos)
  /\ OneInstallation(image.installation)
  /\ Scripts(image.schema)
  /\ Numbered(image.messages, image.sequence)

----------------------------------------------------------------------------
(* The inductive invariant.                                                *)

\* The committed images: the last seq given out never decreases along them,
\* and what they hold was recorded.
Versions(l) ==
  /\ l \in Seq(Image) /\ Len(l) >= 1
  /\ \A i \in 1 .. Len(l) : Good(l[i])
  /\ \A i, j \in 1 .. Len(l) : i <= j => l[i].sequence <= l[j].sequence

History ==
  /\ Versions(log)
  /\ \A i \in 1 .. Len(log) : log[i].messages \subseteq recorded
  /\ recorded \subseteq Message
  /\ \A m \in recorded : m.seq <= Current.sequence
  /\ SeqNamesOneMessage

\* The open transaction has changed only the tables of its own schema; a
\* message it added has a seq that no recorded one has.
Transaction ==
  /\ writer \in Stores \cup Apps \cup {Nobody}
  /\ writer # Nobody => Good(work)
  /\ writer \in Stores => work = [Current EXCEPT !.kv = work.kv]
  /\ writer \in Apps =>
       /\ work = [Current EXCEPT !.messages = work.messages, !.sequence = work.sequence]
       /\ work.sequence >= Current.sequence
       /\ \A m \in work.messages : m \in recorded \/ m.seq > Current.sequence
  /\ writes \in 0 .. MaxWrites
  /\ Current.sequence <= writes
  /\ writer \in Apps => work.sequence <= writes

\* A store past a migration finds it in the file.
Opening ==
  /\ at \in [Stores -> 0 .. NumMigrations + 1]
  /\ pending \in [Stores -> BOOLEAN]
  /\ \A c \in Stores :
       /\ pending[c] => at[c] \in 1 .. NumMigrations
       /\ at[c] <= Len(Current.schema) + 1
  /\ migrated \subseteq Apps
  /\ \A c \in migrated : Current.tables = 1

Walks ==
  [conn : Apps, chat : Chats, before : Nat, done : BOOLEAN,
   read : SUBSET Message, again : BOOLEAN, from : SUBSET Message]

\* What the reader has met is at or above the seq it reads on from; what it
\* has to meet and has not is below.
Reading ==
  walk # NoWalk =>
    /\ walk \in Walks
    /\ ~walk.again
    /\ \A m \in walk.read : m.seq >= walk.before
    /\ \A m \in walk.from : m.chat = walk.chat /\ (m \in walk.read \/ m.seq < walk.before)
    /\ walk.done => walk.from \subseteq walk.read

Shared == History /\ Transaction /\ Opening /\ Reading

----------------------------------------------------------------------------
(* Images and versions.                                                    *)

\* A statement on one table leaves the fields of the others alone, and the
\* image is as good as the table it makes.
LEMMA GoodKv ==
  ASSUME NEW im, Good(im), NEW rows \in SUBSET KvRow, KvKeyed(rows)
  PROVE  Good([im EXCEPT !.kv = rows])
BY DEF Good, Image

\* The conversations are replaced by rows with one kind each.
LEMMA GoodConvos ==
  ASSUME NEW im, Good(im), NEW rows \in SUBSET (Convos \X Kinds), ConvosKeyed(rows)
  PROVE  Good([im EXCEPT !.convos = rows])
BY DEF Good, Image

\* The installation row is written.
LEMMA GoodInstallation ==
  ASSUME NEW im, Good(im), NEW i \in Installations
  PROVE  Good([im EXCEPT !.installation = {i}])
BY DEF Good, Image, OneInstallation

\* The message store's table is created.
LEMMA GoodTables ==
  ASSUME NEW im, Good(im)
  PROVE  Good([im EXCEPT !.tables = 1])
BY DEF Good, Image

\* ApplyMigration runs the migration that follows those of the file.
LEMMA GoodSchema ==
  ASSUME NEW im, Good(im), NumMigrations \in Nat,
         NEW n \in 1 .. NumMigrations, n <= Len(im.schema) + 1, n \notin Range(im.schema)
  PROVE  /\ n = Len(im.schema) + 1
         /\ Good([im EXCEPT !.schema = Append(@, n)])
<1> DEFINE s == im.schema
<1>1. s \in Seq(Nat) /\ Len(s) <= NumMigrations /\ \A k \in 1 .. Len(s) : s[k] = k
  BY DEF Good, Image, Scripts
<1>2. n = Len(s) + 1
  BY <1>1, SMTT(10) DEF Range
<1>3. Append(s, n) \in Seq(Nat) /\ Len(Append(s, n)) = n
  BY <1>1, <1>2, SMT
<1>4. \A k \in 1 .. n : Append(s, n)[k] = k
  BY <1>1, <1>2, SMT
<1>5. Append(s, n) = [k \in 1 .. n |-> k]
  BY <1>3, <1>4, SMT
<1>6. Scripts(Append(s, n))
  BY <1>3, <1>5, SMT DEF Scripts
<1> QED
  BY <1>2, <1>3, <1>6 DEF Good, Image

\* The messages change, with seqs up to the new sqlite_sequence.
LEMMA GoodMessages ==
  ASSUME NEW im, Good(im), NEW ms \in SUBSET Message, NEW n \in Nat, Numbered(ms, n)
  PROVE  Good([im EXCEPT !.messages = ms, !.sequence = n])
BY DEF Good, Image

\* What Append adds, and what it leaves.
LEMMA AppendFacts ==
  ASSUME NEW S, NEW t \in Seq(S), NEW x \in S
  PROVE  /\ Append(t, x) \in Seq(S) /\ Len(Append(t, x)) = Len(t) + 1
         /\ Append(t, x)[Len(t) + 1] = x
         /\ \A i \in 1 .. Len(t) : Append(t, x)[i] = t[i]
BY SMT

\* What is committed last.
LEMMA CurrentGood ==
  ASSUME Versions(log)
  PROVE  /\ Good(Current) /\ Current \in Image
         /\ Current = log[Len(log)] /\ Len(log) \in 1 .. Len(log)
BY SMT DEF Versions, Current, Good

\* A commit appends the image, and may settle the oldest version.
LEMMA LandShape ==
  ASSUME Versions(log), NEW image, Good(image), Land(image)
  PROVE  \E d \in {0, 1} :
           /\ d < Len(log) /\ log' \in Seq(Image) /\ Len(log') = Len(log) + 1 - d
           /\ log'[Len(log')] = image
           /\ \A i \in 1 .. Len(log) - d : log'[i] = log[i + d]
<1> image \in Image /\ log \in Seq(Image) /\ Len(log) >= 1
  BY DEF Good, Versions
<1>1. CASE Len(log) = MaxUnsynced
  <2>1. log' = Append(Tail(log), image) /\ 1 < Len(log)
    BY <1>1, DatabaseAssumption, SMT DEF Land
  <2>2. /\ log' \in Seq(Image) /\ Len(log') = Len(log)
        /\ log'[Len(log')] = image
        /\ \A i \in 1 .. Len(log) - 1 : log'[i] = log[i + 1]
    <3>1. /\ Tail(log) \in Seq(Image) /\ Len(Tail(log)) = Len(log) - 1
          /\ \A i \in 1 .. Len(log) - 1 : Tail(log)[i] = log[i + 1]
      BY <2>1, SMT
    <3> HIDE DEF Image
    <3> QED
      BY <2>1, <3>1, AppendFacts, SMT
  <2>3. Len(log) \in Nat /\ Len(log) = Len(log) + 1 - 1
    BY SMT
  <2> QED
    BY <2>1, <2>2, <2>3
<1>2. CASE Len(log) # MaxUnsynced
  <2>1. log' = Append(log, image)
    BY <1>2 DEF Land
  <2>2. /\ log' \in Seq(Image) /\ Len(log') = Len(log) + 1
        /\ log'[Len(log')] = image
        /\ \A i \in 1 .. Len(log) : log'[i] = log[i]
    BY <2>1, SMT
  <2> QED
    BY <2>2, SMT
<1> QED
  BY <1>1, <1>2

\* A commit makes the image current, behind versions that were there before
\* and in their order.
LEMMA Landed ==
  ASSUME Versions(log), NEW image, Good(image),
         image.sequence >= Current.sequence, Land(image)
  PROVE  /\ Versions(log') /\ Current' = image
         /\ \A i \in 1 .. Len(log') : log'[i] = image \/ \E j \in 1 .. Len(log) : log'[i] = log[j]
<1>1. PICK d \in {0, 1} :
        /\ d < Len(log) /\ log' \in Seq(Image) /\ Len(log') = Len(log) + 1 - d
        /\ log'[Len(log')] = image
        /\ \A i \in 1 .. Len(log) - d : log'[i] = log[i + d]
  BY LandShape
<1>2. Len(log) \in Nat /\ Len(log') \in Nat /\ Len(log') >= 1
  BY <1>1, SMT DEF Versions
<1>3. Current' = image
  BY <1>1 DEF Current
<1>4. ASSUME NEW i \in 1 .. Len(log')
      PROVE  /\ i = Len(log') => log'[i] = image
             /\ i # Len(log') => i + d \in 1 .. Len(log) /\ log'[i] = log[i + d]
  <2>1. CASE i = Len(log')
    BY <2>1, <1>1
  <2>2. CASE i # Len(log')
    <3>1. i \in 1 .. Len(log) - d /\ i + d \in 1 .. Len(log)
      BY <2>2, <1>1, <1>2, SMT
    <3> QED
      BY <3>1, <1>1
  <2> QED
    BY <2>1, <2>2
<1>5. \A i \in 1 .. Len(log') : Good(log'[i])
  BY <1>4 DEF Versions
<1>6. ASSUME NEW i \in 1 .. Len(log'), NEW j \in 1 .. Len(log'), i <= j
      PROVE  log'[i].sequence <= log'[j].sequence
  <2>1. CASE j = Len(log')
    <3>1. CASE i = j
      BY <2>1, <3>1, <1>1, SMT DEF Good, Image
    <3>2. CASE i # j
      <4>1. i + d \in 1 .. Len(log) /\ log'[i] = log[i + d]
        BY <3>2, <2>1, <1>4
      <4>2. log[i + d].sequence <= Current.sequence
        BY <4>1, CurrentGood, SMT DEF Versions
      <4>3. log[i + d].sequence \in Nat /\ Current.sequence \in Nat /\ image.sequence \in Nat
        BY <4>1, CurrentGood DEF Versions, Good, Image
      <4>4. log[i + d].sequence <= image.sequence
        BY <4>2, <4>3, SMT
      <4>5. log'[j] = image
        BY <2>1, <1>1
      <4> QED
        BY <4>1, <4>4, <4>5
    <3> QED
      BY <3>1, <3>2
  <2>2. CASE j # Len(log')
    <3>1. /\ i + d \in 1 .. Len(log) /\ log'[i] = log[i + d]
          /\ j + d \in 1 .. Len(log) /\ log'[j] = log[j + d]
          /\ i + d <= j + d
      <4>1. i # Len(log') /\ i + d <= j + d
        BY <2>2, <1>6, <1>1, <1>2, SMT
      <4> QED
        BY <4>1, <2>2, <1>4
    <3> QED
      BY <3>1 DEF Versions
  <2> QED
    BY <2>1, <2>2
<1> QED
  BY <1>1, <1>2, <1>3, <1>4, <1>5, <1>6 DEF Versions

\* The statements keep the primary keys of their table.
LEMMA PutKeyed ==
  ASSUME NEW rows \in SUBSET KvRow, KvKeyed(rows),
         NEW s \in Scopes, NEW k \in Keys, NEW v \in Values
  PROVE  Put(rows, s, k, v) \in SUBSET KvRow /\ KvKeyed(Put(rows, s, k, v))
<1>1. Row(s, k, v) \in KvRow /\ Row(s, k, v).scope = s /\ Row(s, k, v).key = k
  BY DEF Row, KvRow
<1> QED
  BY <1>1 DEF Put, KvKeyed

\* A DELETE on the key-value table keeps its primary key.
LEMMA FewerKeyed ==
  ASSUME NEW rows \in SUBSET KvRow, KvKeyed(rows), NEW fewer \in SUBSET rows
  PROVE  fewer \in SUBSET KvRow /\ KvKeyed(fewer)
BY DEF KvKeyed

\* Deleting a conversation, and INSERT OR REPLACE, keep one row per conversation.
LEMMA ConvoKeyed ==
  ASSUME NEW rows \in SUBSET (Convos \X Kinds), ConvosKeyed(rows), NEW id \in Convos
  PROVE  /\ {r \in rows : r[1] # id} \in SUBSET (Convos \X Kinds)
         /\ ConvosKeyed({r \in rows : r[1] # id})
         /\ \A kind \in Kinds :
              /\ {r \in rows : r[1] # id} \cup {<<id, kind>>} \in SUBSET (Convos \X Kinds)
              /\ ConvosKeyed({r \in rows : r[1] # id} \cup {<<id, kind>>})
BY SMT DEF ConvosKeyed

\* Deleting messages, and recording one with the next seq.
LEMMA FewerNumbered ==
  ASSUME NEW ms, NEW n, Numbered(ms, n), NEW fewer \in SUBSET ms
  PROVE  Numbered(fewer, n)
BY FS_Subset DEF Numbered

\* A message with the next seq keeps the seqs distinct and below sqlite_sequence.
LEMMA NextNumbered ==
  ASSUME NEW ms \in SUBSET Message, NEW n \in Nat, Numbered(ms, n), NEW chat, NEW id
  PROVE  Numbered(ms \cup {[seq |-> n + 1, chat |-> chat, id |-> id]}, n + 1)
<1> DEFINE new == [seq |-> n + 1, chat |-> chat, id |-> id]
<1>1. IsFiniteSet(ms \cup {new})
  BY FS_AddElement DEF Numbered
<1>2. \A m \in ms : m.seq \in Nat /\ m.seq <= n /\ m.seq < n + 1
  BY SMT DEF Numbered, Message
<1>3. new.seq = n + 1
  OBVIOUS
<1>4. \A m \in ms \cup {new} : m.seq <= n + 1
  BY <1>2, <1>3, SMT
<1>5. \A m, p \in ms \cup {new} : m.seq = p.seq => m = p
  BY <1>2, <1>3, SMT DEF Numbered
<1> QED
  BY <1>1, <1>4, <1>5 DEF Numbered

----------------------------------------------------------------------------
(* The file: what each kind of step does to History and Transaction.       *)

File == History /\ Transaction

\* A commit that changes no message.
LEMMA QuietCommit ==
  ASSUME File, NEW image, Good(image), Land(image),
         image.messages = Current.messages, image.sequence = Current.sequence,
         writer' = Nobody, writes' \in writes .. MaxWrites, recorded' = recorded
  PROVE  File'
<1>1. Versions(log) /\ Current.sequence \in Nat /\ writes \in Nat /\ MaxWrites \in Nat
  BY CurrentGood, DatabaseAssumption, SMT DEF File, History, Transaction, Image
<1>2. /\ Versions(log') /\ Current' = image
      /\ \A i \in 1 .. Len(log') : log'[i] = image \/ \E j \in 1 .. Len(log) : log'[i] = log[j]
  BY <1>1, Landed, SMT
<1>3. Current.messages \subseteq recorded
  BY <1>1, CurrentGood DEF File, History
<1>4. History'
  BY <1>2, <1>3 DEF File, History, SeqNamesOneMessage
<1>5. Transaction'
  BY <1>1, <1>2, DatabaseAssumption, SMT DEF File, Transaction
<1> QED
  BY <1>4, <1>5 DEF File

\* BEGIN IMMEDIATE, a dropped transaction, and a statement that waits.
LEMMA BeginKept ==
  ASSUME File, NEW c \in Stores \cup Apps, Begin(c), recorded' = recorded
  PROVE  File'
<1>1. Versions(log) /\ Good(Current) /\ Current \in Image
  BY CurrentGood DEF File, History
<1>2. Current' = Current /\ log' = log /\ work' = Current /\ writer' = c /\ writes' = writes
  BY DEF Begin, Current
<1>3. History'
  BY <1>2 DEF File, History, SeqNamesOneMessage
<1>4. /\ Current = [Current EXCEPT !.kv = Current.kv]
      /\ Current = [Current EXCEPT !.messages = Current.messages, !.sequence = Current.sequence]
      /\ Current.sequence \in Nat
  BY <1>1 DEF Image
<1>5. Current.messages \subseteq recorded
  BY <1>1, CurrentGood DEF File, History
<1>6. Current.sequence >= Current.sequence
  BY <1>4, SMT
<1>7. Transaction'
  BY <1>1, <1>2, <1>4, <1>5, <1>6 DEF File, Transaction
<1> QED
  BY <1>3, <1>7 DEF File

\* Dropping a transaction leaves the versions as they were.
LEMMA RollbackKept ==
  ASSUME File, NEW c, Rollback(c), recorded' = recorded
  PROVE  File' /\ Current' = Current
<1>1. Current' = Current /\ log' = log /\ writer' = Nobody /\ writes' = writes
  BY DEF Rollback, Current
<1>2. History'
  BY <1>1 DEF File, History, SeqNamesOneMessage
<1>3. Transaction'
  BY <1>1, DatabaseAssumption DEF File, Transaction
<1> QED
  BY <1>1, <1>2, <1>3 DEF File

\* A step that leaves the file alone keeps its invariant.
LEMMA FileSame ==
  ASSUME File, UNCHANGED <<log, writer, work, writes, recorded>>
  PROVE  File' /\ Current' = Current
<1>1. Current' = Current
  BY DEF Current
<1> QED
  BY <1>1 DEF File, History, Transaction, SeqNamesOneMessage

\* The engine settles the log: the current image is all there is to lose to.
LEMMA CheckpointKept ==
  ASSUME File, Checkpoint, recorded' = recorded
  PROVE  File' /\ Current' = Current
<1>1. Versions(log) /\ Good(Current) /\ Current \in Image /\ Current.messages \subseteq recorded
  BY CurrentGood DEF File, History
<1>2. log' = <<Current>> /\ UNCHANGED <<writer, work, writes>>
  BY DEF Checkpoint
<1>3. log' \in Seq(Image) /\ Len(log') = 1 /\ log'[1] = Current
  BY <1>1, <1>2, SMT
<1>4. Current' = Current
  BY <1>3 DEF Current
<1>5. Current.sequence \in Nat
  BY <1>1 DEF Image
<1>6. Versions(log')
  <2>1. \A i \in 1 .. Len(log') : i = 1
    BY <1>3, SMT
  <2> QED
    BY <1>1, <1>3, <1>5, <2>1, SMT DEF Versions
<1>7. History'
  <2>1. \A i \in 1 .. Len(log') : log'[i] = Current
    BY <1>3, SMT
  <2> QED
    BY <1>1, <1>4, <1>6, <2>1 DEF File, History, SeqNamesOneMessage
<1>8. Transaction'
  BY <1>2, <1>4 DEF File, Transaction
<1> QED
  BY <1>4, <1>7, <1>8 DEF File

\* A power cut leaves a prefix of the versions, and of the recorded messages
\* those the image it leaves has a seq for.
LEMMA PowerCutKept ==
  ASSUME File, PowerCut, recorded' = {m \in recorded : m.seq <= Current'.sequence}
  PROVE  File'
<1>1. Versions(log) /\ log \in Seq(Image) /\ Len(log) \in Nat
  BY SMT DEF File, History, Versions
<1>2. PICK n \in 1 .. Len(log) : log' = SubSeq(log, 1, n)
  BY DEF PowerCut
<1>3. log' \in Seq(Image) /\ Len(log') = n /\ \A i \in 1 .. n : log'[i] = log[i]
  BY <1>1, <1>2, SMT
<1>4. n \in Nat /\ n >= 1 /\ n <= Len(log) /\ Current' = log[n]
  BY <1>1, <1>2, <1>3, SMT DEF Current
<1>5. \A i \in 1 .. n : i \in 1 .. Len(log)
  BY <1>1, <1>4, SMT
<1>6. Versions(log')
  BY <1>1, <1>3, <1>4, <1>5 DEF Versions
<1>7. ASSUME NEW i \in 1 .. n
      PROVE  log[i].messages \subseteq recorded'
  <2>1. log[i].messages \subseteq recorded
    BY <1>5 DEF File, History
  <2>2. i <= n /\ n \in 1 .. Len(log)
    BY <1>1, <1>4, SMT
  <2>3. log[i].sequence <= log[n].sequence
    BY <1>1, <1>5, <2>2 DEF Versions
  <2>4. /\ log[i].sequence \in Nat /\ log[n].sequence \in Nat
        /\ \A m \in log[i].messages : m.seq \in Nat /\ m.seq <= log[i].sequence
    BY <1>1, <1>5, <2>2 DEF Versions, Good, Image, Message, Numbered
  <2>5. \A m \in log[i].messages : m.seq <= log[n].sequence
    BY <2>3, <2>4, SMT
  <2> QED
    BY <1>4, <2>1, <2>5
<1>8. History'
  <2>1. \A i \in 1 .. Len(log') : log'[i].messages \subseteq recorded'
    BY <1>3, <1>7
  <2> QED
    BY <1>6, <2>1 DEF File, History, SeqNamesOneMessage
<1>9. Transaction'
  <2>1. log[n].sequence <= Current.sequence
    BY <1>1, <1>4, CurrentGood DEF Versions
  <2>2. log[n].sequence \in Nat /\ Current.sequence \in Nat
    BY <1>1, <1>4, CurrentGood DEF Versions, Good, Image
  <2>3. Current'.sequence <= writes /\ writes \in 0 .. MaxWrites
    BY <1>4, <2>1, <2>2, DatabaseAssumption, SMT DEF File, Transaction
  <2>4. writer' = Nobody /\ writes' = writes
    BY DEF PowerCut
  <2> QED
    BY <2>3, <2>4, DatabaseAssumption DEF Transaction
<1> QED
  BY <1>8, <1>9 DEF File

\* What a store commits has the messages of the current image.
LEMMA StoreCommitKept ==
  ASSUME File, NEW c \in Stores, Commit(c), recorded' = recorded
  PROVE  File' /\ Current'.schema = Current.schema /\ Current'.tables = Current.tables
<1>1. Versions(log) /\ Current \in Image
  BY CurrentGood DEF File, History
<1>2. writer = c /\ writer' = Nobody /\ writes' = writes /\ Good(work)
  BY DatabaseAssumption DEF Commit, File, Transaction
<1>3. work = [Current EXCEPT !.kv = work.kv]
  BY <1>2 DEF File, Transaction
<1>4. /\ work.messages = Current.messages /\ work.sequence = Current.sequence
      /\ work.schema = Current.schema /\ work.tables = Current.tables
  BY <1>1, <1>3 DEF Image
<1>5. CASE work = Current
  <2>1. log' = log /\ Current' = Current
    BY <1>5 DEF Commit, Current
  <2> QED
    BY <1>2, <2>1, DatabaseAssumption DEF File, History, Transaction, SeqNamesOneMessage
<1>6. CASE work # Current
  <2>1. Land(work)
    BY <1>6 DEF Commit
  <2>2. writes' \in writes .. MaxWrites
    BY <1>2, DatabaseAssumption, SMT DEF File, Transaction
  <2>3. work.sequence >= Current.sequence
    BY <1>1, <1>4, SMT DEF Image
  <2> QED
    BY <1>1, <1>2, <1>4, <2>1, <2>2, <2>3, QuietCommit, Landed
<1> QED
  BY <1>5, <1>6

\* A verb of a transaction changes the kv rows of the transaction's image.
LEMMA VerbKept ==
  ASSUME File, NEW c \in Stores, NEW rows \in SUBSET KvRow, KvKeyed(rows),
         Verb(c, rows), recorded' = recorded
  PROVE  File' /\ Current' = Current
<1>1. Versions(log) /\ Current \in Image
  BY CurrentGood DEF File, History
<1>2. /\ writer = c /\ writer' = c /\ c # Nobody /\ c \notin Apps /\ log' = log
      /\ work' = [work EXCEPT !.kv = rows] /\ writes' = writes + 1 /\ writes < MaxWrites
  BY DatabaseAssumption DEF Verb, Execute
<1>3. Current' = Current
  BY <1>2 DEF Current
<1>4. Good(work) /\ work = [Current EXCEPT !.kv = work.kv]
  BY <1>2 DEF File, Transaction
<1>5. Good(work')
  BY <1>2, <1>4, GoodKv
<1>6. work' = [Current EXCEPT !.kv = work'.kv]
  BY <1>1, <1>2, <1>4 DEF Image, Good
<1>7. writes' \in 0 .. MaxWrites /\ Current.sequence <= writes'
  BY <1>1, <1>2, DatabaseAssumption, SMT DEF File, Transaction, Image
<1>8. History'
  BY <1>2, <1>3 DEF File, History, SeqNamesOneMessage
<1>9. Transaction'
  BY <1>2, <1>3, <1>5, <1>6, <1>7 DEF File, Transaction
<1> QED
  BY <1>3, <1>8, <1>9 DEF File

\* A statement of a store on its own: it has waited for the lock, and commits.
LEMMA AloneKept ==
  ASSUME File, NEW c \in Stores, NEW image, Alone(c, image), Good(image),
         image.messages = Current.messages, image.sequence = Current.sequence,
         image.schema = Current.schema, image.tables = Current.tables,
         recorded' = recorded
  PROVE  /\ File' /\ Current'.schema = Current.schema /\ Current'.tables = Current.tables
         /\ writer = Nobody /\ Land(image) /\ writer' = Nobody /\ Current' = image
<1>1. Versions(log) /\ Current.sequence \in Nat
  BY CurrentGood DEF File, History, Image
<1>2. writer = Nobody /\ writer' = Nobody /\ Land(image) /\ writes' = writes + 1 /\ writes < MaxWrites
  BY DEF Alone, Execute
<1>3. writes' \in writes .. MaxWrites /\ image.sequence >= Current.sequence
  BY <1>1, <1>2, DatabaseAssumption, SMT DEF File, Transaction
<1>4. File'
  BY <1>2, <1>3, QuietCommit
<1> QED
  BY <1>1, <1>2, <1>3, <1>4, Landed

\* New messages with seqs above those of the recorded ones keep every seq the
\* name of one message.
LEMMA SeqStillNamesOne ==
  ASSUME NEW old \in SUBSET Message, NEW q \in Nat, \A m \in old : m.seq <= q,
         \A m, n \in old : m.seq = n.seq => m = n,
         NEW ms \in SUBSET Message, \A m, n \in ms : m.seq = n.seq => m = n,
         \A m \in ms : m \in old \/ m.seq > q
  PROVE  \A m, n \in old \cup ms : m.seq = n.seq => m = n
<1> SUFFICES ASSUME NEW m \in old \cup ms, NEW n \in old \cup ms, m.seq = n.seq
             PROVE  m = n
  OBVIOUS
<1>1. m.seq \in Nat /\ n.seq \in Nat
  BY DEF Message
<1>2. CASE m \in old
  <2>1. n \in old
    BY <1>1, <1>2, SMT
  <2> QED
    BY <1>2, <2>1
<1>3. CASE m \notin old
  <2>1. n \notin old
    BY <1>1, <1>3, SMT
  <2> QED
    BY <1>3, <2>1
<1> QED
  BY <1>2, <1>3

\* The application commits messages, alone or in a transaction.
LEMMA MessagesLand ==
  ASSUME File, NEW image, Good(image), Land(image),
         image.sequence >= Current.sequence,
         \A m \in image.messages : m \in recorded \/ m.seq > Current.sequence,
         image.sequence <= writes', writes' \in 0 .. MaxWrites, writer' = Nobody, Remember
  PROVE  File' /\ Current' = image
<1>1. /\ Versions(log) /\ Current.sequence \in Nat
      /\ image.sequence \in Nat /\ image.messages \subseteq Message
  BY CurrentGood DEF File, History, Image, Good
<1>2. /\ Versions(log') /\ Current' = image
      /\ \A i \in 1 .. Len(log') : log'[i] = image \/ \E j \in 1 .. Len(log) : log'[i] = log[j]
  BY <1>1, Landed
<1>3. recorded' = recorded \cup image.messages /\ recorded' \subseteq Message
  BY <1>1, <1>2 DEF Remember, File, History
<1>4. \A i \in 1 .. Len(log') : log'[i].messages \subseteq recorded'
  BY <1>2, <1>3 DEF File, History
<1>5. \A m \in recorded' : m.seq <= image.sequence
  <2>1. \A m \in recorded : m.seq <= Current.sequence /\ m.seq \in Nat
    BY DEF File, History, Message
  <2>2. \A m \in image.messages : m.seq <= image.sequence
    BY DEF Good, Numbered
  <2> QED
    BY <1>1, <1>3, <2>1, <2>2, SMT
<1>6. SeqNamesOneMessage'
  <2>1. \A m, n \in image.messages : m.seq = n.seq => m = n
    BY DEF Good, Numbered
  <2>2. \A m, n \in recorded \cup image.messages : m.seq = n.seq => m = n
    BY <1>1, <2>1, SeqStillNamesOne, SMTT(10) DEF File, History, SeqNamesOneMessage
  <2> QED
    BY <1>3, <2>2 DEF SeqNamesOneMessage
<1>7. History'
  BY <1>2, <1>3, <1>4, <1>5, <1>6 DEF History
<1>8. Transaction'
  BY <1>2, DatabaseAssumption DEF Transaction
<1> QED
  BY <1>2, <1>7, <1>8 DEF File

\* The commit of an application's transaction lands its messages.
LEMMA AppCommitKept ==
  ASSUME File, NEW c \in Apps, Commit(c), Remember
  PROVE  File' /\ Current'.schema = Current.schema /\ Current'.tables = Current.tables
<1>1. Versions(log) /\ Current \in Image /\ Current.messages \subseteq recorded
  BY CurrentGood DEF File, History
<1>2. writer = c /\ writer' = Nobody /\ writes' = writes /\ Good(work)
  BY DatabaseAssumption DEF Commit, File, Transaction
<1>3. /\ work = [Current EXCEPT !.messages = work.messages, !.sequence = work.sequence]
      /\ work.sequence >= Current.sequence
      /\ \A m \in work.messages : m \in recorded \/ m.seq > Current.sequence
      /\ work.sequence <= writes /\ writes \in 0 .. MaxWrites
  BY <1>2 DEF File, Transaction
<1>4. work.schema = Current.schema /\ work.tables = Current.tables
  BY <1>1, <1>3 DEF Image
<1>5. CASE work = Current
  <2>1. log' = log /\ Current' = Current
    BY <1>5 DEF Commit, Current
  <2>2. recorded' = recorded
    BY <1>1, <2>1 DEF Remember
  <2> QED
    BY <1>2, <2>1, <2>2, DatabaseAssumption DEF File, History, Transaction, SeqNamesOneMessage
<1>6. CASE work # Current
  <2>1. Land(work)
    BY <1>6 DEF Commit
  <2> QED
    BY <1>2, <1>3, <1>4, <2>1, MessagesLand
<1> QED
  BY <1>5, <1>6

\* What a connection of the application reads: an image that differs from the
\* current one in the messages alone.
LEMMA AppView ==
  ASSUME File, NEW c \in Apps
  PROVE  /\ Good(View(c)) /\ View(c) \in Image
         /\ View(c) = [Current EXCEPT !.messages = View(c).messages, !.sequence = View(c).sequence]
         /\ View(c).sequence >= Current.sequence
         /\ View(c).sequence <= writes /\ writes \in Nat /\ writes <= MaxWrites
         /\ \A m \in View(c).messages : m \in recorded \/ m.seq > Current.sequence
<1>1. Versions(log) /\ Good(Current) /\ Current \in Image /\ Current.messages \subseteq recorded
  BY CurrentGood DEF File, History
<1>2. writes \in Nat /\ writes <= MaxWrites
  BY DatabaseAssumption, SMT DEF File, Transaction
<1>3. CASE writer = c
  BY <1>3, DatabaseAssumption, SMT DEF View, File, Transaction, Good
<1>4. CASE writer # c
  <2>1. View(c) = Current /\ Current.sequence \in Nat
    BY <1>1, <1>4 DEF View, Image
  <2>2. Current = [Current EXCEPT !.messages = Current.messages, !.sequence = Current.sequence]
    BY <1>1 DEF Image
  <2> QED
    BY <1>1, <2>1, <2>2, SMT DEF File, Transaction
<1> QED
  BY <1>2, <1>3, <1>4

\* A statement of the message store that leaves messages ms and the last seq n,
\* where a message that is new has a seq that was not given out.
LEMMA StatementKept ==
  ASSUME File, NEW c \in Apps, NEW ms \in SUBSET Message, NEW n \in Nat, Numbered(ms, n),
         n >= View(c).sequence, n <= writes + 1,
         \A m \in ms : m \in View(c).messages \/ m.seq > View(c).sequence,
         Statement(c, [View(c) EXCEPT !.messages = ms, !.sequence = n])
  PROVE  File' /\ Current'.schema = Current.schema /\ Current'.tables = Current.tables
<1> DEFINE view == View(c)
           image == [view EXCEPT !.messages = ms, !.sequence = n]
<1>1. Versions(log) /\ Current \in Image /\ Current.messages \subseteq recorded
  BY CurrentGood DEF File, History
<1>2. /\ Good(view) /\ view \in Image
      /\ view = [Current EXCEPT !.messages = view.messages, !.sequence = view.sequence]
      /\ view.sequence >= Current.sequence
      /\ \A m \in view.messages : m \in recorded \/ m.seq > Current.sequence
  BY AppView
<1>3. Good(image)
  BY <1>2, GoodMessages
<1>4. /\ image = [Current EXCEPT !.messages = ms, !.sequence = n]
      /\ image.messages = ms /\ image.sequence = n
      /\ image.schema = Current.schema /\ image.tables = Current.tables
  BY <1>1, <1>2 DEF Image
<1>5. Current.sequence \in Nat /\ view.sequence \in Nat /\ \A m \in ms : m.seq \in Nat
  BY <1>1, <1>2 DEF Image, Message
<1>6. n >= Current.sequence /\ \A m \in ms : m \in recorded \/ m.seq > Current.sequence
  BY <1>2, <1>5, SMT
<1>7. writes' = writes + 1 /\ writes' \in 0 .. MaxWrites /\ Current.sequence <= writes'
  BY <1>5, DatabaseAssumption, SMT DEF Statement, Execute, File, Transaction
<1>8. /\ Remember /\ work' = image
      /\ \/ writer = c /\ UNCHANGED <<log, writer>>
         \/ writer = Nobody /\ Land(image) /\ UNCHANGED writer
  BY DEF Statement, Execute
<1> HIDE DEF view, image
<1>9. CASE writer = c /\ UNCHANGED <<log, writer>>
  <2>1. Current' = Current
    BY <1>9 DEF Current
  <2>2. recorded' = recorded
    BY <1>1, <1>8, <2>1 DEF Remember
  <2>3. History'
    BY <1>9, <2>1, <2>2 DEF File, History, SeqNamesOneMessage
  <2>4. Transaction'
    BY <1>3, <1>4, <1>6, <1>7, <1>8, <1>9, <2>1, <2>2, DatabaseAssumption DEF File, Transaction
  <2> QED
    BY <2>1, <2>3, <2>4 DEF File
<1>10. CASE writer = Nobody /\ Land(image) /\ UNCHANGED writer
  BY <1>3, <1>4, <1>6, <1>7, <1>8, <1>10, MessagesLand
<1> QED
  BY <1>8, <1>9, <1>10

----------------------------------------------------------------------------
(* The steps of the stores.                                                *)

\* Nothing about the schemas changes.
LEMMA OpeningKept ==
  ASSUME Opening, UNCHANGED store, migrated' \subseteq migrated,
         Current'.schema = Current.schema, Current'.tables = Current.tables
  PROVE  Opening'
BY DEF Opening, store

\* A store gives up, or is dropped, at any point of its opening.
LEMMA ShutKept ==
  ASSUME Opening, NEW c \in Stores, at' = [at EXCEPT ![c] = 0],
         pending' = [pending EXCEPT ![c] = FALSE], migrated' = migrated,
         Current'.schema = Current.schema, Current'.tables = Current.tables,
         Len(Current.schema) \in Nat
  PROVE  Opening'
<1>1. NumMigrations \in Nat
  BY DatabaseAssumption
<1>2. at' \in [Stores -> 0 .. NumMigrations + 1] /\ pending' \in [Stores -> BOOLEAN]
  BY <1>1, SMT DEF Opening
<1>3. ASSUME NEW d \in Stores
      PROVE  /\ pending'[d] => at'[d] \in 1 .. NumMigrations
             /\ at'[d] <= Len(Current'.schema) + 1
  <2>1. CASE d = c
    BY <2>1, SMT DEF Opening
  <2>2. CASE d # c
    BY <2>2 DEF Opening
  <2> QED
    BY <2>1, <2>2
<1> QED
  BY <1>2, <1>3 DEF Opening

\* Opening a store: whichever processes race, a store goes past a migration
\* only when the file has it.
LEMMA OpenStoreStep ==
  ASSUME Shared, NEW c \in Stores, UNCHANGED messages,
         OpenStore(c) \/ CheckMigration(c) \/ OpenBusy(c)
  PROVE  Shared'
<1>1. File /\ Opening /\ NumMigrations \in Nat /\ Len(Current.schema) \in Nat
  BY CurrentGood, DatabaseAssumption, SMT DEF Shared, File, History, Image
<1>2. UNCHANGED <<file, recorded, migrated, walk>>
  BY DEF OpenStore, CheckMigration, OpenBusy, messages
<1>3. File' /\ Current' = Current
  BY <1>1, <1>2, FileSame DEF file
<1>4. Reading'
  BY <1>2 DEF Shared, Reading
<1>5. CASE OpenStore(c)
  <2>1. at' = [at EXCEPT ![c] = 1] /\ pending' = pending /\ at[c] = 0
    BY <1>5 DEF OpenStore
  <2>2. ~pending[c]
    BY <1>1, <2>1, SMT DEF Opening
  <2>3. Opening'
    BY <1>1, <1>2, <1>3, <2>1, <2>2, SMT DEF Opening
  <2> QED
    BY <1>3, <1>4, <2>3 DEF Shared, File
<1>6. CASE CheckMigration(c)
  <2>1. CASE at[c] \in Range(Current.schema)
    <3>1. at' = [at EXCEPT ![c] = at[c] + 1] /\ pending' = pending /\ ~pending[c] /\ at[c] \in 1 .. NumMigrations
      BY <1>6, <2>1 DEF CheckMigration
    <3>2. \A k \in 1 .. Len(Current.schema) : Current.schema[k] = k
      BY CurrentGood DEF Shared, History, Good, Scripts
    <3>3. DOMAIN Current.schema = 1 .. Len(Current.schema)
      BY CurrentGood, SMT DEF Shared, History, Good, Image
    <3>4. at[c] <= Len(Current.schema)
      BY <1>1, <2>1, <3>2, <3>3, SMT DEF Range
    <3>5. Opening'
      BY <1>1, <1>2, <1>3, <3>1, <3>4, SMT DEF Opening
    <3> QED
      BY <1>3, <1>4, <3>5 DEF Shared, File
  <2>2. CASE at[c] \notin Range(Current.schema)
    <3>1. at' = at /\ pending' = [pending EXCEPT ![c] = TRUE] /\ at[c] \in 1 .. NumMigrations
      BY <1>6, <2>2 DEF CheckMigration
    <3>2. Opening'
      BY <1>1, <1>2, <1>3, <3>1 DEF Opening
    <3> QED
      BY <1>3, <1>4, <3>2 DEF Shared, File
  <2> QED
    BY <2>1, <2>2
<1>7. CASE OpenBusy(c)
  <2>1. Opening'
    BY <1>1, <1>2, <1>3, <1>7, ShutKept DEF OpenBusy
  <2> QED
    BY <1>3, <1>4, <2>1 DEF Shared, File
<1> QED
  BY <1>5, <1>6, <1>7

\* A migration is applied by the connection that saw it pending.
LEMMA ApplyMigrationStep ==
  ASSUME Shared, NEW c \in Stores, ApplyMigration(c), UNCHANGED messages
  PROVE  Shared'
<1>1. /\ File /\ Opening /\ NumMigrations \in Nat /\ Len(Current.schema) \in Nat
      /\ Good(Current) /\ Current \in Image /\ Versions(log)
  BY CurrentGood, DatabaseAssumption, SMT DEF Shared, File, History, Image
<1>2. UNCHANGED <<recorded, migrated, walk>>
  BY DEF messages
<1>3. Reading'
  BY <1>2 DEF Shared, Reading
<1>4. /\ pending[c] /\ writer = Nobody /\ pending' = [pending EXCEPT ![c] = FALSE]
      /\ at[c] \in 1 .. NumMigrations /\ at[c] <= Len(Current.schema) + 1
  BY <1>1 DEF ApplyMigration, Opening
<1>5. CASE at[c] \in Range(Current.schema)
  <2>1. at' = [at EXCEPT ![c] = 0] /\ UNCHANGED file
    BY <1>5 DEF ApplyMigration
  <2>2. File' /\ Current' = Current
    BY <1>1, <1>2, <2>1, FileSame DEF file
  <2>3. Opening'
    BY <1>1, <1>2, <1>4, <2>1, <2>2, ShutKept
  <2> QED
    BY <1>3, <2>2, <2>3 DEF Shared, File
<1>6. CASE at[c] \notin Range(Current.schema)
  <2> DEFINE n == at[c]
             image == [Current EXCEPT !.schema = Append(@, n)]
  <2>1. Land(image) /\ UNCHANGED <<writer, writes>> /\ at' = [at EXCEPT ![c] = n + 1]
    BY <1>6 DEF ApplyMigration
  <2>2. n = Len(Current.schema) + 1 /\ Good(image)
    BY <1>1, <1>4, <1>6, GoodSchema
  <2>3. /\ image.messages = Current.messages /\ image.sequence = Current.sequence
        /\ image.tables = Current.tables /\ image.schema = Append(Current.schema, n)
        /\ Current.sequence \in Nat /\ Current.schema \in Seq(Nat)
    BY <1>1 DEF Image
  <2>4. writes' \in writes .. MaxWrites
    BY <1>1, <2>1, DatabaseAssumption, SMT DEF File, Transaction
  <2> HIDE DEF image
  <2>5. File'
    BY <1>1, <1>2, <1>4, <2>1, <2>2, <2>3, <2>4, QuietCommit
  <2>6. image.sequence >= Current.sequence
    BY <2>3, SMT
  <2>7. Current' = image
    BY <1>1, <2>1, <2>2, <2>6, Landed
  <2>8. Len(Current'.schema) = n
    BY <2>2, <2>3, <2>7, SMTT(10)
  <2>9. Opening'
    <3>1. at' \in [Stores -> 0 .. NumMigrations + 1] /\ pending' \in [Stores -> BOOLEAN]
      BY <1>1, <1>4, <2>1, SMT DEF Opening
    <3>2. ASSUME NEW d \in Stores
          PROVE  /\ pending'[d] => at'[d] \in 1 .. NumMigrations
                 /\ at'[d] <= Len(Current'.schema) + 1
      BY <1>1, <1>4, <2>1, <2>2, <2>8, SMT DEF Opening
    <3> QED
      BY <1>1, <1>2, <2>3, <2>7, <3>1, <3>2 DEF Opening
  <2> QED
    BY <1>3, <2>5, <2>9 DEF Shared, File
<1> QED
  BY <1>5, <1>6

\* A store is dropped, with the transaction it may have open.
LEMMA CloseStoreStep ==
  ASSUME Shared, NEW c \in Stores, CloseStore(c), UNCHANGED messages
  PROVE  Shared'
<1>1. File /\ Opening /\ Len(Current.schema) \in Nat
  BY CurrentGood, SMT DEF Shared, File, History, Image
<1>2. UNCHANGED <<recorded, migrated, walk>>
  BY DEF messages
<1>3. Reading'
  BY <1>2 DEF Shared, Reading
<1>4. File' /\ Current' = Current
  BY <1>1, <1>2, RollbackKept, FileSame DEF CloseStore, Abandon, file
<1>5. Opening'
  BY <1>1, <1>2, <1>4, ShutKept DEF CloseStore
<1> QED
  BY <1>3, <1>4, <1>5 DEF Shared, File

\* A step of a store that leaves both schemas as they are.
LEMMA StoreFrame ==
  ASSUME Shared, UNCHANGED store, UNCHANGED messages, File',
         Current'.schema = Current.schema, Current'.tables = Current.tables
  PROVE  Shared'
<1>1. UNCHANGED <<migrated, walk>>
  BY DEF messages
<1>2. Opening'
  BY <1>1, OpeningKept DEF Shared
<1>3. Reading'
  BY <1>1 DEF Shared, Reading
<1> QED
  BY <1>2, <1>3 DEF Shared, File

\* What the verbs make of the rows.
LEMMA VerbRows ==
  ASSUME NEW c, KvVerb(c), work.kv \in SUBSET KvRow, KvKeyed(work.kv)
  PROVE  \E rows \in SUBSET KvRow : KvKeyed(rows) /\ Verb(c, rows)
<1>1. ASSUME NEW s \in Scopes, NEW k \in Keys, NEW v \in Values, Verb(c, Put(work.kv, s, k, v))
      PROVE  \E rows \in SUBSET KvRow : KvKeyed(rows) /\ Verb(c, rows)
  BY <1>1, PutKeyed
<1>2. ASSUME NEW fewer \in SUBSET work.kv, Verb(c, fewer)
      PROVE  \E rows \in SUBSET KvRow : KvKeyed(rows) /\ Verb(c, rows)
  BY <1>2, FewerKeyed
<1>3. ASSUME NEW s \in Scopes, NEW k \in Keys, Verb(c, DeleteKey(work.kv, s, k))
      PROVE  \E rows \in SUBSET KvRow : KvKeyed(rows) /\ Verb(c, rows)
  BY <1>2, <1>3 DEF DeleteKey
<1>4. ASSUME NEW s \in Scopes, NEW k \in Keys, Verb(c, DeletePrefix(work.kv, s, k))
      PROVE  \E rows \in SUBSET KvRow : KvKeyed(rows) /\ Verb(c, rows)
  BY <1>2, <1>4 DEF DeletePrefix
<1>5. ASSUME NEW s \in Scopes, Verb(c, DeleteScope(work.kv, s))
      PROVE  \E rows \in SUBSET KvRow : KvKeyed(rows) /\ Verb(c, rows)
  BY <1>2, <1>5 DEF DeleteScope
<1>6. ASSUME NEW ns \in Namespaces, Verb(c, DeleteNamespace(work.kv, ns))
      PROVE  \E rows \in SUBSET KvRow : KvKeyed(rows) /\ Verb(c, rows)
  BY <1>2, <1>6 DEF DeleteNamespace
<1> QED
  BY <1>1, <1>3, <1>4, <1>5, <1>6 DEF KvVerb

\* The transactions of a store.
LEMMA KvStep ==
  ASSUME Shared, NEW c \in Stores, UNCHANGED messages,
         BeginKv(c) \/ KvVerb(c) \/ CommitKv(c) \/ DropKv(c)
  PROVE  Shared'
<1>1. File /\ recorded' = recorded
  BY DEF Shared, File, messages
<1>2. CASE BeginKv(c)
  <2>1. Begin(c) /\ UNCHANGED store
    BY <1>2 DEF BeginKv
  <2>2. Current' = Current
    BY <2>1 DEF Begin, Current
  <2> QED
    BY <1>1, <2>1, <2>2, BeginKept, StoreFrame
<1>3. CASE KvVerb(c)
  <2>1. writer = c
    BY <1>3 DEF KvVerb, Verb
  <2>2. Good(work)
    BY <1>1, <2>1, DatabaseAssumption DEF File, Transaction
  <2>3. work.kv \in SUBSET KvRow /\ KvKeyed(work.kv)
    BY <2>2 DEF Good, Image
  <2>4. PICK rows \in SUBSET KvRow : KvKeyed(rows) /\ Verb(c, rows)
    BY <1>3, <2>3, VerbRows
  <2>5. File' /\ Current' = Current
    BY <1>1, <2>4, VerbKept
  <2>6. UNCHANGED store
    BY <2>4 DEF Verb
  <2> QED
    BY <2>5, <2>6, StoreFrame
<1>4. CASE CommitKv(c)
  BY <1>1, <1>4, StoreCommitKept, StoreFrame DEF CommitKv
<1>5. CASE DropKv(c)
  BY <1>1, <1>5, RollbackKept, StoreFrame DEF DropKv
<1> QED
  BY <1>2, <1>3, <1>4, <1>5

\* The typed records.
LEMMA ConvoStep ==
  ASSUME Shared, NEW c \in Stores, NEW id \in Convos, UNCHANGED messages,
         RemoveConversation(c, id) \/ \E kind \in Kinds : SaveConversation(c, id, kind)
  PROVE  Shared'
<1>1. File /\ recorded' = recorded /\ Good(Current) /\ Current \in Image
  BY CurrentGood DEF Shared, File, History, messages
<1>2. Current.convos \in SUBSET (Convos \X Kinds) /\ ConvosKeyed(Current.convos)
  BY <1>1 DEF Good, Image
<1>3. PICK rows \in SUBSET (Convos \X Kinds) :
        ConvosKeyed(rows) /\ Alone(c, [Current EXCEPT !.convos = rows])
  BY <1>2, ConvoKeyed DEF RemoveConversation, SaveConversation
<1> DEFINE image == [Current EXCEPT !.convos = rows]
<1>4. Good(image)
  BY <1>1, <1>3, GoodConvos
<1>5. /\ image.messages = Current.messages /\ image.sequence = Current.sequence
      /\ image.schema = Current.schema /\ image.tables = Current.tables
  BY <1>1 DEF Image
<1>6. Alone(c, image) /\ UNCHANGED store
  BY <1>3 DEF Alone
<1> HIDE DEF image
<1> QED
  BY <1>1, <1>4, <1>5, <1>6, AloneKept, StoreFrame

\* save_installation writes the one row, if there is none.
LEMMA InstallationStep ==
  ASSUME Shared, NEW c \in Stores, NEW i \in Installations, UNCHANGED messages,
         SaveInstallation(c, i)
  PROVE  Shared'
<1>1. File /\ recorded' = recorded /\ Good(Current) /\ Current \in Image
  BY CurrentGood DEF Shared, File, History, messages
<1> DEFINE image == [Current EXCEPT !.installation = {i}]
<1>2. Good(image)
  BY <1>1, GoodInstallation
<1>3. /\ image.messages = Current.messages /\ image.sequence = Current.sequence
      /\ image.schema = Current.schema /\ image.tables = Current.tables
  BY <1>1 DEF Image
<1>4. Alone(c, image) /\ UNCHANGED store
  BY DEF Alone, SaveInstallation
<1> HIDE DEF image
<1> QED
  BY <1>1, <1>2, <1>3, <1>4, AloneKept, StoreFrame

\* Every step of a store keeps the invariant.
LEMMA StoreStep ==
  ASSUME Shared, StoreNext, UNCHANGED messages
  PROVE  Shared'
BY OpenStoreStep, ApplyMigrationStep, CloseStoreStep, KvStep, ConvoStep, InstallationStep
   DEF StoreNext

----------------------------------------------------------------------------
(* A page of a chat.                                                       *)

\* Naturals have a least one and, below a bound, a greatest one.
LEMMA LeastNat ==
  ASSUME NEW S \in SUBSET Nat, S # {}
  PROVE  \E x \in S : \A y \in S : x <= y
<1> DEFINE below == {ss \in Nat \X Nat : ss[1] < ss[2]}
<1>1. IsWellFoundedOn(below, Nat)
  BY NatLessThanWellFounded DEF OpToRel
<1> HIDE DEF below
<1>2. PICK x \in S : \A y \in S : ~(<<y, x>> \in below)
  BY <1>1, WFMin
<1>3. \A y \in S : ~(y < x)
  BY <1>2 DEF below
<1> QED
  BY <1>2, <1>3, SMT

\* A bounded set of naturals has a greatest member.
LEMMA GreatestNat ==
  ASSUME NEW S \in SUBSET Nat, S # {}, NEW b \in Nat, \A x \in S : x <= b
  PROVE  \E x \in S : \A y \in S : y <= x
<1> DEFINE T == {b - x : x \in S}
<1>1. T \in SUBSET Nat /\ T # {}
  <2>1. \A x \in S : b - x \in Nat
    BY SMT
  <2> QED
    BY <2>1
<1>2. PICK t \in T : \A u \in T : t <= u
  BY <1>1, LeastNat
<1>3. PICK x \in S : t = b - x
  BY <1>2
<1>4. ASSUME NEW y \in S
      PROVE  y <= x
  <2>1. b - y \in T
    OBVIOUS
  <2>2. b - x <= b - y
    BY <1>2, <1>3, <2>1
  <2> QED
    BY <1>3, <2>2, SMT
<1> QED
  BY <1>3, <1>4

\* Min of the seqs of a page is one of them and below the others.
LEMMA MinFacts ==
  ASSUME NEW S \in SUBSET Nat, S # {}
  PROVE  Min(S) \in S /\ \A y \in S : Min(S) <= y
BY LeastNat DEF Min

\* The page is of the chat and below before; every older message it leaves out
\* is below all of it; and one that is short leaves none out.
LEMMA PageFacts ==
  ASSUME NEW im, im.messages \in SUBSET Message, im.sequence \in Nat,
         Numbered(im.messages, im.sequence), NEW chat, NEW before \in Nat
  PROVE  LET older == {m \in im.messages : m.chat = chat /\ m.seq < before}
             page == Page(im, chat, before)
         IN  /\ page \subseteq older
             /\ \A m \in older \ page, p \in page : m.seq < p.seq
             /\ Cardinality(page) < Limit => page = older
<1> DEFINE older == {m \in im.messages : m.chat = chat /\ m.seq < before}
           above(m) == {n \in older : n.seq > m.seq}
           page == {m \in older : Cardinality(above(m)) < Limit}
<1>1. Page(im, chat, before) = page
  BY DEF Page
<1>2. IsFiniteSet(older) /\ Limit \in Nat /\ \A m \in older : m.seq \in Nat /\ m.seq <= im.sequence
  <2>1. IsFiniteSet(im.messages)
    BY DEF Numbered
  <2>2. older \subseteq im.messages
    OBVIOUS
  <2> QED
    BY <2>1, <2>2, FS_Subset, DatabaseAssumption DEF Numbered, Message
<1>3. ASSUME NEW S \in SUBSET older
      PROVE  IsFiniteSet(S) /\ Cardinality(S) \in Nat
  BY <1>2, FS_Subset, FS_CardinalityType
<1>4. ASSUME NEW T \in SUBSET older, NEW S \in SUBSET T
      PROVE  Cardinality(S) <= Cardinality(T)
  BY <1>3, FS_Subset
<1>5. \A m \in older : above(m) \in SUBSET older
  OBVIOUS
<1> HIDE DEF older
<1>6. ASSUME NEW m \in older \ page, NEW p \in page
      PROVE  m.seq < p.seq
  <2>1. SUFFICES ASSUME p.seq <= m.seq
                 PROVE  FALSE
    BY <1>2, SMT
  <2>2. above(m) \in SUBSET above(p)
    BY <1>2, <2>1, SMT
  <2>3. Cardinality(above(m)) <= Cardinality(above(p))
    BY <1>4, <1>5, <2>2
  <2>4. Cardinality(above(p)) < Limit /\ ~(Cardinality(above(m)) < Limit)
    OBVIOUS
  <2> QED
    BY <1>2, <1>3, <1>5, <2>3, <2>4, SMT
<1>7. ASSUME Cardinality(page) < Limit, page # older
      PROVE  FALSE
  <2> DEFINE S == {m.seq : m \in older \ page}
  <2>1. S \in SUBSET Nat /\ S # {} /\ \A x \in S : x <= im.sequence
    BY <1>2, <1>7
  <2>2. PICK x \in S : \A y \in S : y <= x
    BY <2>1, GreatestNat
  <2>3. PICK m \in older \ page : x = m.seq
    BY <2>2
  <2>4. above(m) \in SUBSET page
    <3> SUFFICES ASSUME NEW n \in above(m), n \notin page
                 PROVE  FALSE
      OBVIOUS
    <3>1. n \in older /\ n.seq > m.seq /\ n.seq \in S
      OBVIOUS
    <3>2. n.seq <= m.seq
      BY <2>2, <2>3, <3>1
    <3>3. n.seq \in Nat /\ m.seq \in Nat
      BY <1>2, <2>3, <3>1
    <3> QED
      BY <3>1, <3>2, <3>3, SMT
  <2>5. Cardinality(above(m)) <= Cardinality(page)
    BY <1>4, <2>4
  <2>6. ~(Cardinality(above(m)) < Limit)
    BY <2>3
  <2>7. page \in SUBSET older /\ above(m) \in SUBSET older
    OBVIOUS
  <2>8. Cardinality(above(m)) \in Nat /\ Cardinality(page) \in Nat
    BY <1>3, <2>7
  <2> HIDE DEF page, above
  <2> QED
    BY <1>2, <1>7, <2>5, <2>6, <2>8, SMT
<1> HIDE DEF page
<1> QED
  BY <1>1, <1>6, <1>7 DEF older, page

----------------------------------------------------------------------------
(* The steps of the application.                                           *)

\* A step of the application that leaves both schemas and the reader alone.
LEMMA AppFrame ==
  ASSUME Shared, UNCHANGED store, UNCHANGED <<migrated, walk>>, File',
         Current'.schema = Current.schema, Current'.tables = Current.tables
  PROVE  Shared'
<1>1. Opening'
  BY OpeningKept DEF Shared
<1>2. Reading'
  BY DEF Shared, Reading
<1> QED
  BY <1>1, <1>2 DEF Shared, File

\* The message store creates its table once.
LEMMA MigrateStep ==
  ASSUME Shared, NEW c \in Apps, Migrate(c), UNCHANGED store
  PROVE  Shared'
<1>1. File /\ Opening /\ Versions(log) /\ Good(Current) /\ Current \in Image
  BY CurrentGood DEF Shared, File, History
<1>2. UNCHANGED <<recorded, walk, at, pending>> /\ migrated' = migrated \cup {c} /\ writer = Nobody
  BY DEF Migrate, store
<1>3. Reading'
  BY <1>2 DEF Shared, Reading
<1>4. File' /\ Current'.schema = Current.schema /\ Current'.tables = 1
  <2>1. CASE Current.tables = 0
    <3> DEFINE image == [Current EXCEPT !.tables = 1]
    <3>1. Land(image) /\ UNCHANGED <<writer, writes>>
      BY <2>1 DEF Migrate
    <3>2. Good(image)
      BY <1>1, GoodTables
    <3>3. /\ image.messages = Current.messages /\ image.sequence = Current.sequence
          /\ image.schema = Current.schema /\ image.tables = 1 /\ Current.sequence \in Nat
      BY <1>1 DEF Image
    <3>4. writes' \in writes .. MaxWrites /\ image.sequence >= Current.sequence
      BY <1>1, <3>1, <3>3, DatabaseAssumption, SMTT(10) DEF File, Transaction
    <3> HIDE DEF image
    <3> QED
      BY <1>1, <1>2, <3>1, <3>2, <3>3, <3>4, QuietCommit, Landed
  <2>2. CASE Current.tables # 0
    <3>1. UNCHANGED file
      BY <2>2 DEF Migrate
    <3>2. Current.tables = 1
      BY <1>1, <2>2 DEF Image
    <3> QED
      BY <1>1, <1>2, <3>1, <3>2, FileSame DEF file
  <2> QED
    BY <2>1, <2>2
<1>5. Opening'
  BY <1>1, <1>2, <1>4 DEF Opening
<1> QED
  BY <1>3, <1>4, <1>5 DEF Shared, File

\* The transactions of the application, and the end of its process.
LEMMA AppTransactionStep ==
  ASSUME Shared, NEW c \in Apps, UNCHANGED store,
         BeginApp(c) \/ CommitApp(c) \/ RollbackApp(c)
  PROVE  Shared'
<1>1. File
  BY DEF Shared, File
<1>2. CASE BeginApp(c)
  <2>1. Begin(c) /\ UNCHANGED <<recorded, migrated, walk>>
    BY <1>2 DEF BeginApp, messages
  <2>2. Current' = Current
    BY <2>1 DEF Begin, Current
  <2> QED
    BY <1>1, <2>1, <2>2, BeginKept, AppFrame
<1>3. CASE CommitApp(c)
  BY <1>1, <1>3, AppCommitKept, AppFrame DEF CommitApp
<1>4. CASE RollbackApp(c)
  BY <1>1, <1>4, RollbackKept, AppFrame DEF RollbackApp, messages
<1> QED
  BY <1>2, <1>3, <1>4

\* The application's process ends, with the transaction it may have open.
LEMMA CloseAppStep ==
  ASSUME Shared, NEW c \in Apps, CloseApp(c), UNCHANGED store
  PROVE  Shared'
<1>1. File /\ recorded' = recorded /\ migrated' \subseteq migrated /\ walk' = NoWalk
  BY DEF Shared, File, CloseApp
<1>2. File' /\ Current' = Current
  BY <1>1, RollbackKept, FileSame DEF CloseApp, Abandon, file
<1>3. Opening'
  BY <1>1, <1>2, OpeningKept DEF Shared
<1>4. Reading'
  BY <1>1 DEF Reading
<1> QED
  BY <1>2, <1>3, <1>4 DEF Shared, File

\* record gives the message a seq that was never given out.
LEMMA RecordStep ==
  ASSUME Shared, NEW c \in Apps, NEW chat \in Chats, RecordMessage(c, chat), UNCHANGED store
  PROVE  Shared'
<1> DEFINE view == View(c)
           n == view.sequence + 1
           new == [seq |-> n, chat |-> chat, id |-> writes]
           ms == view.messages \cup {new}
<1>1. File /\ Good(view) /\ view \in Image /\ view.sequence <= writes /\ writes \in Nat
  <2>1. File
    BY DEF Shared, File
  <2> QED
    BY <2>1, AppView
<1>2. view.messages \in SUBSET Message /\ view.sequence \in Nat /\ Numbered(view.messages, view.sequence)
  BY <1>1 DEF Image, Good
<1>3. Numbered(ms, n)
  BY <1>2, NextNumbered
<1>4. ms \in SUBSET Message /\ n \in Nat /\ n >= view.sequence /\ n <= writes + 1
  BY <1>1, <1>2, SMT DEF Message
<1>5. \A m \in ms : m \in view.messages \/ m.seq > view.sequence
  BY <1>2, SMT
<1>6. Statement(c, [view EXCEPT !.messages = ms, !.sequence = n])
  <2>1. Statement(c, [view EXCEPT !.messages = @ \cup {new}, !.sequence = n])
    BY DEF RecordMessage, NextSeq
  <2> QED
    BY <2>1
<1>7. UNCHANGED <<migrated, walk>>
  BY <1>6 DEF Statement
<1> HIDE DEF view, n, ms
<1>8. File' /\ Current'.schema = Current.schema /\ Current'.tables = Current.tables
  BY <1>1, <1>3, <1>4, <1>5, <1>6, StatementKept DEF view
<1> QED
  BY <1>7, <1>8, AppFrame

\* delete and delete_chat remove messages and leave sqlite_sequence alone.
LEMMA DeleteStep ==
  ASSUME Shared, NEW c \in Apps, UNCHANGED store, NEW ms \in SUBSET View(c).messages,
         Statement(c, [View(c) EXCEPT !.messages = ms])
  PROVE  Shared'
<1> DEFINE view == View(c)
           n == view.sequence
<1>1. File /\ Good(view) /\ view \in Image /\ n <= writes /\ writes \in Nat
  <2>1. File
    BY DEF Shared, File
  <2> QED
    BY <2>1, AppView
<1>2. view.messages \in SUBSET Message /\ n \in Nat /\ Numbered(view.messages, n)
  BY <1>1 DEF Image, Good
<1>3. Numbered(ms, n)
  BY <1>2, FewerNumbered
<1>4. ms \in SUBSET Message /\ n >= n /\ n <= writes + 1
  BY <1>1, <1>2, SMT
<1>5. [view EXCEPT !.messages = ms] = [view EXCEPT !.messages = ms, !.sequence = n]
  BY <1>1 DEF Image
<1>6. UNCHANGED <<migrated, walk>>
  BY DEF Statement
<1>7. Statement(c, [view EXCEPT !.messages = ms, !.sequence = n])
  BY <1>5
<1> HIDE DEF n
<1>8. File' /\ Current'.schema = Current.schema /\ Current'.tables = Current.tables
  BY <1>1, <1>2, <1>3, <1>4, <1>7, StatementKept DEF n
<1> QED
  BY <1>6, <1>8, AppFrame

\* The reader: where it stands after a page.
LEMMA ReadFrame ==
  ASSUME Shared, UNCHANGED store, UNCHANGED <<file, migrated, recorded>>, Reading'
  PROVE  Shared'
<1>1. File' /\ Current' = Current
  BY FileSame DEF Shared, File, file
<1>2. Opening'
  BY <1>1, OpeningKept DEF Shared
<1> QED
  BY <1>1, <1>2 DEF Shared, File

\* A reader starts above every seq, having read nothing.
LEMMA StartWalkStep ==
  ASSUME Shared, NEW c \in Apps, NEW chat \in Chats, StartWalk(c, chat), UNCHANGED store
  PROVE  Shared'
<1> DEFINE from == {m \in View(c).messages : m.chat = chat}
<1>1. File
  BY DEF Shared, File
<1>2. /\ View(c).messages \in SUBSET Message /\ View(c).sequence \in Nat
      /\ \A m \in View(c).messages : m.seq \in Nat /\ m.seq <= View(c).sequence
      /\ View(c).sequence <= writes /\ writes \in Nat /\ writes <= MaxWrites
  BY <1>1, AppView DEF Image, Good, Numbered, Message
<1>3. \A m \in View(c).messages : m.seq < Newest
  BY <1>2, DatabaseAssumption, SMT DEF Newest
<1>4. Newest \in Nat
  BY DatabaseAssumption, SMT DEF Newest
<1>5. walk' = [conn |-> c, chat |-> chat, before |-> Newest, done |-> FALSE,
               read |-> {}, again |-> FALSE, from |-> from]
  BY DEF StartWalk
<1>6. walk' \in Walks /\ walk'.before = Newest /\ ~walk'.done /\ walk'.read = {}
      /\ ~walk'.again /\ walk'.from = from /\ walk'.chat = chat
  BY <1>2, <1>4, <1>5 DEF Walks
<1>7. Reading'
  BY <1>3, <1>6 DEF Reading
<1> QED
  BY <1>7, ReadFrame DEF StartWalk

\* A page moves the reader down to its first message; a short one reaches the end.
LEMMA NextPageStep ==
  ASSUME Shared, NextPage, UNCHANGED store
  PROVE  Shared'
<1> DEFINE view == View(walk.conn)
           page == Page(view, walk.chat, walk.before)
           older == {m \in view.messages : m.chat = walk.chat /\ m.seq < walk.before}
           before == IF page = {} THEN walk.before ELSE Min({m.seq : m \in page})
<1>1. File /\ walk # NoWalk /\ walk \in Walks /\ ~walk.done /\ ~walk.again
  BY DEF Shared, File, Reading, NextPage
<1>2. /\ walk.conn \in Apps /\ walk.before \in Nat /\ walk.read \in SUBSET Message
      /\ walk.from \in SUBSET Message
  BY <1>1 DEF Walks
<1>3. /\ view.messages \in SUBSET Message /\ view.sequence \in Nat
      /\ Numbered(view.messages, view.sequence)
  BY <1>1, <1>2, AppView DEF Image, Good
<1>4. /\ page \subseteq older
      /\ \A m \in older \ page, p \in page : m.seq < p.seq
      /\ Cardinality(page) < Limit => page = older
  BY <1>2, <1>3, PageFacts
<1>5. walk' = [walk EXCEPT
                 !.read = walk.read \cup page, !.from = walk.from \cap view.messages,
                 !.again = walk.again \/ page \cap walk.read # {},
                 !.done = Cardinality(page) < Limit, !.before = before]
  BY DEF NextPage
<1>6. /\ \A m \in walk.read : m.seq >= walk.before
      /\ \A m \in walk.from : m.chat = walk.chat /\ (m \in walk.read \/ m.seq < walk.before)
  BY <1>1 DEF Shared, Reading
<1>7. \A m \in view.messages \cup walk.read : m.seq \in Nat
  BY <1>2, <1>3 DEF Message
<1> HIDE DEF view, page
<1>8. page \cap walk.read = {}
  BY <1>2, <1>4, <1>6, <1>7, SMT
<1>9. before \in Nat /\ before <= walk.before /\ \A m \in page : before <= m.seq
  <2>1. CASE page = {}
    BY <1>2, <2>1, SMT
  <2>2. CASE page # {}
    <3> DEFINE S == {m.seq : m \in page}
    <3>1. S \in SUBSET Nat /\ S # {}
      BY <1>4, <1>7, <2>2
    <3>2. Min(S) \in S /\ \A y \in S : Min(S) <= y
      BY <3>1, MinFacts
    <3>3. \A y \in S : y < walk.before
      BY <1>4
    <3> QED
      BY <1>2, <2>2, <3>1, <3>2, <3>3, SMT
  <2> QED
    BY <2>1, <2>2
<1>10. \A m \in older \ page : m.seq < before
  <2>1. CASE page = {}
    BY <2>1
  <2>2. CASE page # {}
    <3> DEFINE S == {m.seq : m \in page}
    <3>1. S \in SUBSET Nat /\ S # {}
      BY <1>4, <1>7, <2>2
    <3>2. Min(S) \in S
      BY <3>1, MinFacts
    <3> QED
      BY <1>4, <2>2, <3>2
  <2> QED
    BY <2>1, <2>2
<1> HIDE DEF before
<1>11. /\ walk' \in Walks /\ walk'.chat = walk.chat /\ walk'.before = before
       /\ walk'.read = walk.read \cup page /\ walk'.from = walk.from \cap view.messages
       /\ walk'.again = FALSE /\ walk'.done = (Cardinality(page) < Limit)
  <2>1. (walk.again \/ page \cap walk.read # {}) = FALSE
    BY <1>1, <1>8
  <2>2. walk.read \cup page \in SUBSET Message /\ walk.from \cap view.messages \in SUBSET Message
    BY <1>2, <1>3, <1>4
  <2> DEFINE read == walk.read \cup page
             from == walk.from \cap view.messages
             done == Cardinality(page) < Limit
  <2>3. read \in SUBSET Message /\ from \in SUBSET Message /\ done \in BOOLEAN
    BY <2>2, SMT
  <2>4. walk' = [walk EXCEPT !.read = read, !.from = from, !.again = FALSE, !.done = done, !.before = before]
    BY <1>5, <2>1
  <2> HIDE DEF read, from, done
  <2>5. /\ walk' \in Walks /\ walk'.chat = walk.chat /\ walk'.before = before
        /\ walk'.read = read /\ walk'.from = from /\ walk'.again = FALSE /\ walk'.done = done
    BY <1>1, <1>9, <2>3, <2>4 DEF Walks
  <2> QED
    BY <2>5 DEF read, from, done
<1>12. \A m \in walk'.read : m.seq >= walk'.before
  BY <1>2, <1>4, <1>6, <1>7, <1>9, <1>11, SMT
<1>13. ASSUME NEW m \in walk'.from
       PROVE  m.chat = walk.chat /\ (m \in walk.read \cup page \/ m \in older \ page)
  BY <1>6, <1>11
<1>14. \A m \in walk'.from : m.chat = walk'.chat /\ (m \in walk'.read \/ m.seq < walk'.before)
  BY <1>10, <1>11, <1>13
<1>15. walk'.done => walk'.from \subseteq walk'.read
  BY <1>4, <1>11, <1>13
<1>16. Reading'
  BY <1>11, <1>12, <1>14, <1>15 DEF Reading
<1> QED
  BY <1>16, ReadFrame DEF NextPage

\* Every step of the application keeps the invariant.
LEMMA MessageStep ==
  ASSUME Shared, MessageNext, UNCHANGED store
  PROVE  Shared'
<1>1. ASSUME NEW c \in Apps, NEW chat \in Chats, DeleteChat(c, chat)
      PROVE  Shared'
  BY <1>1, DeleteStep DEF DeleteChat
<1>2. ASSUME NEW c \in Apps, NEW seq \in 1 .. MaxWrites, DeleteMessage(c, seq)
      PROVE  Shared'
  BY <1>2, DeleteStep DEF DeleteMessage
<1>3. ASSUME EndWalk
      PROVE  Shared'
  BY <1>3, ReadFrame DEF EndWalk, Reading
<1> QED
  BY <1>1, <1>2, <1>3, MigrateStep, AppTransactionStep, CloseAppStep, RecordStep,
     StartWalkStep, NextPageStep DEF MessageNext

----------------------------------------------------------------------------
(* Shared is invariant.                                                    *)

\* A file nobody has opened.
LEMMA SharedInit ==
  ASSUME Init
  PROVE  Shared
<1>1. /\ log = <<NewFile>> /\ writer = Nobody /\ writes = 0 /\ recorded = {}
      /\ walk = NoWalk /\ migrated = {}
      /\ at = [c \in Stores |-> 0] /\ pending = [c \in Stores |-> FALSE]
  BY DEF Init, FileInit, StoreInit, MessageInit
<1>2. NewFile \in Image /\ NewFile.sequence = 0 /\ NewFile.messages = {}
      /\ NewFile.schema = <<>> /\ NewFile.kv = {} /\ NewFile.convos = {} /\ NewFile.installation = {}
  BY SMT DEF NewFile, Image
<1>3. Scripts(<<>>)
  BY DatabaseAssumption, SMT DEF Scripts
<1>4. Numbered({}, 0)
  BY FS_EmptySet DEF Numbered
<1>5. Good(NewFile)
  BY <1>2, <1>3, <1>4 DEF Good, KvKeyed, ConvosKeyed, OneInstallation
<1>6. log \in Seq(Image) /\ Len(log) = 1 /\ log[1] = NewFile /\ Current = NewFile
  BY <1>1, <1>2, SMT DEF Current
<1>7. \A i \in 1 .. Len(log) : i = 1
  BY <1>6, SMT
<1>8. History
  BY <1>1, <1>2, <1>5, <1>6, <1>7, SMT DEF History, Versions, SeqNamesOneMessage
<1>9. Transaction
  BY <1>1, <1>2, <1>6, DatabaseAssumption, SMT DEF Transaction
<1>10. Opening
  BY <1>1, <1>2, <1>6, DatabaseAssumption, SMT DEF Opening
<1>11. Reading
  BY <1>1 DEF Reading
<1> QED
  BY <1>8, <1>9, <1>10, <1>11 DEF Shared

\* Power fails: every process is gone, and the file falls back to a version.
LEMMA MachineStopsStep ==
  ASSUME Shared, MachineStops
  PROVE  Shared'
<1>1. File'
  BY PowerCutKept DEF Shared, File, MachineStops
<1>2. Versions(log') /\ Len(Current'.schema) \in Nat
  <2>1. Versions(log)'
    BY <1>1 DEF File, History
  <2>2. Len(log') \in 1 .. Len(log') /\ Current' = log'[Len(log')]
    BY <2>1, SMT DEF Versions, Current
  <2> QED
    BY <2>1, <2>2, SMT DEF Versions, Good, Image
<1>3. Opening'
  BY <1>2, DatabaseAssumption, SMT DEF MachineStops, Opening
<1>4. Reading'
  BY DEF MachineStops, Reading
<1> QED
  BY <1>1, <1>3, <1>4 DEF Shared, File

\* Every step keeps the invariant.
LEMMA SharedNext ==
  ASSUME Shared, [Next]_vars
  PROVE  Shared'
<1>1. CASE Checkpoint /\ UNCHANGED <<store, messages>>
  BY <1>1, CheckpointKept, StoreFrame DEF Shared, File, messages
<1>2. CASE UNCHANGED vars
  BY <1>2, FileSame, StoreFrame DEF Shared, File, vars, file, messages
<1> QED
  BY <1>1, <1>2, StoreStep, MessageStep, MachineStopsStep DEF Next

\* The inductive invariant holds of every behaviour.
THEOREM SharedAlways == Spec => []Shared
BY SharedInit, SharedNext, PTL DEF Spec

----------------------------------------------------------------------------
(* What follows of the schemas, the seqs and the reader.                   *)

\* However many processes race to open a new file, and wherever they are
\* stopped, each migration is run once and in the order of the list, and a
\* store or message store that is open has its tables.
THEOREM SchemasCurrent == Spec => []SchemaCurrent
<1>1. ASSUME Shared
      PROVE  SchemaCurrent
  <2>1. Versions(log) /\ Good(Current) /\ Len(Current.schema) \in Nat
    BY <1>1, CurrentGood, SMT DEF Shared, History, Image
  <2>2. ASSUME NEW i \in 1 .. Len(log)
        PROVE  log[i].schema = [n \in 1 .. Len(log[i].schema) |-> n] /\ log[i].tables <= 1
    <3>1. Good(log[i])
      BY <2>1 DEF Versions
    <3>2. log[i].tables \in {0, 1}
      BY <3>1 DEF Good, Image
    <3>3. log[i].tables <= 1
      BY <3>2, SMT
    <3> QED
      BY <3>1, <3>3 DEF Good, Scripts
  <2>3. ASSUME NEW c \in Stores, Open(c)
        PROVE  Len(Current.schema) = NumMigrations
    <3>1. NumMigrations + 1 <= Len(Current.schema) + 1
      BY <1>1, <2>3 DEF Shared, Opening, Open
    <3>2. Len(Current.schema) <= NumMigrations
      BY <2>1 DEF Good, Scripts
    <3> QED
      BY <2>1, <3>1, <3>2, DatabaseAssumption, SMT
  <2>4. \A c \in migrated : Current.tables = 1
    BY <1>1 DEF Shared, Opening
  <2> QED
    BY <2>2, <2>3, <2>4 DEF SchemaCurrent
<1> QED
  BY <1>1, SharedAlways, PTL

\* A seq is never given to two messages that were committed, whichever
\* connections recorded and deleted them, except to one recorded after the
\* power cut that took the other back.
THEOREM SeqsNeverReused == Spec => []SeqNamesOneMessage
<1>1. Shared => SeqNamesOneMessage
  BY DEF Shared, History
<1> QED
  BY <1>1, SharedAlways, PTL

\* A reader that pages back to a short page has met every message that was
\* there throughout, and none twice, whatever is recorded, deleted, committed
\* and rolled back between its pages and whatever the size of a page.
THEOREM WalksReadEverything == Spec => []WalkReadsEverything
<1>1. Shared => WalkReadsEverything
  BY DEF Shared, Reading, WalkReadsEverything
<1> QED
  BY <1>1, SharedAlways, PTL

----------------------------------------------------------------------------
(* The tables read as the maps of the contract.                            *)

\* substr on blobs, with its special case for the empty prefix, is the prefix
\* test of the contract: NULL is no key.
LEMMA PrefixFacts ==
  ASSUME NEW k \in Keys, NEW p \in Keys
  PROVE  KeyUnderPrefix(k, p) <=> Contract!StartsWith(k, p)
<1>1. k \in Seq(Nat) /\ p \in Seq(Nat) /\ Absent # p
  BY DatabaseAssumption
<1>2. Len(k) \in Nat /\ Len(p) \in Nat
  BY <1>1, SMT
<1>3. CASE Len(p) = 0
  BY <1>2, <1>3, SMT DEF KeyUnderPrefix, Contract!StartsWith
<1>4. CASE Len(p) # 0 /\ Len(k) = 0
  <2>1. k = <<>>
    BY <1>1, <1>4, SMT
  <2>2. ~KeyUnderPrefix(k, p)
    BY <1>1, <1>4, <2>1 DEF KeyUnderPrefix, Substr
  <2>3. ~Contract!StartsWith(k, p)
    BY <1>2, <1>4, SMT DEF Contract!StartsWith
  <2> QED
    BY <2>2, <2>3
<1>5. CASE Len(p) # 0 /\ Len(k) # 0
  <2> DEFINE n == IF Len(p) < Len(k) THEN Len(p) ELSE Len(k)
  <2>1. k # <<>>
    BY <1>1, <1>5, SMT
  <2>2. KeyUnderPrefix(k, p) <=> SubSeq(k, 1, n) = p
    BY <1>5, <2>1 DEF KeyUnderPrefix, Substr
  <2>3. n \in Nat /\ n <= Len(k) /\ n <= Len(p) /\ (Len(p) <= Len(k) <=> n = Len(p))
    BY <1>2, SMT
  <2> HIDE DEF n
  <2>4. /\ SubSeq(k, 1, n) \in Seq(Nat) /\ Len(SubSeq(k, 1, n)) = n
        /\ \A i \in 1 .. n : SubSeq(k, 1, n)[i] = k[i]
    BY <1>1, <1>2, <2>3, SMT
  <2>5. ASSUME SubSeq(k, 1, n) = p
        PROVE  Contract!StartsWith(k, p)
    BY <1>2, <2>3, <2>4, <2>5 DEF Contract!StartsWith
  <2>6. ASSUME Contract!StartsWith(k, p)
        PROVE  SubSeq(k, 1, n) = p
    <3>1. n = Len(p) /\ \A i \in 1 .. n : k[i] = p[i]
      BY <2>3, <2>6 DEF Contract!StartsWith
    <3> QED
      BY <1>1, <2>4, <3>1, SMT
  <2> QED
    BY <2>2, <2>5, <2>6
<1> QED
  BY <1>3, <1>4, <1>5

\* SELECT by the primary key finds the row or none.
LEMMA GetFacts ==
  ASSUME NEW rows \in SUBSET KvRow, KvKeyed(rows), NEW s, NEW k
  PROVE  /\ \A r \in rows : r.scope = s /\ r.key = k => SqlGet(rows, s, k) = r.value
         /\ SqlGet(rows, s, k) # Absent =>
              \E r \in rows : r.scope = s /\ r.key = k /\ r.value = SqlGet(rows, s, k)
         /\ (~ \E r \in rows : r.scope = s /\ r.key = k) => SqlGet(rows, s, k) = Absent
<1> DEFINE found == {r \in rows : r.scope = s /\ r.key = k}
<1>1. CASE found = {}
  BY <1>1 DEF SqlGet
<1>2. CASE found # {}
  <2>1. PICK q \in found : q = CHOOSE r \in found : TRUE
    BY <1>2
  <2>2. SqlGet(rows, s, k) = q.value
    BY <1>2, <2>1 DEF SqlGet
  <2> QED
    BY <2>1, <2>2 DEF KvKeyed
<1> QED
  BY <1>1, <1>2

\* scan_prefix returns the pairs of the contract's scan.
LEMMA ScanFacts ==
  ASSUME NEW rows \in SUBSET KvRow, KvKeyed(rows), NEW s \in Scopes, NEW p \in Keys
  PROVE  SqlScan(rows, s, p) = Contract!ScanPrefix(KvMap(rows), s, p)
<1> DEFINE map == KvMap(rows)
           sql == {<<r.key, r.value>> : r \in {r \in rows : r.scope = s /\ KeyUnderPrefix(r.key, p)}}
           kept == {k \in Keys : map[s][k] # Absent /\ Contract!StartsWith(k, p)}
<1>1. \A k \in Keys : map[s][k] = SqlGet(rows, s, k)
  BY DEF KvMap
<1>2. \A r \in rows : r.key \in Keys /\ r.value # Absent
  BY DatabaseAssumption DEF KvRow
<1> HIDE DEF map
<1>3. ASSUME NEW r \in rows, r.scope = s, KeyUnderPrefix(r.key, p)
      PROVE  r.key \in kept /\ map[s][r.key] = r.value
  <2>1. map[s][r.key] = r.value
    BY <1>1, <1>2, <1>3, GetFacts, SMT
  <2>2. Contract!StartsWith(r.key, p)
    BY <1>2, <1>3, PrefixFacts
  <2> QED
    BY <1>2, <2>1, <2>2
<1>4. ASSUME NEW k \in kept
      PROVE  \E r \in rows : r.scope = s /\ KeyUnderPrefix(r.key, p) /\ r.key = k /\ r.value = map[s][k]
  <2>1. KeyUnderPrefix(k, p)
    BY PrefixFacts
  <2> QED
    BY <1>1, <2>1, GetFacts, SMT
<1>5. sql = {<<k, map[s][k]>> : k \in kept}
  BY <1>3, <1>4, SMT
<1> QED
  BY <1>5 DEF SqlScan, Contract!ScanPrefix, map

\* A conversation loads exactly if it has a row.
LEMMA LoadFacts ==
  ASSUME NEW im, im.convos \in SUBSET (Convos \X Kinds), ConvosKeyed(im.convos), NEW id
  PROVE  /\ \A r \in im.convos : r[1] = id => LoadConversation(im, id) = r[2]
         /\ LoadConversation(im, id) # Absent => <<id, LoadConversation(im, id)>> \in im.convos
         /\ HasConversation(im, id) <=> LoadConversation(im, id) # Absent
<1> DEFINE found == {r \in im.convos : r[1] = id}
<1>1. \A r \in im.convos : r = <<r[1], r[2]>> /\ r[2] # Absent
  BY DatabaseAssumption, SMT
<1>2. CASE found = {}
  BY <1>2 DEF LoadConversation, HasConversation
<1>3. CASE found # {}
  <2>1. PICK q \in found : q = CHOOSE r \in found : TRUE
    BY <1>3
  <2>2. LoadConversation(im, id) = q[2]
    BY <1>3, <2>1 DEF LoadConversation
  <2> QED
    BY <1>1, <2>1, <2>2 DEF ConvosKeyed, HasConversation
<1> QED
  BY <1>2, <1>3

\* What a store reads is a good image.
LEMMA StoreView ==
  ASSUME File, NEW c \in Stores
  PROVE  Good(View(c))
BY CurrentGood, DatabaseAssumption DEF File, History, Transaction, View

\* Whatever the connections do, get, scan_prefix, load_conversations and
\* has_conversation of every store answer what the contract answers on the
\* maps that its tables stand for.
THEOREM ReadsMatch == Spec => []ReadsMatchContract
<1>1. ASSUME Shared, NEW c \in Stores, NEW image, image = View(c)
      PROVE  /\ \A s \in Scopes, k \in Keys :
                  /\ SqlGet(image.kv, s, k) = Contract!Get(KvMap(image.kv), s, k)
                  /\ SqlScan(image.kv, s, k) = Contract!ScanPrefix(KvMap(image.kv), s, k)
             /\ LoadConversations(image) = Contract!Listed(Records(image))
             /\ \A id \in Convos : HasConversation(image, id) <=> Contract!Has(Records(image), id)
  <2>1. Good(image)
    BY <1>1, StoreView DEF Shared, File
  <2>2. /\ image.kv \in SUBSET KvRow /\ KvKeyed(image.kv)
        /\ image.convos \in SUBSET (Convos \X Kinds) /\ ConvosKeyed(image.convos)
    BY <2>1 DEF Good, Image
  <2>3. \A s \in Scopes, k \in Keys : SqlGet(image.kv, s, k) = Contract!Get(KvMap(image.kv), s, k)
    BY DEF KvMap, Contract!Get
  <2>4. \A s \in Scopes, k \in Keys :
          SqlScan(image.kv, s, k) = Contract!ScanPrefix(KvMap(image.kv), s, k)
    BY <2>2, ScanFacts
  <2>5. \A id \in Convos : Records(image).convos[id] = LoadConversation(image, id)
    BY DEF Records
  <2>6. \A id \in Convos : HasConversation(image, id) <=> Contract!Has(Records(image), id)
    <3>1. \A id \in Convos : HasConversation(image, id) <=> LoadConversation(image, id) # Absent
      BY <2>2, LoadFacts
    <3> QED
      BY <2>5, <3>1 DEF Contract!Has
  <2> DEFINE load(id) == LoadConversation(image, id)
             listed == {id \in Convos : load(id) # Absent}
  <2>7. \A r \in image.convos : r[1] \in listed /\ r[2] = load(r[1])
    <3>1. \A r \in image.convos : r[1] \in Convos /\ r[2] # Absent
      BY <2>2, DatabaseAssumption
    <3>2. \A r \in image.convos : load(r[1]) = r[2]
      BY <2>2, LoadFacts
    <3> QED
      BY <3>1, <3>2
  <2>8. \A id \in listed : <<id, load(id)>> \in image.convos
    BY <2>2, LoadFacts
  <2> HIDE DEF load
  <2>9. {<<r[1], r[2]>> : r \in image.convos} = {<<id, load(id)>> : id \in listed}
    BY <2>7, <2>8
  <2>10. LoadConversations(image) = Contract!Listed(Records(image))
    BY <2>5, <2>9 DEF LoadConversations, Contract!Listed, Contract!Has, load
  <2> QED
    BY <2>3, <2>4, <2>6, <2>10
<1>2. Shared => ReadsMatchContract
  BY <1>1 DEF ReadsMatchContract
<1> QED
  BY <1>2, SharedAlways, PTL

----------------------------------------------------------------------------
(* The verbs edit the map.                                                 *)

\* A statement that leaves the rows of a key alone leaves its value alone.
LEMMA GetSame ==
  ASSUME NEW rows, NEW others, NEW s, NEW k,
         \A r \in rows \cup others : r.scope = s /\ r.key = k => (r \in rows <=> r \in others)
  PROVE  SqlGet(rows, s, k) = SqlGet(others, s, k)
<1>1. {r \in rows : r.scope = s /\ r.key = k} = {r \in others : r.scope = s /\ r.key = k}
  OBVIOUS
<1> DEFINE pick(found) == IF found = {} THEN Absent ELSE (CHOOSE r \in found : TRUE).value
<1>2. /\ SqlGet(rows, s, k) = pick({r \in rows : r.scope = s /\ r.key = k})
      /\ SqlGet(others, s, k) = pick({r \in others : r.scope = s /\ r.key = k})
  BY DEF SqlGet
<1> HIDE DEF pick
<1> QED
  BY <1>1, <1>2

\* A get that meets no row answers None.
LEMMA GetNone ==
  ASSUME NEW rows, NEW s, NEW k, \A r \in rows : ~(r.scope = s /\ r.key = k)
  PROVE  SqlGet(rows, s, k) = Absent
<1>1. {r \in rows : r.scope = s /\ r.key = k} = {}
  OBVIOUS
<1> QED
  BY <1>1 DEF SqlGet

\* Two maps are equal if they agree on every scope and key.
LEMMA MapsEqual ==
  ASSUME NEW rows, NEW map \in [Scopes -> [Keys -> Values \cup {Absent}]],
         \A s \in Scopes, k \in Keys : SqlGet(rows, s, k) = map[s][k]
  PROVE  KvMap(rows) = map
<1>1. ASSUME NEW s \in Scopes
      PROVE  [k \in Keys |-> SqlGet(rows, s, k)] = map[s]
  <2>1. map[s] \in [Keys -> Values \cup {Absent}]
    OBVIOUS
  <2> QED
    BY <2>1
<1> QED
  BY <1>1 DEF KvMap

\* The map of the rows has a value or None at every key.
LEMMA MapType ==
  ASSUME NEW rows \in SUBSET KvRow, KvKeyed(rows)
  PROVE  /\ KvMap(rows) \in [Scopes -> [Keys -> Values \cup {Absent}]]
         /\ \A s \in Scopes, k \in Keys : KvMap(rows)[s][k] = SqlGet(rows, s, k)
<1>1. ASSUME NEW s \in Scopes, NEW k \in Keys
      PROVE  SqlGet(rows, s, k) \in Values \cup {Absent}
  BY GetFacts, SMT DEF KvRow
<1> QED
  BY <1>1 DEF KvMap

\* put sets the one key of the map.
LEMMA PutMap ==
  ASSUME NEW rows \in SUBSET KvRow, KvKeyed(rows),
         NEW s \in Scopes, NEW k \in Keys, NEW v \in Values
  PROVE  KvMap(Put(rows, s, k, v)) = [KvMap(rows) EXCEPT ![s][k] = v]
<1> DEFINE new == Put(rows, s, k, v)
           map == [KvMap(rows) EXCEPT ![s][k] = v]
<1>1. map \in [Scopes -> [Keys -> Values \cup {Absent}]]
  BY MapType
<1>2. \A t \in Scopes, j \in Keys :
        map[t][j] = IF t = s /\ j = k THEN v ELSE SqlGet(rows, t, j)
  BY MapType
<1>3. new \in SUBSET KvRow /\ KvKeyed(new)
  BY PutKeyed
<1>4. Row(s, k, v) \in new /\ Row(s, k, v).scope = s /\ Row(s, k, v).key = k /\ Row(s, k, v).value = v
  BY DEF Put, Row
<1>5. SqlGet(new, s, k) = v
  BY <1>3, <1>4, GetFacts, SMT
<1>6. ASSUME NEW t \in Scopes, NEW j \in Keys, ~(t = s /\ j = k)
      PROVE  SqlGet(new, t, j) = SqlGet(rows, t, j)
  <2>1. \A r \in new \cup rows : r.scope = t /\ r.key = j => (r \in new <=> r \in rows)
    BY <1>4, <1>6 DEF Put
  <2> QED
    BY <2>1, GetSame, SMT
<1> HIDE DEF new, map
<1>7. KvMap(new) = map
  BY <1>1, <1>2, <1>5, <1>6, MapsEqual, SMT
<1> QED
  BY <1>7 DEF new, map

\* DELETE of the rows whose scope and key are in gone.
Without(map, gone) ==
  [t \in Scopes |-> [j \in Keys |-> IF <<t, j>> \in gone THEN Absent ELSE map[t][j]]]

\* A get after a DELETE answers None for what is gone.
LEMMA DeleteGet ==
  ASSUME NEW rows, NEW gone, NEW t, NEW j
  PROVE  SqlGet({r \in rows : <<r.scope, r.key>> \notin gone}, t, j) =
           IF <<t, j>> \in gone THEN Absent ELSE SqlGet(rows, t, j)
<1> DEFINE kept == {r \in rows : <<r.scope, r.key>> \notin gone}
<1>1. CASE <<t, j>> \in gone
  <2>1. \A r \in kept : ~(r.scope = t /\ r.key = j)
    BY <1>1
  <2> HIDE DEF kept
  <2>2. SqlGet(kept, t, j) = Absent
    BY <2>1, GetNone
  <2> QED
    BY <1>1, <2>2 DEF kept
<1>2. CASE <<t, j>> \notin gone
  <2>1. \A r \in kept \cup rows : r.scope = t /\ r.key = j => (r \in kept <=> r \in rows)
    BY <1>2
  <2> HIDE DEF kept
  <2>2. SqlGet(kept, t, j) = SqlGet(rows, t, j)
    BY <2>1, GetSame, SMT
  <2> QED
    BY <1>2, <2>2 DEF kept
<1> QED
  BY <1>1, <1>2

\* A DELETE removes exactly the keys it names from the map.
LEMMA DeleteMap ==
  ASSUME NEW rows, NEW gone
  PROVE  KvMap({r \in rows : <<r.scope, r.key>> \notin gone}) = Without(KvMap(rows), gone)
<1>1. \A t \in Scopes, j \in Keys : KvMap(rows)[t][j] = SqlGet(rows, t, j)
  BY DEF KvMap
<1> DEFINE kept == {r \in rows : <<r.scope, r.key>> \notin gone}
<1>2. ASSUME NEW t \in Scopes, NEW j \in Keys
      PROVE  SqlGet(kept, t, j) = IF <<t, j>> \in gone THEN Absent ELSE KvMap(rows)[t][j]
  <2>1. SqlGet(kept, t, j) = IF <<t, j>> \in gone THEN Absent ELSE SqlGet(rows, t, j)
    BY DeleteGet, SMT
  <2> HIDE DEF kept
  <2> QED
    BY <1>1, <2>1
<1> HIDE DEF kept
<1>3. KvMap(kept) = Without(KvMap(rows), gone)
  BY <1>2 DEF KvMap, Without
<1> QED
  BY <1>3 DEF kept

\* A map that differs from another by the keys that are gone is the other without them.
LEMMA WithoutIs ==
  ASSUME NEW old, NEW gone, NEW map \in [Scopes -> [Keys -> Values \cup {Absent}]],
         \A t \in Scopes, j \in Keys : map[t][j] = IF <<t, j>> \in gone THEN Absent ELSE old[t][j]
  PROVE  Without(old, gone) = map
<1>1. ASSUME NEW t \in Scopes
      PROVE  [j \in Keys |-> IF <<t, j>> \in gone THEN Absent ELSE old[t][j]] = map[t]
  <2>1. map[t] \in [Keys -> Values \cup {Absent}]
    OBVIOUS
  <2> QED
    BY <2>1
<1> QED
  BY <1>1 DEF Without

\* delete clears the one key of the map.
LEMMA DeleteKeyMap ==
  ASSUME NEW rows \in SUBSET KvRow, KvKeyed(rows), NEW s \in Scopes, NEW k \in Keys
  PROVE  KvMap(DeleteKey(rows, s, k)) = [KvMap(rows) EXCEPT ![s][k] = Absent]
<1> DEFINE old == KvMap(rows)
           map == [old EXCEPT ![s][k] = Absent]
           gone == {<<s, k>>}
<1>1. old \in [Scopes -> [Keys -> Values \cup {Absent}]]
  BY MapType
<1> HIDE DEF old
<1>2. map \in [Scopes -> [Keys -> Values \cup {Absent}]]
  BY <1>1
<1>3. \A t \in Scopes, j \in Keys : map[t][j] = IF <<t, j>> \in gone THEN Absent ELSE old[t][j]
  BY <1>1
<1>4. DeleteKey(rows, s, k) = {r \in rows : <<r.scope, r.key>> \notin gone}
  BY DEF DeleteKey
<1> HIDE DEF map, gone
<1>5. KvMap(DeleteKey(rows, s, k)) = map
  <2>1. Without(old, gone) = map
    BY <1>2, <1>3, WithoutIs, SMT
  <2> QED
    BY <1>4, <2>1, DeleteMap DEF old
<1> QED
  BY <1>5 DEF old, map

\* What Cleared makes of a map.
LEMMA ClearedFacts ==
  ASSUME NEW old \in [Scopes -> [Keys -> Values \cup {Absent}]], NEW s \in Scopes, NEW doomed
  PROVE  /\ Contract!Cleared(old, s, doomed) \in [Scopes -> [Keys -> Values \cup {Absent}]]
         /\ \A t \in Scopes, j \in Keys :
              Contract!Cleared(old, s, doomed)[t][j] =
                IF t = s /\ j \in doomed THEN Absent ELSE old[t][j]
<1> DEFINE cleared == [k \in Keys |-> IF k \in doomed THEN Absent ELSE old[s][k]]
<1>1. cleared \in [Keys -> Values \cup {Absent}]
  OBVIOUS
<1>2. Contract!Cleared(old, s, doomed) = [old EXCEPT ![s] = cleared]
  BY DEF Contract!Cleared
<1>3. \A j \in Keys : cleared[j] = IF j \in doomed THEN Absent ELSE old[s][j]
  OBVIOUS
<1> HIDE DEF cleared
<1> QED
  BY <1>1, <1>2, <1>3

\* delete_prefix clears the keys of the scope that start with the prefix.
LEMMA DeletePrefixMap ==
  ASSUME NEW rows \in SUBSET KvRow, KvKeyed(rows), NEW s \in Scopes, NEW p \in Keys
  PROVE  KvMap(DeletePrefix(rows, s, p)) =
           Contract!Cleared(KvMap(rows), s, {k \in Keys : Contract!StartsWith(k, p)})
<1> DEFINE doomed == {k \in Keys : Contract!StartsWith(k, p)}
           map == Contract!Cleared(KvMap(rows), s, doomed)
           gone == {s} \X doomed
<1>1. /\ map \in [Scopes -> [Keys -> Values \cup {Absent}]]
      /\ \A t \in Scopes, j \in Keys :
           map[t][j] = IF t = s /\ j \in doomed THEN Absent ELSE KvMap(rows)[t][j]
  BY MapType, ClearedFacts, SMT
<1>2. \A r \in rows : KeyUnderPrefix(r.key, p) <=> r.key \in doomed
  BY PrefixFacts DEF KvRow
<1> HIDE DEF map, doomed
<1>3. DeletePrefix(rows, s, p) = {r \in rows : <<r.scope, r.key>> \notin gone}
  BY <1>2 DEF DeletePrefix
<1>4. \A t \in Scopes, j \in Keys : map[t][j] = IF <<t, j>> \in gone THEN Absent ELSE KvMap(rows)[t][j]
  BY <1>1
<1> HIDE DEF gone
<1>5. KvMap(DeletePrefix(rows, s, p)) = map
  <2>1. Without(KvMap(rows), gone) = map
    BY <1>1, <1>4, WithoutIs, SMT
  <2> QED
    BY <1>3, <2>1, DeleteMap
<1> QED
  BY <1>5 DEF map, doomed

\* delete_scope clears the scope.
LEMMA DeleteScopeMap ==
  ASSUME NEW rows \in SUBSET KvRow, KvKeyed(rows), NEW s \in Scopes
  PROVE  KvMap(DeleteScope(rows, s)) = Contract!Cleared(KvMap(rows), s, Keys)
<1> DEFINE map == Contract!Cleared(KvMap(rows), s, Keys)
           gone == {s} \X Keys
<1>1. /\ map \in [Scopes -> [Keys -> Values \cup {Absent}]]
      /\ \A t \in Scopes, j \in Keys :
           map[t][j] = IF t = s /\ j \in Keys THEN Absent ELSE KvMap(rows)[t][j]
  BY MapType, ClearedFacts, SMT
<1> HIDE DEF map
<1>2. DeleteScope(rows, s) = {r \in rows : <<r.scope, r.key>> \notin gone}
  BY DEF DeleteScope, KvRow
<1>3. \A t \in Scopes, j \in Keys : map[t][j] = IF <<t, j>> \in gone THEN Absent ELSE KvMap(rows)[t][j]
  BY <1>1
<1> HIDE DEF gone
<1>4. KvMap(DeleteScope(rows, s)) = map
  <2>1. Without(KvMap(rows), gone) = map
    BY <1>1, <1>3, WithoutIs, SMT
  <2> QED
    BY <1>2, <2>1, DeleteMap
<1> QED
  BY <1>4 DEF map

\* delete_namespace clears every scope of the namespace.
LEMMA DeleteNamespaceMap ==
  ASSUME NEW rows \in SUBSET KvRow, KvKeyed(rows), NEW ns \in Namespaces
  PROVE  KvMap(DeleteNamespace(rows, ns)) =
           [t \in Scopes |-> IF t[1] = ns THEN Contract!Empty[t] ELSE KvMap(rows)[t]]
<1> DEFINE map == [t \in Scopes |-> IF t[1] = ns THEN Contract!Empty[t] ELSE KvMap(rows)[t]]
           gone == {t \in Scopes : t[1] = ns} \X Keys
<1>1. \A t \in Scopes : Contract!Empty[t] = [k \in Keys |-> Absent]
  BY DEF Contract!Empty, Contract!Scopes, Scopes
<1>2. map \in [Scopes -> [Keys -> Values \cup {Absent}]]
  BY <1>1, MapType, SMT
<1>3. DeleteNamespace(rows, ns) = {r \in rows : <<r.scope, r.key>> \notin gone}
  BY DEF DeleteNamespace, KvRow
<1>4. \A t \in Scopes, j \in Keys : map[t][j] = IF <<t, j>> \in gone THEN Absent ELSE KvMap(rows)[t][j]
  BY <1>1
<1> HIDE DEF map, gone
<1>5. KvMap(DeleteNamespace(rows, ns)) = map
  <2>1. Without(KvMap(rows), gone) = map
    BY <1>2, <1>4, WithoutIs, SMTT(10)
  <2> QED
    BY <1>3, <2>1, DeleteMap
<1> QED
  BY <1>5 DEF map

\* Setting or clearing a key is one of the contract's edits.
LEMMA EditsFacts ==
  ASSUME NEW map, NEW s \in Scopes, NEW k \in Keys, NEW v \in Values \cup {Absent}
  PROVE  /\ [map EXCEPT ![s][k] = v] \in Contract!Edits(map)
         /\ Contract!Cleared(map, s, {j \in Keys : Contract!StartsWith(j, k)}) \in Contract!Edits(map)
         /\ Contract!Cleared(map, s, Keys) \in Contract!Edits(map)
<1> DEFINE set(t, j, w) == [map EXCEPT ![t][j] = w]
<1>1. {set(t, j, w) : t \in Scopes, j \in Keys, w \in Values \cup {Absent}} \subseteq Contract!Edits(map)
  BY SMT DEF Contract!Edits, Contract!Scopes, Scopes
<1> HIDE DEF set
<1>2. set(s, k, v) \in {set(t, j, w) : t \in Scopes, j \in Keys, w \in Values \cup {Absent}}
  BY SMT
<1>3. set(s, k, v) \in Contract!Edits(map)
  BY <1>1, <1>2, SMT
<1> DEFINE clear(t, j) == Contract!Cleared(map, t, {i \in Keys : Contract!StartsWith(i, j)})
<1>4. {clear(t, j) : t \in Scopes, j \in Keys} \subseteq Contract!Edits(map)
  BY SMTT(10) DEF Contract!Edits, Contract!Scopes, Scopes
<1> HIDE DEF clear
<1>5. clear(s, k) \in Contract!Edits(map)
  BY <1>4, SMT
<1>6. Contract!Cleared(map, s, Keys) \in Contract!Edits(map)
  BY SMT DEF Contract!Edits, Contract!Scopes, Scopes
<1> QED
  BY <1>3, <1>5, <1>6 DEF set, clear

\* Every verb makes of the map what a verb of the contract may.
LEMMA VerbEdits ==
  ASSUME NEW c, KvVerb(c), work.kv \in SUBSET KvRow, KvKeyed(work.kv), work \in Image
  PROVE  KvMap(work'.kv) \in Contract!Edits(KvMap(work.kv))
<1> DEFINE map == KvMap(work.kv)
<1>1. \A rows : Verb(c, rows) => work'.kv = rows
  BY DEF Verb, Execute, Image
<1>2. Contract!Scopes = Scopes
  BY DEF Contract!Scopes, Scopes
<1>3. ASSUME NEW s \in Scopes, NEW k \in Keys, NEW v \in Values, Verb(c, Put(work.kv, s, k, v))
      PROVE  KvMap(work'.kv) \in Contract!Edits(map)
  <2>1. work'.kv = Put(work.kv, s, k, v)
    BY <1>1, <1>3
  <2>2. KvMap(Put(work.kv, s, k, v)) = [map EXCEPT ![s][k] = v]
    BY PutMap, SMT
  <2>3. [map EXCEPT ![s][k] = v] \in Contract!Edits(map)
    BY EditsFacts
  <2> QED
    BY <2>1, <2>2, <2>3
<1>4. ASSUME NEW s \in Scopes, NEW k \in Keys, Verb(c, DeleteKey(work.kv, s, k))
      PROVE  KvMap(work'.kv) \in Contract!Edits(map)
  <2>1. work'.kv = DeleteKey(work.kv, s, k)
    BY <1>1, <1>4
  <2>2. KvMap(DeleteKey(work.kv, s, k)) = [map EXCEPT ![s][k] = Absent]
    BY DeleteKeyMap
  <2>3. Absent \in Values \cup {Absent}
    OBVIOUS
  <2>4. [map EXCEPT ![s][k] = Absent] \in Contract!Edits(map)
    BY <2>3, EditsFacts
  <2> QED
    BY <2>1, <2>2, <2>4
<1>5. ASSUME NEW s \in Scopes, NEW k \in Keys, Verb(c, DeletePrefix(work.kv, s, k))
      PROVE  KvMap(work'.kv) \in Contract!Edits(map)
  <2>1. work'.kv = DeletePrefix(work.kv, s, k)
    BY <1>1, <1>5
  <2>2. Absent \in Values \cup {Absent}
    OBVIOUS
  <2>3. Contract!Cleared(map, s, {j \in Keys : Contract!StartsWith(j, k)}) \in Contract!Edits(map)
    BY <2>2, EditsFacts
  <2> QED
    BY <2>1, <2>3, DeletePrefixMap
<1>6. ASSUME NEW s \in Scopes, Verb(c, DeleteScope(work.kv, s))
      PROVE  KvMap(work'.kv) \in Contract!Edits(map)
  <2>1. work'.kv = DeleteScope(work.kv, s)
    BY <1>1, <1>6
  <2>2. <<>> \in Keys /\ Absent \in Values \cup {Absent}
    BY DatabaseAssumption
  <2>3. Contract!Cleared(map, s, Keys) \in Contract!Edits(map)
    BY <2>2, EditsFacts
  <2> QED
    BY <2>1, <2>3, DeleteScopeMap
<1>7. ASSUME NEW ns \in Namespaces, Verb(c, DeleteNamespace(work.kv, ns))
      PROVE  KvMap(work'.kv) \in Contract!Edits(map)
  <2>1. work'.kv = DeleteNamespace(work.kv, ns)
    BY <1>1, <1>7
  <2>2. [t \in Scopes |-> IF t[1] = ns THEN Contract!Empty[t] ELSE map[t]] \in Contract!Edits(map)
    BY <1>2, SMT DEF Contract!Edits
  <2> QED
    BY <2>1, <2>2, DeleteNamespaceMap
<1> QED
  BY <1>3, <1>4, <1>5, <1>6, <1>7 DEF KvVerb

----------------------------------------------------------------------------
(* The stores implement the contract: what the variables of ChatStore are. *)

Versioned == [i \in 1 .. Len(log) |-> Records(log[i])]
Staged == KvMap(IF writer \in Stores THEN work.kv ELSE Current.kv)
Holder == IF writer \in Stores THEN writer ELSE Nobody

AllRecords == {Records(im) : im \in Image}

\* The current version is what the current image records.
LEMMA VersionedFacts ==
  ASSUME Versions(log)
  PROVE  /\ Versioned \in Seq(AllRecords) /\ Len(Versioned) = Len(log)
         /\ \A i \in 1 .. Len(log) : Versioned[i] = Records(log[i])
         /\ Contract!Now = Records(Current)
         /\ Len(log) \in Nat /\ Len(log) >= 1
<1>1. log \in Seq(Image) /\ Len(log) \in Nat /\ Len(log) >= 1
  BY SMT DEF Versions
<1>2. \A i \in 1 .. Len(log) : Records(log[i]) \in AllRecords
  BY <1>1, SMT DEF AllRecords
<1>3. Versioned \in Seq(AllRecords) /\ Len(Versioned) = Len(log)
  BY <1>1, <1>2, SMT DEF Versioned
<1>4. \A i \in 1 .. Len(log) : Versioned[i] = Records(log[i])
  BY DEF Versioned
<1>5. Contract!Now = Versioned[Len(Versioned)]
  BY DEF Contract!Now, Versioned
<1> QED
  BY <1>1, <1>3, <1>4, <1>5, SMT DEF Current

\* An index of what is left, other than the last.
LEMMA IndexFacts ==
  ASSUME NEW l \in Nat, NEW n \in 1 .. l, NEW i \in 1 .. l + 2 - n, i # l + 2 - n
  PROVE  i \in 1 .. l + 1 - n /\ i + n - 1 \in 1 .. l
BY SMT

\* The end of a sequence, and when two are equal.
LEMMA SubSeqFacts ==
  ASSUME NEW S, NEW a \in Seq(S), NEW n \in 1 .. Len(a)
  PROVE  /\ SubSeq(a, n, Len(a)) \in Seq(S) /\ Len(SubSeq(a, n, Len(a))) = Len(a) + 1 - n
         /\ \A i \in 1 .. Len(a) + 1 - n : SubSeq(a, n, Len(a))[i] = a[i + n - 1]
BY SMT

\* Sequences that agree at every index are equal.
LEMMA SeqsEqual ==
  ASSUME NEW S, NEW v \in Seq(S), NEW w \in Seq(S), Len(v) = Len(w),
         \A i \in 1 .. Len(v) : v[i] = w[i]
  PROVE  v = w
BY SMT

\* What is left of a sequence and one more element when the first n - 1 of
\* them go.
LEMMA SubSeqOfAppend ==
  ASSUME NEW S, NEW v \in Seq(S), NEW x \in S, NEW n \in 1 .. Len(v), NEW w \in Seq(S),
         Len(w) = Len(v) + 2 - n, w[Len(w)] = x,
         \A i \in 1 .. Len(v) + 1 - n : w[i] = v[i + n - 1]
  PROVE  w = SubSeq(Append(v, x), n, Len(v) + 1)
<1> DEFINE a == Append(v, x)
<1>1. a \in Seq(S) /\ Len(a) = Len(v) + 1 /\ a[Len(v) + 1] = x /\ \A i \in 1 .. Len(v) : a[i] = v[i]
  BY AppendFacts, SMT
<1>2. Len(v) \in Nat /\ n \in Nat /\ n >= 1 /\ n <= Len(v) /\ Len(w) \in Nat
  BY SMT
<1> HIDE DEF a
<1>3. n \in 1 .. Len(a) /\ Len(a) + 1 - n = Len(v) + 2 - n
  BY <1>1, <1>2, SMT
<1> DEFINE b == SubSeq(a, n, Len(v) + 1)
<1>4. /\ b \in Seq(S) /\ Len(b) = Len(w)
      /\ \A i \in 1 .. Len(w) : b[i] = a[i + n - 1]
  BY <1>1, <1>3, SubSeqFacts, SMT
<1> HIDE DEF b
<1>5. ASSUME NEW i \in 1 .. Len(w)
      PROVE  w[i] = b[i]
  <2>1. CASE i = Len(w)
    <3>1. i + n - 1 = Len(v) + 1
      BY <1>2, <2>1, SMT
    <3> QED
      BY <1>1, <1>4, <2>1, <3>1
  <2>2. CASE i # Len(w)
    <3>1. i \in 1 .. Len(v) + 2 - n /\ i # Len(v) + 2 - n
      BY <2>2
    <3>2. i \in 1 .. Len(v) + 1 - n /\ i + n - 1 \in 1 .. Len(v)
      BY <1>2, <3>1, IndexFacts
    <3>3. b[i] = v[i + n - 1]
      BY <1>1, <1>4, <3>2
    <3> QED
      BY <3>2, <3>3
  <2> QED
    BY <2>1, <2>2
<1>6. w = b
  BY <1>4, <1>5, SeqsEqual
<1> QED
  BY <1>6 DEF a, b

\* A commit on the file adds a version to the contract.
LEMMA LandAdds ==
  ASSUME Versions(log), NEW image, Good(image), Land(image), Versions(log')
  PROVE  Contract!Add(Records(image))
<1> DEFINE x == Records(image)
<1>1. PICK d \in {0, 1} :
        /\ d < Len(log) /\ log' \in Seq(Image) /\ Len(log') = Len(log) + 1 - d
        /\ log'[Len(log')] = image
        /\ \A i \in 1 .. Len(log) - d : log'[i] = log[i + d]
  BY LandShape
<1>2. /\ Versioned \in Seq(AllRecords) /\ Len(Versioned) = Len(log)
      /\ \A i \in 1 .. Len(log) : Versioned[i] = Records(log[i])
      /\ Len(log) \in Nat /\ Len(log) >= 1
  BY VersionedFacts
<1>3. Len(log') \in Nat /\ Len(log') >= 1 /\ \A i \in 1 .. Len(log') : log'[i] \in Image
  BY <1>1, <1>2, SMT
<1>4. /\ Versioned' \in Seq(AllRecords) /\ Len(Versioned') = Len(log')
      /\ \A i \in 1 .. Len(log') : Versioned'[i] = Records(log'[i])
  <2>1. \A i \in 1 .. Len(log') : Records(log'[i]) \in AllRecords
    BY <1>3 DEF AllRecords
  <2>2. Versioned' = [i \in 1 .. Len(log') |-> Records(log'[i])]
    BY DEF Versioned, Records, KvMap, SqlGet
  <2> QED
    BY <1>3, <2>1, <2>2, SMTT(10)
<1>5. x \in AllRecords
  BY DEF AllRecords, Good
<1> HIDE DEF x
<1>6. PICK n \in 1 .. Len(Versioned) : n = d + 1
  BY <1>1, <1>2, SMT
<1>7. Len(Versioned') = Len(Versioned) + 2 - n
  BY <1>1, <1>2, <1>4, <1>6, SMTT(10)
<1>8. Versioned'[Len(Versioned')] = x
  BY <1>1, <1>3, <1>4, SMTT(10) DEF x
<1>9. ASSUME NEW i \in 1 .. Len(Versioned) + 1 - n
      PROVE  Versioned'[i] = Versioned[i + n - 1]
  <2>1. /\ i \in 1 .. Len(log') /\ i \in 1 .. Len(log) - d
        /\ i + d \in 1 .. Len(log) /\ i + n - 1 = i + d
    BY <1>1, <1>2, <1>3, <1>6, SMT
  <2> QED
    BY <1>1, <1>2, <1>4, <2>1
<1>10. Versioned' = SubSeq(Append(Versioned, x), n, Len(Versioned) + 1)
  BY <1>2, <1>4, <1>5, <1>7, <1>8, <1>9, SubSeqOfAppend
<1>11. Versioned' \in {SubSeq(Append(Versioned, x), k, Len(Versioned) + 1) : k \in 1 .. Len(Versioned)}
  BY <1>6, <1>10
<1> QED
  BY <1>11 DEF Contract!Add, Versioned, x

----------------------------------------------------------------------------
(* The stores implement the contract: every step is one of the contract's. *)

\* The contract sees of an image its keys, conversations and installation.
LEMMA RecordsSame ==
  ASSUME NEW im, NEW other, im.kv = other.kv, im.convos = other.convos,
         im.installation = other.installation
  PROVE  Records(im) = Records(other)
BY SMT DEF Records, LoadConversation, LoadInstallation

\* What has landed is the current version.
LEMMA LandedCurrent ==
  ASSUME Versions(log), NEW image, Good(image), Land(image)
  PROVE  Current' = image
BY LandShape DEF Current

\* Nothing the contract sees changes.
LEMMA Unseen ==
  ASSUME log' = log, Staged' = Staged, Holder' = Holder
  PROVE  UNCHANGED Contract!vars
<1>1. Versioned' = Versioned
  BY DEF Versioned
<1> QED
  BY <1>1 DEF Contract!vars, Versioned, Staged, Holder

\* The connections of the application, and the migrations, write other tables:
\* no store has the lock, and the records stay.
LEMMA WrittenElsewhere ==
  ASSUME Versions(log), Versions(log'), writer \notin Stores, writer' \notin Stores,
         \/ log' = log
         \/ \E image : /\ Good(image) /\ Land(image) /\ image.kv = Current.kv
                       /\ image.convos = Current.convos
                       /\ image.installation = Current.installation
  PROVE  [Contract!Next]_(Contract!vars)
<1>1. Holder = Nobody /\ Holder' = Nobody /\ Staged = KvMap(Current.kv) /\ Staged' = KvMap(Current'.kv)
  BY DEF Holder, Staged
<1>2. CASE log' = log
  <2>1. Current' = Current
    BY <1>2 DEF Current
  <2> QED
    BY <1>1, <1>2, <2>1, Unseen
<1>3. ASSUME NEW image, Good(image), Land(image), image.kv = Current.kv,
             image.convos = Current.convos, image.installation = Current.installation
      PROVE  Contract!Elsewhere
  <2>1. Current' = image /\ Records(image) = Records(Current)
    BY <1>3, LandedCurrent, RecordsSame
  <2>2. Contract!Add(Contract!Now)
    BY <1>3, <2>1, LandAdds, VersionedFacts
  <2>3. Staged' = Staged /\ Holder' = Holder
    BY <1>1, <1>3, <2>1
  <2> QED
    BY <2>2, <2>3 DEF Contract!Elsewhere, Staged, Holder
<1> QED
  BY <1>2, <1>3 DEF Contract!Next

\* The transaction of a store begins.
LEMMA BeginImplements ==
  ASSUME Versions(log), NEW c \in Stores, Begin(c)
  PROVE  Contract!Begin(c)
<1>1. writer = Nobody /\ writer' = c /\ work' = Current /\ log' = log /\ Nobody \notin Stores
  BY DatabaseAssumption DEF Begin
<1>2. Holder = Nobody /\ Holder' = c /\ Versioned' = Versioned
  BY <1>1 DEF Holder, Versioned
<1>3. Staged' = KvMap(Current.kv)
  BY <1>1 DEF Staged
<1>4. Contract!Now.kv = KvMap(Current.kv)
  BY VersionedFacts, SMTT(10) DEF Records
<1> QED
  BY <1>2, <1>3, <1>4 DEF Contract!Begin, Holder, Versioned, Staged

\* It ends without a commit.
LEMMA RollbackImplements ==
  ASSUME Versions(log), NEW c \in Stores, Rollback(c)
  PROVE  Contract!Drop
<1>1. writer = c /\ writer' = Nobody /\ log' = log /\ Nobody \notin Stores
  BY DatabaseAssumption DEF Rollback
<1>2. Holder = c /\ c # Nobody /\ Holder' = Nobody /\ Versioned' = Versioned
  BY <1>1 DEF Holder, Versioned
<1>3. Current' = Current
  BY <1>1 DEF Current
<1>4. Staged' = KvMap(Current.kv)
  BY <1>1, <1>3 DEF Staged
<1>5. Contract!Now.kv = KvMap(Current.kv)
  BY VersionedFacts, SMT DEF Records
<1> QED
  BY <1>2, <1>4, <1>5 DEF Contract!Drop, Holder, Versioned, Staged

\* A verb of the key-value store edits what the transaction has staged.
LEMMA VerbImplements ==
  ASSUME File, NEW c \in Stores, KvVerb(c)
  PROVE  Contract!Verb
<1>1. writer = c /\ writer' = writer /\ log' = log /\ c # Nobody
  BY DatabaseAssumption DEF KvVerb, Verb, Execute
<1>2. work \in Image /\ work.kv \in SUBSET KvRow /\ KvKeyed(work.kv)
  BY <1>1 DEF File, Transaction, Good, Image
<1>3. KvMap(work'.kv) \in Contract!Edits(KvMap(work.kv))
  BY <1>2, VerbEdits
<1>4. Staged = KvMap(work.kv) /\ Staged' = KvMap(work'.kv)
  BY <1>1 DEF Staged
<1>5. Holder # Nobody /\ Holder' = Holder /\ Versioned' = Versioned
  BY <1>1 DEF Holder, Versioned
<1>6. Staged' \in Contract!Edits(Staged)
  BY <1>3, <1>4
<1> QED
  BY <1>5, <1>6 DEF Contract!Verb, Holder, Versioned, Staged

\* What a store commits is the current version with the staged map.
LEMMA CommitImplements ==
  ASSUME File, File', NEW c \in Stores, Commit(c)
  PROVE  Contract!Commit \/ Contract!Drop
<1>1. writer = c /\ writer' = Nobody /\ Nobody \notin Stores /\ Versions(log) /\ Versions(log')
  BY DatabaseAssumption DEF Commit, File, History
<1>2. Good(work) /\ work = [Current EXCEPT !.kv = work.kv] /\ Current \in Image
  BY <1>1, CurrentGood DEF File, Transaction
<1>3. Holder = c /\ c # Nobody /\ Holder' = Nobody
  BY <1>1 DEF Holder
<1>4. Staged = KvMap(work.kv) /\ Staged' = KvMap(Current'.kv)
  BY <1>1 DEF Staged
<1>5. CASE work = Current
  <2>1. log' = log /\ Current' = Current /\ Versioned' = Versioned
    BY <1>5 DEF Commit, Current, Versioned
  <2>2. Contract!Now.kv = KvMap(Current.kv)
    BY <1>1, VersionedFacts, SMTT(10) DEF Records
  <2> QED
    BY <1>3, <1>4, <2>1, <2>2 DEF Contract!Drop, Holder, Versioned, Staged
<1>6. CASE work # Current
  <2>1. Land(work)
    BY <1>6 DEF Commit
  <2>2. Current' = work /\ Contract!Add(Records(work))
    BY <1>1, <1>2, <2>1, LandedCurrent, LandAdds
  <2>3. work.convos = Current.convos /\ work.installation = Current.installation
    BY <1>2 DEF Image
  <2>4. Records(work) = [Records(Current) EXCEPT !.kv = KvMap(work.kv)]
    <3> DEFINE convos(im) == [id \in Convos |-> LoadConversation(im, id)]
    <3>1. convos(work) = convos(Current) /\ LoadInstallation(work) = LoadInstallation(Current)
      BY <2>3, SMT DEF LoadConversation, LoadInstallation
    <3>2. \A im : Records(im) = [kv |-> KvMap(im.kv), convos |-> convos(im), installation |-> LoadInstallation(im)]
      BY DEF Records
    <3> HIDE DEF convos
    <3> QED
      BY <3>1, <3>2, SMT
  <2>5. Records(work) = [Contract!Now EXCEPT !.kv = Staged]
    BY <1>1, <1>4, <2>4, VersionedFacts
  <2>6. Staged' = Staged
    BY <1>4, <2>2
  <2> QED
    BY <1>3, <2>2, <2>5, <2>6 DEF Contract!Commit, Holder, Staged
<1> QED
  BY <1>5, <1>6

\* The conversations with that of id replaced or, by no kind, removed.
WithConvo(convos, id, kind) ==
  {r \in convos : r[1] # id} \cup (IF kind \in Kinds THEN {<<id, kind>>} ELSE {})

\* Saving or removing a conversation leaves one row per conversation.
LEMMA WithConvoKeyed ==
  ASSUME NEW convos \in SUBSET (Convos \X Kinds), ConvosKeyed(convos), NEW id \in Convos, NEW kind
  PROVE  /\ WithConvo(convos, id, kind) \in SUBSET (Convos \X Kinds)
         /\ ConvosKeyed(WithConvo(convos, id, kind))
<1>1. CASE kind \in Kinds
  <2>1. WithConvo(convos, id, kind) = {r \in convos : r[1] # id} \cup {<<id, kind>>}
    BY <1>1 DEF WithConvo
  <2> QED
    BY <1>1, <2>1, SMT DEF ConvosKeyed
<1>2. CASE kind \notin Kinds
  <2>1. WithConvo(convos, id, kind) = {r \in convos : r[1] # id}
    BY <1>2 DEF WithConvo
  <2> QED
    BY <2>1 DEF ConvosKeyed
<1> QED
  BY <1>1, <1>2

\* What a statement on the conversations makes of the map of them.
LEMMA ConvoMap ==
  ASSUME NEW im, NEW new, NEW id \in Convos, NEW kind \in Kinds \cup {Absent},
         new.convos = WithConvo(im.convos, id, kind)
  PROVE  [c \in Convos |-> LoadConversation(new, c)] =
           [[c \in Convos |-> LoadConversation(im, c)] EXCEPT ![id] = kind]
<1> DEFINE pick(found) == IF found = {} THEN Absent ELSE (CHOOSE r \in found : TRUE)[2]
<1>1. ASSUME NEW any, NEW c
      PROVE  LoadConversation(any, c) = pick({r \in any.convos : r[1] = c})
  BY DEF LoadConversation
<1>2. ASSUME NEW c \in Convos, c # id
      PROVE  {r \in new.convos : r[1] = c} = {r \in im.convos : r[1] = c}
  BY <1>2, SMT DEF WithConvo
<1>3. {r \in new.convos : r[1] = id} = IF kind \in Kinds THEN {<<id, kind>>} ELSE {}
  BY SMT DEF WithConvo
<1>4. pick(IF kind \in Kinds THEN {<<id, kind>>} ELSE {}) = kind
  <2>1. CASE kind \in Kinds
    <3>1. (CHOOSE r \in {<<id, kind>>} : TRUE) = <<id, kind>>
      OBVIOUS
    <3> QED
      BY <2>1, <3>1, SMT
  <2>2. CASE kind \notin Kinds
    BY <2>2
  <2> QED
    BY <2>1, <2>2
<1> HIDE DEF pick
<1>5. ASSUME NEW c \in Convos
      PROVE  LoadConversation(new, c) = IF c = id THEN kind ELSE LoadConversation(im, c)
  <2>1. CASE c = id
    BY <1>1, <1>3, <1>4, <2>1
  <2>2. CASE c # id
    BY <1>1, <1>2, <2>2
  <2> QED
    BY <2>1, <2>2
<1> QED
  BY <1>5

\* A statement of a store on its own lands a version with one record more,
\* less or replaced.
LEMMA RecordImplements ==
  ASSUME File, File', NEW c \in Stores, NEW image, Good(image), Land(image),
         writer = Nobody, writer' = Nobody, image.kv = Current.kv,
         Records(image) \in Contract!Recorded(Records(Current))
  PROVE  Contract!Record
<1>1. Versions(log) /\ Versions(log') /\ Nobody \notin Stores
  BY DatabaseAssumption DEF File, History
<1>2. Current' = image /\ Contract!Add(Records(image))
  BY <1>1, LandedCurrent, LandAdds
<1>3. Contract!Now = Records(Current)
  BY <1>1, VersionedFacts
<1>4. Holder = Nobody /\ Holder' = Nobody
  BY <1>1 DEF Holder
<1>5. Staged' = Staged
  BY <1>1, <1>2 DEF Staged
<1>6. \E now \in Contract!Recorded(Contract!Now) : Contract!Add(now)
  BY <1>2, <1>3
<1> QED
  BY <1>4, <1>5, <1>6 DEF Contract!Record, Holder, Staged

\* save_conversation and remove_conversation land one record of the contract.
LEMMA ConvoImplements ==
  ASSUME File, File', NEW c \in Stores, NEW id \in Convos, recorded' = recorded,
         RemoveConversation(c, id) \/ \E kind \in Kinds : SaveConversation(c, id, kind)
  PROVE  Contract!Record
<1>1. Good(Current) /\ Current \in Image
  BY CurrentGood DEF File, History
<1>2. Current.convos \in SUBSET (Convos \X Kinds) /\ ConvosKeyed(Current.convos)
  BY <1>1 DEF Good, Image
<1>3. PICK kind \in Kinds \cup {Absent} :
        Alone(c, [Current EXCEPT !.convos = WithConvo(Current.convos, id, kind)])
  <2>1. CASE RemoveConversation(c, id)
    <3>1. WithConvo(Current.convos, id, Absent) = {r \in Current.convos : r[1] # id}
      BY DatabaseAssumption DEF WithConvo
    <3>2. Alone(c, [Current EXCEPT !.convos = {r \in Current.convos : r[1] # id}])
      BY <2>1 DEF RemoveConversation
    <3> QED
      BY <3>1, <3>2
  <2>2. ASSUME NEW kind \in Kinds, SaveConversation(c, id, kind)
        PROVE  Alone(c, [Current EXCEPT !.convos = WithConvo(Current.convos, id, kind)])
    BY <2>2 DEF SaveConversation, WithConvo
  <2> QED
    BY <2>1, <2>2
<1> DEFINE rows == WithConvo(Current.convos, id, kind)
           image == [Current EXCEPT !.convos = rows]
<1>4. rows \in SUBSET (Convos \X Kinds) /\ ConvosKeyed(rows)
  BY <1>2, WithConvoKeyed
<1>5. Good(image)
  BY <1>1, <1>4, GoodConvos
<1>6. image.convos = rows /\ image.kv = Current.kv /\ image.installation = Current.installation
  BY <1>1 DEF Image
<1>7. writer = Nobody /\ writer' = Nobody /\ Land(image)
  BY <1>3 DEF Alone, Execute
<1>8. Records(image) = [Records(Current) EXCEPT !.convos[id] = kind]
  <2> HIDE DEF image
  <2> DEFINE convos(im) == [d \in Convos |-> LoadConversation(im, d)]
  <2>1. convos(image) = [convos(Current) EXCEPT ![id] = kind]
    BY <1>3, <1>6, ConvoMap, SMT
  <2>2. LoadInstallation(image) = LoadInstallation(Current)
    BY <1>6, SMT DEF LoadInstallation
  <2>3. \A im : Records(im) = [kv |-> KvMap(im.kv), convos |-> convos(im), installation |-> LoadInstallation(im)]
    BY DEF Records
  <2> HIDE DEF convos
  <2> QED
    BY <1>6, <2>1, <2>2, <2>3, SMT
<1>9. Records(image) \in Contract!Recorded(Records(Current))
  <2> DEFINE now == Records(Current)
             set(d, k) == [now EXCEPT !.convos[d] = k]
  <2>1. {set(d, k) : d \in Convos, k \in Kinds \cup {Absent}} \subseteq Contract!Recorded(now)
    BY SMT DEF Contract!Recorded
  <2>2. Records(image) = set(id, kind)
    BY <1>8
  <2> HIDE DEF set, now, image
  <2>3. Records(image) \in Contract!Recorded(now)
    BY <1>3, <2>1, <2>2, SMTT(10)
  <2> QED
    BY <2>3 DEF now
<1> HIDE DEF image
<1> QED
  BY <1>5, <1>6, <1>7, <1>9, RecordImplements

\* save_installation is an INSERT: it adds the one there can be.
LEMMA InstallationImplements ==
  ASSUME File, File', NEW c \in Stores, NEW i \in Installations, SaveInstallation(c, i)
  PROVE  Contract!Record
<1>1. Good(Current) /\ Current \in Image
  BY CurrentGood DEF File, History
<1> DEFINE image == [Current EXCEPT !.installation = {i}]
<1>2. Good(image)
  BY <1>1, GoodInstallation
<1>3. image.installation = {i} /\ image.kv = Current.kv /\ image.convos = Current.convos
  BY <1>1 DEF Image
<1>4. writer = Nobody /\ writer' = Nobody /\ Land(image) /\ Current.installation = {}
  BY DEF SaveInstallation, Alone, Execute
<1> HIDE DEF image
<1>5. LoadInstallation(Current) = Absent /\ LoadInstallation(image) = i
  BY <1>3, <1>4 DEF LoadInstallation
<1>6. Records(Current).installation = Absent /\ Records(image) = [Records(Current) EXCEPT !.installation = i]
  <2> DEFINE convos(im) == [d \in Convos |-> LoadConversation(im, d)]
  <2>1. convos(image) = convos(Current)
    BY <1>3, SMT DEF LoadConversation
  <2>2. \A im : Records(im) = [kv |-> KvMap(im.kv), convos |-> convos(im), installation |-> LoadInstallation(im)]
    BY DEF Records
  <2> HIDE DEF convos
  <2> QED
    BY <1>3, <1>5, <2>1, <2>2, SMT
<1>7. Records(image) \in Contract!Recorded(Records(Current))
  <2> DEFINE now == Records(Current)
             set(j) == [now EXCEPT !.installation = j]
  <2>1. {set(j) : j \in {j \in Installations : now.installation = Absent}} \subseteq Contract!Recorded(now)
    BY SMT DEF Contract!Recorded
  <2>2. Records(image) = set(i) /\ now.installation = Absent
    BY <1>6
  <2> HIDE DEF set, now
  <2>3. Records(image) \in Contract!Recorded(now)
    BY <2>1, <2>2
  <2> QED
    BY <2>3 DEF now
<1> QED
  BY <1>2, <1>3, <1>4, <1>7, RecordImplements

\* The log is settled: the current version is the only one left.
LEMMA CheckpointImplements ==
  ASSUME Versions(log), Checkpoint
  PROVE  Contract!Elsewhere
<1>1. log' = <<Current>> /\ writer' = writer /\ work' = work
  BY DEF Checkpoint
<1>2. Len(log') = 1 /\ log'[1] = Current
  BY <1>1
<1>3. Current' = Current
  BY <1>2 DEF Current
<1>4. Staged' = Staged /\ Holder' = Holder
  BY <1>1, <1>3 DEF Staged, Holder
<1>5. Versioned' = [i \in 1 .. 1 |-> Records(log'[i])]
  BY <1>2 DEF Versioned, Records, KvMap, SqlGet
<1>6. Versioned' = <<Records(Current)>>
  BY <1>2, <1>5, SMTT(10)
<1>7. Versioned' = <<Contract!Now>>
  BY <1>6, VersionedFacts
<1> QED
  BY <1>4, <1>7 DEF Contract!Elsewhere, Staged, Holder, Versioned

\* The versions a power cut leaves are the first ones.
LEMMA PowerCutImplements ==
  ASSUME Versions(log), Versions(log'), PowerCut
  PROVE  Contract!PowerCut
<1>1. PICK n \in 1 .. Len(log) : log' = SubSeq(log, 1, n)
  BY DEF PowerCut
<1>2. log \in Seq(Image) /\ Len(log) \in Nat
  BY SMT DEF Versions
<1>3. Len(log') = n /\ \A i \in 1 .. n : log'[i] = log[i] /\ i \in 1 .. Len(log)
  BY <1>1, <1>2, SMTT(10)
<1>4. /\ Versioned \in Seq(AllRecords) /\ Len(Versioned) = Len(log)
      /\ \A i \in 1 .. Len(log) : Versioned[i] = Records(log[i])
  BY VersionedFacts
<1>5. Versioned' = [i \in 1 .. n |-> Records(log'[i])]
  BY <1>3 DEF Versioned, Records, KvMap, SqlGet
<1>6. Versioned' = [i \in 1 .. n |-> Versioned[i]]
  BY <1>3, <1>4, <1>5
<1>7. SubSeq(Versioned, 1, n) = [i \in 1 .. n |-> Versioned[i]]
  BY <1>1, <1>2, <1>4, SMT
<1>8. Versioned' \in {SubSeq(Versioned, 1, k) : k \in 1 .. Len(Versioned)}
  BY <1>1, <1>4, <1>6, <1>7
<1>9. writer' = Nobody /\ Nobody \notin Stores
  BY DatabaseAssumption DEF PowerCut
<1>10. Holder' = Nobody /\ Staged' = KvMap(Current'.kv)
  BY <1>9 DEF Holder, Staged
<1>11. Versioned'[Len(Versioned')] = Records(Current')
  <2>1. Len(Versioned') = n /\ n \in 1 .. n
    BY <1>1, <1>2, <1>6, SMT
  <2> QED
    BY <1>3, <1>5, <2>1 DEF Current
<1>12. Contract!Now' = Records(Current')
  BY <1>11 DEF Contract!Now, Versioned
<1>13. Staged' = Contract!Now'.kv
  BY <1>10, <1>12 DEF Records
<1> QED
  BY <1>8, <1>10, <1>13 DEF Contract!PowerCut, Versioned, Staged, Holder

\* A file with nothing in it is the empty store.
LEMMA ContractInit ==
  ASSUME Init
  PROVE  Contract!Init
<1>1. log = <<NewFile>> /\ writer = Nobody /\ Nobody \notin Stores
  BY DatabaseAssumption DEF Init, FileInit
<1>2. Len(log) = 1 /\ log[1] = NewFile /\ Current = NewFile
  BY <1>1 DEF Current
<1>3. NewFile.kv = {} /\ NewFile.convos = {} /\ NewFile.installation = {}
  BY DEF NewFile
<1>4. \A s, k : SqlGet({}, s, k) = Absent
  BY GetNone
<1>5. KvMap({}) = Contract!Empty
  BY <1>4 DEF KvMap, Contract!Empty, Contract!Scopes, Scopes
<1>6. (\A id : LoadConversation(NewFile, id) = Absent) /\ LoadInstallation(NewFile) = Absent
  BY <1>3 DEF LoadConversation, LoadInstallation
<1>7. Records(NewFile) =
        [kv |-> Contract!Empty, convos |-> [id \in Convos |-> Absent], installation |-> Absent]
  BY <1>3, <1>5, <1>6 DEF Records
<1>8. Versioned = <<Records(NewFile)>>
  BY <1>2, SMTT(10) DEF Versioned
<1>9. Holder = Nobody /\ Staged = Contract!Empty
  BY <1>1, <1>2, <1>3, <1>5 DEF Holder, Staged
<1> QED
  BY <1>7, <1>8, <1>9 DEF Contract!Init, Versioned, Holder, Staged

\* A store opens, applies migrations and is dropped.
LEMMA OpeningImplements ==
  ASSUME Shared, Shared', NEW c \in Stores,
         OpenStore(c) \/ CheckMigration(c) \/ ApplyMigration(c) \/ OpenBusy(c) \/ CloseStore(c)
  PROVE  [Contract!Next]_(Contract!vars)
<1>1. /\ Versions(log) /\ Versions(log') /\ Good(Current) /\ Current \in Image
      /\ NumMigrations \in Nat /\ Opening
  BY CurrentGood, DatabaseAssumption DEF Shared, History
<1>2. CASE UNCHANGED file
  <2>1. log' = log /\ writer' = writer /\ work' = work
    BY <1>2 DEF file
  <2>2. Current' = Current
    BY <2>1 DEF Current
  <2> QED
    BY <2>1, <2>2, Unseen DEF Staged, Holder
<1>3. CASE ApplyMigration(c) /\ ~UNCHANGED file
  <2> DEFINE image == [Current EXCEPT !.schema = Append(@, at[c])]
  <2>1. /\ Land(image) /\ writer = Nobody /\ writer' = Nobody /\ Nobody \notin Stores
        /\ at[c] \notin Range(Current.schema) /\ pending[c]
    BY <1>3, DatabaseAssumption DEF ApplyMigration
  <2>2. Good(image)
    BY <1>1, <2>1, GoodSchema DEF Opening
  <2>3. image.kv = Current.kv /\ image.convos = Current.convos /\ image.installation = Current.installation
    BY <1>1 DEF Image
  <2> HIDE DEF image
  <2> QED
    BY <1>1, <2>1, <2>2, <2>3, WrittenElsewhere
<1>4. CASE CloseStore(c) /\ Rollback(c)
  BY <1>1, <1>4, RollbackImplements DEF Contract!Next
<1> QED
  BY <1>2, <1>3, <1>4 DEF OpenStore, CheckMigration, OpenBusy, CloseStore, Abandon

\* Every step of a store is a step of the contract, or nothing to it.
LEMMA StoreImplements ==
  ASSUME Shared, Shared', StoreNext, UNCHANGED messages
  PROVE  [Contract!Next]_(Contract!vars)
<1>1. File /\ File' /\ Versions(log) /\ recorded' = recorded
  BY DEF Shared, File, History, messages
<1>2. PICK c \in Stores :
        \/ OpenStore(c) \/ CheckMigration(c) \/ ApplyMigration(c) \/ OpenBusy(c) \/ CloseStore(c)
        \/ BeginKv(c) \/ KvVerb(c) \/ CommitKv(c) \/ DropKv(c)
        \/ \E id \in Convos : RemoveConversation(c, id) \/ \E kind \in Kinds : SaveConversation(c, id, kind)
        \/ \E i \in Installations : SaveInstallation(c, i)
  BY DEF StoreNext
<1>3. CASE OpenStore(c) \/ CheckMigration(c) \/ ApplyMigration(c) \/ OpenBusy(c) \/ CloseStore(c)
  BY <1>3, OpeningImplements
<1>4. CASE BeginKv(c)
  BY <1>1, <1>4, BeginImplements DEF BeginKv, Contract!Next
<1>5. CASE KvVerb(c)
  BY <1>1, <1>5, VerbImplements DEF Contract!Next
<1>6. CASE CommitKv(c)
  BY <1>1, <1>6, CommitImplements DEF CommitKv, Contract!Next
<1>7. CASE DropKv(c)
  BY <1>1, <1>7, RollbackImplements DEF DropKv, Contract!Next
<1>8. CASE \E id \in Convos : RemoveConversation(c, id) \/ \E kind \in Kinds : SaveConversation(c, id, kind)
  BY <1>1, <1>8, ConvoImplements DEF Contract!Next
<1>9. CASE \E i \in Installations : SaveInstallation(c, i)
  BY <1>1, <1>9, InstallationImplements DEF Contract!Next
<1> QED
  BY <1>2, <1>3, <1>4, <1>5, <1>6, <1>7, <1>8, <1>9

\* What has landed is the last version, and the versions are sound.
LEMMA LandedGood ==
  ASSUME Versions(log), Versions(log'), NEW image, Land(image)
  PROVE  Good(image)
<1>1. Len(log) \in Nat /\ Len(log) >= 1 /\ log \in Seq(Image)
  BY SMT DEF Versions
<1>2. Len(log') \in 1 .. Len(log') /\ \A i \in 1 .. Len(log') : Good(log'[i])
  BY SMT DEF Versions
<1>3. log'[Len(log')] = image
  BY <1>1, SMTT(10) DEF Land
<1> QED
  BY <1>2, <1>3

\* The connections of the application never touch a table of the stores.
LEMMA StatementImplements ==
  ASSUME File, Versions(log'), NEW c \in Apps, NEW image,
         image.kv = View(c).kv, image.convos = View(c).convos,
         image.installation = View(c).installation, Execute(c, image)
  PROVE  [Contract!Next]_(Contract!vars)
<1>1. Versions(log) /\ Current \in Image /\ c \notin Stores /\ Nobody \notin Stores
  BY CurrentGood, DatabaseAssumption DEF File, History
<1>2. View(c) = [Current EXCEPT !.messages = View(c).messages, !.sequence = View(c).sequence]
  BY AppView
<1>3. /\ image.kv = Current.kv /\ image.convos = Current.convos
      /\ image.installation = Current.installation
  BY <1>1, <1>2 DEF Image
<1>4. CASE writer = c /\ UNCHANGED <<log, writer>>
  BY <1>1, <1>4, WrittenElsewhere
<1>5. CASE writer = Nobody /\ Land(image) /\ UNCHANGED writer
  BY <1>1, <1>3, <1>5, LandedGood, WrittenElsewhere
<1> QED
  BY <1>4, <1>5 DEF Execute

\* A transaction of the application: what it commits differs in the messages.
LEMMA AppTransactionImplements ==
  ASSUME File, Versions(log'), NEW c \in Apps, Begin(c) \/ Commit(c) \/ Rollback(c)
  PROVE  [Contract!Next]_(Contract!vars)
<1>1. Versions(log) /\ Current \in Image /\ c \notin Stores /\ Nobody \notin Stores
  BY CurrentGood, DatabaseAssumption DEF File, History
<1>2. writer \notin Stores /\ writer' \notin Stores
  BY <1>1 DEF Begin, Commit, Rollback
<1>3. CASE log' = log
  BY <1>1, <1>2, <1>3, WrittenElsewhere
<1>4. CASE writer = c /\ Land(work)
  <2>1. work = [Current EXCEPT !.messages = work.messages, !.sequence = work.sequence]
    BY <1>4, DatabaseAssumption DEF File, Transaction
  <2>2. /\ work.kv = Current.kv /\ work.convos = Current.convos
        /\ work.installation = Current.installation
    BY <1>1, <2>1 DEF Image
  <2> QED
    BY <1>1, <1>2, <1>4, <2>2, LandedGood, WrittenElsewhere
<1> QED
  BY <1>3, <1>4 DEF Begin, Commit, Rollback

\* Whatever the application does is a step elsewhere or nothing at all.
LEMMA MessageImplements ==
  ASSUME Shared, Shared', MessageNext
  PROVE  [Contract!Next]_(Contract!vars)
<1>1. /\ File /\ Versions(log) /\ Versions(log') /\ Good(Current) /\ Current \in Image
      /\ Nobody \notin Stores
  BY CurrentGood, DatabaseAssumption DEF Shared, File, History
<1>2. CASE UNCHANGED file
  <2>1. log' = log /\ writer' = writer /\ work' = work
    BY <1>2 DEF file
  <2>2. Current' = Current
    BY <2>1 DEF Current
  <2> QED
    BY <2>1, <2>2, Unseen DEF Staged, Holder
<1>3. ASSUME NEW c \in Apps, Migrate(c)
      PROVE  [Contract!Next]_(Contract!vars)
  <2> DEFINE image == [Current EXCEPT !.tables = 1]
  <2>1. CASE Land(image) /\ UNCHANGED writer
    <3>1. Good(image)
      BY <1>1, GoodTables
    <3>2. /\ image.kv = Current.kv /\ image.convos = Current.convos
          /\ image.installation = Current.installation
      BY <1>1 DEF Image
    <3>3. writer \notin Stores /\ writer' \notin Stores
      BY <1>1, <1>3, <2>1 DEF Migrate
    <3> HIDE DEF image
    <3> QED
      BY <1>1, <2>1, <3>1, <3>2, <3>3, WrittenElsewhere
  <2> QED
    BY <1>2, <1>3, <2>1 DEF Migrate
<1>4. ASSUME NEW c \in Apps, Begin(c) \/ Commit(c) \/ Rollback(c)
      PROVE  [Contract!Next]_(Contract!vars)
  BY <1>1, <1>4, AppTransactionImplements
<1>5. ASSUME NEW c \in Apps, NEW ms, NEW n,
             Statement(c, [View(c) EXCEPT !.messages = ms, !.sequence = n])
      PROVE  [Contract!Next]_(Contract!vars)
  <2> DEFINE image == [View(c) EXCEPT !.messages = ms, !.sequence = n]
  <2>1. View(c) \in Image
    BY <1>1, AppView
  <2>2. /\ image.kv = View(c).kv /\ image.convos = View(c).convos
        /\ image.installation = View(c).installation
    BY <2>1 DEF Image
  <2>3. Execute(c, image)
    BY <1>5 DEF Statement
  <2> HIDE DEF image
  <2> QED
    BY <1>1, <2>2, <2>3, StatementImplements
<1>6. ASSUME NEW c \in Apps, NEW ms, Statement(c, [View(c) EXCEPT !.messages = ms])
      PROVE  [Contract!Next]_(Contract!vars)
  <2>1. View(c) \in Image
    BY <1>1, AppView
  <2>2. [View(c) EXCEPT !.messages = ms] =
          [View(c) EXCEPT !.messages = ms, !.sequence = View(c).sequence]
    BY <2>1 DEF Image
  <2> QED
    BY <1>5, <1>6, <2>2
<1>7. ASSUME NEW c \in Apps, NEW chat \in Chats, RecordMessage(c, chat)
      PROVE  [Contract!Next]_(Contract!vars)
  <2> DEFINE seq == NextSeq(View(c))
             ms == View(c).messages \cup {[seq |-> seq, chat |-> chat, id |-> writes]}
  <2>1. Statement(c, [View(c) EXCEPT !.messages = ms, !.sequence = seq])
    BY <1>7 DEF RecordMessage
  <2> HIDE DEF seq, ms
  <2> QED
    BY <1>5, <2>1
<1>8. ASSUME NEW c \in Apps, NEW seq \in 1 .. MaxWrites, DeleteMessage(c, seq)
      PROVE  [Contract!Next]_(Contract!vars)
  <2> DEFINE ms == {m \in View(c).messages : m.seq # seq}
  <2>1. Statement(c, [View(c) EXCEPT !.messages = ms])
    BY <1>8 DEF DeleteMessage
  <2> HIDE DEF ms
  <2> QED
    BY <1>6, <2>1
<1>9. ASSUME NEW c \in Apps, NEW chat \in Chats, DeleteChat(c, chat)
      PROVE  [Contract!Next]_(Contract!vars)
  <2> DEFINE ms == {m \in View(c).messages : m.chat # chat}
  <2>1. Statement(c, [View(c) EXCEPT !.messages = ms])
    BY <1>9 DEF DeleteChat
  <2> HIDE DEF ms
  <2> QED
    BY <1>6, <2>1
<1>10. CASE NextPage \/ EndWalk
  BY <1>2, <1>10 DEF NextPage, EndWalk
<1>11. ASSUME NEW c \in Apps, \/ BeginApp(c) \/ CommitApp(c) \/ RollbackApp(c) \/ CloseApp(c)
                              \/ \E chat \in Chats : StartWalk(c, chat)
       PROVE  [Contract!Next]_(Contract!vars)
  BY <1>2, <1>4, <1>11 DEF BeginApp, CommitApp, RollbackApp, CloseApp, Abandon, StartWalk
<1> QED
  BY <1>3, <1>7, <1>8, <1>9, <1>10, <1>11 DEF MessageNext

\* A step of the connections is a step of the contract.
LEMMA NextImplements ==
  ASSUME Shared, Shared', [Next]_vars
  PROVE  [Contract!Next]_(Contract!vars)
<1>1. Versions(log) /\ Versions(log')
  BY DEF Shared, History
<1>2. CASE UNCHANGED vars
  <2>1. log' = log /\ writer' = writer /\ work' = work
    BY <1>2 DEF vars, file
  <2>2. Current' = Current
    BY <2>1 DEF Current
  <2> QED
    BY <2>1, <2>2, Unseen DEF Staged, Holder
<1>3. CASE Checkpoint
  BY <1>1, <1>3, CheckpointImplements DEF Contract!Next
<1>4. CASE MachineStops
  BY <1>1, <1>4, PowerCutImplements DEF MachineStops, Contract!Next
<1> QED
  BY <1>2, <1>3, <1>4, StoreImplements, MessageImplements DEF Next

\* Whatever the connections to the file do, the stores on it together behave as
\* the one store of the contract: one transaction at a time, which alone sees
\* its writes, lands whole or not at all, and loses nothing that is committed
\* except, to a power cut, the end of the history.
THEOREM StoresImplementContract == Spec => RefinesContract
BY ContractInit, NextImplements, SharedAlways, PTL DEF Spec, RefinesContract, Contract!Spec
============================================================================
