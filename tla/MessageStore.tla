---------------------------- MODULE MessageStore ---------------------------
(***************************************************************************)
(* The application's record of its messages                                *)
(* (extensions/message-store/src/lib.rs, migrations.rs), on a connection   *)
(* of its own to a file that may hold other schemas.  A transaction the    *)
(* application has started covers what the store writes.  Of a message     *)
(* this module keeps its chat and an identity; seq is given by             *)
(* AUTOINCREMENT.                                                          *)
(***************************************************************************)
EXTENDS SqliteFile

CONSTANTS
  Apps,    \* connections of the application
  Chats,
  Limit,   \* messages per page
  NoWalk   \* nobody is reading back through a chat

VARIABLES
  migrated,  \* connections MessageStore::migrate has returned on
  recorded,  \* history: messages and the seq of each that was committed
  walk       \* a reader paging back; from: what was there at the start and still is

messages == <<migrated, recorded, walk>>

MessageInit == migrated = {} /\ recorded = {} /\ walk = NoWalk

\* history: what the file holds is what the application knows it recorded.
Remember == recorded' = recorded \cup Current'.messages

----------------------------------------------------------------------------
\* migrations::apply: "IMMEDIATE takes the write lock before the check".
Migrate(c) ==
  /\ c \in users \ migrated /\ writer = Nobody
  /\ IF Current.tables = 0
     THEN /\ Land([Current EXCEPT !.tables = 1])
          /\ work' = Current' /\ UNCHANGED <<writer, writes, users>>
     ELSE UNCHANGED file
  /\ migrated' = migrated \cup {c}
  /\ UNCHANGED <<recorded, walk>>

\* The application's own transactions, and the end of its process.
BeginApp(c) == c \in migrated /\ Begin(c) /\ UNCHANGED messages
CommitApp(c) == Commit(c) /\ Remember /\ UNCHANGED <<migrated, walk>>
RollbackApp(c) == Rollback(c) /\ UNCHANGED messages
CloseApp(c) ==
  /\ c \in migrated
  /\ migrated' = migrated \ {c} /\ walk' = NoWalk
  /\ Abandon(c) /\ UNCHANGED recorded

\* Mutant: without AUTOINCREMENT a row gets the largest seq in use plus one.
NextSeqOfRows(image) ==
  1 + Max({0} \cup {m.seq : m \in image.messages})

\* AUTOINCREMENT: one more than sqlite_sequence has for the table.
NextSeq(image) == image.sequence + 1

\* A statement of the store; by itself, it is remembered at once.
Statement(c, image) ==
  /\ c \in migrated
  /\ Execute(c, image)
  /\ Remember
  /\ UNCHANGED <<migrated, walk>>

\* record
RecordMessage(c, chat) ==
  LET seq == NextSeq(View(c))
  IN  Statement(c, [View(c) EXCEPT
        !.messages = @ \cup {[seq |-> seq, chat |-> chat, id |-> writes]},
        !.sequence = seq])

\* delete and delete_chat
DeleteMessage(c, seq) ==
  Statement(c, [View(c) EXCEPT !.messages = {m \in @ : m.seq # seq}])
DeleteChat(c, chat) ==
  Statement(c, [View(c) EXCEPT !.messages = {m \in @ : m.chat # chat}])

----------------------------------------------------------------------------
\* Mutant: the page at the chat's beginning.
OldestPage(image, chat, before) ==
  {m \in image.messages :
     /\ m.chat = chat /\ m.seq < before
     /\ Cardinality({n \in image.messages : n.chat = chat /\ n.seq < m.seq}) < Limit}

\* messages: the Limit newest of a chat whose seq is below before.
Page(image, chat, before) ==
  LET older == {m \in image.messages : m.chat = chat /\ m.seq < before}
  IN  {m \in older : Cardinality({n \in older : n.seq > m.seq}) < Limit}

\* i64::MAX, above every seq.
Newest == MaxWrites + 1

\* A reader starts at the newest message and asks for the page before the
\* first message of the last one, until a page comes up short.
StartWalk(c, chat) ==
  /\ c \in migrated /\ walk = NoWalk
  /\ walk' = [conn |-> c, chat |-> chat, before |-> Newest, done |-> FALSE,
              read |-> {}, again |-> FALSE,
              from |-> {m \in View(c).messages : m.chat = chat}]
  /\ UNCHANGED <<file, migrated, recorded>>

NextPage ==
  /\ walk # NoWalk /\ ~walk.done
  /\ LET page == Page(View(walk.conn), walk.chat, walk.before)
     IN  walk' = [walk EXCEPT
           !.read = @ \cup page,
           !.from = @ \cap View(walk.conn).messages,
           !.again = @ \/ page \cap walk.read # {},
           !.done = Cardinality(page) < Limit,
           !.before = IF page = {} THEN @ ELSE Min({m.seq : m \in page})]
  /\ UNCHANGED <<file, migrated, recorded>>

EndWalk ==
  /\ walk # NoWalk /\ walk.done
  /\ walk' = NoWalk
  /\ UNCHANGED <<file, migrated, recorded>>

MessageNext ==
  \/ \E c \in Apps :
       \/ Migrate(c) \/ BeginApp(c) \/ CommitApp(c) \/ RollbackApp(c) \/ CloseApp(c)
       \/ \E chat \in Chats : RecordMessage(c, chat) \/ DeleteChat(c, chat) \/ StartWalk(c, chat)
       \/ \E seq \in 1 .. MaxWrites : DeleteMessage(c, seq)
  \/ NextPage \/ EndWalk

----------------------------------------------------------------------------
\* A seq "is never handed out twice, not even after a delete": no two messages
\* that were ever committed have the same one, whichever connections recorded
\* and deleted them, unless the power cut took the first of them back.
SeqNamesOneMessage == \A m, n \in recorded : m.seq = n.seq => m = n

\* "The seq of a page's first message reads the page before it, and a page
\* shorter than limit has reached the chat's first message": a reader that has
\* paged to the end has met exactly once every message that was there
\* throughout, whatever was recorded and deleted between its pages.
WalkReadsEverything ==
  walk # NoWalk =>
    /\ ~walk.again
    /\ walk.done => walk.from \subseteq walk.read
============================================================================
