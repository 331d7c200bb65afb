--------------------------- MODULE SharedDatabase --------------------------
(***************************************************************************)
(* One database file that the stores of a client and the message store of  *)
(* its application share: every connection competes for the one write      *)
(* lock, and a crash or a power cut may come at any moment.  What the      *)
(* stores do to the file is shown to implement ChatStore.                  *)
(***************************************************************************)
EXTENDS SqliteStore, MessageStore

vars == <<file, store, messages>>

ASSUME DatabaseAssumption ==
  /\ Nobody \notin Stores \cup Apps /\ Stores \cap Apps = {}
  /\ Absent \notin Values \cup Kinds \cup Installations /\ Absent \notin Keys
  /\ <<>> \in Keys /\ Keys \subseteq Seq(Nat)
  /\ NumMigrations \in Nat /\ MaxWrites \in Nat /\ MaxStoreWrites \in 0 .. MaxWrites /\ Limit \in Nat \ {0}
  /\ MaxUnsynced \in Nat \ {0, 1}

\* A file nobody has opened yet.
NewFile ==
  [kv |-> {}, convos |-> {}, installation |-> {}, schema |-> <<>>,
   tables |-> 0, messages |-> {}, sequence |-> 0]

Init == FileInit(NewFile) /\ StoreInit /\ MessageInit

\* The machine goes down, and every process with it.
MachineStops ==
  /\ PowerCut
  /\ at' = [c \in Stores |-> 0] /\ pending' = [c \in Stores |-> FALSE]
  /\ migrated' = {} /\ walk' = NoWalk
  /\ recorded' = {m \in recorded : m.seq <= Current'.sequence}

Next ==
  \/ StoreNext /\ UNCHANGED messages
  \/ MessageNext /\ UNCHANGED store
  \/ Checkpoint /\ UNCHANGED <<store, messages>>
  \/ MachineStops

Spec == Init /\ [][Next]_vars

----------------------------------------------------------------------------
\* The tables as the maps of the contract.
KvMap(rows) == [s \in Scopes |-> [k \in Keys |-> SqlGet(rows, s, k)]]
Records(image) ==
  [kv |-> KvMap(image.kv),
   convos |-> [id \in Convos |-> LoadConversation(image, id)],
   installation |-> LoadInstallation(image)]

Contract ==
  INSTANCE ChatStore WITH
    Users <- Stores, Free <- Nobody,
    versions <- [i \in 1 .. Len(log) |-> Records(log[i])],
    staged <- KvMap(IF writer \in Stores THEN work.kv ELSE Current.kv),
    holder <- IF writer \in Stores THEN writer ELSE Nobody

\* Whatever the other connections do, the stores on the file together behave
\* as one store of the contract: one transaction at a time, which alone sees
\* its writes, lands all of them or none, and loses nothing that is committed
\* except at the end of the history, to a power cut; an installation is never
\* replaced.
RefinesContract == Contract!Spec

\* What the verbs read is what the contract reads, for every key and prefix,
\* the empty ones included; a conversation is listed and known exactly once and
\* only if it loads.
ReadsMatchContract ==
  \A c \in Stores :
    LET image == View(c)
        map == KvMap(image.kv)
    IN  /\ \A s \in Scopes, k \in Keys :
             /\ SqlGet(image.kv, s, k) = Contract!Get(map, s, k)
             /\ SqlScan(image.kv, s, k) = Contract!ScanPrefix(map, s, k)
        /\ LoadConversations(image) = Contract!Listed(Records(image))
        /\ \A id \in Convos : HasConversation(image, id) <=> Contract!Has(Records(image), id)

\* A store or message store that is open has its tables: each migration was
\* run exactly once and in the order of the list, however many processes raced
\* to open a new file and wherever they were stopped.
SchemaCurrent ==
  /\ \A i \in 1 .. Len(log) :
       log[i].schema = [n \in 1 .. Len(log[i].schema) |-> n] /\ log[i].tables <= 1
  /\ \A c \in Stores : Open(c) => Len(Current.schema) = NumMigrations
  /\ \A c \in migrated : Current.tables = 1
============================================================================
