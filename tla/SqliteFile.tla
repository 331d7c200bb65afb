---------------------------- MODULE SqliteFile -----------------------------
(***************************************************************************)
(* One database file and the connections several threads or processes have *)
(* open on it, as SqliteDb::new sets them up                               *)
(* (extensions/sqlite/src/common.rs): write-ahead log, synchronous NORMAL, *)
(* IMMEDIATE transactions, a busy timeout.  The engine itself is external. *)
(* An image is everything the tables hold; its fields belong to the        *)
(* modules that extend this one.                                           *)
(***************************************************************************)
EXTENDS Integers, Sequences, FiniteSets, FiniteSetsExt

CONSTANTS
  Deployments, \* the sets of connections that may share a file
  Nobody,      \* no connection
  MaxWrites,   \* bound: statements that write
  MaxUnsynced  \* bound: versions a power cut may choose from

VARIABLES
  log,      \* committed images since the last fsync; the last one is current
  writer,   \* the connection in a transaction: IMMEDIATE, so it has the lock
  work,     \* the image as that transaction sees it
  writes,   \* statements so far
  users     \* the connections that ever use this file

file == <<log, writer, work, writes, users>>

Current == log[Len(log)]

\* What a statement of connection c reads.
View(c) == IF writer = c THEN work ELSE Current

\* A new version is committed.  The engine checkpoints by itself when the log
\* is long; what is settled then can no longer be lost.
Land(image) ==
  log' = IF Len(log) = MaxUnsynced THEN Append(Tail(log), image) ELSE Append(log, image)

FileInit(image) ==
  /\ log = <<image>> /\ writer = Nobody /\ work = image /\ writes = 0
  /\ users \in Deployments

\* BEGIN IMMEDIATE.  While the lock is taken it waits, and fails after the
\* busy timeout; a transaction open on c itself fails it at once.
Begin(c) ==
  /\ writer = Nobody
  /\ writer' = c /\ work' = Current
  /\ UNCHANGED <<log, writes, users>>

\* A statement that makes image of what c reads, inside the connection's
\* transaction or by itself.  One that finds no row to change writes nothing.
Execute(c, image) ==
  /\ writes < MaxWrites /\ writes' = writes + 1 /\ UNCHANGED users
  /\ image # View(c)
  /\ \/ writer = c /\ UNCHANGED <<log, writer>>
     \/ writer = Nobody /\ Land(image) /\ UNCHANGED writer
  /\ work' = image

Commit(c) ==
  /\ writer = c
  /\ IF work = Current THEN UNCHANGED log ELSE Land(work)
  /\ writer' = Nobody
  /\ UNCHANGED <<work, writes, users>>

\* A transaction dropped before its commit.
Rollback(c) ==
  /\ writer = c
  /\ writer' = Nobody /\ work' = Current
  /\ UNCHANGED <<log, writes, users>>

\* The process of c ends: what it had not committed is gone.
Abandon(c) == IF writer = c THEN Rollback(c) ELSE UNCHANGED file

Checkpoint ==
  /\ Len(log) > 1
  /\ log' = <<Current>>
  /\ UNCHANGED <<writer, work, writes, users>>

\* synchronous NORMAL: "a power cut can cost the most recent ones".
PowerCut ==
  /\ \E n \in 1 .. Len(log) : log' = SubSeq(log, 1, n)
  /\ writer' = Nobody /\ work' = Current'
  /\ UNCHANGED <<writes, users>>
============================================================================
