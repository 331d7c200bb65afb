--------------------------- MODULE FileTransport ---------------------------
(***************************************************************************)
(* The shared directory of bin/chat-cli/src/transport/file.rs: processes   *)
(* append frames to one file per address and hour, each frame in two       *)
(* writes, and the reader thread of one of them polls every file and       *)
(* offers the frames to the bounded channel its client drains.             *)
(***************************************************************************)
EXTENDS Integers, Sequences

CONSTANTS
  Paths,      \* the .bin files in the order collect_bin_files sorts them
  Writers,    \* the processes that publish
  Idle,       \* a writer between two calls of publish
  Garbage,    \* a payload cut from the wrong bytes
  Capacity,   \* slots of the inbound channel
  MaxEnvelopes, \* bound: calls of publish
  MaxFailures   \* bound: calls that fail half-way

VARIABLES
  file,       \* what each file holds: the length or the payload of an envelope
  writing,    \* the envelope whose length, but not payload, a process has written
  offset,     \* where the reader stands in each file, counted from 1
  aligned,    \* the reader stands at a boundary of two writes
  pass,       \* the files left in the reader's current pass
  inbound,    \* the channel to the client
  taken,      \* history: what the reader took from each file, and whether it was
              \* sent on or dropped by a full channel
  published, failures

vars == <<file, writing, offset, aligned, pass, inbound, taken, published, failures>>

ASSUME TransportAssumption ==
  /\ Capacity \in Nat \ {0} /\ MaxEnvelopes \in Nat /\ MaxFailures \in Nat

Files == {Paths[i] : i \in DOMAIN Paths}
Envelopes == [id : 1 .. MaxEnvelopes, to : Files]
Parts == [part : {"length", "payload"}, of : Envelopes]
Len4(e) == [part |-> "length", of |-> e]
Payload(e) == [part |-> "payload", of |-> e]

TypeOK ==
  /\ file \in [Files -> Seq(Parts)]
  /\ writing \in [Writers -> Envelopes \cup {Idle}]
  /\ offset \in [Files -> Nat \ {0}] /\ aligned \in [Files -> BOOLEAN]
  /\ \A f \in Files : offset[f] <= Len(file[f]) + 1
  /\ pass \in Seq(Files)
  /\ inbound \in Seq(Envelopes \cup {Garbage}) /\ Len(inbound) <= Capacity
  /\ taken \in [Files -> Seq([frame : Envelopes \cup {Garbage}, sent : BOOLEAN])]
  /\ published \in 0 .. MaxEnvelopes /\ failures \in 0 .. MaxFailures

Init ==
  /\ file = [f \in Files |-> <<>>]
  /\ writing = [w \in Writers |-> Idle]
  /\ offset = [f \in Files |-> 1] /\ aligned = [f \in Files |-> TRUE]
  /\ pass = <<>> /\ inbound = <<>>
  /\ taken = [f \in Files |-> <<>>]
  /\ published = 0 /\ failures = 0

----------------------------------------------------------------------------
\* FileTransport::publish appends twice, with nothing to keep the writes of
\* two processes apart.
BeginPublish(w, f) ==
  LET e == [id |-> published + 1, to |-> f]
  IN  /\ writing[w] = Idle /\ published < MaxEnvelopes
      /\ published' = published + 1
      /\ writing' = [writing EXCEPT ![w] = e]
      /\ file' = [file EXCEPT ![f] = Append(@, Len4(e))]
      /\ UNCHANGED <<offset, aligned, pass, inbound, taken, failures>>

EndPublish(w) ==
  /\ writing[w] # Idle
  /\ writing' = [writing EXCEPT ![w] = Idle]
  /\ file' = [file EXCEPT ![writing[w].to] = Append(@, Payload(writing[w]))]
  /\ UNCHANGED <<offset, aligned, pass, inbound, taken, published, failures>>

\* The second write fails, or the process ends before it.
AbandonPublish(w) ==
  /\ writing[w] # Idle /\ failures < MaxFailures
  /\ failures' = failures + 1
  /\ writing' = [writing EXCEPT ![w] = Idle]
  /\ UNCHANGED <<file, offset, aligned, pass, inbound, taken, published>>

----------------------------------------------------------------------------
\* Mutant: files that were read before are not collected again.
CollectUnread == SelectSeq(Paths, LAMBDA f : file[f] # <<>> /\ offset[f] = 1)

CollectBinFiles == SelectSeq(Paths, LAMBDA f : file[f] # <<>>)

StartPass ==
  /\ pass = <<>>
  /\ pass' = CollectBinFiles
  /\ UNCHANGED <<file, writing, offset, aligned, inbound, taken, published, failures>>

\* Mutant: a length is enough to take the frame.
HeaderAt(f) ==
  /\ aligned[f] /\ offset[f] <= Len(file[f])
  /\ file[f][offset[f]].part = "length"

\* Both read_exact calls succeed and cut out one envelope.
FrameAt(f) ==
  /\ aligned[f] /\ offset[f] < Len(file[f])
  /\ file[f][offset[f]].part = "length"
  /\ file[f][offset[f] + 1] = Payload(file[f][offset[f]].of)

\* A length whose payload is still to come.
PartialAt(f) ==
  /\ aligned[f] /\ offset[f] = Len(file[f])
  /\ file[f][offset[f]].part = "length"

AtEnd(f) == offset[f] > Len(file[f])

\* tx.try_send, whose result nobody looks at: a full channel drops the payload,
\* and the offset moves on anyway.
Offer(f, p) ==
  LET room == Len(inbound) < Capacity
  IN  /\ inbound' = IF room THEN Append(inbound, p) ELSE inbound
      /\ taken' = [taken EXCEPT ![f] = Append(@, [frame |-> p, sent |-> room])]

ReadFrame ==
  /\ pass # <<>>
  /\ LET f == Head(pass)
         e == file[f][offset[f]].of
     IN  /\ FrameAt(f)
         /\ Offer(f, e)
         /\ offset' = [offset EXCEPT ![f] = @ + 2]
  /\ UNCHANGED <<file, writing, aligned, pass, published, failures>>

\* The bytes at the offset are not a length followed by its payload: the
\* length read may cut out anything that is there, and leave the reader
\* anywhere after it.
ReadGarbage ==
  /\ pass # <<>>
  /\ LET f == Head(pass)
     IN  /\ ~FrameAt(f) /\ ~PartialAt(f) /\ ~AtEnd(f)
         /\ Offer(f, Garbage)
         /\ \E k \in offset[f] + 1 .. Len(file[f]) + 1 : offset' = [offset EXCEPT ![f] = k]
         /\ \E b \in BOOLEAN : aligned' = [aligned EXCEPT ![f] = b]
  /\ UNCHANGED <<file, writing, pass, published, failures>>

\* A read comes up short: on to the next file.
NextFile ==
  /\ pass # <<>> /\ ~FrameAt(Head(pass))
  /\ pass' = Tail(pass)
  /\ UNCHANGED <<file, writing, offset, aligned, inbound, taken, published, failures>>

PollReader == StartPass \/ ReadFrame \/ ReadGarbage \/ NextFile

\* The client's worker takes the next payload.
Receive ==
  /\ inbound # <<>>
  /\ inbound' = Tail(inbound)
  /\ UNCHANGED <<file, writing, offset, aligned, pass, taken, published, failures>>

Next ==
  \/ PollReader \/ Receive
  \/ \E w \in Writers :
       EndPublish(w) \/ AbandonPublish(w) \/ \E f \in Files : BeginPublish(w, f)

\* The reader thread never stops polling.
Spec == Init /\ [][Next]_vars /\ WF_vars(PollReader)

----------------------------------------------------------------------------
\* The i-th frame of the file was written by one publish alone.
IsWhole(f, i) ==
  /\ 2 * i <= Len(file[f]) /\ file[f][2 * i - 1].part = "length"
  /\ file[f][2 * i] = Payload(file[f][2 * i - 1].of)

\* The first n frames of the file are whole: no two publishes overlapped there and
\* none was cut short.
WholeUpTo(f, n) == \A i \in 1 .. n : IsWhole(f, i)

\* No two publishes overlapped anywhere in the file and none was cut short.
Untorn(f) ==
  \A i \in 1 .. Len(file[f]) :
    IF i % 2 = 1 THEN file[f][i].part = "length"
                 ELSE file[f][i] = Payload(file[f][i - 1].of)

\* The reader cuts out exactly the envelopes written to a file, whole, in order
\* and once, however its polls fall between the two writes of each and whether
\* or not the channel had room for the ones before; two publishes that overlap,
\* or one cut short, spoil nothing of what was written before them.
WholeFramesOnly ==
  \A f \in Files :
    /\ \A n \in 1 .. Len(taken[f]) :
         WholeUpTo(f, n) => file[f][2 * n] = Payload(taken[f][n].frame)
    /\ Untorn(f) \/ WholeUpTo(f, Len(taken[f])) =>
         aligned[f] /\ offset[f] = 2 * Len(taken[f]) + 1 /\ offset[f] <= Len(file[f]) + 1

\* "forwards every frame to the inbound stream": not when the channel is full.
EveryFrameForwarded == \A f \in Files : \A i \in 1 .. Len(taken[f]) : taken[f][i].sent

\* The reader keeps up: whatever ends up in an untorn file is taken from it, no
\* matter how far it had read the file before.
KeepsUp == <>[](\A f \in Files : Untorn(f) => Len(file[f]) <= offset[f])
=============================================================================
