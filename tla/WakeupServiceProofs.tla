------------------------ MODULE WakeupServiceProofs ------------------------
(***************************************************************************)
(* Proofs about WakeupService, for any number of registrations.            *)
(***************************************************************************)
EXTENDS WakeupService, SequenceTheorems, TLAPS

\* Every step keeps the types.
LEMMA TypeStep == TypeOK /\ [Next]_vars => TypeOK'
<1> SUFFICES ASSUME TypeOK, [Next]_vars PROVE TypeOK'
  OBVIOUS
<1> USE WakeupAssumption DEF TypeOK
<1>1. ASSUME NEW d \in Durations, NEW c \in Convos, WakeupIn(d, c)
      PROVE  TypeOK'
  <2>1. [ticket |-> armed + 1, expiry |-> now + d, convo |-> c] \in WakeupRecord
    BY <1>1 DEF WakeupIn, WakeupRecord
  <2> QED BY <1>1, <2>1 DEF WakeupIn, NotifyOne
<1>2. CASE DropStore
  BY <1>2 DEF DropStore
<1>3. CASE DropStep
  BY <1>3 DEF DropStep, DropNotify, DropJoin, NotifyOne
<1>4. CASE ThreadLock \/ ThreadCheck
  BY <1>4 DEF ThreadLock, ThreadCheck
<1>5. CASE ThreadPeek
  <2>1. \A r \in pending : r.expiry \in 0 .. MaxTime
    BY DEF WakeupRecord
  <2>2. CASE pending = {} /\ Park(Never)
    BY <1>5, <2>2 DEF ThreadPeek, Park
  <2>3. CASE \E r \in Nearest : ~Expired(r) /\ Park(r.expiry)
    BY <1>5, <2>1, <2>3 DEF ThreadPeek, Park, Nearest
  <2>4. CASE \E r \in Nearest : Expired(r) /\ Pop(r)
    BY <1>5, <2>4 DEF ThreadPeek, Pop, Nearest
  <2> QED BY <1>5, <2>2, <2>3, <2>4 DEF ThreadPeek
<1>6. CASE ThreadWake \/ SpuriousWake
  BY <1>6 DEF ThreadWake, SpuriousWake, Resume
<1>7. CASE ThreadSend
  <2>1. sent' \in Seq(WakeupRecord)
    <3>1. PICK r \in inHand : sent' = IF receiver THEN Append(sent, r) ELSE sent
      BY <1>7 DEF ThreadSend
    <3>2. r \in WakeupRecord
      OBVIOUS
    <3> QED BY <3>1, <3>2, AppendProperties
  <2> QED BY <1>7, <2>1 DEF ThreadSend
<1>8. CASE ReceiverGone
  BY <1>8 DEF ReceiverGone
<1>9. CASE Tick
  BY <1>9 DEF Tick
<1>10. CASE UNCHANGED vars
  BY <1>10 DEF vars
<1> QED BY <1>1, <1>2, <1>3, <1>4, <1>5, <1>6, <1>7, <1>8, <1>9, <1>10 DEF Next, ThreadStep

\* new() starts with an empty heap and a live thread.
LEMMA TypeInit == Init => TypeOK
<1> SUFFICES ASSUME Init PROVE TypeOK
  OBVIOUS
<1>1. sent \in Seq(WakeupRecord)
  BY EmptySeq DEF Init
<1>2. now \in 0 .. MaxTime /\ armed \in 0 .. MaxArmed
  BY WakeupAssumption DEF Init
<1>3. running \in BOOLEAN /\ notified \in BOOLEAN /\ receiver \in BOOLEAN
  BY DEF Init
<1> QED BY <1>1, <1>2, <1>3 DEF Init, TypeOK

\* The service's state stays well typed.
THEOREM TypeCorrect == Spec => []TypeOK
<1> QED BY TypeInit, TypeStep, PTL DEF Spec, SafeSpec

----------------------------------------------------------------------------
\* What a send does to the stream of events.
LEMMA SendFacts ==
  ASSUME TypeOK, ThreadSend
  PROVE  \/ sent' = sent
         \/ \E r \in inHand :
              /\ Len(sent') = Len(sent) + 1 /\ Len(sent) \in Nat
              /\ sent'[Len(sent) + 1] = r
              /\ \A i \in 1 .. Len(sent) : sent'[i] = sent[i]
<1>1. PICK r \in inHand : sent' = IF receiver THEN Append(sent, r) ELSE sent
  BY DEF ThreadSend
<1>2. sent \in Seq(WakeupRecord) /\ r \in WakeupRecord
  BY DEF TypeOK
<1> QED BY <1>1, <1>2, AppendProperties, LenProperties

\* Expiries and tickets are numbers, wherever a record is.
LEMMA RecordFacts ==
  ASSUME TypeOK
  PROVE  /\ \A r \in pending \cup inHand : r.expiry \in Nat /\ r.ticket \in Nat
         /\ \A i \in 1 .. Len(sent) : sent[i].expiry \in Nat /\ sent[i].ticket \in Nat
         /\ now \in Nat /\ armed \in Nat
<1>1. \A r \in WakeupRecord : r.expiry \in Nat /\ r.ticket \in Nat
  BY WakeupAssumption DEF WakeupRecord
<1>2. \A i \in 1 .. Len(sent) : sent[i] \in WakeupRecord
  BY ElementOfSeq DEF TypeOK
<1> QED BY <1>1, <1>2, WakeupAssumption DEF TypeOK

\* WakeupInv is inductive, given the types.
LEMMA WakeupStep == TypeOK /\ WakeupInv /\ [Next]_vars => WakeupInv'
<1> SUFFICES ASSUME TypeOK, WakeupInv, [Next]_vars PROVE WakeupInv'
  OBVIOUS
<1> USE DEF WakeupInv
<1>0. /\ \A r \in pending \cup inHand : r.expiry \in Nat
      /\ \A i \in 1 .. Len(sent) : sent[i].expiry \in Nat
      /\ now \in Nat
  BY RecordFacts
<1>1. ASSUME NEW d \in Durations, NEW c \in Convos, WakeupIn(d, c)
      PROVE  WakeupInv'
  <2> DEFINE new == [ticket |-> armed + 1, expiry |-> now + d, convo |-> c]
  <2>1. new.expiry \in Nat /\ now <= new.expiry
    BY <1>0, WakeupAssumption
  <2>2. /\ pending' = pending \cup {new} /\ NotifyOne
        /\ UNCHANGED <<now, thread, deadline, inHand, sent>>
    BY <1>1 DEF WakeupIn
  <2> HIDE DEF new
  <2>3. NeverOversleeps'
    BY <2>2 DEF NotifyOne, NeverOversleeps
  <2>4. NeverEarly' /\ SentInOrder'
    BY <2>2 DEF NeverEarly, SentInOrder
  <2>5. QueuedIsLater' /\ InHandIsNearest'
    BY <1>0, <2>1, <2>2 DEF QueuedIsLater, InHandIsNearest, NeverEarly
  <2> QED BY <2>3, <2>4, <2>5
<1>2. ASSUME NotifyOne \/ notified' = notified,
             UNCHANGED <<now, pending, thread, deadline, inHand, sent>>
      PROVE  WakeupInv'
  BY <1>2 DEF NotifyOne, NeverOversleeps, NeverEarly, SentInOrder, QueuedIsLater, InHandIsNearest
<1>3. ASSUME thread' # "wait", UNCHANGED <<now, pending, inHand, sent>>
      PROVE  WakeupInv'
  BY <1>3 DEF NeverOversleeps, NeverEarly, SentInOrder, QueuedIsLater, InHandIsNearest
<1>4. CASE ThreadPeek
  <2>0. now' = now /\ sent' = sent
    BY <1>4 DEF ThreadPeek
  <2>1. CASE pending = {} /\ Park(Never)
    BY <2>0, <2>1
       DEF Park, NeverOversleeps, NeverEarly, SentInOrder, QueuedIsLater, InHandIsNearest
  <2>2. ASSUME NEW r \in Nearest, Park(r.expiry)
        PROVE  WakeupInv'
    <3>1. NeverOversleeps'
      BY <1>0, <2>2 DEF Park, Nearest, NeverOversleeps, Never
    <3> QED BY <3>1, <2>0, <2>2 DEF Park, NeverEarly, SentInOrder, QueuedIsLater, InHandIsNearest
  <2>3. ASSUME NEW r \in Nearest, Expired(r), Pop(r)
        PROVE  WakeupInv'
    BY <2>0, <2>3 DEF Pop, Nearest, Expired,
         NeverOversleeps, NeverEarly, SentInOrder, QueuedIsLater, InHandIsNearest
  <2> QED BY <1>4, <2>1, <2>2, <2>3 DEF ThreadPeek
<1>5. CASE ThreadSend
  <2>1. thread' # "wait" /\ inHand' = {} /\ UNCHANGED <<now, pending>>
    BY <1>5 DEF ThreadSend
  <2>2. CASE sent' = sent
    BY <2>1, <2>2 DEF NeverOversleeps, NeverEarly, SentInOrder, QueuedIsLater, InHandIsNearest
  <2>3. ASSUME NEW r \in inHand, Len(sent') = Len(sent) + 1, Len(sent) \in Nat,
               sent'[Len(sent) + 1] = r, \A i \in 1 .. Len(sent) : sent'[i] = sent[i]
        PROVE  WakeupInv'
    <3>1. \A i \in 1 .. Len(sent') :
            \/ i \in 1 .. Len(sent) /\ sent'[i] = sent[i]
            \/ i = Len(sent) + 1 /\ sent'[i] = r
      BY <2>3
    <3>2. NeverOversleeps' /\ NeverEarly' /\ InHandIsNearest'
      BY <2>1, <3>1 DEF NeverOversleeps, NeverEarly, InHandIsNearest
    <3>3. SentInOrder'
      BY <3>1, <1>0, <2>3 DEF SentInOrder, QueuedIsLater
    <3>4. QueuedIsLater'
      BY <2>1, <3>1 DEF QueuedIsLater, InHandIsNearest
    <3> QED BY <3>2, <3>3, <3>4
  <2> QED BY <1>5, <2>2, <2>3, SendFacts
<1>6. CASE Tick
  BY <1>0, <1>6 DEF Tick, NeverOversleeps, NeverEarly, SentInOrder, QueuedIsLater, InHandIsNearest
<1>7. CASE DropStore \/ DropStep \/ ReceiverGone
  BY <1>2, <1>7 DEF DropStore, DropStep, DropNotify, DropJoin, ReceiverGone
<1>8. CASE ThreadLock \/ ThreadCheck \/ ThreadWake \/ SpuriousWake
  BY <1>3, <1>8 DEF ThreadLock, ThreadCheck, ThreadWake, SpuriousWake, Resume
<1>9. CASE UNCHANGED vars
  BY <1>2, <1>9 DEF vars
<1> QED BY <1>1, <1>4, <1>5, <1>6, <1>7, <1>8, <1>9 DEF Next, ThreadStep

\* Nothing is armed, taken or sent at the start.
LEMMA WakeupInit == Init => WakeupInv
BY DEF Init, WakeupInv, NeverOversleeps, NeverEarly, SentInOrder, QueuedIsLater, InHandIsNearest

\* A parked thread that nobody notified wakes by the nearest deadline.
THEOREM NoOversleep == Spec => []NeverOversleeps
<1>1. TypeOK /\ WakeupInv /\ [Next]_vars => TypeOK' /\ WakeupInv'
  BY TypeStep, WakeupStep
<1>2. WakeupInv => NeverOversleeps
  BY DEF WakeupInv
<1> QED BY <1>1, <1>2, TypeInit, WakeupInit, PTL DEF Spec, SafeSpec

\* Wakeups leave in the order of their deadlines.
THEOREM InOrder == Spec => []SentInOrder
<1>1. TypeOK /\ WakeupInv /\ [Next]_vars => TypeOK' /\ WakeupInv'
  BY TypeStep, WakeupStep
<1>2. WakeupInv => SentInOrder
  BY DEF WakeupInv
<1> QED BY <1>1, <1>2, TypeInit, WakeupInit, PTL DEF Spec, SafeSpec

----------------------------------------------------------------------------
\* A registration gets a ticket of its own, and a ticket moves from the heap
\* to the thread's hand to the stream, never back and never twice.
LEMMA OnceStep == TypeOK /\ TicketsIssued /\ SentOnce /\ [Next]_vars => TicketsIssued' /\ SentOnce'
<1> SUFFICES ASSUME TypeOK, TicketsIssued, SentOnce, [Next]_vars
             PROVE  TicketsIssued' /\ SentOnce'
  OBVIOUS
<1>0. /\ \A r \in pending \cup inHand : r.ticket \in Nat
      /\ \A i \in 1 .. Len(sent) : sent[i].ticket \in Nat
      /\ armed \in Nat
  BY RecordFacts
<1>1. ASSUME NEW d \in Durations, NEW c \in Convos, WakeupIn(d, c)
      PROVE  TicketsIssued' /\ SentOnce'
  <2> DEFINE new == [ticket |-> armed + 1, expiry |-> now + d, convo |-> c]
  <2>1. new.ticket = armed + 1
    OBVIOUS
  <2>2. pending' = pending \cup {new} /\ armed' = armed + 1 /\ UNCHANGED <<inHand, sent>>
    BY <1>1 DEF WakeupIn
  <2> HIDE DEF new
  <2>3. /\ \A r \in pending \cup inHand : r.ticket # new.ticket
        /\ \A i \in 1 .. Len(sent) : sent[i].ticket # new.ticket
    BY <1>0, <2>1 DEF TicketsIssued
  <2>4. TicketsIssued'
    BY <1>0, <2>1, <2>2 DEF TicketsIssued
  <2>5. SentOnce'
    BY <2>2, <2>3 DEF SentOnce
  <2> QED BY <2>4, <2>5
<1>2. ASSUME UNCHANGED <<armed, pending, inHand, sent>>
      PROVE  TicketsIssued' /\ SentOnce'
  BY <1>2 DEF TicketsIssued, SentOnce
<1>3. CASE ThreadPeek
  <2>0. armed' = armed /\ sent' = sent
    BY <1>3 DEF ThreadPeek
  <2>1. ASSUME NEW r \in Nearest, Pop(r)
        PROVE  TicketsIssued' /\ SentOnce'
    <3>1. r \in pending /\ pending' = pending \ {r} /\ inHand' = {r}
      BY <2>1 DEF Pop, Nearest
    <3>2. TicketsIssued'
      BY <2>0, <3>1 DEF TicketsIssued
    <3>3. SentOnce'
      BY <2>0, <3>1 DEF SentOnce
    <3> QED BY <3>2, <3>3
  <2> QED BY <1>2, <1>3, <2>0, <2>1 DEF ThreadPeek, Park
<1>4. CASE ThreadSend
  <2>1. inHand' = {} /\ UNCHANGED <<armed, pending>>
    BY <1>4 DEF ThreadSend
  <2>2. CASE sent' = sent
    BY <2>1, <2>2 DEF TicketsIssued, SentOnce
  <2>3. ASSUME NEW r \in inHand, Len(sent') = Len(sent) + 1, Len(sent) \in Nat,
               sent'[Len(sent) + 1] = r, \A i \in 1 .. Len(sent) : sent'[i] = sent[i]
        PROVE  TicketsIssued' /\ SentOnce'
    <3>1. \A i \in 1 .. Len(sent') :
            \/ i \in 1 .. Len(sent) /\ sent'[i] = sent[i]
            \/ i = Len(sent) + 1 /\ sent'[i] = r
      BY <2>3
    <3>2. TicketsIssued'
      BY <2>1, <3>1 DEF TicketsIssued
    <3>3. \A i \in 1 .. Len(sent) : sent[i].ticket # r.ticket
      BY DEF SentOnce
    <3>4. \A q \in pending : q.ticket # r.ticket
      BY DEF SentOnce
    <3>5. SentOnce'
      <4>1. \A i, j \in 1 .. Len(sent') : sent'[i].ticket = sent'[j].ticket => i = j
        BY <3>1, <3>3 DEF SentOnce
      <4>2. \A i \in 1 .. Len(sent'), q \in pending : sent'[i].ticket # q.ticket
        BY <3>1, <3>4 DEF SentOnce
      <4> QED BY <2>1, <4>1, <4>2 DEF SentOnce
    <3> QED BY <3>2, <3>5
  <2> QED BY <1>4, <2>2, <2>3, SendFacts
<1>5. CASE DropStore \/ DropStep \/ ReceiverGone \/ Tick
  BY <1>2, <1>5 DEF DropStore, DropStep, DropNotify, DropJoin, ReceiverGone, Tick
<1>6. CASE ThreadLock \/ ThreadCheck \/ ThreadWake \/ SpuriousWake
  BY <1>2, <1>6 DEF ThreadLock, ThreadCheck, ThreadWake, SpuriousWake, Resume
<1>7. CASE UNCHANGED vars
  BY <1>2, <1>7 DEF vars
<1> QED BY <1>1, <1>3, <1>4, <1>5, <1>6, <1>7 DEF Next, ThreadStep

\* No registration is sent twice, whatever the timing of callers, thread,
\* spurious wakeups and shutdown.
THEOREM AtMostOnce == Spec => []SentOnce
<1>1. Init => TicketsIssued /\ SentOnce
  BY DEF Init, TicketsIssued, SentOnce
<1>2. TypeOK /\ TicketsIssued /\ SentOnce /\ [Next]_vars
        => TypeOK' /\ TicketsIssued' /\ SentOnce'
  BY TypeStep, OnceStep
<1> QED BY <1>1, <1>2, TypeInit, PTL DEF Spec, SafeSpec
=============================================================================
