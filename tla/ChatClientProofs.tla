-------------------------- MODULE ChatClientProofs -------------------------
(***************************************************************************)
(* Proofs about ChatClient, for any conversations and any number of        *)
(* frames, messages and wakeups.                                           *)
(***************************************************************************)
EXTENDS ChatClient, TLAPS

\* Most leaves are first-order reasoning; the others are arithmetic.
USE ZenonT(2), SMT

\* What is on its way to the application: the channel, then what the worker has
\* yet to send.
Queue == events \o batch
In(v, q) == \E i \in 1 .. Len(q) : q[i] = v
ReceivedEvent(m) == [kind |-> "received", convo |-> m[1], id |-> m[2]]
AckedEvent(m) == [kind |-> "acked", convo |-> m[1], id |-> m[2]]

Live == Running \/ phase = "opening"

\* The members of any part of S can be listed, each once, in at most u places.
Listable(S, u) ==
  \A T \in SUBSET S : \E n \in 0 .. u : \E s \in [1 .. n -> T] :
    \A m \in T : \E i \in 1 .. n : \A j \in 1 .. n : s[j] = m <=> j = i

\* Frames and events.  Ids are given out once, to a message of this client or
\* to a frame of a peer, and a frame acknowledges what was sent.
FrameOK(e, u, s) ==
  /\ e.id <= u /\ <<e.convo, e.id>> \notin s /\ e.acks \subseteq s
  /\ e.kind = "welcome" => e.convo \notin Mine
IdsInv ==
  /\ \A m \in sent : m[2] <= used
  /\ Listable(sent, used)
  /\ \A i \in 1 .. Len(inbound) : FrameOK(inbound[i], used, sent)
  /\ worker = "select" => batch = <<>>

\* The application by its phase.
PhaseInv ==
  /\ Live => receiver
  /\ phase = "opening" =>
       /\ chats = {} /\ shown = {} /\ delivered = {} /\ active = NoChat /\ ~isActive
       /\ sent = {} /\ deleted = {} /\ saved = <<Restored, Restored \X {0}, {}>>
  /\ phase \in {"drain", "input", "sending", "creating"} => saved = <<chats, shown, delivered>>
  /\ phase = "sending" => echo[1] \in chats

\* A conversation the application has a chat for, has deleted, or is about to
\* add one for.
Known(c) == c \in chats \cup deleted \/ (phase = "creating" /\ echo[1] = c)

\* An event the application can make sense of when it gets to it: a conversation
\* this client did not create starts, and content comes after the start.
EventOK(q, i) ==
  /\ q[i].kind = "started" => q[i].convo \notin Mine
  /\ q[i].kind = "received" =>
       /\ <<q[i].convo, q[i].id>> \notin sent /\ q[i].id <= used
       /\ Known(q[i].convo) \/ \E j \in 1 .. i - 1 : q[j] = Event("started", q[i].convo)

\* The chats of this client's own conversations are those it has created.
OwnInv ==
  chats \cap Mine \subseteq loaded /\ (phase = "creating" => echo[1] \in (Mine \cap loaded) \ chats)
OrderInv == \A i \in 1 .. Len(Queue) : EventOK(Queue, i)
LoadedInv == \A c \in loaded : Known(c) \/ In(Event("started", c), Queue)

\* The properties, which hold of a message that is about to be echoed as well.
ContentInv == \A m \in surfaced : m \in shown \/ m[1] \in deleted \/ In(ReceivedEvent(m), Queue)
AckInv ==
  \A m \in acked : m \in shown \/ (phase = "sending" /\ m = echo) =>
    m \in delivered \/ In(AckedEvent(m), Queue)
FlagInv ==
  \/ unsynced \/ (isActive <=> CanSend(active))
  \/ In(Event("changed", active), Queue) \/ In(Event("started", active), Queue)

QueueInv == Live => OwnInv /\ OrderInv /\ LoadedInv /\ ContentInv /\ AckInv /\ FlagInv

\* What a batch of events tells of the step that made it.
Tells(es) ==
  /\ \A i \in 1 .. Len(es) :
       /\ es[i].kind = "started" => es[i].convo \notin Mine
       /\ es[i].kind = "received" =>
            <<es[i].convo, es[i].id>> \notin sent /\ es[i].id <= used /\ es[i].convo \in loaded
  /\ loaded \subseteq loaded' /\ \A c \in loaded' \ loaded : In(Event("started", c), es)
  /\ \A m \in surfaced' \ surfaced : In(ReceivedEvent(m), es)
  /\ \A m \in acked' \ acked : In(AckedEvent(m), es)
  /\ \/ active \in seated' <=> active \in seated
     \/ In(Event("changed", active), es) \/ In(Event("started", active), es) \/ unsynced'

----------------------------------------------------------------------------
\* What is known of any sequence.
LEMMA SeqFacts ==
  ASSUME NEW S, NEW q \in Seq(S)
  PROVE  /\ Len(q) \in Nat /\ \A i \in 1 .. Len(q) : q[i] \in S
         /\ q = <<>> <=> Len(q) = 0
         /\ q # <<>> => /\ Head(q) \in S /\ Head(q) = q[1] /\ Tail(q) \in Seq(S) /\ Len(Tail(q)) = Len(q) - 1
                        /\ Len(q) \in Nat \ {0} /\ \A i \in 1 .. Len(q) - 1 : Tail(q)[i] = q[i + 1]
  OBVIOUS

\* Sequences over more are more sequences.
LEMMA SeqWider == ASSUME NEW S, NEW T, S \subseteq T PROVE Seq(S) \subseteq Seq(T)
  OBVIOUS

\* What is known of two sequences, one behind the other.
LEMMA ConcatFacts ==
  ASSUME NEW S, NEW q \in Seq(S), NEW r \in Seq(S)
  PROVE  /\ q \o r \in Seq(S) /\ Len(q \o r) = Len(q) + Len(r) /\ Len(q) \in Nat /\ Len(r) \in Nat
         /\ \A i \in 1 .. Len(q) + Len(r) : (q \o r)[i] = IF i <= Len(q) THEN q[i] ELSE r[i - Len(q)]
  OBVIOUS

\* Putting events behind a queue adds them and loses none.
LEMMA InConcat ==
  ASSUME NEW S, NEW q \in Seq(S), NEW r \in Seq(S)
  PROVE  \A v : In(v, q \o r) <=> In(v, q) \/ In(v, r)
<1>1. /\ Len(q \o r) = Len(q) + Len(r) /\ Len(q) \in Nat /\ Len(r) \in Nat
      /\ \A i \in 1 .. Len(q) + Len(r) : (q \o r)[i] = IF i <= Len(q) THEN q[i] ELSE r[i - Len(q)]
  OBVIOUS
<1>2. ASSUME NEW v, In(v, q \o r) PROVE In(v, q) \/ In(v, r)
  <2>1. PICK i \in 1 .. Len(q) + Len(r) : (q \o r)[i] = v
    BY <1>1, <1>2 DEF In
  <2>2. CASE i <= Len(q)
    BY <1>1, <2>1, <2>2 DEF In
  <2>3. CASE ~(i <= Len(q))
    <3>1. i - Len(q) \in 1 .. Len(r) /\ r[i - Len(q)] = v
      BY <1>1, <2>1, <2>3
    <3> QED BY <3>1 DEF In
  <2> QED BY <2>2, <2>3
<1>3. ASSUME NEW v, In(v, q) PROVE In(v, q \o r)
  BY <1>1, <1>3 DEF In
<1>4. ASSUME NEW v, In(v, r) PROVE In(v, q \o r)
  <2>1. PICK i \in 1 .. Len(r) : r[i] = v
    BY <1>4 DEF In
  <2>2. i + Len(q) \in 1 .. Len(q) + Len(r) /\ (q \o r)[i + Len(q)] = v
    BY <1>1, <2>1
  <2> QED BY <1>1, <2>2 DEF In
<1> QED BY <1>2, <1>3, <1>4

\* Where they are then.
LEMMA ConcatIndex ==
  ASSUME NEW S, NEW q \in Seq(S), NEW r \in Seq(S), NEW p, p = q \o r, NEW i \in 1 .. Len(p)
  PROVE  /\ i <= Len(q) => i \in 1 .. Len(q) /\ p[i] = q[i] /\ \A j \in 1 .. i - 1 : p[j] = q[j]
         /\ ~(i <= Len(q)) =>
              /\ i - Len(q) \in 1 .. Len(r) /\ p[i] = r[i - Len(q)]
              /\ \A j \in 1 .. Len(q) : j \in 1 .. i - 1 /\ p[j] = q[j]
  BY ConcatFacts

\* Taking the first event off a queue loses only that one.
LEMMA InTail ==
  ASSUME NEW S, NEW q \in Seq(S), q # <<>>
  PROVE  /\ Tail(q) \in Seq(S) /\ Len(Tail(q)) = Len(q) - 1 /\ Head(q) = q[1]
         /\ \A i \in 1 .. Len(q) - 1 : Tail(q)[i] = q[i + 1]
         /\ \A v : In(v, q) => v = Head(q) \/ In(v, Tail(q))
<1>1. /\ Tail(q) \in Seq(S) /\ Len(Tail(q)) = Len(q) - 1 /\ Head(q) = q[1] /\ Len(q) \in Nat \ {0}
      /\ \A i \in 1 .. Len(q) - 1 : Tail(q)[i] = q[i + 1]
  OBVIOUS
<1>2. ASSUME NEW v, In(v, q), v # Head(q) PROVE In(v, Tail(q))
  <2>1. PICK i \in 1 .. Len(q) : q[i] = v
    BY <1>2 DEF In
  <2>2. i - 1 \in 1 .. Len(q) - 1 /\ Tail(q)[i - 1] = v
    BY <1>1, <1>2, <2>1
  <2> QED BY <1>1, <2>2 DEF In
<1> QED BY <1>1, <1>2

\* The worker sends the next event of its batch: the queue stays as it is.
LEMMA EmitKeepsQueue ==
  ASSUME NEW S, NEW q \in Seq(S), NEW r \in Seq(S), r # <<>>
  PROVE  Append(q, Head(r)) \o Tail(r) = q \o r
<1>1. Head(r) \in S /\ Tail(r) \in Seq(S) /\ r = <<Head(r)>> \o Tail(r)
  OBVIOUS
<1>2. Append(q, Head(r)) = q \o <<Head(r)>> /\ <<Head(r)>> \in Seq(S)
  BY <1>1
<1>3. (q \o <<Head(r)>>) \o Tail(r) = q \o (<<Head(r)>> \o Tail(r))
  BY <1>1, <1>2
<1> QED BY <1>1, <1>2, <1>3

\* The application takes the first event of the channel: it is the first of the
\* queue.
LEMMA TakeFromQueue ==
  ASSUME NEW S, NEW q \in Seq(S), NEW r \in Seq(S), q # <<>>
  PROVE  q \o r # <<>> /\ Head(q \o r) = Head(q) /\ Tail(q \o r) = Tail(q) \o r
<1>1. /\ q \o r \in Seq(S) /\ Len(q \o r) = Len(q) + Len(r)
      /\ \A i \in 1 .. Len(q) + Len(r) : (q \o r)[i] = IF i <= Len(q) THEN q[i] ELSE r[i - Len(q)]
  OBVIOUS
<1>2. Len(q) \in Nat \ {0} /\ Len(r) \in Nat
  OBVIOUS
<1>3. q \o r # <<>>
  BY <1>1, <1>2
<1>4. /\ Tail(q) \in Seq(S) /\ Len(Tail(q)) = Len(q) - 1 /\ Head(q) = q[1]
      /\ \A i \in 1 .. Len(q) - 1 : Tail(q)[i] = q[i + 1]
  BY InTail
<1>5. /\ Tail(q \o r) \in Seq(S) /\ Len(Tail(q \o r)) = Len(q \o r) - 1 /\ Head(q \o r) = (q \o r)[1]
      /\ \A i \in 1 .. Len(q \o r) - 1 : Tail(q \o r)[i] = (q \o r)[i + 1]
  BY <1>1, <1>3, InTail
<1>6. /\ Tail(q) \o r \in Seq(S) /\ Len(Tail(q) \o r) = Len(Tail(q)) + Len(r)
      /\ \A i \in 1 .. Len(Tail(q)) + Len(r) :
           (Tail(q) \o r)[i] = IF i <= Len(Tail(q)) THEN Tail(q)[i] ELSE r[i - Len(Tail(q))]
  BY <1>4
<1>7. \A i \in 1 .. Len(q) + Len(r) - 1 : Tail(q \o r)[i] = (Tail(q) \o r)[i]
  BY <1>1, <1>2, <1>4, <1>5, <1>6
<1>8. Tail(q \o r) = Tail(q) \o r
  BY <1>1, <1>2, <1>4, <1>5, <1>6, <1>7
<1> QED BY <1>1, <1>2, <1>3, <1>5, <1>8

\* One more message takes one more place.
LEMMA ListableMore ==
  ASSUME NEW S, NEW u \in Nat, NEW x, Listable(S, u)
  PROVE  Listable(S \cup {x}, u + 1)
<1> SUFFICES ASSUME NEW T \in SUBSET (S \cup {x})
             PROVE  \E n \in 0 .. u + 1 : \E s \in [1 .. n -> T] :
                      \A m \in T : \E i \in 1 .. n : \A j \in 1 .. n : s[j] = m <=> j = i
  BY DEF Listable
<1>a. T \ {x} \in SUBSET S
  OBVIOUS
<1>b. PICK n \in 0 .. u : \E s \in [1 .. n -> T \ {x}] :
        \A m \in T \ {x} : \E i \in 1 .. n : \A j \in 1 .. n : s[j] = m <=> j = i
  BY <1>a DEF Listable
<1>1. PICK s \in [1 .. n -> T \ {x}] :
        \A m \in T \ {x} : \E i \in 1 .. n : \A j \in 1 .. n : s[j] = m <=> j = i
  BY <1>b
<1>2. CASE x \notin T
  <2>1. T \ {x} = T /\ n \in 0 .. u + 1
    BY <1>2
  <2>2. s \in [1 .. n -> T] /\ \A m \in T : \E i \in 1 .. n : \A j \in 1 .. n : s[j] = m <=> j = i
    BY <1>1, <2>1
  <2> QED BY <2>1, <2>2
<1>3. CASE x \in T
  <2> DEFINE r == [i \in 1 .. n + 1 |-> IF i = n + 1 THEN x ELSE s[i]]
  <2>1. n + 1 \in 0 .. u + 1 /\ r \in [1 .. n + 1 -> T]
    BY <1>3
  <2>2. ASSUME NEW m \in T
        PROVE  \E i \in 1 .. n + 1 : \A j \in 1 .. n + 1 : r[j] = m <=> j = i
    <3>1. CASE m = x
      <4>1. \A j \in 1 .. n + 1 : r[j] = m <=> j = n + 1
        BY <3>1
      <4>2. n + 1 \in 1 .. n + 1
        OBVIOUS
      <4> QED BY <4>1, <4>2
    <3>2. CASE m # x
      <4>1. PICK i \in 1 .. n : \A j \in 1 .. n : s[j] = m <=> j = i
        BY <1>1, <3>2
      <4>2. \A j \in 1 .. n + 1 : r[j] = m <=> j = i
        BY <3>2, <4>1
      <4>3. i \in 1 .. n + 1
        BY <4>1
      <4> QED BY <4>2, <4>3
    <3> QED BY <3>1, <3>2
  <2> HIDE DEF r
  <2> QED BY <2>1, <2>2
<1> QED BY <1>2, <1>3

\* delivery_ack_events leaves no acknowledgement out.
LEMMA AckEventsAll ==
  ASSUME NEW acks \in SUBSET Messages, NEW u \in 0 .. MaxFrames, Listable(acks, u)
  PROVE  /\ AckEvents(acks) \in Seq([kind : {"acked"}, convo : Convos, id : Ids])
         /\ \A m \in acks : In(AckedEvent(m), AckEvents(acks))
<1> DEFINE P(s) == \A m \in acks : \E i \in DOMAIN s : \A j \in DOMAIN s : s[j] = m <=> j = i
           Lists == UNION {[1 .. k -> acks] : k \in 0 .. MaxFrames}
           order == CHOOSE s \in Lists : P(s)
<1>1. \E s \in Lists : P(s)
  <2>1. PICK k \in 0 .. u : \E s \in [1 .. k -> acks] :
          \A m \in acks : \E i \in 1 .. k : \A j \in 1 .. k : s[j] = m <=> j = i
    <3>1. acks \in SUBSET acks
      OBVIOUS
    <3> QED BY <3>1 DEF Listable
  <2>2. PICK s \in [1 .. k -> acks] :
          \A m \in acks : \E i \in 1 .. k : \A j \in 1 .. k : s[j] = m <=> j = i
    BY <2>1
  <2>3. DOMAIN s = 1 .. k /\ k \in 0 .. MaxFrames
    BY <2>1, <2>2, ClientAssumption
  <2>4. P(s)
    <3> SUFFICES ASSUME NEW m \in acks
                 PROVE  \E i \in DOMAIN s : \A j \in DOMAIN s : s[j] = m <=> j = i
      OBVIOUS
    <3>1. PICK i \in 1 .. k : \A j \in 1 .. k : s[j] = m <=> j = i
      BY <2>2
    <3>2. i \in DOMAIN s /\ \A j \in DOMAIN s : s[j] = m <=> j = i
      BY <2>3, <3>1
    <3> QED BY <3>2
  <2>5. s \in Lists
    <3>1. [1 .. k -> acks] \in {[1 .. n -> acks] : n \in 0 .. MaxFrames}
      BY <2>3
    <3> QED BY <2>2, <3>1
  <2> QED BY <2>4, <2>5
<1>2. order \in Lists /\ P(order)
  BY <1>1
<1>3. PICK n \in 0 .. MaxFrames : order \in [1 .. n -> acks]
  BY <1>2
<1>4. AckEvents(acks) = [i \in DOMAIN order |-> [kind |-> "acked", convo |-> order[i][1], id |-> order[i][2]]]
  BY DEF AckEvents
<1> HIDE DEF order
<1>5. DOMAIN order = 1 .. n /\ n \in Nat /\ \A i \in 1 .. n : order[i] \in Convos \X Ids
  BY <1>3, ClientAssumption DEF Messages
<1>6. \A i \in 1 .. n : order[i][1] \in Convos /\ order[i][2] \in Ids
  BY <1>5
<1>7. AckEvents(acks) \in Seq([kind : {"acked"}, convo : Convos, id : Ids]) /\ Len(AckEvents(acks)) = n
  BY <1>4, <1>5, <1>6
<1>8. ASSUME NEW m \in acks PROVE In(AckedEvent(m), AckEvents(acks))
  <2>1. PICK i \in 1 .. n : order[i] = m
    BY <1>2, <1>5
  <2>2. AckEvents(acks)[i] = AckedEvent(m)
    BY <1>4, <1>5, <2>1 DEF AckedEvent
  <2> QED BY <1>7, <2>2 DEF In
<1> QED BY <1>7, <1>8

\* Where the events of a frame come from, and what is among them.
LEMMA EventsOfFrame ==
  ASSUME TypeOK, IdsInv, NEW e \in Frames, FrameOK(e, used, sent)
  PROVE  /\ EventsOf(e) \in Seq(Events)
         /\ \A i \in 1 .. Len(EventsOf(e)) :
              /\ EventsOf(e)[i].kind = "started" =>
                   e.kind = "welcome" /\ EventsOf(e)[i].convo = e.convo
              /\ EventsOf(e)[i].kind = "received" =>
                   /\ e.kind = "content" /\ e.convo \in seated
                   /\ EventsOf(e)[i].convo = e.convo /\ EventsOf(e)[i].id = e.id
         /\ e.kind = "welcome" /\ e.convo \notin loaded => In(Event("started", e.convo), EventsOf(e))
         /\ e.kind = "eject" /\ e.convo \in seated => In(Event("changed", e.convo), EventsOf(e))
         /\ e.kind = "content" /\ e.convo \in seated =>
              /\ In(ReceivedEvent(<<e.convo, e.id>>), EventsOf(e))
              /\ \A m \in e.acks \ acked : In(AckedEvent(m), EventsOf(e))
<1>1. /\ e.kind \in {"welcome", "content", "change", "eject", "garbage"} /\ e.convo \in Convos
      /\ e.id \in Ids /\ e.acks \subseteq Messages
  BY DEF Frames
<1>2. /\ Error \in Seq(Events) /\ Len(Error) = 1 /\ Error[1].kind = "error"
      /\ <<>> \in Seq(Events) /\ Len(<<>>) = 0
  BY DEF Error, Events
<1>3. Unread(e.convo) \in {Error, <<>>}
  BY DEF Unread
<1>4. ASSUME NEW kind \in {"started", "changed"}
      PROVE  /\ <<Event(kind, e.convo)>> \in Seq(Events) /\ Len(<<Event(kind, e.convo)>>) = 1
             /\ <<Event(kind, e.convo)>>[1] = Event(kind, e.convo)
             /\ Event(kind, e.convo).kind = kind /\ Event(kind, e.convo).convo = e.convo
  BY <1>1 DEF Event, Events
<1>5. CASE e.kind = "content" /\ e.convo \in seated
  <2> DEFINE r == Received(e)
             a == AckEvents(e.acks \ acked)
             v == ReceivedEvent(<<e.convo, e.id>>)
  <2>1. EventsOf(e) = r \o a
    BY <1>5 DEF EventsOf
  <2>2. r = <<v>> /\ v \in Events /\ v.kind = "received" /\ v.convo = e.convo /\ v.id = e.id
    BY <1>1 DEF Received, ReceivedEvent, Events
  <2>3. Listable(e.acks \ acked, used) /\ used \in 0 .. MaxFrames
    <3>1. SUBSET (e.acks \ acked) \subseteq SUBSET sent
      BY DEF FrameOK
    <3>2. used \in 0 .. MaxFrames
      BY DEF TypeOK, CoreOK, Ids
    <3> QED BY <3>1, <3>2 DEF IdsInv, Listable
  <2>4. a \in Seq([kind : {"acked"}, convo : Convos, id : Ids]) /\ \A m \in e.acks \ acked : In(AckedEvent(m), a)
    BY <1>1, <2>3, AckEventsAll
  <2> HIDE DEF a, v
  <2>5. a \in Seq(Events) /\ \A i \in 1 .. Len(a) : a[i].kind = "acked"
    <3>1. a \in Seq(Events)
      <4>1. [kind : {"acked"}, convo : Convos, id : Ids] \subseteq Events
        BY DEF Events
      <4> QED BY <2>4, <4>1, SeqWider
    <3>2. \A i \in 1 .. Len(a) : a[i] \in [kind : {"acked"}, convo : Convos, id : Ids]
      BY <2>4, SeqFacts
    <3> QED BY <3>1, <3>2
  <2>6. r \in Seq(Events) /\ Len(r) = 1 /\ r[1] = v
    BY <2>2
  <2> HIDE DEF r
  <2>7. /\ r \o a \in Seq(Events) /\ Len(r \o a) = Len(r) + Len(a)
        /\ \A i \in 1 .. Len(r) + Len(a) : (r \o a)[i] = IF i <= Len(r) THEN r[i] ELSE a[i - Len(r)]
    BY <2>5, <2>6, ConcatFacts
  <2>8. ASSUME NEW i \in 1 .. Len(r \o a)
        PROVE  \/ (r \o a)[i] = v \/ (r \o a)[i].kind = "acked"
    <3>1. Len(a) \in Nat
      BY <2>5
    <3>2. CASE i = 1
      BY <2>6, <2>7, <3>1, <3>2
    <3>3. CASE i # 1
      <4>1. i - 1 \in 1 .. Len(a) /\ (r \o a)[i] = a[i - 1]
        BY <2>6, <2>7, <3>1, <3>3
      <4> QED BY <2>5, <4>1
    <3> QED BY <3>2, <3>3
  <2>9. \A w : In(w, r \o a) <=> In(w, r) \/ In(w, a)
    BY <2>5, <2>6, InConcat
  <2>10. In(v, r)
    BY <2>6 DEF In
  <2>11. In(v, r \o a) /\ \A m \in e.acks \ acked : In(AckedEvent(m), r \o a)
    BY <2>4, <2>9, <2>10
  <2> QED BY <1>5, <2>1, <2>2, <2>7, <2>8, <2>11 DEF v
<1>6. CASE EventsOf(e) \in {Error, <<>>} /\ ~(e.kind = "content" /\ e.convo \in seated)
             /\ (e.kind = "welcome" => e.convo \in loaded) /\ (e.kind = "eject" => e.convo \notin seated)
  <2>1. EventsOf(e) \in Seq(Events) /\ \A i \in 1 .. Len(EventsOf(e)) : EventsOf(e)[i].kind = "error"
    <3>1. CASE EventsOf(e) = Error
      <4>1. \A i \in 1 .. Len(Error) : i = 1
        BY <1>2
      <4> QED BY <1>2, <3>1, <4>1
    <3>2. CASE EventsOf(e) = <<>>
      BY <3>2
    <3> QED BY <1>6, <3>1, <3>2
  <2> QED BY <1>6, <2>1
<1>7. ASSUME NEW kind \in {"started", "changed"}, EventsOf(e) = <<Event(kind, e.convo)>>,
             ~(e.kind = "content" /\ e.convo \in seated)
      PROVE  /\ EventsOf(e) \in Seq(Events)
             /\ \A i \in 1 .. Len(EventsOf(e)) :
                  EventsOf(e)[i].kind = kind /\ EventsOf(e)[i].convo = e.convo
             /\ In(Event(kind, e.convo), EventsOf(e))
  <2> DEFINE s == <<Event(kind, e.convo)>>
  <2>1. s \in Seq(Events) /\ Len(s) = 1 /\ s[1] = Event(kind, e.convo)
        /\ Event(kind, e.convo).kind = kind /\ Event(kind, e.convo).convo = e.convo
    BY <1>4
  <2>2. EventsOf(e) = s
    BY <1>7
  <2> HIDE DEF s
  <2>3. In(Event(kind, e.convo), s) /\ \A i \in 1 .. Len(s) : s[i] = Event(kind, e.convo)
    BY <2>1 DEF In
  <2> QED BY <2>1, <2>2, <2>3
<1>8. CASE e.kind = "welcome"
  <2>1. CASE e.convo \in loaded
    BY <1>6, <1>8, <2>1 DEF EventsOf
  <2>2. CASE e.convo \notin loaded
    <3>1. EventsOf(e) = <<Event("started", e.convo)>>
      BY <1>8, <2>2 DEF EventsOf
    <3> QED BY <1>7, <1>8, <3>1
  <2> QED BY <2>1, <2>2
<1>9. CASE e.kind \in {"change", "eject"}
  <2>1. CASE e.convo \in seated
    <3>1. EventsOf(e) = <<Event("changed", e.convo)>>
      BY <1>9, <2>1 DEF EventsOf
    <3> QED BY <1>7, <1>9, <3>1
  <2>2. CASE e.convo \notin seated
    BY <1>3, <1>6, <1>9, <2>2 DEF EventsOf
  <2> QED BY <2>1, <2>2
<1>10. CASE e.kind = "garbage"
  BY <1>6, <1>10 DEF EventsOf
<1>11. CASE e.kind = "content" /\ e.convo \notin seated
  BY <1>3, <1>6, <1>11 DEF EventsOf
<1> QED BY <1>1, <1>5, <1>8, <1>9, <1>10, <1>11

\* Of a frame that fails come an error and the acknowledgements it brought.
LEMMA EventsOfFailure ==
  ASSUME TypeOK, IdsInv, NEW acks \in SUBSET sent, NEW es, es = Error \o AckEvents(acks)
  PROVE  /\ es \in Seq(Events) /\ \A i \in 1 .. Len(es) : es[i].kind \in {"error", "acked"}
         /\ \A m \in acks : In(AckedEvent(m), es)
<1> DEFINE a == AckEvents(acks)
<1>1. acks \in SUBSET Messages /\ used \in 0 .. MaxFrames
  BY DEF TypeOK, CoreOK, Ids
<1>2. Listable(acks, used)
  <2>1. SUBSET acks \subseteq SUBSET sent
    OBVIOUS
  <2> QED BY <2>1 DEF IdsInv, Listable
<1>3. a \in Seq([kind : {"acked"}, convo : Convos, id : Ids]) /\ \A m \in acks : In(AckedEvent(m), a)
  BY <1>1, <1>2, AckEventsAll
<1> HIDE DEF a
<1>4. a \in Seq(Events) /\ \A i \in 1 .. Len(a) : a[i].kind = "acked"
  <2>1. [kind : {"acked"}, convo : Convos, id : Ids] \subseteq Events
    BY DEF Events
  <2>2. a \in Seq(Events)
    BY <1>3, <2>1, SeqWider
  <2>3. \A i \in 1 .. Len(a) : a[i] \in [kind : {"acked"}, convo : Convos, id : Ids]
    BY <1>3, SeqFacts
  <2> QED BY <2>2, <2>3
<1>5. Error \in Seq(Events) /\ Len(Error) = 1 /\ Error[1].kind = "error"
  BY DEF Error, Events
<1>6. es = Error \o a
  BY DEF a
<1>7. es \in Seq(Events) /\ \A w : In(w, es) <=> In(w, Error) \/ In(w, a)
  BY <1>4, <1>5, <1>6, ConcatFacts, InConcat
<1>8. ASSUME NEW i \in 1 .. Len(es) PROVE es[i].kind \in {"error", "acked"}
  <2>1. /\ Len(es) = 1 + Len(a) /\ Len(a) \in Nat
        /\ \A j \in 1 .. 1 + Len(a) : es[j] = IF j <= 1 THEN Error[j] ELSE a[j - 1]
    <3>1. /\ Len(Error \o a) = Len(Error) + Len(a) /\ Len(a) \in Nat
          /\ \A j \in 1 .. Len(Error) + Len(a) :
               (Error \o a)[j] = IF j <= Len(Error) THEN Error[j] ELSE a[j - Len(Error)]
      BY <1>4, <1>5, ConcatFacts, ZenonT(20), SMTT(20)
    <3> QED BY <1>5, <1>6, <3>1
  <2>2. CASE i = 1
    <3>1. es[i] = Error[1]
      BY <2>1, <2>2
    <3> QED BY <1>5, <3>1
  <2>3. CASE i # 1
    <3>1. i - 1 \in 1 .. Len(a) /\ es[i] = a[i - 1]
      BY <2>1, <2>3
    <3> QED BY <1>4, <3>1
  <2> QED BY <2>2, <2>3
<1> QED BY <1>3, <1>7, <1>8

----------------------------------------------------------------------------
Base == TypeOK /\ IdsInv /\ PhaseInv

\* The initial states are typed.
LEMMA InitBase == Init => Base
<1> SUFFICES ASSUME Init PROVE Base
  OBVIOUS
<1>1. \A S : <<>> \in Seq(S)
  OBVIOUS
<1>2. Restored \X {0} \subseteq Messages /\ 0 \in Ids /\ 0 \in 0 .. MaxWakeups
  BY ClientAssumption DEF Messages, Ids
<1>3. TypeOK
  BY <1>1, <1>2, ClientAssumption DEF Init, TypeOK, CoreOK, ThreadsOK, AppOK
<1>4. IdsInv
  <2>1. Listable({}, 0)
    <3> SUFFICES ASSUME NEW T \in SUBSET {}
                 PROVE  \E n \in 0 .. 0 : \E s \in [1 .. n -> T] :
                          \A m \in T : \E i \in 1 .. n : \A j \in 1 .. n : s[j] = m <=> j = i
      BY DEF Listable
    <3>1. 0 \in 0 .. 0 /\ T = {} /\ [i \in 1 .. 0 |-> i] \in [1 .. 0 -> T]
      OBVIOUS
    <3> QED BY <3>1
  <2> QED BY <2>1 DEF Init, IdsInv
<1>5. PhaseInv
  BY DEF Init, PhaseInv, Live, Running
<1> QED BY <1>3, <1>4, <1>5 DEF Base


\* What the core, the threads and the application satisfy they satisfy as long
\* as a step leaves them alone.
LEMMA CoreKept == CoreOK /\ UNCHANGED core => CoreOK'
  BY DEF CoreOK, core

\* The same for the threads and their channels.
LEMMA ThreadsKept == ThreadsOK /\ UNCHANGED <<threads, events, receiver>> => ThreadsOK'
  BY DEF ThreadsOK, threads

\* The same for the application.
LEMMA AppKept == AppOK /\ UNCHANGED app => AppOK'
  BY DEF AppOK, app, view

\* The same for the ids.
LEMMA IdsKept == IdsInv /\ UNCHANGED <<sent, used, inbound, worker, batch>> => IdsInv'
  BY DEF IdsInv

\* The same for the phases.
LEMMA PhaseKept == PhaseInv /\ UNCHANGED <<app, sent, receiver>> => PhaseInv'
  BY DEF PhaseInv, Live, Running, app, view

\* And for both when only the history changes.
LEMMA MarkKept ==
  ASSUME AppOK, PhaseInv, unsynced' \in BOOLEAN,
         UNCHANGED <<phase, echo, chats, shown, delivered, active, isActive, deleted, saved, sent, receiver>>
  PROVE  AppOK' /\ PhaseInv'
<1>1. AppOK'
  BY DEF AppOK
<1>2. PhaseInv'
  BY DEF PhaseInv, Live, Running
<1> QED BY <1>1, <1>2

\* Every step of the transport and the worker keeps the types, the ids and what
\* goes with the phases.
LEMMA WorkerBase ==
  ASSUME Base,
         \/ Worker \/ \E c \in Convos : WakeupDue(c)
         \/ \E kind \in {"welcome", "content", "change", "eject", "garbage"}, c \in Convos :
              FrameArrives(kind, c)
  PROVE  Base'
<1>a. CoreOK /\ ThreadsOK /\ AppOK /\ IdsInv /\ PhaseInv
  BY DEF Base, TypeOK
<1>b. /\ inbound \in Seq(Frames) /\ wakeups \in Seq(Convos) /\ wakes \in 0 .. MaxWakeups
      /\ batch \in Seq(Events) /\ events \in Seq(Events)
  BY <1>a DEF ThreadsOK
<1>c. used \in Nat /\ sent \subseteq Messages /\ seated \subseteq loaded /\ loaded \subseteq Convos
  BY <1>a DEF CoreOK, Ids
<1>1. ASSUME NEW kind \in {"welcome", "content", "change", "eject", "garbage"}, NEW c \in Convos,
             FrameArrives(kind, c)
      PROVE  Base'
  <2> DEFINE a == IF kind = "content" THEN {m \in sent : m[1] = c} ELSE {}
             f == [kind |-> kind, convo |-> c, id |-> used + 1, acks |-> a]
  <2>1. used' = used + 1 /\ used' \in Ids /\ used + 1 \in Ids
    BY <1>1, <1>c, ClientAssumption DEF FrameArrives, Ids
  <2>2. inbound' = Append(inbound, f) /\ (kind = "welcome" => c \notin Mine)
    BY <1>1 DEF FrameArrives
  <2>3. a \subseteq sent /\ a \subseteq Messages
    BY <1>c
  <2> HIDE DEF a
  <2>4. f \in Frames /\ f.id = used + 1 /\ f.convo = c /\ f.kind = kind /\ f.acks = a
    BY <2>1, <2>3 DEF Frames
  <2> HIDE DEF f
  <2>5. UNCHANGED <<loaded, seated, sent, surfaced, acked, wakeups, worker, batch, shutdown, wakes,
                    app, events, receiver>>
    BY <1>1 DEF FrameArrives
  <2>6. /\ inbound' \in Seq(Frames) /\ Len(inbound') = Len(inbound) + 1 /\ inbound'[Len(inbound) + 1] = f
        /\ \A i \in 1 .. Len(inbound) : inbound'[i] = inbound[i]
    BY <1>b, <2>2, <2>4
  <2>7. CoreOK'
    BY <1>a, <2>1, <2>5 DEF CoreOK
  <2>8. ThreadsOK'
    BY <1>a, <2>5, <2>6 DEF ThreadsOK
  <2>9. IdsInv'
    <3>1. \A m \in sent : m[2] <= used /\ m[2] \in Nat
      BY <1>a, <1>c DEF IdsInv, Messages, Ids
    <3>2. \A m \in sent' : m[2] <= used'
      BY <1>c, <2>1, <2>5, <3>1
    <3>3. FrameOK(f, used', sent')
      <4>1. <<c, used + 1>> \notin sent
        BY <1>c, <3>1
      <4> QED BY <1>c, <2>1, <2>2, <2>3, <2>4, <2>5, <4>1 DEF FrameOK
    <3>4. ASSUME NEW i \in 1 .. Len(inbound) PROVE FrameOK(inbound[i], used', sent')
      <4>1. FrameOK(inbound[i], used, sent) /\ inbound[i] \in Frames
        BY <1>a, <1>b DEF IdsInv
      <4>2. inbound[i].id \in Nat
        BY <4>1 DEF Frames, Ids
      <4> QED BY <1>c, <2>1, <2>5, <4>1, <4>2 DEF FrameOK
    <3>5. \A i \in 1 .. Len(inbound') : i \in 1 .. Len(inbound) \/ i = Len(inbound) + 1
      BY <1>b, <2>6
    <3>6. \A i \in 1 .. Len(inbound') : FrameOK(inbound'[i], used', sent')
      BY <2>6, <3>3, <3>4, <3>5
    <3>7. Listable(sent', used')
      <4>1. Listable(sent \cup {f}, used + 1)
        BY <1>a, <1>c, ListableMore DEF IdsInv
      <4>2. SUBSET sent \subseteq SUBSET (sent \cup {f})
        OBVIOUS
      <4> QED BY <2>1, <2>5, <4>1, <4>2 DEF Listable
    <3> QED BY <1>a, <2>5, <3>2, <3>6, <3>7 DEF IdsInv
  <2>10. AppOK' /\ PhaseInv'
    BY <1>a, <2>5, AppKept, PhaseKept
  <2> QED BY <2>7, <2>8, <2>9, <2>10 DEF Base, TypeOK
<1>2. ASSUME NEW c \in Convos, WakeupDue(c) PROVE Base'
  <2>1. wakeups' = Append(wakeups, c) /\ wakes' = wakes + 1 /\ wakes < MaxWakeups
        /\ UNCHANGED <<core, inbound, worker, batch, shutdown, app, events, receiver>>
    BY <1>2 DEF WakeupDue
  <2>2. wakeups' \in Seq(Convos) /\ wakes' \in 0 .. MaxWakeups
    BY <1>b, <2>1, ClientAssumption
  <2>3. ThreadsOK'
    BY <1>a, <2>1, <2>2 DEF ThreadsOK
  <2>4. CoreOK' /\ AppOK'
    BY <1>a, <2>1, CoreKept, AppKept
  <2>5. IdsInv' /\ PhaseInv'
    BY <1>a, <2>1, IdsKept, PhaseKept DEF core
  <2> QED BY <2>3, <2>4, <2>5 DEF Base, TypeOK
<1>3. ASSUME NEW es \in Seq(Events), Emit(es)
      PROVE  /\ batch' \in Seq(Events) /\ worker' \in {"select", "emit", "done"}
             /\ worker' = "emit" => batch' # <<>>
             /\ worker' = "select" => batch' = <<>>
  BY <1>3 DEF Emit
<1>4. ASSUME WorkerInbound PROVE Base'
  <2> DEFINE e == Head(inbound)
  <2>1. /\ inbound # <<>> /\ inbound' = Tail(inbound) /\ Emit(EventsOf(e)) /\ HandlePayload(e)
        /\ UNCHANGED <<wakeups, shutdown, wakes, app, events, receiver>>
    BY <1>4 DEF WorkerInbound
  <2>2. /\ inbound' \in Seq(Frames) /\ e = inbound[1] /\ Len(inbound) \in Nat \ {0}
        /\ Len(inbound') = Len(inbound) - 1
        /\ \A i \in 1 .. Len(inbound) - 1 : inbound'[i] = inbound[i + 1]
    BY <1>b, <2>1, InTail
  <2>3. e \in Frames /\ FrameOK(e, used, sent)
    BY <1>a, <1>b, <2>2 DEF IdsInv
  <2> HIDE DEF e
  <2>4. /\ e.convo \in Convos /\ e.id \in Ids /\ e.acks \subseteq sent
        /\ <<e.convo, e.id>> \in Messages
    BY <2>3 DEF Frames, FrameOK, Messages
  <2>5. EventsOf(e) \in Seq(Events)
    BY <1>a, <2>3, EventsOfFrame DEF TypeOK
  <2>6. ThreadsOK'
    BY <1>3, <1>a, <2>1, <2>2, <2>5 DEF ThreadsOK
  <2>7. CoreOK' /\ UNCHANGED <<sent, used>>
    BY <1>a, <2>1, <2>4 DEF CoreOK, HandlePayload
  <2>8. IdsInv'
    <3>1. \A i \in 1 .. Len(inbound') : FrameOK(inbound'[i], used', sent')
      BY <1>a, <2>2, <2>7 DEF IdsInv
    <3> QED BY <1>3, <1>a, <2>1, <2>5, <2>7, <3>1 DEF IdsInv
  <2>9. AppOK' /\ PhaseInv'
    BY <1>a, <2>1, <2>7, AppKept, PhaseKept
  <2> QED BY <2>6, <2>7, <2>8, <2>9 DEF Base, TypeOK
<1>5. ASSUME NEW outcome \in {"none", "change", "eject", "fail"}, WorkerWakeup(outcome) PROVE Base'
  <2> DEFINE c == Head(wakeups)
             es == IF outcome \in {"change", "eject"} THEN <<Event("changed", c)>> ELSE <<>>
  <2>1. /\ wakeups # <<>> /\ wakeups' = Tail(wakeups) /\ Emit(es) /\ seated' \subseteq seated
        /\ UNCHANGED <<loaded, sent, surfaced, acked, used, inbound, shutdown, wakes, phase, echo, chats,
                       shown, delivered, active, isActive, deleted, saved, events, receiver>>
    BY <1>5 DEF WorkerWakeup
  <2>2. wakeups' \in Seq(Convos) /\ c \in Convos
    BY <1>b, <2>1
  <2> HIDE DEF c
  <2>3. es \in Seq(Events)
    <3>1. Event("changed", c) \in Events
      BY <2>2 DEF Event, Events
    <3> QED BY <3>1
  <2> HIDE DEF es
  <2>4. ThreadsOK'
    BY <1>3, <1>a, <2>1, <2>2, <2>3 DEF ThreadsOK
  <2>5. CoreOK'
    BY <1>a, <2>1 DEF CoreOK
  <2>6. IdsInv'
    BY <1>3, <1>a, <2>1, <2>3 DEF IdsInv
  <2>7. unsynced' \in BOOLEAN
    BY <1>5, <1>a DEF WorkerWakeup, Untold, AppOK
  <2>8. AppOK' /\ PhaseInv'
    BY <1>a, <2>1, <2>7, MarkKept
  <2> QED BY <2>4, <2>5, <2>6, <2>8 DEF Base, TypeOK
<1>6. ASSUME NEW applied \in BOOLEAN, WorkerInboundFails(applied) PROVE Base'
  <2> DEFINE e == Head(inbound)
             es == Error \o AckEvents(acked' \ acked)
  <2>1. /\ inbound # <<>> /\ inbound' = Tail(inbound) /\ Emit(es) /\ seated' \subseteq seated
        /\ acked' \in {acked, acked \cup e.acks} /\ unsynced' \in BOOLEAN
        /\ UNCHANGED <<loaded, sent, surfaced, used, wakeups, shutdown, wakes, phase, echo, chats, shown,
                       delivered, active, isActive, deleted, saved, events, receiver>>
    BY <1>6, <1>a DEF WorkerInboundFails, Untold, AppOK
  <2>2. /\ inbound' \in Seq(Frames) /\ e = inbound[1] /\ Len(inbound) \in Nat \ {0}
        /\ Len(inbound') = Len(inbound) - 1
        /\ \A i \in 1 .. Len(inbound) - 1 : inbound'[i] = inbound[i + 1]
    BY <1>b, <2>1, InTail
  <2>3. e.acks \subseteq sent
    <3>1. 1 \in 1 .. Len(inbound)
      BY <2>2
    <3> QED BY <1>a, <2>2, <3>1 DEF IdsInv, FrameOK
  <2> HIDE DEF e
  <2>4. acked' \subseteq sent
    BY <1>a, <2>1, <2>3 DEF CoreOK
  <2>5. PICK acks \in SUBSET sent : acks = acked' \ acked
    BY <2>4
  <2>6. es \in Seq(Events)
    BY <1>a, <2>5, EventsOfFailure DEF TypeOK
  <2> HIDE DEF es
  <2>7. ThreadsOK'
    BY <1>3, <1>a, <2>1, <2>2, <2>6 DEF ThreadsOK
  <2>8. CoreOK'
    BY <1>a, <2>1, <2>4 DEF CoreOK
  <2>9. IdsInv'
    <3>1. \A i \in 1 .. Len(inbound') : FrameOK(inbound'[i], used', sent')
      BY <1>a, <2>1, <2>2 DEF IdsInv
    <3> QED BY <1>3, <1>a, <2>1, <2>6, <3>1 DEF IdsInv
  <2>10. AppOK' /\ PhaseInv'
    BY <1>a, <2>1, MarkKept
  <2> QED BY <2>7, <2>8, <2>9, <2>10 DEF Base, TypeOK
<1>7. ASSUME WorkerEmit PROVE Base'
  <2>1. worker = "emit" /\ batch # <<>> /\ UNCHANGED <<core, inbound, wakeups, shutdown, wakes, app, receiver>>
    BY <1>7, <1>a DEF WorkerEmit, ThreadsOK
  <2>2. /\ Head(batch) \in Events /\ Tail(batch) \in Seq(Events) /\ Len(Tail(batch)) = Len(batch) - 1
        /\ Len(batch) \in Nat \ {0}
    <3>1. batch \in Seq(Events)
      BY <1>b
    <3> QED BY <2>1, <3>1, SeqFacts
  <2>3. Tail(batch) = <<>> <=> Len(batch) = 1
    BY <2>2, SeqFacts
  <2>4. Append(events, Head(batch)) \in Seq(Events)
    BY <1>b, <2>2
  <2>5. /\ batch' \in Seq(Events) /\ events' \in Seq(Events) /\ worker' \in {"select", "emit", "done"}
        /\ worker' = "emit" => batch' # <<>>
        /\ worker' = "select" => batch' = <<>>
    <3>1. <<>> \in Seq(Events)
      OBVIOUS
    <3> QED BY <1>7, <1>b, <2>2, <2>3, <2>4, <3>1 DEF WorkerEmit
  <2>6. ThreadsOK'
    BY <1>a, <2>1, <2>5 DEF ThreadsOK
  <2>7. IdsInv'
    BY <1>a, <2>1, <2>5 DEF IdsInv, core
  <2>8. CoreOK' /\ AppOK' /\ PhaseInv'
    BY <1>a, <2>1, CoreKept, AppKept, PhaseKept DEF core
  <2> QED BY <2>6, <2>7, <2>8 DEF Base, TypeOK
<1>8. ASSUME WorkerShutdown PROVE Base'
  <2>1. worker' = "done" /\ UNCHANGED <<core, inbound, wakeups, batch, shutdown, wakes, app, events, receiver>>
    BY <1>8 DEF WorkerShutdown
  <2>2. ThreadsOK'
    BY <1>a, <2>1 DEF ThreadsOK
  <2>3. IdsInv'
    BY <1>a, <2>1 DEF IdsInv, core
  <2>4. CoreOK' /\ AppOK' /\ PhaseInv'
    BY <1>a, <2>1, CoreKept, AppKept, PhaseKept DEF core
  <2> QED BY <2>2, <2>3, <2>4 DEF Base, TypeOK
<1> QED BY <1>1, <1>2, <1>4, <1>5, <1>6, <1>7, <1>8 DEF Worker

\* set_active_chat sets the flag.
LEMMA SetActiveType ==
  ASSUME NEW c, SetActiveChat(c)
  PROVE  active' = c /\ isActive' \in BOOLEAN /\ unsynced' \in BOOLEAN
<1>1. isActive' = (c \in seated) /\ unsynced' = FALSE /\ active' = c
  BY DEF SetActiveChat, CanSend
<1>2. (c \in seated) \in BOOLEAN
  OBVIOUS
<1> QED BY <1>1, <1>2

\* Every step of the application keeps them.
LEMMA AppBase == ASSUME Base, Thread \/ User PROVE Base'
<1>a. CoreOK /\ ThreadsOK /\ AppOK /\ IdsInv /\ PhaseInv
  BY DEF Base, TypeOK
<1>b. /\ chats \subseteq Convos /\ shown \subseteq chats \X Ids /\ delivered \subseteq shown
      /\ active \in chats \cup {NoChat} /\ isActive \in BOOLEAN /\ unsynced \in BOOLEAN
      /\ deleted \subseteq Convos /\ echo \in Messages \cup {NoChat}
      /\ saved \in (SUBSET Convos) \X (SUBSET Messages) \X (SUBSET Messages)
  BY <1>a DEF AppOK
<1>c. \A C \in SUBSET Convos, S \in SUBSET Messages, D \in SUBSET Messages :
        <<C, S, D>> \in (SUBSET Convos) \X (SUBSET Messages) \X (SUBSET Messages)
  OBVIOUS
<1>d. ASSUME CoreOK', ThreadsOK', AppOK', IdsInv', PhaseInv' PROVE Base'
  BY <1>d DEF Base, TypeOK
\* Steps that touch neither the core nor the channels.
<1>e. ASSUME UNCHANGED <<core, threads, events, receiver>> PROVE CoreOK' /\ ThreadsOK' /\ IdsInv'
  BY <1>a, <1>e, CoreKept, ThreadsKept, IdsKept DEF core, threads
<1>1. ASSUME Open PROVE Base'
  <2>1. /\ saved = <<Restored, Restored \X {0}, {}>> /\ deleted = {} /\ active = NoChat /\ ~isActive
        /\ Live /\ receiver
    BY <1>1, <1>a DEF Open, PhaseInv, Live
  <2>2. chats' = Restored /\ shown' = Restored \X {0} /\ delivered' = {} /\ phase' = "drain"
    BY <1>1, <2>1 DEF Open
  <2>3. UNCHANGED <<loaded, seated, sent, acked, used, threads, echo, active, isActive, unsynced,
                    deleted, saved, events, receiver>> /\ surfaced' = surfaced \cup shown'
    BY <1>1 DEF Open
  <2>4. Restored \X {0} \subseteq Restored \X Ids /\ Restored \X {0} \subseteq Messages
    BY ClientAssumption DEF Ids, Messages
  <2>5. CoreOK'
    BY <1>a, <2>2, <2>3, <2>4 DEF CoreOK
  <2>6. ThreadsOK' /\ IdsInv'
    BY <1>a, <2>3, ThreadsKept, IdsKept DEF threads
  <2>7. AppOK'
    BY <1>1, <1>a, <2>1, <2>2, <2>3, <2>4, ClientAssumption DEF AppOK, Open
  <2>8. PhaseInv'
    BY <2>1, <2>2, <2>3, ClientAssumption DEF PhaseInv, Live, Running
  <2> QED BY <1>d, <2>5, <2>6, <2>7, <2>8
<1>2. ASSUME OpenFails \/ Quit \/ DropClient \/ Join \/ NoInput PROVE Base'
  <2>1. UNCHANGED <<core, inbound, wakeups, worker, batch, wakes, echo, view, deleted, saved, events>>
    BY <1>2 DEF OpenFails, Quit, DropClient, Join, NoInput, threads
  <2>2. receiver' \in BOOLEAN /\ shutdown' \in BOOLEAN
    BY <1>2, <1>a DEF OpenFails, Quit, DropClient, Join, NoInput, threads, ThreadsOK
  <2>3. \/ phase' \in {"closing", "joining", "closed"} /\ phase \notin {"sending", "creating"}
        \/ phase = "input" /\ phase' = "drain" /\ UNCHANGED receiver
    BY <1>2 DEF OpenFails, Quit, DropClient, Join, NoInput
  <2>4. CoreOK' /\ IdsInv'
    BY <1>a, <2>1, CoreKept, IdsKept DEF core
  <2>5. ThreadsOK'
    BY <1>a, <2>1, <2>2 DEF ThreadsOK
  <2>6. AppOK'
    BY <1>a, <2>1, <2>3 DEF AppOK, view
  <2>7. PhaseInv'
    BY <1>a, <2>1, <2>3 DEF PhaseInv, Live, Running, view, core
  <2> QED BY <1>d, <2>4, <2>5, <2>6, <2>7
<1>3. ASSUME Drained PROVE Base'
  <2>1. /\ phase \in {"drain", "draining"} /\ phase' = "input"
        /\ UNCHANGED <<core, threads, echo, view, deleted, events, receiver>>
        /\ saved' = <<chats, shown, delivered>>
    BY <1>3, <1>a DEF Drained, SaveState, PhaseInv, view
  <2>2. AppOK'
    <3>1. shown \subseteq Messages /\ delivered \subseteq Messages
      BY <1>b DEF Messages
    <3>2. saved' \in (SUBSET Convos) \X (SUBSET Messages) \X (SUBSET Messages)
      BY <1>b, <1>c, <2>1, <3>1
    <3> QED BY <1>a, <2>1, <3>2 DEF AppOK, view
  <2>3. PhaseInv'
    BY <1>a, <2>1 DEF PhaseInv, Live, Running, view, core
  <2> QED BY <1>d, <1>e, <2>1, <2>2, <2>3
\* Commands that save.
<1>f. ASSUME phase' = "drain", echo' = NoChat, SaveState, receiver',
             chats' \subseteq Convos, shown' \subseteq chats' \X Ids, delivered' \subseteq shown',
             active' \in chats' \cup {NoChat}, isActive' \in BOOLEAN, unsynced' \in BOOLEAN,
             deleted' \subseteq Convos
      PROVE  AppOK' /\ PhaseInv'
  <2>1. shown' \subseteq Messages /\ delivered' \subseteq Messages
    BY <1>f DEF Messages
  <2>2. saved' \in (SUBSET Convos) \X (SUBSET Messages) \X (SUBSET Messages)
    BY <1>c, <1>f, <2>1 DEF SaveState
  <2> QED BY <1>f, <2>2 DEF AppOK, PhaseInv, Live, Running, SaveState
<1>g. ASSUME phase = "input" PROVE echo = NoChat /\ receiver
  BY <1>a, <1>g DEF AppOK, PhaseInv, Live, Running
<1>4. ASSUME NEW c \in Convos, Switch(c) PROVE Base'
  <2>1. UNCHANGED <<core, threads, echo, chats, shown, delivered, deleted, events, receiver>>
    BY <1>4 DEF Switch
  <2>2. /\ phase = "input" /\ phase' = "drain" /\ SaveState
        /\ active' \in chats' \cup {NoChat} /\ isActive' \in BOOLEAN /\ unsynced' \in BOOLEAN
    BY <1>4, SetActiveType DEF Switch
  <2> QED BY <1>b, <1>d, <1>e, <1>f, <1>g, <2>1, <2>2
<1>5. ASSUME NEW c \in Convos, Delete(c) PROVE Base'
  <2>1. /\ phase = "input" /\ phase' = "drain" /\ SaveState /\ surfaced' \subseteq surfaced
        /\ UNCHANGED <<loaded, seated, sent, acked, used, threads, echo, isActive, events, receiver>>
    BY <1>5 DEF Delete
  <2>2. chats' = chats \ {c} /\ deleted' = deleted \cup {c}
        /\ shown' = {m \in shown : m[1] # c} /\ delivered' = {m \in delivered : m[1] # c}
    BY <1>5 DEF Delete
  <2>3. active' \in chats' \cup {NoChat} /\ unsynced' \in BOOLEAN
    BY <1>5, <1>b, <2>2 DEF Delete, NextActive
  <2>4. chats' \subseteq Convos /\ shown' \subseteq chats' \X Ids /\ delivered' \subseteq shown'
        /\ deleted' \subseteq Convos
    BY <1>b, <2>2
  <2>5. CoreOK' /\ ThreadsOK' /\ IdsInv'
    BY <1>a, <2>1, ThreadsKept, IdsKept DEF CoreOK, threads
  <2> QED BY <1>b, <1>d, <1>f, <1>g, <2>1, <2>3, <2>4, <2>5
<1>6. ASSUME Clear PROVE Base'
  <2>1. /\ phase = "input" /\ phase' = "drain" /\ SaveState /\ surfaced' \subseteq surfaced
        /\ UNCHANGED <<loaded, seated, sent, acked, used, threads, echo, chats, active, isActive, unsynced,
                       deleted, events, receiver>>
        /\ shown' = {m \in shown : m[1] # active} /\ delivered' = {m \in delivered : m[1] # active}
    BY <1>6 DEF Clear
  <2>2. shown' \subseteq chats' \X Ids /\ delivered' \subseteq shown'
    BY <1>b, <2>1
  <2>3. CoreOK' /\ ThreadsOK' /\ IdsInv'
    BY <1>a, <2>1, ThreadsKept, IdsKept DEF CoreOK, threads
  <2> QED BY <1>b, <1>d, <1>f, <1>g, <2>1, <2>2, <2>3
<1>7. ASSUME EchoSent PROVE Base'
  <2>1. /\ phase = "sending" /\ phase' = "drain" /\ echo' = NoChat /\ shown' = shown \cup {echo} /\ SaveState
        /\ UNCHANGED <<core, threads, chats, delivered, active, isActive, unsynced, deleted, events, receiver>>
    BY <1>7 DEF EchoSent
  <2>2. echo \in Messages /\ echo[1] \in chats /\ receiver
    BY <1>a, <2>1 DEF AppOK, PhaseInv, Live, Running
  <2>3. shown' \subseteq chats' \X Ids /\ delivered' \subseteq shown'
    BY <1>b, <2>1, <2>2 DEF Messages
  <2> QED BY <1>b, <1>d, <1>e, <1>f, <2>1, <2>2, <2>3
<1>8. ASSUME Created PROVE Base'
  <2>1. /\ phase = "creating" /\ phase' = "drain" /\ echo' = NoChat /\ StartSession(echo[1]) /\ SaveState
        /\ UNCHANGED <<core, threads, deleted, events, receiver>>
    BY <1>8 DEF Created
  <2>2. echo[1] \in Convos /\ receiver
    BY <1>a, <2>1 DEF AppOK, PhaseInv, Live, Running, Messages
  <2>3. chats' \subseteq Convos /\ shown' \subseteq chats' \X Ids /\ delivered' \subseteq shown'
        /\ active' \in chats' \cup {NoChat} /\ isActive' \in BOOLEAN /\ unsynced' \in BOOLEAN
    BY <1>b, <2>1, <2>2, SetActiveType DEF StartSession
  <2> QED BY <1>b, <1>d, <1>e, <1>f, <2>1, <2>2, <2>3
\* Calls into the core.
<1>9. ASSUME SendMessage PROVE Base'
  <2>1. /\ phase = "input" /\ phase' = "sending" /\ active # NoChat /\ used < MaxFrames /\ used' = used + 1
        /\ echo' = <<active, used + 1>> /\ sent' = sent \cup {echo'}
        /\ UNCHANGED <<loaded, seated, surfaced, acked, threads, view, deleted, saved, events, receiver>>
    BY <1>9 DEF SendMessage
  <2>2. used \in Nat /\ used + 1 \in Ids /\ active \in chats /\ active \in Convos
    BY <1>a, <1>b, <2>1, ClientAssumption DEF CoreOK, Ids
  <2>3. echo' \in Messages /\ echo' # NoChat /\ echo'[1] = active /\ echo'[2] = used + 1
    BY <2>1, <2>2, ClientAssumption DEF Messages
  <2>4. CoreOK'
    BY <1>a, <2>1, <2>2, <2>3 DEF CoreOK
  <2>5. ThreadsOK'
    BY <1>a, <2>1, ThreadsKept
  <2>6. AppOK'
    BY <1>a, <2>1, <2>3 DEF AppOK, view
  <2>7. PhaseInv'
    BY <1>a, <2>1, <2>2, <2>3 DEF PhaseInv, Live, Running, view
  <2>8. IdsInv'
    <3>1. \A m \in sent : m[2] <= used /\ m[2] \in Nat
      BY <1>a DEF IdsInv, CoreOK, Messages, Ids
    <3>2. \A m \in sent' : m[2] <= used'
      BY <2>1, <2>2, <2>3, <3>1
    <3>3. Listable(sent', used')
      BY <1>a, <2>1, <2>2, ListableMore DEF IdsInv
    <3>4. ASSUME NEW i \in 1 .. Len(inbound) PROVE FrameOK(inbound[i], used', sent')
      <4>1. FrameOK(inbound[i], used, sent) /\ inbound[i] \in Frames
        BY <1>a DEF IdsInv, ThreadsOK
      <4>2. inbound[i].id \in Nat
        BY <4>1 DEF Frames, Ids
      <4>3. <<inbound[i].convo, inbound[i].id>> # echo'
        BY <2>1, <2>2, <4>1, <4>2 DEF FrameOK
      <4> QED BY <2>1, <2>2, <4>1, <4>2, <4>3 DEF FrameOK
    <3> QED BY <1>a, <2>1, <3>2, <3>3, <3>4 DEF IdsInv, threads
  <2> QED BY <1>d, <2>4, <2>5, <2>6, <2>7, <2>8
<1>10. ASSUME NEW c \in Convos, Create(c) PROVE Base'
  <2>1. /\ phase = "input" /\ phase' = "creating" /\ echo' = <<c, 0>>
        /\ loaded' = loaded \cup {c} /\ seated' = seated \cup {c}
        /\ UNCHANGED <<sent, surfaced, acked, used, threads, view, deleted, saved, events, receiver>>
    BY <1>10 DEF Create
  <2>2. echo' \in Messages /\ echo' # NoChat
    BY <2>1, ClientAssumption DEF Messages, Ids
  <2>3. CoreOK'
    BY <1>a, <2>1 DEF CoreOK
  <2>4. ThreadsOK' /\ IdsInv'
    BY <1>a, <2>1, ThreadsKept, IdsKept DEF threads
  <2>5. AppOK'
    BY <1>a, <2>1, <2>2 DEF AppOK, view
  <2>6. PhaseInv'
    BY <1>a, <2>1 DEF PhaseInv, Live, Running, view
  <2> QED BY <1>d, <2>3, <2>4, <2>5, <2>6
<1>11. ASSUME ProcessIncoming PROVE Base'
  <2> DEFINE v == Head(events)
  <2>1. /\ events # <<>> /\ phase \in {"drain", "draining"} /\ phase' = "draining" /\ events' = Tail(events)
        /\ UNCHANGED <<core, threads, echo, deleted, saved, receiver>>
    BY <1>11 DEF ProcessIncoming
  <2>2. v \in Events /\ events' \in Seq(Events)
    BY <1>a, <2>1 DEF ThreadsOK
  <2> HIDE DEF v
  <2>3. /\ v.kind \in {"error", "started", "changed", "received", "acked"}
        /\ v.kind # "error" => v.convo \in Convos
        /\ v.kind \in {"received", "acked"} => v.id \in Ids
    BY <2>2 DEF Events
  <2>4. \/ v.kind = "started" /\ HandleStarted(v.convo)
        \/ v.kind = "changed" /\ HandleChanged(v.convo)
        \/ v.kind = "received" /\ HandleReceived(v.convo, v.id)
        \/ v.kind = "acked" /\ HandleAcked(v.convo, v.id)
        \/ v.kind = "error" /\ UNCHANGED view
    BY <1>11, <2>3 DEF ProcessIncoming, v
  <2>5. /\ chats' \subseteq Convos /\ shown' \subseteq chats' \X Ids /\ delivered' \subseteq shown'
        /\ active' \in chats' \cup {NoChat} /\ isActive' \in BOOLEAN /\ unsynced' \in BOOLEAN
    <3>1. CASE v.kind = "started" /\ HandleStarted(v.convo)
      <4>1. CASE v.convo \in chats
        <5>1. unsynced' \in BOOLEAN
          BY <3>1, <4>1 DEF HandleStarted
        <5> QED BY <1>b, <3>1, <4>1, <5>1 DEF HandleStarted
      <4>2. CASE v.convo \notin chats
        BY <1>b, <2>3, <3>1, <4>2, SetActiveType DEF HandleStarted, StartSession
      <4> QED BY <4>1, <4>2
    <3>2. CASE v.kind = "changed" /\ HandleChanged(v.convo)
      <4>1. isActive' \in BOOLEAN
        <5>1. CASE v.convo = active
          <6>1. isActive' = (v.convo \in seated)
            BY <3>2, <5>1 DEF HandleChanged, CanSend
          <6>2. (v.convo \in seated) \in BOOLEAN
            OBVIOUS
          <6> QED BY <6>1, <6>2
        <5>2. CASE v.convo # active
          BY <1>b, <3>2, <5>2 DEF HandleChanged
        <5> QED BY <5>1, <5>2
      <4>2. unsynced' \in BOOLEAN
        BY <1>b, <3>2 DEF HandleChanged
      <4> QED BY <1>b, <3>2, <4>1, <4>2 DEF HandleChanged
    <3>3. CASE v.kind = "received" /\ HandleReceived(v.convo, v.id)
      BY <1>b, <2>3, <3>3 DEF HandleReceived
    <3>4. CASE v.kind = "acked" /\ HandleAcked(v.convo, v.id)
      BY <1>b, <3>4 DEF HandleAcked
    <3>5. CASE UNCHANGED view
      BY <1>b, <3>5 DEF view
    <3> QED BY <2>4, <3>1, <3>2, <3>3, <3>4, <3>5
  <2>6. AppOK'
    BY <1>a, <2>1, <2>5 DEF AppOK
  <2>7. PhaseInv'
    BY <1>a, <2>1 DEF PhaseInv, Live, Running
  <2>8. CoreOK' /\ IdsInv'
    BY <1>a, <2>1, CoreKept, IdsKept DEF core, threads
  <2>9. ThreadsOK'
    BY <1>a, <2>1, <2>2 DEF ThreadsOK, threads
  <2> QED BY <1>d, <2>6, <2>7, <2>8, <2>9
<1> QED BY <1>1, <1>2, <1>3, <1>4, <1>5, <1>6, <1>7, <1>8, <1>9, <1>10, <1>11 DEF Thread, User

\* Every step keeps the types, the ids and what goes with the phases.
LEMMA BaseStep == Base /\ [Next]_vars => Base'
<1> SUFFICES ASSUME Base, [Next]_vars PROVE Base'
  OBVIOUS
<1>1. CASE UNCHANGED vars
  <2>1. CoreOK' /\ ThreadsOK' /\ AppOK'
    BY <1>1, CoreKept, ThreadsKept, AppKept DEF Base, TypeOK, vars
  <2>2. IdsInv' /\ PhaseInv'
    BY <1>1, IdsKept, PhaseKept DEF Base, vars, core, threads
  <2> QED BY <2>1, <2>2 DEF Base, TypeOK
<1> QED BY <1>1, WorkerBase, AppBase DEF Next

----------------------------------------------------------------------------
\* The queue holds events.
LEMMA QueueType ==
  ASSUME Base
  PROVE  /\ events \in Seq(Events) /\ batch \in Seq(Events) /\ Queue \in Seq(Events) /\ Len(Queue) \in Nat
         /\ \A i \in 1 .. Len(Queue) : Queue[i].kind = "received" => Queue[i].id \in Nat
<1>1. events \in Seq(Events) /\ batch \in Seq(Events)
  BY DEF Base, TypeOK, ThreadsOK
<1>2. Queue \in Seq(Events)
  BY <1>1 DEF Queue
<1>3. \A i \in 1 .. Len(Queue) : Queue[i] \in Events
  BY <1>2
<1>4. \A v \in Events : v.kind = "received" => v.id \in Nat
  BY DEF Events, Ids
<1> QED BY <1>1, <1>2, <1>3, <1>4

\* Steps that leave the queue, the application and all but the next id of the
\* core alone.
LEMMA QueueKept ==
  ASSUME Base, QueueInv, Queue' = Queue, UNCHANGED <<app, loaded, seated, sent, surfaced, acked>>,
         used' \in {used, used + 1}
  PROVE  QueueInv'
<1> SUFFICES ASSUME Live' PROVE QueueInv'
  BY DEF QueueInv
<1> USE DEF app, view
<1>1. Live
  BY DEF Live, Running
<1>2. OwnInv' /\ LoadedInv' /\ ContentInv' /\ AckInv' /\ FlagInv'
  BY <1>1 DEF QueueInv, OwnInv, LoadedInv, ContentInv, AckInv, FlagInv, Known, CanSend
<1>3. used \in Nat
  BY DEF Base, TypeOK, CoreOK, Ids
<1>4. ASSUME NEW i \in 1 .. Len(Queue) PROVE EventOK(Queue, i)'
  <2>1. EventOK(Queue, i)
    BY <1>1 DEF QueueInv, OrderInv
  <2>2. Queue[i].kind = "received" => Queue[i].id \in Nat
    BY QueueType
  <2> QED BY <1>3, <2>1, <2>2 DEF EventOK, Known
<1>5. OrderInv'
  BY <1>4 DEF OrderInv
<1> QED BY <1>2, <1>5 DEF QueueInv

\* The same for the steps of the worker that put nothing new on the queue.
LEMMA QueueEmit ==
  ASSUME Base, QueueInv, WorkerEmit \/ WorkerShutdown \/ \E c \in Convos : WakeupDue(c)
  PROVE  QueueInv'
<1> SUFFICES ASSUME Live' PROVE QueueInv'
  BY DEF QueueInv
<1>1. UNCHANGED <<app, loaded, seated, sent, surfaced, acked, used, receiver>>
  BY DEF WorkerEmit, WorkerShutdown, WakeupDue, core
<1>2. receiver
  BY <1>1 DEF Base, PhaseInv, Live, Running, app
<1>3. CASE WorkerEmit
  <2>1. batch # <<>> /\ events' = Append(events, Head(batch)) /\ batch' = Tail(batch)
    BY <1>2, <1>3 DEF WorkerEmit, Base, TypeOK, ThreadsOK
  <2>2. Queue' = Queue
    BY <2>1, QueueType, EmitKeepsQueue DEF Queue
  <2> QED BY <1>1, <2>2, QueueKept
<1>4. CASE WorkerShutdown \/ \E c \in Convos : WakeupDue(c)
  <2>1. Queue' = Queue
    BY <1>4 DEF WorkerShutdown, WakeupDue, Queue
  <2> QED BY <1>1, <2>1, QueueKept
<1> QED BY <1>3, <1>4

\* The same for a frame that arrives.
LEMMA QueueArrival ==
  ASSUME Base, QueueInv, NEW kind, NEW c, FrameArrives(kind, c)
  PROVE  QueueInv'
<1>1. /\ UNCHANGED <<app, loaded, seated, sent, surfaced, acked, events, batch>>
      /\ used' = used + 1
  BY DEF FrameArrives
<1>2. Queue' = Queue
  BY <1>1 DEF Queue
<1> QED BY <1>1, <1>2, QueueKept

\* The worker leaves the mutex: its events are behind all others, and they tell
\* of everything that has changed in the core.
LEMMA QueuePush ==
  ASSUME Base, QueueInv, NEW es \in Seq(Events), Tells(es),
         batch = <<>>, batch' = es, unsynced => unsynced',
         UNCHANGED <<phase, echo, chats, shown, delivered, deleted, active, isActive, events, sent, used>>
  PROVE  QueueInv'
<1> SUFFICES ASSUME Live' PROVE QueueInv'
  BY DEF QueueInv
<1>1. Live /\ UNCHANGED <<phase, echo, chats, shown, delivered, deleted, active, isActive>>
  BY DEF Live, Running
<1>2. Queue' = Queue \o es /\ Queue \in Seq(Events)
  BY QueueType DEF Queue
<1>3. \A v : In(v, Queue)' <=> In(v, Queue) \/ In(v, es)
  <2>1. \A v : In(v, Queue \o es) <=> In(v, Queue) \/ In(v, es)
    BY <1>2, InConcat
  <2> QED BY <1>2, <2>1 DEF In
<1>4. OwnInv /\ OrderInv /\ LoadedInv /\ ContentInv /\ AckInv /\ FlagInv
  BY <1>1 DEF QueueInv
<1>5. OwnInv'
  BY <1>1, <1>4 DEF OwnInv, Tells
<1>6. OrderInv'
  <2> SUFFICES ASSUME NEW i \in 1 .. Len(Queue') PROVE EventOK(Queue, i)'
    BY DEF OrderInv
  <2>1. CASE i <= Len(Queue)
    <3>1. EventOK(Queue, i) /\ Queue'[i] = Queue[i] /\ \A j \in 1 .. i - 1 : Queue'[j] = Queue[j]
      <4>1. /\ i \in 1 .. Len(Queue) /\ Queue'[i] = Queue[i]
            /\ \A j \in 1 .. i - 1 : Queue'[j] = Queue[j]
        BY <1>2, <2>1, ConcatIndex
      <4> QED BY <1>4, <4>1 DEF OrderInv
    <3> QED BY <1>1, <3>1 DEF EventOK, Known
  <2>2. CASE ~(i <= Len(Queue))
    <3> DEFINE k == i - Len(Queue)
               v == es[k]
    <3>1. /\ Queue'[i] = v /\ k \in 1 .. Len(es)
          /\ \A j \in 1 .. Len(Queue) : j \in 1 .. i - 1 /\ Queue'[j] = Queue[j]
      BY <1>2, <2>2, ConcatIndex
    <3>2. /\ v.kind = "started" => v.convo \notin Mine
          /\ v.kind = "received" =>
               <<v.convo, v.id>> \notin sent /\ v.id <= used /\ v.convo \in loaded
      BY <3>1 DEF Tells
    <3> HIDE DEF v
    <3>3. ASSUME v.kind = "received"
          PROVE  Known(v.convo) \/ \E j \in 1 .. i - 1 : Queue'[j] = Event("started", v.convo)
      BY <1>4, <3>1, <3>2, <3>3 DEF LoadedInv, In
    <3> QED BY <1>1, <3>1, <3>2, <3>3 DEF EventOK, Known, Event
  <2> QED BY <2>1, <2>2
<1>7. LoadedInv'
  <2> SUFFICES ASSUME NEW c \in loaded' PROVE (Known(c) \/ In(Event("started", c), Queue))'
    BY DEF LoadedInv
  <2>1. c \in loaded \/ In(Event("started", c), es)
    BY DEF Tells
  <2> QED BY <1>1, <1>3, <1>4, <2>1 DEF LoadedInv, Known, In, Event
<1>8. ContentInv'
  <2> SUFFICES ASSUME NEW m \in surfaced'
               PROVE  (m \in shown \/ m[1] \in deleted \/ In(ReceivedEvent(m), Queue))'
    BY DEF ContentInv
  <2>1. m \in surfaced \/ In(ReceivedEvent(m), es)
    BY DEF Tells
  <2> QED BY <1>1, <1>3, <1>4, <2>1 DEF ContentInv, In, ReceivedEvent
<1>9. AckInv'
  <2> SUFFICES ASSUME NEW m \in acked', (m \in shown \/ (phase = "sending" /\ m = echo))'
               PROVE  (m \in delivered \/ In(AckedEvent(m), Queue))'
    BY DEF AckInv
  <2>1. m \in acked \/ In(AckedEvent(m), es)
    BY DEF Tells
  <2> QED BY <1>1, <1>3, <1>4, <2>1 DEF AckInv, In, AckedEvent
<1>10. FlagInv'
  <2>1. \/ active \in seated' <=> active \in seated
        \/ In(Event("changed", active), es) \/ In(Event("started", active), es) \/ unsynced'
    BY DEF Tells
  <2>2. CASE unsynced'
    BY <2>2 DEF FlagInv
  <2>3. CASE ~unsynced'
    <3>1. \/ isActive <=> active \in seated
          \/ In(Event("changed", active), Queue) \/ In(Event("started", active), Queue)
      BY <1>4, <2>3 DEF FlagInv, CanSend
    <3>2. \/ isActive <=> active \in seated'
          \/ In(Event("changed", active), Queue)' \/ In(Event("started", active), Queue)'
      <4>1. ASSUME NEW kind, In(Event(kind, active), Queue) \/ In(Event(kind, active), es)
            PROVE  In(Event(kind, active), Queue)'
        BY <1>1, <1>3, <4>1 DEF In, Event
      <4> QED BY <1>1, <2>1, <2>3, <3>1, <4>1
    <3> QED BY <1>1, <3>2 DEF FlagInv, CanSend, In, Event
  <2> QED BY <2>2, <2>3
<1> QED BY <1>5, <1>6, <1>7, <1>8, <1>9, <1>10 DEF QueueInv

\* The worker handles a frame.
LEMMA QueueInbound == ASSUME Base, QueueInv, WorkerInbound PROVE QueueInv'
<1> DEFINE e == Head(inbound)
<1>1. /\ batch = <<>> /\ UNCHANGED <<app, events>> /\ inbound # <<>>
      /\ batch' = EventsOf(e) /\ HandlePayload(e)
  BY DEF WorkerInbound, Base, IdsInv, Emit
<1>2. e \in Frames /\ FrameOK(e, used, sent)
  <2>1. inbound \in Seq(Frames) /\ Len(inbound) \in Nat \ {0} /\ e = inbound[1]
    BY <1>1 DEF Base, TypeOK, ThreadsOK
  <2>2. 1 \in 1 .. Len(inbound)
    BY <2>1
  <2>3. inbound[1] \in Frames
    BY <2>1, <2>2
  <2> QED BY <2>1, <2>2, <2>3 DEF Base, IdsInv
<1> HIDE DEF e
<1> DEFINE es == EventsOf(e)
<1>3. /\ es \in Seq(Events)
      /\ \A i \in 1 .. Len(es) :
           /\ es[i].kind = "started" => e.kind = "welcome" /\ es[i].convo = e.convo
           /\ es[i].kind = "received" =>
                e.kind = "content" /\ e.convo \in seated /\ es[i].convo = e.convo /\ es[i].id = e.id
      /\ e.kind = "welcome" /\ e.convo \notin loaded => In(Event("started", e.convo), es)
      /\ e.kind = "eject" /\ e.convo \in seated => In(Event("changed", e.convo), es)
      /\ e.kind = "content" /\ e.convo \in seated =>
           /\ In(ReceivedEvent(<<e.convo, e.id>>), es)
           /\ \A m \in e.acks \ acked : In(AckedEvent(m), es)
  BY <1>2, EventsOfFrame DEF Base
<1>4. batch' = es
  BY <1>1
<1> HIDE DEF es
<1>5. /\ loaded' = IF e.kind = "welcome" THEN loaded \cup {e.convo} ELSE loaded
      /\ seated' = IF e.kind = "welcome" /\ e.convo \notin loaded THEN seated \cup {e.convo}
                   ELSE IF e.kind = "eject" THEN seated \ {e.convo} ELSE seated
      /\ surfaced' = IF e.kind = "content" /\ e.convo \in seated THEN surfaced \cup {<<e.convo, e.id>>}
                     ELSE surfaced
      /\ acked' = IF e.kind = "content" /\ e.convo \in seated THEN acked \cup e.acks ELSE acked
      /\ UNCHANGED <<sent, used>>
  BY <1>1 DEF HandlePayload
<1>6. \A i \in 1 .. Len(es) :
        /\ es[i].kind = "started" => es[i].convo \notin Mine
        /\ es[i].kind = "received" =>
             <<es[i].convo, es[i].id>> \notin sent /\ es[i].id <= used /\ es[i].convo \in loaded
  BY <1>2, <1>3 DEF FrameOK, Base, TypeOK, CoreOK
<1>7. loaded \subseteq loaded' /\ \A c \in loaded' \ loaded : In(Event("started", c), es)
  BY <1>3, <1>5
<1>8. \A m \in surfaced' \ surfaced : In(ReceivedEvent(m), es)
  BY <1>3, <1>5
<1>9. \A m \in acked' \ acked : In(AckedEvent(m), es)
  BY <1>3, <1>5
<1>10. \/ active \in seated' <=> active \in seated
       \/ In(Event("changed", active), es) \/ In(Event("started", active), es)
  BY <1>3, <1>5
<1>11. Tells(es)
  BY <1>6, <1>7, <1>8, <1>9, <1>10 DEF Tells
<1> QED BY <1>1, <1>3, <1>4, <1>5, <1>11, QueuePush DEF app, view

\* The worker fails to handle a frame.
LEMMA QueueInboundFails == ASSUME Base, QueueInv, NEW applied, WorkerInboundFails(applied) PROVE QueueInv'
<1> DEFINE e == Head(inbound)
<1>1. /\ batch = <<>> /\ inbound # <<>> /\ batch' = Error \o AckEvents(acked' \ acked)
      /\ acked' \in {acked, acked \cup e.acks} /\ (unsynced => unsynced')
      /\ (active \in seated /\ active \notin seated' => unsynced') /\ seated' \subseteq seated
      /\ UNCHANGED <<loaded, surfaced, phase, echo, chats, shown, delivered, deleted, active, isActive,
                     events, sent, used>>
  BY DEF WorkerInboundFails, Untold, Base, IdsInv, Emit
<1>2. e.acks \subseteq sent
  <2>1. inbound \in Seq(Frames) /\ Len(inbound) \in Nat \ {0} /\ e = inbound[1]
    BY <1>1 DEF Base, TypeOK, ThreadsOK
  <2>2. 1 \in 1 .. Len(inbound)
    BY <2>1
  <2> QED BY <2>1, <2>2 DEF Base, IdsInv, FrameOK
<1> HIDE DEF e
<1>3. PICK acks \in SUBSET sent : acks = acked' \ acked
  BY <1>1, <1>2 DEF Base, TypeOK, CoreOK
<1>4. PICK es : es = Error \o AckEvents(acks)
  OBVIOUS
<1>5. /\ es \in Seq(Events) /\ \A i \in 1 .. Len(es) : es[i].kind \in {"error", "acked"}
      /\ \A m \in acks : In(AckedEvent(m), es)
  BY <1>4, EventsOfFailure DEF Base
<1>6. Tells(es)
  BY <1>1, <1>3, <1>5 DEF Tells
<1> QED BY <1>1, <1>3, <1>4, <1>5, <1>6, QueuePush

\* A wakeup that changes who is in a conversation says so unless it fails.
LEMMA QueueWakeup == ASSUME Base, QueueInv, NEW outcome, WorkerWakeup(outcome) PROVE QueueInv'
<1> DEFINE c == Head(wakeups)
           told == outcome \in {"change", "eject"}
           es == IF told THEN <<Event("changed", c)>> ELSE <<>>
<1>1. /\ batch = <<>> /\ batch' = es /\ (unsynced => unsynced')
      /\ UNCHANGED <<phase, echo, chats, shown, delivered, deleted, active, isActive,
                     events, loaded, sent, surfaced, acked, used>>
      /\ seated' = IF outcome \in {"eject", "fail"} THEN seated \ {c} ELSE seated
      /\ told => c \in seated
      /\ outcome = "fail" => (active \in seated /\ active \notin seated' => unsynced')
  BY DEF WorkerWakeup, Untold, Base, IdsInv, Emit
<1> HIDE DEF c
<1>2. told => Event("changed", c) \in Events
  BY <1>1 DEF Base, TypeOK, CoreOK, Events, Event
<1>3. /\ es \in Seq(Events)
      /\ \A i \in 1 .. Len(es) : es[i] = Event("changed", c)
      /\ told => In(Event("changed", c), es)
  <2>1. CASE ~told
    BY <2>1 DEF In
  <2>2. CASE told
    <3>1. es = <<Event("changed", c)>>
      BY <2>2
    <3>2. es \in Seq(Events) /\ Len(es) = 1 /\ es[1] = Event("changed", c)
      BY <1>2, <2>2, <3>1
    <3>3. \A i \in 1 .. 1 : i = 1
      OBVIOUS
    <3> QED BY <3>2, <3>3 DEF In
  <2> QED BY <2>1, <2>2
<1> HIDE DEF es
<1>4. \A i \in 1 .. Len(es) : es[i].kind = "changed"
  BY <1>3 DEF Event
<1>5. \/ active \in seated' <=> active \in seated
      \/ In(Event("changed", active), es) \/ In(Event("started", active), es) \/ unsynced'
  BY <1>1, <1>3
<1>6. /\ \A i \in 1 .. Len(es) : es[i].kind \notin {"started", "received"}
      /\ loaded' \ loaded = {} /\ surfaced' \ surfaced = {} /\ acked' \ acked = {}
  BY <1>1, <1>4
<1>7. Tells(es)
  BY <1>1, <1>5, <1>6 DEF Tells
<1> QED BY <1>1, <1>3, <1>7, QueuePush

\* The application handles the first event of the queue.
LEMMA QueuePop == ASSUME Base, QueueInv, ProcessIncoming PROVE QueueInv'
<1> DEFINE v == Head(events)
<1>1. /\ events # <<>> /\ events' = Tail(events) /\ UNCHANGED <<core, batch, echo, deleted>>
      /\ phase \in {"drain", "draining"} /\ phase' = "draining"
      /\ v.kind = "started" => HandleStarted(v.convo)
      /\ v.kind = "changed" => HandleChanged(v.convo)
      /\ v.kind = "received" => HandleReceived(v.convo, v.id)
      /\ v.kind = "acked" => HandleAcked(v.convo, v.id)
      /\ v.kind = "error" => UNCHANGED view
  BY DEF ProcessIncoming, threads
<1>2. /\ OwnInv /\ OrderInv /\ LoadedInv /\ ContentInv /\ AckInv /\ FlagInv
  BY <1>1 DEF QueueInv, Live, Running
<1>3. Queue \in Seq(Events) /\ Queue # <<>> /\ Queue' = Tail(Queue) /\ v = Head(Queue)
  BY <1>1, QueueType, TakeFromQueue DEF Queue
<1> HIDE DEF v
<1>4. /\ Len(Queue') = Len(Queue) - 1 /\ v = Queue[1] /\ Len(Queue) \in Nat \ {0}
      /\ \A i \in 1 .. Len(Queue) - 1 : Queue'[i] = Queue[i + 1]
  BY <1>3, InTail
<1>t. \A w : In(w, Queue) => w = v \/ In(w, Queue)'
  <2>1. \A w : In(w, Queue) => w = Head(Queue) \/ In(w, Tail(Queue))
    BY <1>3, InTail
  <2> QED BY <1>3, <2>1 DEF In
<1>5. v \in Events /\ EventOK(Queue, 1)
  <2>1. 1 \in 1 .. Len(Queue)
    BY <1>4
  <2> QED BY <1>2, <1>3, <1>4, <2>1 DEF OrderInv
<1>6. v.kind \in {"started", "changed", "received", "acked", "error"}
  BY <1>5 DEF Events
<1>7. /\ v.kind = "started" => v.convo \notin Mine /\ v = Event("started", v.convo)
      /\ v.kind = "received" =>
           <<v.convo, v.id>> \notin sent /\ v.convo \in chats \cup deleted
  <2>1. v.kind = "started" => v = Event("started", v.convo)
    BY <1>5 DEF Events, Event
  <2>2. \A j \in 1 .. 1 - 1 : FALSE
    OBVIOUS
  <2> QED BY <1>1, <1>4, <1>5, <2>1, <2>2 DEF EventOK, Known
<1>8. /\ chats' = IF v.kind = "started" THEN chats \cup {v.convo} ELSE chats
      /\ shown' = IF v.kind = "received" /\ v.convo \in chats THEN shown \cup {<<v.convo, v.id>>}
                  ELSE IF v.kind = "started" /\ v.convo \notin chats THEN {m \in shown : m[1] # v.convo}
                  ELSE shown
      /\ delivered' = IF v.kind = "acked" /\ <<v.convo, v.id>> \in shown
                      THEN delivered \cup {<<v.convo, v.id>>}
                      ELSE IF v.kind = "started" /\ v.convo \notin chats
                      THEN {m \in delivered : m[1] # v.convo}
                      ELSE delivered
  BY <1>1, <1>6 DEF HandleStarted, HandleChanged, HandleReceived, HandleAcked, StartSession, view
<1>9. \A m \in shown : m[1] \in chats /\ m = <<m[1], m[2]>>
  BY DEF Base, TypeOK, AppOK
<1>10. shown \subseteq shown' /\ delivered \subseteq delivered'
  <2>1. delivered \subseteq shown
    BY DEF Base, TypeOK, AppOK
  <2> QED BY <1>8, <1>9, <2>1
<1>11. OwnInv'
  BY <1>1, <1>2, <1>7, <1>8 DEF OwnInv, core
<1>12. OrderInv'
  <2> SUFFICES ASSUME NEW i \in 1 .. Len(Queue') PROVE EventOK(Queue, i)'
    BY DEF OrderInv
  <2>1. i + 1 \in 1 .. Len(Queue) /\ Queue'[i] = Queue[i + 1] /\ EventOK(Queue, i + 1)
    BY <1>2, <1>4 DEF OrderInv
  <2>2. ASSUME NEW c, Known(c) \/ \E j \in 1 .. i : Queue[j] = Event("started", c)
        PROVE  Known(c)' \/ \E j \in 1 .. i - 1 : Queue'[j] = Event("started", c)
    <3>1. CASE Known(c)
      BY <1>1, <1>8, <3>1 DEF Known
    <3>2. CASE v = Event("started", c)
      BY <1>8, <3>2 DEF Known, Event
    <3>3. ASSUME NEW j \in 1 .. i, Queue[j] = Event("started", c), v # Event("started", c)
          PROVE  \E k \in 1 .. i - 1 : Queue'[k] = Event("started", c)
      <4>1. j # 1
        BY <1>4, <3>3
      <4>2. j - 1 \in 1 .. i - 1 /\ j - 1 \in 1 .. Len(Queue) - 1 /\ (j - 1) + 1 = j
        BY <1>4, <4>1
      <4>3. Queue'[j - 1] = Queue[j]
        BY <1>4, <4>2
      <4> QED BY <3>3, <4>2, <4>3
    <3> QED BY <2>2, <3>1, <3>2, <3>3
  <2>w. PICK w : w = Queue[i + 1]
    OBVIOUS
  <2>3. /\ w.kind = "started" => w.convo \notin Mine
        /\ w.kind = "received" =>
             /\ <<w.convo, w.id>> \notin sent /\ w.id <= used
             /\ Known(w.convo) \/ \E j \in 1 .. i : Queue[j] = Event("started", w.convo)
    <3>1. (i + 1) - 1 = i
      BY <1>4
    <3> QED BY <2>1, <2>w, <3>1 DEF EventOK
  <2>4. Queue'[i] = w /\ sent' = sent /\ used' = used
    BY <1>1, <2>1, <2>w DEF core
  <2>5. w.kind = "received" =>
          Known(w.convo)' \/ \E j \in 1 .. i - 1 : Queue'[j] = Event("started", w.convo)
    BY <2>2, <2>3
  <2> QED BY <2>3, <2>4, <2>5 DEF EventOK, Known, Event
<1>13. LoadedInv'
  <2> SUFFICES ASSUME NEW c \in loaded PROVE (Known(c) \/ In(Event("started", c), Queue))'
    BY <1>1 DEF LoadedInv, core
  <2>1. CASE Known(c)
    BY <1>1, <1>8, <2>1 DEF Known
  <2>2. CASE v = Event("started", c)
    BY <1>8, <2>2 DEF Known, Event
  <2>3. CASE In(Event("started", c), Queue) /\ v # Event("started", c)
    BY <1>t, <2>3 DEF In, Event
  <2> QED BY <1>2, <2>1, <2>2, <2>3 DEF LoadedInv
<1>14. ContentInv'
  <2> SUFFICES ASSUME NEW m \in surfaced PROVE (m \in shown \/ m[1] \in deleted \/ In(ReceivedEvent(m), Queue))'
    BY <1>1 DEF ContentInv, core
  <2>1. CASE v = ReceivedEvent(m)
    <3>1. m = <<m[1], m[2]>>
      BY DEF Base, TypeOK, CoreOK, Messages
    <3>2. v.kind = "received" /\ v.convo = m[1] /\ v.id = m[2]
      BY <2>1 DEF ReceivedEvent
    <3> QED BY <1>1, <1>7, <1>8, <3>1, <3>2
  <2>2. CASE v # ReceivedEvent(m)
    BY <1>1, <1>2, <1>t, <1>10, <2>2 DEF ContentInv, In, ReceivedEvent
  <2> QED BY <2>1, <2>2
<1>15. AckInv'
  <2> SUFFICES ASSUME NEW m \in acked, m \in shown' PROVE (m \in delivered \/ In(AckedEvent(m), Queue))'
    BY <1>1 DEF AckInv, core
  <2>1. m \in shown
    BY <1>7, <1>8 DEF Base, TypeOK, CoreOK
  <2>2. CASE v = AckedEvent(m)
    <3>1. v.kind = "acked" /\ v.convo = m[1] /\ v.id = m[2]
      BY <2>2 DEF AckedEvent
    <3> QED BY <1>8, <1>9, <2>1, <3>1
  <2>3. CASE v # AckedEvent(m)
    BY <1>1, <1>2, <1>t, <1>10, <2>1, <2>3 DEF AckInv, In, AckedEvent
  <2> QED BY <2>2, <2>3
<1>16. FlagInv'
  <2>1. CASE v.kind = "started" /\ v.convo \in chats
    <3>1. UNCHANGED <<active, isActive, seated>> /\ unsynced' = (unsynced \/ v.convo = active)
      BY <1>1, <2>1 DEF HandleStarted, core
    <3>2. CASE v.convo = active
      BY <3>1, <3>2 DEF FlagInv
    <3>3. CASE v.convo # active
      <4>1. v # Event("started", active) /\ v # Event("changed", active)
        BY <2>1, <3>3 DEF Event
      <4> QED BY <1>2, <1>t, <3>1, <3>3, <4>1 DEF FlagInv, Event, In, CanSend
    <3> QED BY <3>2, <3>3
  <2>2. CASE v.kind = "started" /\ v.convo \notin chats
    <3>1. active' = v.convo /\ isActive' = (v.convo \in seated) /\ seated' = seated
      BY <1>1, <2>2 DEF HandleStarted, StartSession, SetActiveChat, CanSend, core
    <3> QED BY <3>1 DEF FlagInv, CanSend
  <2>3. CASE v.kind = "changed" /\ v.convo = active
    <3>1. active' = active /\ isActive' = (active \in seated) /\ seated' = seated
      BY <1>1, <2>3 DEF HandleChanged, CanSend, core
    <3> QED BY <3>1 DEF FlagInv, CanSend
  <2>4. CASE v.kind \in {"received", "acked", "error"} \/ (v.kind = "changed" /\ v.convo # active)
    <3>1. UNCHANGED <<active, isActive, seated, unsynced>>
      BY <1>1, <2>4 DEF HandleChanged, HandleReceived, HandleAcked, view, core
    <3>2. v # Event("started", active) /\ v # Event("changed", active)
      BY <2>4 DEF Event
    <3> QED BY <1>2, <1>t, <3>1, <3>2 DEF FlagInv, Event, In, CanSend
  <2> QED BY <1>6, <2>1, <2>2, <2>3, <2>4
<1> QED BY <1>11, <1>12, <1>13, <1>14, <1>15, <1>16 DEF QueueInv

\* The steps of the application that take nothing from the queue.  What it knows
\* it goes on knowing, and a message it sends has an id no event has.
LEMMA OrderKept ==
  ASSUME Base, OrderInv, LoadedInv, Queue' = Queue, \A c \in loaded' : c \in loaded \/ Known(c)',
         \A c \in Convos : Known(c) => Known(c)',
         \/ UNCHANGED <<sent, used>>
         \/ used' = used + 1 /\ sent' \ sent \subseteq Convos \X {used + 1}
  PROVE  OrderInv' /\ LoadedInv'
<1>1. used \in Nat /\ loaded \subseteq Convos
  BY DEF Base, TypeOK, CoreOK, Ids
<1>2. LoadedInv'
  BY <1>1 DEF LoadedInv, Event
<1>3. ASSUME NEW i \in 1 .. Len(Queue) PROVE EventOK(Queue, i)'
  <2> DEFINE v == Queue[i]
  <2>1. EventOK(Queue, i) /\ v \in Events
    BY QueueType DEF OrderInv
  <2>2. v.kind = "received" => v.id \in Nat /\ v.convo \in Convos
    BY <2>1 DEF Events, Ids
  <2>3. ASSUME v.kind = "received"
        PROVE  <<v.convo, v.id>> \notin sent' /\ v.id <= used'
    <3>1. <<v.convo, v.id>> \notin sent /\ v.id <= used
      BY <2>1, <2>3 DEF EventOK
    <3> HIDE DEF v
    <3>2. <<v.convo, v.id>> \notin Convos \X {used + 1}
      BY <1>1, <2>2, <2>3, <3>1
    <3> QED BY <1>1, <2>2, <2>3, <3>1, <3>2
  <2>4. ASSUME v.kind = "received"
        PROVE  Known(v.convo)' \/ \E j \in 1 .. i - 1 : Queue[j] = Event("started", v.convo)
    BY <2>1, <2>2, <2>4 DEF EventOK
  <2> QED BY <2>1, <2>3, <2>4 DEF EventOK, Known, Event
<1> QED BY <1>2, <1>3 DEF OrderInv

\* ChatApp::new: nothing has been shown, sent or deleted before it.
LEMMA QueueOpen == ASSUME Base, QueueInv, Open PROVE QueueInv'
<1>1. /\ phase = "opening" /\ phase' = "drain" /\ chats' = Restored /\ shown' = Restored \X {0}
      /\ chats = {} /\ shown = {} /\ active = NoChat /\ ~isActive /\ sent = {} /\ deleted = {}
      /\ surfaced' = surfaced \cup shown'
      /\ UNCHANGED <<loaded, seated, sent, acked, used, active, isActive, unsynced, deleted, events, batch>>
  BY DEF Open, Base, PhaseInv, threads
<1>2. OwnInv /\ OrderInv /\ LoadedInv /\ ContentInv
  BY <1>1 DEF QueueInv, Live
<1>3. Queue' = Queue
  BY <1>1 DEF Queue
<1>4. OwnInv' /\ \A c \in Convos : Known(c) => Known(c)'
  BY <1>1, ClientAssumption DEF OwnInv, Known
<1>5. OrderInv' /\ LoadedInv'
  BY <1>1, <1>2, <1>3, <1>4, OrderKept
<1>6. ContentInv'
  BY <1>1, <1>2, <1>3 DEF ContentInv, ReceivedEvent
<1>7. AckInv'
  <2>1. acked = {}
    BY <1>1 DEF Base, TypeOK, CoreOK
  <2> QED BY <1>1, <2>1 DEF AckInv
<1>8. FlagInv'
  <2>1. NoChat \notin seated
    BY ClientAssumption DEF Base, TypeOK, CoreOK
  <2> QED BY <1>1, <2>1 DEF FlagInv, CanSend
<1> QED BY <1>4, <1>5, <1>6, <1>7, <1>8 DEF QueueInv

\* Steps that change neither the chats nor the core.
LEMMA QueueIdle ==
  ASSUME Base, QueueInv, Drained \/ NoInput \/ \E c \in Convos : Switch(c)
  PROVE  QueueInv'
<1>1. /\ Running /\ phase \notin {"sending", "creating"} /\ phase' \in {"drain", "input"}
      /\ UNCHANGED <<core, batch, events, deleted, chats, shown, delivered>>
      /\ \/ UNCHANGED <<active, isActive, unsynced>>
         \/ isActive' = CanSend(active')
  BY DEF Drained, NoInput, Switch, SetActiveChat, Running, view, threads
<1>2. OwnInv /\ OrderInv /\ LoadedInv /\ ContentInv /\ AckInv /\ FlagInv
  BY <1>1 DEF QueueInv, Live
<1>3. Queue' = Queue
  BY <1>1 DEF Queue
<1>4. OwnInv' /\ \A c \in Convos : Known(c) => Known(c)'
  BY <1>1, <1>2 DEF OwnInv, Known, core
<1>5. OrderInv' /\ LoadedInv'
  BY <1>1, <1>2, <1>3, <1>4, OrderKept DEF core
<1>6. ContentInv' /\ AckInv'
  BY <1>1, <1>2, <1>3 DEF ContentInv, AckInv, ReceivedEvent, AckedEvent, core
<1>7. FlagInv'
  <2>1. CASE UNCHANGED <<active, isActive, unsynced>>
    BY <1>1, <1>2, <1>3, <2>1 DEF FlagInv, Event, CanSend, core
  <2>2. CASE isActive' = CanSend(active')
    BY <1>1, <2>2 DEF FlagInv, CanSend, core
  <2> QED BY <1>1, <2>1, <2>2
<1> QED BY <1>4, <1>5, <1>6, <1>7 DEF QueueInv

\* /delete and /clear take messages away, and only of one chat.
LEMMA QueueRemove ==
  ASSUME Base, QueueInv, Clear \/ \E c \in Convos : Delete(c)
  PROVE  QueueInv'
<1>1. PICK c \in chats :
        /\ Running /\ phase \notin {"sending", "creating"} /\ phase' = "drain"
        /\ UNCHANGED <<loaded, seated, sent, acked, used, batch, events, isActive>>
        /\ shown' = {m \in shown : m[1] # c} /\ delivered' = {m \in delivered : m[1] # c}
        /\ surfaced' = surfaced \ (shown \ shown')
        /\ chats' \subseteq chats /\ deleted \subseteq deleted' /\ chats \cup deleted = chats' \cup deleted'
        /\ (active' = active /\ unsynced' = unsynced) \/ unsynced'
  <2>1. CASE Clear
    <3>1. active \in chats
      BY <2>1 DEF Clear, Base, TypeOK, AppOK
    <3> QED BY <2>1, <3>1 DEF Clear, Running, threads
  <2>2. ASSUME NEW c \in Convos, Delete(c)
        PROVE  /\ c \in chats /\ Running /\ phase \notin {"sending", "creating"} /\ phase' = "drain"
               /\ UNCHANGED <<loaded, seated, sent, acked, used, batch, events, isActive>>
               /\ shown' = {m \in shown : m[1] # c} /\ delivered' = {m \in delivered : m[1] # c}
               /\ surfaced' = surfaced \ (shown \ shown')
               /\ chats' \subseteq chats /\ deleted \subseteq deleted'
               /\ chats \cup deleted = chats' \cup deleted'
               /\ (active' = active /\ unsynced' = unsynced) \/ unsynced'
    <3>1. PICK d : active' = d /\ unsynced' = (unsynced \/ d # active)
      BY <2>2 DEF Delete
    <3>2. unsynced \in BOOLEAN
      BY DEF Base, TypeOK, AppOK
    <3>3. (active' = active /\ unsynced' = unsynced) \/ unsynced'
      BY <3>1, <3>2
    <3>4. c \in chats /\ chats' = chats \ {c} /\ deleted' = deleted \cup {c}
      BY <2>2 DEF Delete
    <3>5. chats' \subseteq chats /\ deleted \subseteq deleted' /\ chats \cup deleted = chats' \cup deleted'
      BY <3>4
    <3>6. /\ phase = "input" /\ phase' = "drain"
          /\ shown' = {m \in shown : m[1] # c} /\ delivered' = {m \in delivered : m[1] # c}
          /\ surfaced' = surfaced \ (shown \ shown')
          /\ UNCHANGED <<loaded, seated, sent, acked, used, threads, isActive, events>>
      BY <2>2 DEF Delete
    <3>7. Running /\ phase \notin {"sending", "creating"} /\ batch' = batch
      BY <3>6 DEF Running, threads
    <3> QED BY <3>3, <3>4, <3>5, <3>6, <3>7
  <2> QED BY <2>1, <2>2
<1>2. OwnInv /\ OrderInv /\ LoadedInv /\ ContentInv /\ AckInv /\ FlagInv
  BY <1>1 DEF QueueInv, Live
<1>3. Queue' = Queue
  BY <1>1 DEF Queue
<1>4. OwnInv' /\ \A d \in Convos : Known(d) => Known(d)'
  BY <1>1, <1>2 DEF OwnInv, Known
<1>5. OrderInv' /\ LoadedInv'
  BY <1>1, <1>2, <1>3, <1>4, OrderKept
<1>6. ContentInv' /\ AckInv'
  BY <1>1, <1>2, <1>3 DEF ContentInv, AckInv, ReceivedEvent, AckedEvent
<1>7. FlagInv'
  BY <1>1, <1>2, <1>3 DEF FlagInv, Event, CanSend
<1> QED BY <1>4, <1>5, <1>6, <1>7 DEF QueueInv

\* A message goes out under an id of its own, and is echoed into its chat.
LEMMA QueueSend == ASSUME Base, QueueInv, SendMessage \/ EchoSent PROVE QueueInv'
<1>1. /\ Running /\ phase \in {"input", "sending"} /\ phase' \in {"sending", "drain"}
      /\ UNCHANGED <<loaded, seated, surfaced, acked, batch, events, chats, deleted, delivered,
                     active, isActive, unsynced>>
  BY DEF SendMessage, EchoSent, Running, view, threads, core
<1>2. OwnInv /\ OrderInv /\ LoadedInv /\ ContentInv /\ AckInv /\ FlagInv
  BY <1>1 DEF QueueInv, Live
<1>3. Queue' = Queue
  BY <1>1 DEF Queue
<1>4. OwnInv' /\ \A c \in Convos : Known(c) => Known(c)'
  BY <1>1, <1>2 DEF OwnInv, Known
<1>5. FlagInv'
  BY <1>1, <1>2, <1>3 DEF FlagInv, Event, CanSend
<1>6. CASE SendMessage
  <2>1. /\ active \in Convos /\ used' = used + 1 /\ echo' = <<active, used + 1>>
        /\ sent' = sent \cup {<<active, used + 1>>} /\ shown' = shown
    BY <1>6 DEF SendMessage, view, Base, TypeOK, AppOK
  <2>2. OrderInv' /\ LoadedInv'
    BY <1>1, <1>2, <1>3, <1>4, <2>1, OrderKept
  <2>3. <<active, used + 1>> \notin acked
    <3>1. used \in Nat /\ \A m \in acked : m[2] <= used
      BY DEF Base, TypeOK, CoreOK, IdsInv, Ids
    <3> QED BY <3>1
  <2>4. ContentInv' /\ AckInv'
    BY <1>1, <1>2, <1>3, <1>6, <2>1, <2>3
    DEF SendMessage, ContentInv, AckInv, ReceivedEvent, AckedEvent
  <2> QED BY <1>4, <1>5, <2>2, <2>4 DEF QueueInv
<1>7. CASE EchoSent
  <2>1. shown' = shown \cup {echo} /\ UNCHANGED <<sent, used>> /\ phase = "sending" /\ phase' = "drain"
    BY <1>7 DEF EchoSent, core
  <2>2. OrderInv' /\ LoadedInv'
    BY <1>1, <1>2, <1>3, <1>4, <2>1, OrderKept
  <2>3. ContentInv' /\ AckInv'
    BY <1>1, <1>2, <1>3, <2>1 DEF ContentInv, AckInv, ReceivedEvent, AckedEvent
  <2> QED BY <1>4, <1>5, <2>2, <2>3 DEF QueueInv
<1> QED BY <1>6, <1>7

\* A conversation of this client: created in the core, then given a chat.
LEMMA QueueCreate == ASSUME Base, QueueInv, Created \/ \E c \in Convos : Create(c) PROVE QueueInv'
<1>1. /\ Running /\ phase \in {"input", "creating"} /\ phase' \in {"creating", "drain"}
      /\ UNCHANGED <<sent, used, surfaced, acked, batch, events, deleted>>
  BY DEF Created, Create, Running, threads, core
<1>2. OwnInv /\ OrderInv /\ LoadedInv /\ ContentInv /\ AckInv /\ FlagInv
  BY <1>1 DEF QueueInv, Live
<1>3. Queue' = Queue
  BY <1>1 DEF Queue
<1>4. ASSUME NEW c \in Convos, Create(c) PROVE QueueInv'
  <2>1. /\ phase = "input" /\ phase' = "creating" /\ c \in Mine \ loaded /\ echo'[1] = c
        /\ loaded' = loaded \cup {c} /\ seated' = seated \cup {c}
        /\ UNCHANGED <<chats, shown, delivered, active, isActive, unsynced>>
    BY <1>4 DEF Create, view
  <2>2. OwnInv' /\ (\A d \in Convos : Known(d) => Known(d)') /\ Known(c)'
    BY <1>1, <1>2, <2>1 DEF OwnInv, Known
  <2>3. OrderInv' /\ LoadedInv'
    BY <1>1, <1>2, <1>3, <2>1, <2>2, OrderKept
  <2>4. ContentInv' /\ AckInv'
    BY <1>1, <1>2, <1>3, <2>1 DEF ContentInv, AckInv, ReceivedEvent, AckedEvent
  <2>5. active # c
    BY <1>2, <2>1, ClientAssumption DEF OwnInv, Base, TypeOK, AppOK
  <2>6. FlagInv'
    BY <1>2, <1>3, <2>1, <2>5 DEF FlagInv, Event, CanSend
  <2> QED BY <2>2, <2>3, <2>4, <2>6 DEF QueueInv
<1>5. CASE Created
  <2> DEFINE c == echo[1]
  <2>1. /\ phase = "creating" /\ phase' = "drain" /\ UNCHANGED <<loaded, seated>>
        /\ chats' = chats \cup {c}
        /\ shown' = {m \in shown : m[1] # c} /\ delivered' = {m \in delivered : m[1] # c}
        /\ active' = c /\ isActive' = (c \in seated)
    BY <1>5 DEF Created, StartSession, SetActiveChat, CanSend, core
  <2>2. c \in loaded /\ c \notin chats
    BY <1>2, <2>1 DEF OwnInv
  <2>3. OwnInv' /\ \A d \in Convos : Known(d) => Known(d)'
    BY <1>1, <1>2, <2>1, <2>2 DEF OwnInv, Known
  <2>4. OrderInv' /\ LoadedInv'
    BY <1>1, <1>2, <1>3, <2>1, <2>3, OrderKept
  <2>5. shown' = shown /\ delivered' = delivered
    <3>1. (\A m \in shown : m[1] \in chats) /\ delivered \subseteq shown
      BY DEF Base, TypeOK, AppOK
    <3> HIDE DEF c
    <3> QED BY <2>1, <2>2, <3>1
  <2>6. ContentInv' /\ AckInv'
    BY <1>1, <1>2, <1>3, <2>1, <2>5 DEF ContentInv, AckInv, ReceivedEvent, AckedEvent
  <2>7. FlagInv'
    BY <2>1 DEF FlagInv, CanSend
  <2> QED BY <2>3, <2>4, <2>6, <2>7 DEF QueueInv
<1> QED BY <1>4, <1>5

\* Every step keeps the queue and the application in agreement.
LEMMA QueueStep == Base /\ QueueInv /\ [Next]_vars => QueueInv'
<1> SUFFICES ASSUME Base, QueueInv, [Next]_vars PROVE QueueInv'
  OBVIOUS
<1>1. CASE UNCHANGED vars
  <2>1. UNCHANGED <<app, loaded, seated, sent, surfaced, acked, used, events, batch>>
    BY <1>1 DEF vars, core, threads
  <2>2. Queue' = Queue
    BY <2>1 DEF Queue
  <2> QED BY <2>1, <2>2, QueueKept
<1>2. CASE Worker
  BY <1>2, QueueInbound, QueueInboundFails, QueueEmit, QueueWakeup DEF Worker
<1>3. CASE Thread
  <2>1. CASE DropClient \/ Join
    BY <2>1 DEF QueueInv, Live, Running, DropClient, Join
  <2> QED BY <1>3, <2>1, QueueOpen, QueuePop, QueueIdle, QueueSend, QueueCreate DEF Thread
<1>4. CASE User
  <2>1. CASE OpenFails \/ Quit
    BY <2>1 DEF QueueInv, Live, Running, OpenFails, Quit
  <2> QED BY <1>4, <2>1, QueueIdle, QueueRemove, QueueSend, QueueCreate DEF User
<1> QED BY <1>1, <1>2, <1>3, <1>4, QueueEmit, QueueArrival DEF Next

\* Nothing has happened yet.
LEMMA InitQueue == Init => QueueInv
<1> SUFFICES ASSUME Init PROVE QueueInv
  OBVIOUS
<1>1. /\ phase = "opening" /\ chats = {} /\ loaded = {} /\ surfaced = {} /\ acked = {} /\ seated = {}
      /\ ~isActive /\ Queue = <<>>
  BY DEF Init, Queue
<1>2. OrderInv
  BY <1>1 DEF OrderInv
<1> QED BY <1>1, <1>2 DEF QueueInv, OwnInv, LoadedInv, ContentInv, AckInv, FlagInv, CanSend

----------------------------------------------------------------------------
\* What is in the queue is in flight.
LEMMA QueueInFlight == ASSUME Base PROVE \A v : In(v, Queue) => InFlight(v)
  BY QueueType, InConcat DEF Queue, In, InFlight

\* The state of both threads is of its type, ids are given out once, the phases
\* of the application go with what it holds, and the queue between worker and
\* application carries what the application has yet to learn.
THEOREM QueueTellsAll == Spec => [](Base /\ QueueInv)
  BY InitBase, BaseStep, InitQueue, QueueStep, PTL DEF Spec

\* Worker and application never settle on different views of the active chat,
\* for any conversations and any interleaving of the two threads.
THEOREM FlagFresh == Spec => []ActiveFlagFresh
<1>1. Base /\ QueueInv => ActiveFlagFresh
  <2> SUFFICES ASSUME Base, QueueInv, Running, ~unsynced, ~(isActive <=> CanSend(active))
               PROVE  \E kind \in {"changed", "started"} : InFlight(Event(kind, active))
    BY DEF ActiveFlagFresh
  <2>1. In(Event("changed", active), Queue) \/ In(Event("started", active), Queue)
    BY DEF QueueInv, FlagInv, Live
  <2> QED BY <2>1, QueueInFlight
<1> QED BY <1>1, QueueTellsAll, PTL

\* An acknowledgement the core has reported reaches the message it is for, also
\* when the worker reports it before the application has echoed the message.
THEOREM AckReaches == Spec => []AckReachesMessage
<1>1. Base /\ QueueInv => AckReachesMessage
  BY QueueInFlight DEF AckReachesMessage, QueueInv, AckInv, AckedEvent, Live
<1> QED BY <1>1, QueueTellsAll, PTL

\* A message the core has handed out is in its chat or on its way there until
\* the user deletes or clears it: no start of a chat overtakes or wipes it.
THEOREM ContentReaches == Spec => []ContentReachesChat
<1>1. Base /\ QueueInv => ContentReachesChat
  BY QueueInFlight DEF ContentReachesChat, QueueInv, ContentInv, ReceivedEvent, Live
<1> QED BY <1>1, QueueTellsAll, PTL

\* What is on the screen while the application waits for a key is in the state
\* file.
THEOREM SavedFirst == Spec => []SavedBeforeDrawn
<1>1. Base => SavedBeforeDrawn
  BY DEF Base, PhaseInv, SavedBeforeDrawn
<1> QED BY <1>1, QueueTellsAll, PTL
============================================================================
