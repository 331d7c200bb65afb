--------------------------- MODULE GroupV1Proofs ---------------------------
(***************************************************************************)
(* Proofs about GroupV1, for any signers, any delivery order and any       *)
(* number of commits, messages, restarts and delivery failures.            *)
(***************************************************************************)
EXTENDS GroupV1, SequenceTheorems, TLAPS

\* A history is a prefix of itself.
LEMMA PrefixReflexive == \A h \in Past : IsPrefixOf(h, h)
  BY DEF IsPrefixOf, Past

\* Prefixes of prefixes are prefixes.
LEMMA PrefixTransitive ==
  ASSUME NEW f \in Past, NEW g \in Past, NEW h \in Past, IsPrefixOf(f, g), IsPrefixOf(g, h)
  PROVE  IsPrefixOf(f, h)
<1>1. Len(f) \in Nat /\ Len(g) \in Nat /\ Len(h) \in Nat
  BY DEF Past
<1> QED BY <1>1 DEF IsPrefixOf

\* A history is a prefix of what a commit makes of it.
LEMMA PrefixAppend ==
  ASSUME NEW h \in Past, NEW c \in Commit
  PROVE  Append(h, c) \in Past \ {<<>>} /\ IsPrefixOf(h, Append(h, c))
<1>1. Append(h, c) \in Seq(Commit) /\ Len(Append(h, c)) = Len(h) + 1
  BY AppendProperties DEF Past
<1>2. \A i \in 1 .. Len(h) : Append(h, c)[i] = h[i]
  BY AppendProperties DEF Past
<1>3. Len(h) \in Nat
  BY DEF Past
<1>4. Append(h, c) # <<>>
  BY <1>1, <1>3, EmptySeq
<1> QED BY <1>1, <1>2, <1>3, <1>4 DEF IsPrefixOf, Past

\* The first commit and what create makes of it are histories.
LEMMA FoundedIsPast ==
  /\ Born \in Commit /\ <<Born>> \in Past /\ <<>> \in Past
  /\ \A c \in Commit : <<Born, c>> \in Past
<1>1. Born \in Commit
  BY GroupAssumption DEF Born, Commit
<1> QED BY <1>1, EmptySeq DEF Past

\* An active member's history is not empty.
LEMMA ActiveHasPast == ASSUME NEW h \in Past, NEW p \in Roster(h) PROVE h # <<>>
  BY EmptySeq DEF Roster, Past

----------------------------------------------------------------------------
\* A sequence put at the end of the wire leaves what is there in place.
LEMMA WireConcat ==
  ASSUME NEW w \in Seq(Frame), NEW t \in Seq(Frame)
  PROVE  /\ w \o t \in Seq(Frame) /\ Len(w \o t) >= Len(w)
         /\ \A i \in 1 .. Len(w) : (w \o t)[i] = w[i]
         /\ \A i \in 1 .. Len(w \o t) : i <= Len(w) \/ \E j \in 1 .. Len(t) : (w \o t)[i] = t[j]
<1>1. w \o t \in Seq(Frame) /\ Len(w \o t) = Len(w) + Len(t)
  BY ConcatProperties
<1>2. Len(w) \in Nat /\ Len(t) \in Nat
  OBVIOUS
<1>3. \A i \in 1 .. Len(w) + Len(t) :
        (w \o t)[i] = IF i <= Len(w) THEN w[i] ELSE t[i - Len(w)]
  BY ConcatProperties
<1>4. ASSUME NEW i \in 1 .. Len(w \o t), ~(i <= Len(w))
      PROVE  \E j \in 1 .. Len(t) : (w \o t)[i] = t[j]
  <2>1. i - Len(w) \in 1 .. Len(t) /\ (w \o t)[i] = t[i - Len(w)]
    BY <1>1, <1>2, <1>3, <1>4
  <2> QED BY <2>1
<1> QED BY <1>1, <1>2, <1>3, <1>4

\* The frames a call publishes are its welcome and its commit.
LEMMA OutgoingFrames ==
  ASSUME NEW invites, NEW commitOut \in BOOLEAN, NEW h, NEW c,
         invites # {} => Invite(Append(h, c), invites) \in Frame,
         CommitFrame(h, c) \in Frame
  PROVE  /\ Outgoing(invites, commitOut, h, c) \in Seq(Frame)
         /\ \A j \in 1 .. Len(Outgoing(invites, commitOut, h, c)) :
              \/ invites # {} /\ Outgoing(invites, commitOut, h, c)[j] = Invite(Append(h, c), invites)
              \/ Outgoing(invites, commitOut, h, c)[j] = CommitFrame(h, c)
<1> DEFINE x == Invite(Append(h, c), invites)
           y == CommitFrame(h, c)
<1>1. Outgoing(invites, commitOut, h, c) =
        (IF invites = {} THEN <<>> ELSE <<x>>) \o (IF commitOut THEN <<y>> ELSE <<>>)
  BY DEF Outgoing
<1>2. (invites # {} => x \in Frame) /\ y \in Frame
  OBVIOUS
<1> HIDE DEF x, y
<1>3. CASE invites = {} /\ ~commitOut
  BY <1>1, <1>3, EmptySeq
<1>4. CASE invites = {} /\ commitOut
  <2>1. Outgoing(invites, commitOut, h, c) = <<y>>
    BY <1>1, <1>4
  <2> QED BY <1>2, <2>1 DEF y
<1>5. CASE invites # {} /\ ~commitOut
  <2>1. Outgoing(invites, commitOut, h, c) = <<x>>
    BY <1>1, <1>5
  <2> QED BY <1>2, <1>5, <2>1 DEF x
<1>6. CASE invites # {} /\ commitOut
  <2>1. Outgoing(invites, commitOut, h, c) = <<x>> \o <<y>>
    BY <1>1, <1>6
  <2>2. /\ <<x>> \in Seq(Frame) /\ Len(<<x>>) = 1 /\ <<x>>[1] = x
        /\ <<y>> \in Seq(Frame) /\ Len(<<y>>) = 1 /\ <<y>>[1] = y
    BY <1>2, <1>6
  <2> DEFINE s == <<x>>
             t == <<y>>
  <2> HIDE DEF s, t
  <2>3. s \o t \in Seq(Frame) /\ Len(s \o t) = 2
    BY <2>2, ConcatProperties DEF s, t
  <2>4. (s \o t)[1] = x /\ (s \o t)[2] = y
    BY <2>2, ConcatProperties DEF s, t
  <2>5. \A j \in 1 .. 2 : j = 1 \/ j = 2
    OBVIOUS
  <2>6. Outgoing(invites, commitOut, h, c) = s \o t
    BY <2>1 DEF s, t
  <2> QED BY <1>6, <2>3, <2>4, <2>5, <2>6 DEF x, y
<1> QED BY <1>3, <1>4, <1>5, <1>6

\* What a call that publishes a commit does to the wire.
LEMMA PublishEffect ==
  ASSUME TypeOK, NEW all, NEW invites \in SUBSET Signers, NEW commitOut \in BOOLEAN,
         NEW h \in Past, NEW c \in Commit, Publish(all, invites, commitOut, h, c)
  PROVE  /\ wire' \in Seq(Frame) /\ failures' \in Nat /\ Len(wire') >= Len(wire)
         /\ \A i \in 1 .. Len(wire) : wire'[i] = wire[i]
         /\ \A i \in 1 .. Len(wire') : i <= Len(wire)
              \/ wire'[i] = Invite(Append(h, c), invites)
              \/ wire'[i] = CommitFrame(h, c)
<1>1. Invite(Append(h, c), invites) \in Frame
  BY PrefixAppend DEF Invite, Frame, Welcomes, TypeOK
<1>2. CommitFrame(h, c) \in Frame
  BY DEF CommitFrame, Frame, Commits, Commit
<1> DEFINE t == Outgoing(invites, commitOut, h, c)
<1>3. t \in Seq(Frame)
  BY <1>1, <1>2, OutgoingFrames
<1>4. \A j \in 1 .. Len(t) : t[j] = Invite(Append(h, c), invites) \/ t[j] = CommitFrame(h, c)
  BY <1>1, <1>2, OutgoingFrames
<1>5. wire' = wire \o t /\ failures' \in Nat
  BY DEF Publish, TypeOK
<1> HIDE DEF t
<1>6. wire \in Seq(Frame)
  BY DEF TypeOK
<1> QED BY <1>3, <1>4, <1>5, <1>6, WireConcat

\* A message is a frame.
LEMMA SealIsFrame ==
  ASSUME TypeOK, NEW p \in Signers
  PROVE  Seal(p) \in Frame /\ Append(wire, Seal(p)) \in Seq(Frame)
<1>1. Len(decided) \in Nat /\ lamport[p] + 1 \in Nat /\ past[p] \in Past
  BY DEF TypeOK, Past
<1>2. Seal(p) \in Frame
  BY <1>1 DEF Seal, Frame, Contents
<1>3. wire \in Seq(Frame)
  BY DEF TypeOK
<1> QED BY <1>2, <1>3, AppendProperties

\* What the frames on the wire are made of.
LEMMA FrameParts ==
  ASSUME TypeOK, NEW i \in 1 .. Len(wire)
  PROVE  /\ wire[i] \in Frame /\ wire[i].past \in Past
         /\ wire[i].kind = "welcome" => wire[i] \in Welcomes
         /\ wire[i].kind = "commit" => wire[i] \in Commits /\ wire[i].commit \in Commit
         /\ wire[i].kind = "content" => wire[i] \in Contents /\ wire[i].lamport \in Nat
<1>1. wire[i] \in Frame
  BY ElementOfSeq DEF TypeOK
<1> QED BY <1>1 DEF Frame, Welcomes, Commits, Contents

\* Every step keeps the types.
LEMMA TypeStep == TypeOK /\ [Next]_vars => TypeOK'
<1> SUFFICES ASSUME TypeOK, [Next]_vars PROVE TypeOK'
  OBVIOUS
<1> USE GroupAssumption
<1>1. ASSUME NEW kind \in {"group", "direct"}, NEW members \in SUBSET Signers,
             NEW invites \in SUBSET Signers, NEW commitOut \in BOOLEAN,
             Create(kind, members, invites, commitOut)
      PROVE  TypeOK'
  <2> DEFINE c == [by |-> Creator, add |-> members \ {Creator}, rem |-> {}]
  <2>1. c \in Commit /\ <<Born>> \in Past /\ <<Born, c>> \in Past
    BY FoundedIsPast DEF Commit
  <2>2. wire' \in Seq(Frame) /\ failures' \in Nat
    <3>1. CASE c.add = {}
      BY <1>1, <3>1 DEF Create, TypeOK
    <3>2. CASE Publish(c.add, invites, commitOut, <<Born>>, c)
      BY <2>1, <3>2, PublishEffect
    <3> QED BY <1>1, <3>1, <3>2 DEF Create
  <2>3. /\ decided' \in Past /\ decided' # <<>>
        /\ past' = [past EXCEPT ![Creator] = decided']
    BY <1>1, <2>1 DEF Create
  <2>4. /\ UNCHANGED <<session, package, lamport, used, shown, cursor, restarts>>
        /\ record' \subseteq Signers
        /\ convo' = convo \/ convo' = [convo EXCEPT ![Creator] = kind]
    BY <1>1 DEF Create, TypeOK
  <2> QED BY <2>2, <2>3, <2>4 DEF TypeOK
<1>2. ASSUME NEW p \in Signers, NEW c \in Commit, NEW invites \in SUBSET Signers,
             NEW commitOut \in BOOLEAN, MergeThenPublish(p, c, invites, commitOut),
             decided' = Append(decided, c),
             UNCHANGED <<convo, record, session, package, lamport, used, shown, cursor, restarts>>
      PROVE  TypeOK'
  <2>1. past[p] \in Past /\ decided \in Past
    BY DEF TypeOK
  <2>2. wire' \in Seq(Frame) /\ failures' \in Nat
    BY <1>2, <2>1, PublishEffect DEF MergeThenPublish
  <2>3. Append(past[p], c) \in Past /\ decided' \in Past /\ Append(past[p], c) # <<>>
    BY <1>2, <2>1, PrefixAppend, AppendProperties, EmptySeq DEF Past
  <2>4. past' = [past EXCEPT ![p] = Append(past[p], c)]
    BY <1>2 DEF MergeThenPublish, TypeOK
  <2> QED BY <1>2, <2>2, <2>3, <2>4 DEF TypeOK
<1>3. ASSUME NEW p \in Signers, NEW members \in SUBSET Signers,
             NEW invites \in SUBSET Signers, NEW commitOut \in BOOLEAN,
             AddSigner(p, members, invites, commitOut) \/ RemoveSigner(p, members, commitOut)
      PROVE  TypeOK'
  <2>1. CASE AddSigner(p, members, invites, commitOut)
    <3>1. [by |-> p, add |-> members \ Roster(past[p]), rem |-> {}] \in Commit
      BY DEF Commit
    <3> QED BY <1>2, <2>1, <3>1 DEF AddSigner
  <2>2. CASE RemoveSigner(p, members, commitOut)
    <3>1. [by |-> p, add |-> {}, rem |-> members \cap Roster(past[p])] \in Commit
      BY DEF Commit, Roster
    <3> QED BY <1>2, <2>2, <3>1 DEF RemoveSigner
  <2> QED BY <1>3, <2>1, <2>2
<1>4. CASE CreateUnseated
  <2>1. <<Born>> \in Past /\ <<Born>> # <<>>
    BY FoundedIsPast
  <2> QED BY <1>4, <2>1 DEF CreateUnseated, TypeOK
<1>5. ASSUME NEW p \in Signers, NEW published \in BOOLEAN, SendContent(p, published)
      PROVE  TypeOK'
  <2>1. wire' \in Seq(Frame)
    BY <1>5, SealIsFrame DEF SendContent, TypeOK
  <2>2. lamport' \in [Signers -> Nat] /\ failures' \in Nat
    <3>1. lamport \in [Signers -> Nat] /\ failures \in Nat
      BY DEF TypeOK
    <3>2. /\ lamport' = [lamport EXCEPT ![p] = lamport[p] + 1]
          /\ failures' = failures \/ failures' = failures + 1
      BY <1>5, <3>1 DEF SendContent
    <3> QED BY <3>1, <3>2
  <2>3. UNCHANGED <<past, convo, record, session, package, used, shown, cursor, decided, restarts>>
    BY <1>5 DEF SendContent
  <2> QED BY <2>1, <2>2, <2>3, SMTT(30) DEF TypeOK
<1>6. ASSUME NEW q \in Signers, NEW i \in 1 .. Len(wire), NEW valid \in BOOLEAN,
             Deliver(q, i, valid)
      PROVE  TypeOK'
  <2>1. cursor' \in [Signers -> Nat] /\ UNCHANGED <<wire, decided, restarts>> /\ failures' \in Nat
    <3>1. i \in Nat /\ cursor \in [Signers -> Nat] /\ failures \in Nat
      BY DEF TypeOK
    <3>2. cursor' = (IF Ordered THEN [cursor EXCEPT ![q] = i] ELSE cursor)
          /\ UNCHANGED <<wire, decided, restarts>>
      BY <1>6 DEF Deliver
    <3>3. wire[i].kind \in {"welcome", "commit", "content"}
      BY FrameParts DEF Frame, Welcomes, Commits, Contents
    <3>4. failures' = failures \/ failures' = failures + 1
      BY <1>6, <3>3 DEF Deliver, HandleWelcome
    <3> QED BY <3>1, <3>2, <3>4
  <2>2. CASE UNCHANGED local
    BY <2>1, <2>2, SMTT(30) DEF TypeOK, local
  <2>3. CASE wire[i].kind = "welcome" /\ HandleWelcome(q, wire[i])
    <3>1. wire[i].past \in Past \ {<<>>}
      BY <2>3, FrameParts DEF Welcomes
    <3>2. CASE q \in wire[i].to /\ wire[i].keys[q] = session[q] /\ past[q] = <<>>
      <4>1. /\ past' = [past EXCEPT ![q] = wire[i].past]
            /\ convo' = [convo EXCEPT ![q] = "direct"] \/ convo' = convo
            /\ record' \subseteq record \cup {q}
            /\ UNCHANGED <<session, package, lamport, used, shown>>
        BY <2>3, <3>2 DEF HandleWelcome, JoinedAs
      <4> QED BY <2>1, <3>1, <4>1 DEF TypeOK
    <3>3. CASE ~(q \in wire[i].to /\ wire[i].keys[q] = session[q] /\ past[q] = <<>>)
      BY <2>2, <2>3, <3>3 DEF HandleWelcome
    <3> QED BY <3>2, <3>3
  <2>4. CASE wire[i].kind = "commit" /\ HandleCommit(q, wire[i])
    <3>1. CASE Opens(q, wire[i])
      <4>1. wire[i].commit \in Commit /\ past[q] \in Past
        BY <2>4, FrameParts, SMTT(30) DEF TypeOK
      <4>2. Append(past[q], wire[i].commit) \in Past \ {<<>>}
        BY <4>1, PrefixAppend
      <4>3. /\ past' = [past EXCEPT ![q] = Append(past[q], wire[i].commit)]
            /\ UNCHANGED <<convo, record, session, package, lamport, used, shown>>
        BY <2>4, <3>1, SMTT(30) DEF HandleCommit, TypeOK
      <4> QED BY <2>1, <4>2, <4>3 DEF TypeOK
    <3>2. CASE ~Opens(q, wire[i])
      BY <2>2, <2>4, <3>2 DEF HandleCommit
    <3> QED BY <3>1, <3>2
  <2>5. CASE wire[i].kind = "content" /\ HandleContent(q, i, wire[i], valid)
    <3>1. CASE Opens(q, wire[i]) /\ i \notin used[q]
      <4>1. wire[i].lamport \in Nat /\ i \in Nat
        BY <2>5, FrameParts
      <4>0. /\ lamport \in [Signers -> Nat]
            /\ used \in [Signers -> SUBSET Nat] /\ shown \in [Signers -> SUBSET Nat]
        BY DEF TypeOK
      <4>2. used' \in [Signers -> SUBSET Nat]
        <5>1. used' = [used EXCEPT ![q] = used[q] \cup {i}]
          BY <2>5, <3>1, <4>0 DEF HandleContent
        <5> QED BY <4>0, <4>1, <5>1
      <4>3. lamport' \in [Signers -> Nat]
        <5>1. \E n \in Nat : lamport' = [lamport EXCEPT ![q] = n]
          BY <2>5, <3>1, <4>0, <4>1 DEF HandleContent
        <5> QED BY <4>0, <5>1
      <4>4. shown' \in [Signers -> SUBSET Nat]
        <5>1. shown' = shown \/ shown' = [shown EXCEPT ![q] = shown[q] \cup {i}]
          BY <2>5, <3>1, <4>0 DEF HandleContent
        <5> QED BY <4>0, <4>1, <5>1
      <4>5. UNCHANGED <<past, convo, record, session, package>>
        BY <2>5, <3>1 DEF HandleContent
      <4> QED BY <2>1, <4>2, <4>3, <4>4, <4>5 DEF TypeOK
    <3>2. CASE ~(Opens(q, wire[i]) /\ i \notin used[q])
      BY <2>2, <2>5, <3>2 DEF HandleContent
    <3> QED BY <3>1, <3>2
  <2>6. wire[i].kind \in {"welcome", "commit", "content"}
    BY FrameParts DEF Frame, Welcomes, Commits, Contents
  <2> QED BY <1>6, <2>3, <2>4, <2>5, <2>6 DEF Deliver
<1>7. ASSUME NEW p \in Signers, Restart(p)
      PROVE  TypeOK'
  <2>1. <<>> \in Past
    BY FoundedIsPast
  <2> QED BY <1>7, <2>1 DEF Restart, TypeOK
<1>8. CASE UNCHANGED vars
  BY <1>8 DEF vars, TypeOK
<1> QED BY <1>1, <1>3, <1>4, <1>5, <1>6, <1>7, <1>8 DEF Next, DeliverTo

\* Every reachable state is well typed.
THEOREM TypeCorrect == SafeSpec => []TypeOK
<1>1. Init => TypeOK
  <2> SUFFICES ASSUME Init PROVE TypeOK
    OBVIOUS
  <2>1. <<>> \in Past /\ <<>> \in Seq(Frame)
    BY FoundedIsPast, EmptySeq
  <2>2. past \in [Signers -> Past] /\ decided \in Past /\ wire \in Seq(Frame)
    BY <2>1 DEF Init
  <2>3. used \in [Signers -> SUBSET Nat] /\ shown \in [Signers -> SUBSET Nat]
    BY DEF Init
  <2>4. /\ session \in [Signers -> Nat] /\ package \in [Signers -> Nat]
        /\ lamport \in [Signers -> Nat] /\ cursor \in [Signers -> Nat]
        /\ restarts \in Nat /\ failures \in Nat
    BY DEF Init
  <2>5. /\ convo \in [Signers -> {"none", "group", "direct"}] /\ record \subseteq Signers
        /\ \A p \in Signers : convo[p] # "none" => past[p] # <<>>
    BY DEF Init
  <2> QED BY <2>2, <2>3, <2>4, <2>5 DEF TypeOK
<1> QED BY <1>1, TypeStep, PTL DEF SafeSpec

----------------------------------------------------------------------------
\* A frame of the history stays one when the history grows.
LEMMA FrameStays ==
  ASSUME TypeOK, HistoryInv, decided' \in Past, IsPrefixOf(decided, decided'),
         NEW i \in 1 .. Len(wire)
  PROVE  FrameInHistory(wire[i], decided')
<1> DEFINE f == wire[i]
<1>1. f.past \in Past /\ decided \in Past /\ FrameInHistory(f, decided)
  BY FrameParts DEF TypeOK, HistoryInv
<1>2. IsPrefixOf(f.past, decided')
  BY <1>1, PrefixTransitive DEF FrameInHistory
<1>3. ASSUME f.kind = "commit" PROVE IsPrefixOf(Append(f.past, f.commit), decided')
  <2>1. Append(f.past, f.commit) \in Past
    BY <1>1, <1>3, FrameParts, PrefixAppend
  <2> QED BY <1>1, <1>3, <2>1, PrefixTransitive DEF FrameInHistory
<1> QED BY <1>1, <1>2, <1>3 DEF FrameInHistory

\* A frame the creator sends when its commit makes the history h.
LeadsTo(f, h) ==
  \/ f.kind = "welcome" /\ Creator \notin f.to /\ f.past = h
  \/ /\ f.kind = "commit" /\ f.by = Creator
     /\ Append(f.past, f.commit) = h /\ IsPrefixOf(f.past, h)

\* The welcome and the commit that add_signer and remove_signer publish.
LEMMA PublishedLeadsTo ==
  ASSUME NEW h \in Past, NEW c \in Commit, c.by = Creator,
         NEW invites \in SUBSET Signers, Creator \notin invites
  PROVE  /\ LeadsTo(Invite(Append(h, c), invites), Append(h, c))
         /\ LeadsTo(CommitFrame(h, c), Append(h, c))
<1>1. /\ Invite(Append(h, c), invites).kind = "welcome" /\ Invite(Append(h, c), invites).to = invites
      /\ Invite(Append(h, c), invites).past = Append(h, c)
  BY DEF Invite
<1>2. /\ CommitFrame(h, c).kind = "commit" /\ CommitFrame(h, c).by = Creator
      /\ CommitFrame(h, c).past = h /\ CommitFrame(h, c).commit = c
  BY DEF CommitFrame
<1>3. LeadsTo(Invite(Append(h, c), invites), Append(h, c))
  BY <1>1 DEF LeadsTo
<1>4. IsPrefixOf(h, Append(h, c))
  BY PrefixAppend
<1>5. LeadsTo(CommitFrame(h, c), Append(h, c))
  BY <1>2, <1>4 DEF LeadsTo
<1> QED BY <1>3, <1>5

\* Every call in which the creator founds the group or commits keeps the
\* invariant: it moves its own group and the history together.
LEMMA CommitKeeps ==
  ASSUME TypeOK, TypeOK', HistoryInv, IsPrefixOf(decided, decided'),
         past' = [past EXCEPT ![Creator] = decided'],
         \A p \in Signers : convo'[p] = convo[p] \/ p = Creator,
         shown' = shown, Len(wire') >= Len(wire),
         \A i \in 1 .. Len(wire) : wire'[i] = wire[i],
         \A i \in 1 .. Len(wire') : i <= Len(wire) \/ LeadsTo(wire'[i], decided')
  PROVE  HistoryInv'
<1>1. decided \in Past /\ decided' \in Past /\ Len(wire) \in Nat /\ Len(wire') \in Nat
      /\ Creator \in Signers /\ past \in [Signers -> Past]
  BY GroupAssumption DEF TypeOK
<1>2. OneHistory'
  <2> SUFFICES ASSUME NEW p \in Signers PROVE IsPrefixOf(past'[p], decided')
    BY DEF OneHistory
  <2>1. CASE p = Creator
    BY <1>1, <2>1, PrefixReflexive
  <2>2. CASE p # Creator
    <3>1. past'[p] = past[p] /\ past[p] \in Past /\ IsPrefixOf(past[p], decided)
      BY <1>1, <2>2 DEF HistoryInv, OneHistory
    <3> QED BY <1>1, <3>1, PrefixTransitive
  <2> QED BY <2>1, <2>2
<1>3. ASSUME NEW i \in 1 .. Len(wire') PROVE FrameInHistory(wire'[i], decided')
  <2>1. CASE i <= Len(wire)
    <3>1. i \in 1 .. Len(wire) /\ wire'[i] = wire[i]
      BY <1>1, <2>1
    <3> QED BY <1>1, <3>1, FrameStays
  <2>2. CASE LeadsTo(wire'[i], decided')
    BY <1>1, <2>2, PrefixReflexive DEF LeadsTo, FrameInHistory
  <2> QED BY <2>1, <2>2
<1>4. \A q \in Signers : \A i \in shown'[q] :
        i \in 1 .. Len(wire') /\ wire'[i].kind = "content" /\ q \in Roster(wire'[i].past)
  BY <1>1 DEF HistoryInv
<1>5. \A p \in Signers : convo'[p] = "group" => p = Creator
  BY DEF HistoryInv
<1>6. past'[Creator] = decided'
  BY <1>1
<1> QED BY <1>2, <1>3, <1>4, <1>5, <1>6 DEF HistoryInv

\* The commits of add_signer and remove_signer.
LEMMA MergeKeeps ==
  ASSUME TypeOK, TypeOK', HistoryInv, NEW p \in Signers, NEW c \in Commit,
         NEW invites \in SUBSET Signers, NEW commitOut \in BOOLEAN,
         MayCommit(p), c.by = p, Creator \notin c.add,
         MergeThenPublish(p, c, invites, commitOut), decided' = Append(decided, c),
         UNCHANGED <<convo, shown>>
  PROVE  HistoryInv'
<1>1. p = Creator /\ past[p] = decided /\ decided \in Past /\ past \in [Signers -> Past]
  BY DEF MayCommit, HistoryInv, TypeOK
<1>2. IsPrefixOf(decided, decided') /\ past' = [past EXCEPT ![Creator] = decided']
  BY <1>1, PrefixAppend DEF MergeThenPublish
<1>3. Publish(c.add, invites, commitOut, decided, c) /\ Creator \notin invites
  BY <1>1 DEF MergeThenPublish, Publish
<1>4. /\ Len(wire') >= Len(wire)
      /\ \A i \in 1 .. Len(wire) : wire'[i] = wire[i]
      /\ \A i \in 1 .. Len(wire') : i <= Len(wire)
           \/ wire'[i] = Invite(decided', invites) \/ wire'[i] = CommitFrame(decided, c)
  BY <1>1, <1>3, PublishEffect
<1>5. LeadsTo(Invite(decided', invites), decided') /\ LeadsTo(CommitFrame(decided, c), decided')
  BY <1>1, <1>3, PublishedLeadsTo
<1>7. \A i \in 1 .. Len(wire') : i <= Len(wire) \/ LeadsTo(wire'[i], decided')
  BY <1>4, <1>5
<1>8. \A q \in Signers : convo'[q] = convo[q] \/ q = Creator
  OBVIOUS
<1> QED BY <1>2, <1>4, <1>7, <1>8, CommitKeeps

\* Every step keeps the invariant.
LEMMA HistoryStep == TypeOK /\ TypeOK' /\ HistoryInv /\ [Next]_vars => HistoryInv'
<1> SUFFICES ASSUME TypeOK, TypeOK', HistoryInv, [Next]_vars PROVE HistoryInv'
  OBVIOUS
<1> USE GroupAssumption
<1>0. /\ decided \in Past /\ wire \in Seq(Frame) /\ past \in [Signers -> Past]
      /\ convo \in [Signers -> {"none", "group", "direct"}] /\ Len(wire) \in Nat
  BY DEF TypeOK
<1>1. ASSUME NEW kind \in {"group", "direct"}, NEW members \in SUBSET Signers,
             NEW invites \in SUBSET Signers, NEW commitOut \in BOOLEAN,
             Create(kind, members, invites, commitOut)
      PROVE  HistoryInv'
  <2> DEFINE c == [by |-> Creator, add |-> members \ {Creator}, rem |-> {}]
  <2>1. c \in Commit /\ <<Born>> \in Past /\ c.by = Creator /\ c.add = members \ {Creator}
    BY FoundedIsPast DEF Commit
  <2>2. decided = <<>> /\ past' = [past EXCEPT ![Creator] = decided'] /\ shown' = shown
    BY <1>1 DEF Create
  <2>3. IsPrefixOf(decided, decided')
    BY <2>2, EmptySeq DEF IsPrefixOf, TypeOK, Past
  <2>4. \A q \in Signers : convo'[q] = convo[q] \/ q = Creator
    BY <1>0, <1>1 DEF Create
  <2>5. CASE c.add = {}
    <3>1. wire' = wire
      BY <1>1, <2>5 DEF Create
    <3>2. \A i \in 1 .. Len(wire') : i <= Len(wire)
      BY <1>0, <3>1
    <3>3. Len(wire') >= Len(wire)
      BY <1>0, <3>1, SMTT(30)
    <3> QED BY <2>2, <2>3, <2>4, <3>1, <3>2, <3>3, CommitKeeps
  <2>6. CASE Publish(c.add, invites, commitOut, <<Born>>, c) /\ c.add # {}
    <3>0. decided' = <<Born, c>>
      BY <1>1, <2>6 DEF Create
    <3> HIDE DEF c
    <3> DEFINE h == <<Born>>
    <3>1. decided' = Append(h, c) /\ h \in Past
      BY <2>1, <3>0
    <3>6. Publish(c.add, invites, commitOut, h, c)
      BY <2>6
    <3> HIDE DEF h
    <3>2. Creator \notin invites
      BY <2>1, <2>6 DEF Publish
    <3>3. /\ Len(wire') >= Len(wire)
          /\ \A i \in 1 .. Len(wire) : wire'[i] = wire[i]
          /\ \A i \in 1 .. Len(wire') : i <= Len(wire)
               \/ wire'[i] = Invite(decided', invites) \/ wire'[i] = CommitFrame(h, c)
      <4>1. /\ Len(wire') >= Len(wire)
            /\ \A i \in 1 .. Len(wire) : wire'[i] = wire[i]
            /\ \A i \in 1 .. Len(wire') : i <= Len(wire)
                 \/ wire'[i] = Invite(Append(h, c), invites) \/ wire'[i] = CommitFrame(h, c)
        BY <2>1, <3>1, <3>6, PublishEffect, SMTT(30)
      <4> QED BY <3>1, <4>1
    <3>4. LeadsTo(Invite(decided', invites), decided') /\ LeadsTo(CommitFrame(h, c), decided')
      BY <2>1, <3>1, <3>2, PublishedLeadsTo
    <3>5. \A i \in 1 .. Len(wire') : i <= Len(wire) \/ LeadsTo(wire'[i], decided')
      BY <3>3, <3>4
    <3> QED BY <2>2, <2>3, <2>4, <3>3, <3>5, CommitKeeps, SMTT(30)
  <2> QED BY <1>1, <2>5, <2>6 DEF Create
<1>2. ASSUME NEW p \in Signers, NEW members \in SUBSET Signers,
             NEW invites \in SUBSET Signers, NEW commitOut \in BOOLEAN,
             AddSigner(p, members, invites, commitOut)
      PROVE  HistoryInv'
  <2> DEFINE c == [by |-> p, add |-> members \ Roster(past[p]), rem |-> {}]
  <2>1. c \in Commit /\ c.by = p
    BY DEF Commit
  <2>2. p = Creator /\ Creator \notin c.add
    BY <1>2 DEF AddSigner, MayCommit, IsActive, HistoryInv
  <2> QED BY <1>2, <2>1, <2>2, MergeKeeps DEF AddSigner
<1>3. ASSUME NEW p \in Signers, NEW members \in SUBSET Signers, NEW commitOut \in BOOLEAN,
             RemoveSigner(p, members, commitOut)
      PROVE  HistoryInv'
  <2> DEFINE c == [by |-> p, add |-> {}, rem |-> members \cap Roster(past[p])]
  <2>1. c \in Commit /\ c.by = p /\ Creator \notin c.add
    BY DEF Commit
  <2> QED BY <1>3, <2>1, MergeKeeps DEF RemoveSigner
<1>4. CASE CreateUnseated
  <2>1. /\ decided = <<>> /\ past' = [past EXCEPT ![Creator] = decided']
        /\ UNCHANGED <<shown, wire, convo>>
    BY <1>4 DEF CreateUnseated
  <2>2. IsPrefixOf(decided, decided')
    BY <2>1, EmptySeq DEF IsPrefixOf, TypeOK, Past
  <2>3. Len(wire') >= Len(wire) /\ \A i \in 1 .. Len(wire') : i <= Len(wire)
    BY <1>0, <2>1
  <2>4. \A q \in Signers : convo'[q] = convo[q] \/ q = Creator
    BY <2>1
  <2> QED BY <2>1, <2>2, <2>3, <2>4, CommitKeeps
<1>5. ASSUME NEW p \in Signers, NEW published \in BOOLEAN, SendContent(p, published)
      PROVE  HistoryInv'
  <2>1. UNCHANGED <<past, convo, shown, decided>>
    BY <1>5 DEF SendContent
  <2>2. CASE wire' = wire
    BY <2>1, <2>2 DEF HistoryInv, OneHistory
  <2>3. CASE wire' = Append(wire, Seal(p))
    <3>1. /\ Len(wire') = Len(wire) + 1 /\ wire'[Len(wire) + 1] = Seal(p)
          /\ \A i \in 1 .. Len(wire) : wire'[i] = wire[i]
      BY <1>0, <2>3, SealIsFrame, AppendProperties
    <3>2. /\ Seal(p).kind = "content" /\ Seal(p).by = p /\ Seal(p).past = past[p]
          /\ Seal(p).at = Len(decided)
      BY DEF Seal
    <3>3. past[p] # <<>> /\ IsPrefixOf(past[p], decided)
      BY <1>5 DEF SendContent, Reachable, HistoryInv, OneHistory
    <3>4. FrameInHistory(Seal(p), decided)
      BY <3>2, <3>3 DEF FrameInHistory, HistoryInv
    <3>5. \A i \in 1 .. Len(wire') : FrameInHistory(wire'[i], decided)
      BY <1>0, <3>1, <3>4 DEF HistoryInv
    <3>6. \A q \in Signers : \A i \in shown[q] :
            i \in 1 .. Len(wire') /\ wire'[i].kind = "content" /\ q \in Roster(wire'[i].past)
      BY <1>0, <3>1 DEF HistoryInv
    <3> QED BY <2>1, <3>5, <3>6 DEF HistoryInv, OneHistory
  <2> QED BY <1>5, <2>2, <2>3 DEF SendContent
<1>6. ASSUME NEW q \in Signers, NEW i \in 1 .. Len(wire), NEW valid \in BOOLEAN,
             Deliver(q, i, valid)
      PROVE  HistoryInv'
  <2>1. UNCHANGED <<wire, decided>> /\ FrameInHistory(wire[i], decided)
    BY <1>6 DEF Deliver, HistoryInv
  <2>2. CASE UNCHANGED local
    BY <2>1, <2>2 DEF HistoryInv, OneHistory, local
  <2>3. CASE wire[i].kind = "welcome" /\ HandleWelcome(q, wire[i])
    <3>1. CASE q \in wire[i].to /\ wire[i].keys[q] = session[q] /\ past[q] = <<>>
      <4>1. q # Creator /\ IsPrefixOf(wire[i].past, decided)
        BY <2>1, <2>3, <3>1 DEF FrameInHistory
      <4>2. /\ past' = [past EXCEPT ![q] = wire[i].past]
            /\ convo' = [convo EXCEPT ![q] = "direct"] \/ convo' = convo
            /\ shown' = shown
        BY <2>3, <3>1 DEF HandleWelcome, JoinedAs
      <4>3. \A p \in Signers : convo'[p] = "group" => convo[p] = "group"
        BY <1>0, <4>2
      <4>4. OneHistory' /\ past'[Creator] = past[Creator]
        BY <1>0, <2>1, <4>1, <4>2, SMTT(30) DEF HistoryInv, OneHistory
      <4> QED BY <2>1, <4>2, <4>3, <4>4 DEF HistoryInv
    <3>2. CASE ~(q \in wire[i].to /\ wire[i].keys[q] = session[q] /\ past[q] = <<>>)
      BY <2>2, <2>3, <3>2 DEF HandleWelcome
    <3> QED BY <3>1, <3>2
  <2>4. CASE wire[i].kind = "commit" /\ HandleCommit(q, wire[i])
    <3>1. CASE Opens(q, wire[i])
      <4>1. q # Creator /\ IsPrefixOf(Append(past[q], wire[i].commit), decided)
        BY <2>1, <2>4, <3>1 DEF FrameInHistory, Opens
      <4>2. /\ past' = [past EXCEPT ![q] = Append(past[q], wire[i].commit)]
            /\ UNCHANGED <<convo, shown>>
        BY <1>0, <2>4, <3>1 DEF HandleCommit
      <4>3. OneHistory' /\ past'[Creator] = past[Creator]
        BY <1>0, <2>1, <4>1, <4>2 DEF HistoryInv, OneHistory
      <4> QED BY <2>1, <4>2, <4>3 DEF HistoryInv
    <3>2. CASE ~Opens(q, wire[i])
      BY <2>2, <2>4, <3>2 DEF HandleCommit
    <3> QED BY <3>1, <3>2
  <2>5. CASE wire[i].kind = "content" /\ HandleContent(q, i, wire[i], valid)
    <3>1. CASE Opens(q, wire[i]) /\ i \notin used[q]
      <4>1. q \in Roster(wire[i].past) /\ UNCHANGED <<past, convo>>
        BY <2>5, <3>1 DEF Opens, IsActive, HandleContent
      <4>2. shown \in [Signers -> SUBSET Nat]
        BY DEF TypeOK
      <4>3. shown' = shown \/ shown' = [shown EXCEPT ![q] = shown[q] \cup {i}]
        BY <2>5, <3>1, <4>2 DEF HandleContent
      <4>4. \A p \in Signers : \A j \in shown'[p] : j \in shown[p] \/ (p = q /\ j = i)
        BY <4>2, <4>3
      <4>5. \A p \in Signers : \A j \in shown'[p] :
              j \in 1 .. Len(wire) /\ wire[j].kind = "content" /\ p \in Roster(wire[j].past)
        BY <2>5, <4>1, <4>4 DEF HistoryInv
      <4> QED BY <2>1, <4>1, <4>5 DEF HistoryInv, OneHistory
    <3>2. CASE ~(Opens(q, wire[i]) /\ i \notin used[q])
      BY <2>2, <2>5, <3>2 DEF HandleContent
    <3> QED BY <3>1, <3>2
  <2>6. wire[i].kind \in {"welcome", "commit", "content"}
    BY FrameParts DEF Frame, Welcomes, Commits, Contents
  <2> QED BY <1>6, <2>3, <2>4, <2>5, <2>6 DEF Deliver
<1>7. ASSUME NEW p \in Signers, Restart(p)
      PROVE  HistoryInv'
  <2>1. /\ past' = [past EXCEPT ![p] = <<>>] /\ convo' = [convo EXCEPT ![p] = "none"]
        /\ UNCHANGED <<wire, decided, shown>>
    BY <1>7 DEF Restart
  <2>2. \A q \in Signers : past'[q] = <<>> \/ past'[q] = past[q]
    BY <1>0, <2>1
  <2>3. IsPrefixOf(<<>>, decided)
    BY <1>0, EmptySeq DEF IsPrefixOf, Past
  <2>4. OneHistory'
    BY <2>1, <2>2, <2>3 DEF HistoryInv, OneHistory
  <2>5. \A q \in Signers : convo'[q] = "group" => q = Creator
    BY <1>0, <2>1, SMTT(30) DEF HistoryInv
  <2> QED BY <2>1, <2>2, <2>4, <2>5 DEF HistoryInv
<1>8. CASE UNCHANGED vars
  BY <1>8 DEF vars, HistoryInv, OneHistory
<1> QED BY <1>1, <1>2, <1>3, <1>4, <1>5, <1>6, <1>7, <1>8 DEF Next, DeliverTo

\* The inductive invariant holds in every reachable state.
THEOREM HistoryCorrect == SafeSpec => []HistoryInv
<1>1. Init => HistoryInv
  <2> SUFFICES ASSUME Init PROVE HistoryInv
    OBVIOUS
  <2>1. IsPrefixOf(<<>>, <<>>) /\ 1 .. Len(wire) = {}
    BY DEF Init, IsPrefixOf
  <2> QED BY <2>1, GroupAssumption DEF Init, HistoryInv, OneHistory
<1> QED BY <1>1, TypeCorrect, HistoryStep, PTL DEF SafeSpec

\* All members' groups are prefixes of one history, whatever is lost, repeated,
\* reordered, restarted or half published.
THEOREM SingleHistory == SafeSpec => []OneHistory
<1>1. HistoryInv => OneHistory
  BY DEF HistoryInv
<1> QED BY <1>1, HistoryCorrect, PTL

\* What the creator sends after removing a member is never shown to it.
THEOREM RemovedExcluded == SafeSpec => []RemovedReadsNothingLater
<1>1. TypeOK /\ HistoryInv => RemovedReadsNothingLater
  <2> SUFFICES ASSUME TypeOK, HistoryInv, NEW q \in Signers, NEW i \in shown[q],
                      wire[i].by = Creator
               PROVE  q \in Roster(SubSeq(decided, 1, wire[i].at))
    BY DEF RemovedReadsNothingLater
  <2> DEFINE f == wire[i]
  <2>1. i \in 1 .. Len(wire) /\ f.kind = "content" /\ q \in Roster(f.past)
    BY DEF HistoryInv
  <2>2. f.past \in Seq(Commit) /\ decided \in Seq(Commit)
    BY <2>1, FrameParts DEF TypeOK, Past
  <2>3. IsPrefixOf(f.past, decided) /\ Len(f.past) = f.at
    BY <2>1 DEF HistoryInv, FrameInHistory
  <2>4. SubSeq(decided, 1, Len(f.past)) = f.past
    <3>1. Len(f.past) \in Nat /\ Len(f.past) <= Len(decided) /\ Len(decided) \in Nat
      BY <2>2, <2>3 DEF IsPrefixOf
    <3>2. SubSeq(decided, 1, Len(f.past)) \in Seq(Commit)
          /\ Len(SubSeq(decided, 1, Len(f.past))) = Len(f.past)
      BY <2>2, <3>1
    <3>3. \A j \in 1 .. Len(f.past) : SubSeq(decided, 1, Len(f.past))[j] = f.past[j]
      BY <2>2, <2>3, <3>1 DEF IsPrefixOf
    <3> QED BY <2>2, <3>2, <3>3, SeqEqual
  <2> QED BY <2>1, <2>3, <2>4
<1> QED BY <1>1, TypeCorrect, HistoryCorrect, PTL
=============================================================================
