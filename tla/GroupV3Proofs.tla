--------------------------- MODULE GroupV3Proofs ---------------------------
(***************************************************************************)
(* Proofs about GroupV3, for any signers, on the bus or off it, and any    *)
(* number of commits, messages, failures and restarts.                     *)
(***************************************************************************)
EXTENDS GroupV3, SequenceTheorems, TLAPS

\* Most leaves are first-order reasoning; the others are arithmetic.
USE ZenonT(2), SMT

Commit == [by : Signers, add : SUBSET Signers]
Past == Seq(Commit)
Invites == [to : Signers, key : Nat]
Commits == [kind : {"commit"}, by : Signers, past : Past, commit : Commit, reach : SUBSET Signers]
Welcomes == [kind : {"welcome"}, to : Signers, key : Nat, past : Past \ {<<>>}, reach : SUBSET Signers]
Contents == [kind : {"content"}, by : Signers, past : Past, reach : SUBSET Signers]
Frame == Commits \cup Welcomes \cup Contents

TypeOK ==
  /\ past \in [Signers -> Past] /\ staged \in [Signers -> Commit \cup {NoCommit}]
  /\ invites \in [Signers -> SUBSET Invites] /\ call \in [Signers -> {"idle", "commit", "welcome"}]
  /\ cached \subseteq Signers /\ subscribed \subseteq Signers /\ session \in [Signers -> Nat]
  /\ wire \in Seq(Frame)

\* A member has a pending commit only in the middle of a call or when a call
\* left it behind, and a group in a call and whenever the conversation is cached.
CallInv ==
  \A p \in Signers :
    /\ IF call[p] = "commit" THEN staged[p] \in Commit ELSE staged[p] = NoCommit \/ p \in left
    /\ p \in cached \/ call[p] # "idle" => past[p] # <<>>

----------------------------------------------------------------------------
\* A history is a prefix of itself, and the empty one of every other.
LEMMA PrefixReflexive == \A h \in Past : IsPrefixOf(h, h) /\ IsPrefixOf(<<>>, h)
<1>1. ASSUME NEW h \in Past PROVE IsPrefixOf(h, h)
  BY DEF IsPrefixOf, Past
<1>2. ASSUME NEW h \in Past PROVE IsPrefixOf(<<>>, h)
  BY DEF IsPrefixOf, Past
<1> QED BY <1>1, <1>2

\* What it is to be a prefix, position by position.
LEMMA PrefixByPosition ==
  ASSUME NEW h \in Past, NEW g \in Past
  PROVE  IsPrefixOf(h, g) <=> Len(h) <= Len(g) /\ \A i \in 1 .. Len(h) : h[i] = g[i]
<1>1. Len(h) \in Nat /\ Len(g) \in Nat
  BY DEF Past
<1>2. ASSUME Len(h) <= Len(g), \A i \in 1 .. Len(h) : h[i] = g[i] PROVE SubSeq(g, 1, Len(h)) = h
  BY <1>1, <1>2 DEF Past
<1>3. ASSUME Len(h) <= Len(g), SubSeq(g, 1, Len(h)) = h, NEW i \in 1 .. Len(h) PROVE h[i] = g[i]
  BY <1>1, <1>3 DEF Past
<1> QED BY <1>2, <1>3 DEF IsPrefixOf

\* A prefix of the same length is the history itself.
LEMMA PrefixSameLength ==
  ASSUME NEW h \in Past, NEW g \in Past, IsPrefixOf(h, g), Len(h) = Len(g)
  PROVE  h = g
<1>1. \A i \in 1 .. Len(h) : h[i] = g[i]
  BY PrefixByPosition
<1> QED BY <1>1, SeqEqual DEF Past

\* What a commit makes of a history.
LEMMA CommitAppends ==
  ASSUME NEW h \in Past, NEW c \in Commit
  PROVE  /\ Append(h, c) \in Past /\ Append(h, c) # <<>>
         /\ Len(Append(h, c)) = Len(h) + 1 /\ Append(h, c)[Len(h) + 1] = c
         /\ \A i \in 1 .. Len(h) : Append(h, c)[i] = h[i]
         /\ IsPrefixOf(h, Append(h, c))
<1>1. /\ Append(h, c) \in Past /\ Len(Append(h, c)) = Len(h) + 1
      /\ Append(h, c)[Len(h) + 1] = c /\ \A i \in 1 .. Len(h) : Append(h, c)[i] = h[i]
  BY AppendProperties DEF Past
<1>2. Len(h) \in Nat
  BY DEF Past
<1>3. Append(h, c) # <<>>
  BY <1>1, <1>2, EmptySeq DEF Past
<1>4. IsPrefixOf(h, Append(h, c))
  <2> DEFINE g == Append(h, c)
  <2>1. g \in Past /\ Len(h) <= Len(g) /\ \A i \in 1 .. Len(h) : h[i] = g[i]
    BY <1>1, <1>2
  <2> HIDE DEF g
  <2>2. IsPrefixOf(h, g)
    BY <2>1, PrefixByPosition
  <2> QED BY <2>2 DEF g
<1> QED BY <1>1, <1>3, <1>4

\* The first history.
LEMMA FoundedIsPast ==
  /\ Born \in Commit /\ <<Born>> \in Past /\ <<>> \in Past
  /\ Len(<<Born>>) = 1 /\ <<Born>>[1] = Born /\ <<Born>> # <<>>
<1>1. Born \in Commit
  BY GroupV3Assumption DEF Born, Commit
<1> QED BY <1>1, EmptySeq DEF Past

\* An envelope is put at the end of the wire.
LEMMA PublishEffect ==
  ASSUME wire \in Seq(Frame), NEW f \in Frame, Publish(f)
  PROVE  /\ wire' \in Seq(Frame) /\ DOMAIN wire' = DOMAIN wire \cup {Len(wire) + 1}
         /\ wire'[Len(wire) + 1] = f
         /\ \A i \in DOMAIN wire : wire'[i] = wire[i]
<1>1. /\ wire' \in Seq(Frame) /\ Len(wire') = Len(wire) + 1 /\ wire'[Len(wire) + 1] = f
      /\ \A i \in 1 .. Len(wire) : wire'[i] = wire[i]
  BY AppendProperties DEF Publish
<1>2. Len(wire) \in Nat /\ DOMAIN wire = 1 .. Len(wire) /\ DOMAIN wire' = 1 .. Len(wire')
  BY <1>1
<1> QED BY <1>1, <1>2

\* A frame is of one kind, and its kind tells which.
LEMMA FrameKinds ==
  ASSUME NEW f \in Frame
  PROVE  /\ f.past \in Past
         /\ f.kind = "commit" => f.commit \in Commit /\ f.by \in Signers
         /\ f.kind = "welcome" => f.to \in Signers /\ f.past # <<>>
         /\ f.kind = "content" => f.by \in Signers
         /\ f.kind \in {"commit", "welcome", "content"}
  BY DEF Frame, Commits, Welcomes, Contents

----------------------------------------------------------------------------
\* The initial states are typed, and nobody is in a call.
LEMMA InitType == Init => TypeOK /\ CallInv
  BY FoundedIsPast, EmptySeq DEF Init, TypeOK, CallInv

\* fetch_key_packages and add_members make a commit and its invites.
LEMMA StageEffect ==
  ASSUME TypeOK, NEW p \in Signers, NEW h, NEW members \in SUBSET Signers, Stage(p, h, members)
  PROVE  /\ staged' \in [Signers -> Commit \cup {NoCommit}]
         /\ invites' \in [Signers -> SUBSET Invites]
         /\ call' \in [Signers -> {"idle", "commit", "welcome"}]
         /\ staged'[p] \in Commit /\ call'[p] = "commit"
         /\ \A q \in Signers \ {p} : staged'[q] = staged[q] /\ call'[q] = call[q]
<1> DEFINE new == members \ Roster(h)
           c == [by |-> p, add |-> new]
           i == {[to |-> q, key |-> session[q]] : q \in new}
<1>1. c \in Commit
  BY DEF Commit
<1>2. i \in SUBSET Invites
  BY DEF TypeOK, Invites
<1>3. staged' = [staged EXCEPT ![p] = c] /\ invites' = [invites EXCEPT ![p] = i]
      /\ call' = [call EXCEPT ![p] = "commit"]
  BY DEF Stage
<1> HIDE DEF c, i
<1> QED BY <1>1, <1>2, <1>3 DEF TypeOK

\* A step that one member takes leaves types and calls in order, if it does so
\* for that member.
LEMMA MemberStep ==
  ASSUME TypeOK, CallInv, NEW p \in Signers,
         past' \in [Signers -> Past], staged' \in [Signers -> Commit \cup {NoCommit}],
         call' \in [Signers -> {"idle", "commit", "welcome"}], cached' \subseteq Signers,
         \A q \in Signers \ {p} : /\ past'[q] = past[q] /\ staged'[q] = staged[q] /\ call'[q] = call[q]
                                  /\ (q \in cached' <=> q \in cached) /\ (q \in left => q \in left'),
         IF call'[p] = "commit" THEN staged'[p] \in Commit ELSE staged'[p] = NoCommit \/ p \in left',
         p \in cached' \/ call'[p] # "idle" => past'[p] # <<>>
  PROVE  CallInv'
  BY DEF CallInv

\* Every step keeps the types, and pending commits within calls.
LEMMA TypeStep == TypeOK /\ CallInv /\ [Next]_vars => TypeOK' /\ CallInv'
<1> SUFFICES ASSUME TypeOK, CallInv, [Next]_vars PROVE TypeOK' /\ CallInv'
  OBVIOUS
<1> USE DEF core
<1>a. /\ past \in [Signers -> Past] /\ staged \in [Signers -> Commit \cup {NoCommit}]
      /\ invites \in [Signers -> SUBSET Invites] /\ call \in [Signers -> {"idle", "commit", "welcome"}]
      /\ cached \subseteq Signers /\ subscribed \subseteq Signers /\ session \in [Signers -> Nat]
      /\ wire \in Seq(Frame)
  BY DEF TypeOK
<1>b. \A p \in Signers : /\ call[p] = "commit" => staged[p] \in Commit
                         /\ call[p] # "commit" => staged[p] = NoCommit \/ p \in left
                         /\ p \in cached \/ call[p] # "idle" => past[p] # <<>>
  BY DEF CallInv
<1>1. ASSUME NEW members \in SUBSET Signers, Create(members) PROVE TypeOK' /\ CallInv'
  <2>1. Creator \in Signers
    BY GroupV3Assumption
  <2>2. /\ past' = [past EXCEPT ![Creator] = <<Born>>]
        /\ subscribed' \in {subscribed, subscribed \cup {Creator}} /\ UNCHANGED <<left, session, wire>>
        /\ \/ UNCHANGED <<staged, invites, call>> /\ cached' \in {cached, cached \cup {Creator}}
           \/ Stage(Creator, <<Born>>, members) /\ UNCHANGED cached
    BY <1>1 DEF Create
  <2>3. past' \in [Signers -> Past] /\ past'[Creator] # <<>> /\ \A q \in Signers \ {Creator} : past'[q] = past[q]
    BY <1>a, <2>1, <2>2, FoundedIsPast
  <2>4. /\ staged' \in [Signers -> Commit \cup {NoCommit}] /\ invites' \in [Signers -> SUBSET Invites]
        /\ call' \in [Signers -> {"idle", "commit", "welcome"}] /\ cached' \subseteq Signers
        /\ IF call'[Creator] = "commit" THEN staged'[Creator] \in Commit
           ELSE staged'[Creator] = NoCommit \/ Creator \in left'
        /\ \A q \in Signers \ {Creator} : staged'[q] = staged[q] /\ call'[q] = call[q]
    <3>1. CASE UNCHANGED <<staged, invites, call>>
      BY <1>a, <1>b, <2>1, <2>2, <3>1
    <3>2. CASE Stage(Creator, <<Born>>, members)
      BY <1>a, <2>1, <2>2, <3>2, StageEffect
    <3> QED BY <2>2, <3>1, <3>2
  <2>5. TypeOK'
    BY <1>a, <2>1, <2>2, <2>3, <2>4 DEF TypeOK
  <2>6. CallInv'
    BY <2>1, <2>2, <2>3, <2>4, MemberStep
  <2> QED BY <2>5, <2>6
<1>2. ASSUME NEW members \in SUBSET Signers, NEW p \in Signers, AddSigner(p, members)
      PROVE  TypeOK' /\ CallInv'
  <2>1. /\ Stage(p, past[p], members) /\ p \in cached
        /\ UNCHANGED <<past, left, cached, subscribed, session, wire>>
    BY <1>2 DEF AddSigner, Idle
  <2>2. /\ staged' \in [Signers -> Commit \cup {NoCommit}] /\ invites' \in [Signers -> SUBSET Invites]
        /\ call' \in [Signers -> {"idle", "commit", "welcome"}]
        /\ staged'[p] \in Commit /\ call'[p] = "commit"
        /\ \A q \in Signers \ {p} : staged'[q] = staged[q] /\ call'[q] = call[q]
    BY <2>1, StageEffect
  <2>3. TypeOK'
    BY <1>a, <2>1, <2>2 DEF TypeOK
  <2>4. CallInv'
    BY <1>a, <1>b, <2>1, <2>2, MemberStep
  <2> QED BY <2>3, <2>4
<1>3. ASSUME NEW p \in Signers, SendPendingCommit(p) PROVE TypeOK' /\ CallInv'
  <2>1. staged[p] \in Commit /\ past[p] \in Past
    BY <1>3, <1>a, <1>b DEF SendPendingCommit
  <2> DEFINE f == [kind |-> "commit", by |-> p, past |-> past[p], commit |-> staged[p], reach |-> subscribed]
             h == Append(past[p], staged[p])
  <2>2. f \in Frame
    BY <1>a, <2>1 DEF Frame, Commits
  <2>3. h \in Past /\ h # <<>>
    BY <2>1, CommitAppends
  <2>4. /\ Publish(f) /\ past' = [past EXCEPT ![p] = h] /\ staged' = [staged EXCEPT ![p] = NoCommit]
        /\ call' = [call EXCEPT ![p] = "welcome"] /\ UNCHANGED <<left, invites, cached, subscribed, session>>
    BY <1>3 DEF SendPendingCommit
  <2> HIDE DEF f, h
  <2>5. wire' \in Seq(Frame)
    BY <1>a, <2>2, <2>4, PublishEffect
  <2>6. TypeOK'
    BY <1>a, <2>3, <2>4, <2>5 DEF TypeOK
  <2>7. CallInv'
    BY <1>a, <1>b, <2>3, <2>4 DEF CallInv
  <2> QED BY <2>6, <2>7
<1>4. ASSUME NEW p \in Signers, CommitFails(p) \/ CommitLeft(p) \/ WelcomeFails(p)
      PROVE  TypeOK' /\ CallInv'
  <2>1. /\ invites' = [invites EXCEPT ![p] = {}] /\ call' = [call EXCEPT ![p] = "idle"]
        /\ UNCHANGED <<past, cached, subscribed, session, wire>> /\ call[p] # "idle" /\ left \subseteq left'
    BY <1>4 DEF CommitFails, CommitLeft, WelcomeFails, ClearPending
  <2>2. staged' \in [Signers -> Commit \cup {NoCommit}] /\ (staged'[p] = NoCommit \/ p \in left')
        /\ \A q \in Signers \ {p} : staged'[q] = staged[q]
    BY <1>4, <1>a, <1>b DEF CommitFails, CommitLeft, WelcomeFails, ClearPending
  <2>3. TypeOK'
    BY <1>a, <2>1, <2>2 DEF TypeOK
  <2>4. CallInv'
    BY <1>a, <1>b, <2>1, <2>2 DEF CallInv
  <2> QED BY <2>3, <2>4
<1>5. ASSUME NEW p \in Signers, NEW i \in invites[p], SendWelcome(p, i) PROVE TypeOK' /\ CallInv'
  <2>1. i \in Invites /\ past[p] \in Past \ {<<>>}
    BY <1>5, <1>a, <1>b DEF SendWelcome
  <2> DEFINE f == [kind |-> "welcome", to |-> i.to, key |-> i.key, past |-> past[p], reach |-> {i.to}]
  <2>2. f \in Frame
    BY <2>1 DEF Frame, Welcomes, Invites
  <2>3. /\ Publish(f) /\ invites' = [invites EXCEPT ![p] = @ \ {i}] /\ call[p] = "welcome"
        /\ call' \in {call, [call EXCEPT ![p] = "idle"]} /\ cached' \in {cached, cached \cup {p}}
        /\ UNCHANGED <<past, staged, left, subscribed, session>>
    BY <1>5 DEF SendWelcome
  <2> HIDE DEF f
  <2>4. wire' \in Seq(Frame)
    BY <1>a, <2>2, <2>3, PublishEffect
  <2>5. TypeOK'
    BY <1>a, <2>3, <2>4 DEF TypeOK
  <2>6. CallInv'
    BY <1>a, <1>b, <2>1, <2>3 DEF CallInv
  <2> QED BY <2>5, <2>6
<1>6. ASSUME NEW p \in Signers, SendContent(p) PROVE TypeOK' /\ CallInv'
  <2> DEFINE f == [kind |-> "content", by |-> p, past |-> past[p], reach |-> subscribed]
  <2>1. f \in Frame
    BY <1>a DEF Frame, Contents
  <2>2. Publish(f) /\ UNCHANGED core
    BY <1>6 DEF SendContent
  <2> HIDE DEF f
  <2>3. wire' \in Seq(Frame)
    BY <1>a, <2>1, <2>2, PublishEffect
  <2> QED BY <2>2, <2>3 DEF TypeOK, CallInv
<1>7. ASSUME UNCHANGED <<core, wire>> PROVE TypeOK' /\ CallInv'
  BY <1>7 DEF TypeOK, CallInv
<1>8. ASSUME NEW q \in Signers, DeliverTo(q) PROVE TypeOK' /\ CallInv'
  <2>1. PICK i \in DOMAIN wire, valid \in BOOLEAN : Deliver(q, i, valid)
    BY <1>8 DEF DeliverTo
  <2>2. wire[i] \in Frame /\ UNCHANGED wire /\ call[q] = "idle"
    BY <1>a, <2>1 DEF Deliver
  <2>3. CASE UNCHANGED core
    BY <1>7, <2>2, <2>3
  <2>4. CASE wire[i].kind = "welcome" /\ ~UNCHANGED core
    <3>1. HandleWelcome(q, wire[i])
      BY <2>1, <2>4 DEF Deliver
    <3>2. wire[i].past \in Past /\ wire[i].past # <<>>
      BY <2>2, <2>4, FrameKinds
    <3>3. /\ past' = [past EXCEPT ![q] = wire[i].past] /\ cached' \in {cached, cached \cup {q}}
          /\ subscribed' \in {subscribed, subscribed \cup {q}}
          /\ UNCHANGED <<staged, left, invites, call, session>>
      BY <2>4, <3>1 DEF HandleWelcome, Listen
    <3>4. TypeOK'
      BY <1>a, <2>2, <3>2, <3>3 DEF TypeOK
    <3>5. CallInv'
      BY <1>a, <1>b, <3>2, <3>3 DEF CallInv
    <3> QED BY <3>4, <3>5
  <2>5. CASE wire[i].kind = "commit" /\ ~UNCHANGED core
    <3>1. HandleCommit(q, wire[i])
      BY <2>1, <2>5 DEF Deliver
    <3> DEFINE h == Append(past[q], wire[i].commit)
    <3>2. h \in Past /\ h # <<>>
      <4>1. past[q] \in Past
        BY <1>a DEF TypeOK
      <4>2. wire[i].commit \in Commit
        BY <2>2, <2>5, FrameKinds
      <4> QED BY <4>1, <4>2, CommitAppends
    <3>3. /\ past' = [past EXCEPT ![q] = h] /\ staged' = [staged EXCEPT ![q] = NoCommit]
          /\ left' = left \ {q} /\ UNCHANGED <<invites, call, cached, subscribed, session>>
      BY <2>5, <3>1 DEF HandleCommit
    <3> HIDE DEF h
    <3>4. TypeOK'
      BY <1>a, <2>2, <3>2, <3>3 DEF TypeOK
    <3>5. CallInv'
      BY <1>a, <1>b, <2>2, <3>2, <3>3 DEF CallInv
    <3> QED BY <3>4, <3>5
  <2>6. CASE wire[i].kind = "content"
    <3>1. UNCHANGED core
      BY <2>1, <2>6 DEF Deliver, HandleContent
    <3> QED BY <2>3, <3>1
  <2> QED BY <2>2, <2>3, <2>4, <2>5, <2>6, FrameKinds
<1>9. ASSUME NEW p \in Signers, Restart(p) PROVE TypeOK' /\ CallInv'
  <2>1. TypeOK'
    BY <1>9, <1>a, FoundedIsPast DEF Restart, TypeOK
  <2>2. CallInv'
    BY <1>9, <1>a, <1>b DEF Restart, CallInv
  <2> QED BY <2>1, <2>2
<1>10. CASE UNCHANGED vars
  BY <1>7, <1>10 DEF vars
<1> QED BY <1>1, <1>2, <1>3, <1>4, <1>5, <1>6, <1>8, <1>9, <1>10 DEF Next, Proceed

----------------------------------------------------------------------------
\* The commits of a wire, and the histories they were published to and make.
Committed(w) == {i \in DOMAIN w : w[i].kind = "commit"}
Histories ==
  {past[p] : p \in Signers} \cup {wire[i].past : i \in DOMAIN wire}
    \cup {Append(wire[i].past, wire[i].commit) : i \in Committed(wire)}

\* A history starts with the group's foundation, and every commit in it was
\* published to what comes before it.
Recorded(h, w) ==
  /\ h # <<>> => h[1] = Born
  /\ \A k \in 1 .. Len(h) - 1 :
       \E i \in Committed(w) : Len(w[i].past) = k /\ IsPrefixOf(w[i].past, h) /\ w[i].commit = h[k + 1]

\* Two commits were published to the same history.
Race(w) == \E i, j \in Committed(w) : w[i].past = w[j].past /\ w[i].commit # w[j].commit

Comparable(h, g) == IsPrefixOf(h, g) \/ IsPrefixOf(g, h)

ForkInv ==
  /\ \A h \in Histories : Recorded(h, wire)
  /\ Race(wire) \/ \A h, g \in Histories : Comparable(h, g)

\* Histories are histories.
LEMMA HistoriesType == TypeOK => Histories \subseteq Past
<1> SUFFICES ASSUME TypeOK PROVE Histories \subseteq Past
  OBVIOUS
<1>1. \A p \in Signers : past[p] \in Past
  BY DEF TypeOK
<1>2. \A i \in DOMAIN wire : wire[i] \in Frame
  BY DEF TypeOK
<1>3. \A i \in DOMAIN wire : wire[i].past \in Past
  BY <1>2, FrameKinds
<1>4. \A i \in Committed(wire) : Append(wire[i].past, wire[i].commit) \in Past
  BY <1>2, FrameKinds, CommitAppends DEF Committed
<1> QED BY <1>1, <1>3, <1>4 DEF Histories

\* Prefixes of prefixes are prefixes.
LEMMA PrefixTransitive ==
  ASSUME NEW f \in Past, NEW g \in Past, NEW h \in Past, IsPrefixOf(f, g), IsPrefixOf(g, h)
  PROVE  IsPrefixOf(f, h)
<1>1. Len(f) \in Nat /\ Len(g) \in Nat /\ Len(h) \in Nat
  BY DEF Past
<1>2. Len(f) <= Len(h) /\ \A i \in 1 .. Len(f) : f[i] = h[i]
  BY <1>1, PrefixByPosition
<1> QED BY <1>2, PrefixByPosition

\* What a wire records stays recorded as more is published.
LEMMA RecordsStay ==
  ASSUME NEW w, NEW v, DOMAIN w \subseteq DOMAIN v, \A i \in DOMAIN w : v[i] = w[i]
  PROVE  /\ Committed(w) \subseteq Committed(v)
         /\ Race(w) => Race(v)
         /\ \A h : Recorded(h, w) => Recorded(h, v)
<1>1. Committed(w) \subseteq Committed(v) /\ \A i \in Committed(w) : v[i] = w[i]
  BY DEF Committed
<1>2. Race(w) => Race(v)
  BY <1>1 DEF Race
<1>3. ASSUME NEW h, Recorded(h, w) PROVE Recorded(h, v)
  BY <1>1, <1>3 DEF Recorded
<1> QED BY <1>1, <1>2, <1>3

\* One history more, which is recorded and compares with the others unless
\* there is a race, leaves the invariant in order.
LEMMA OneMoreHistory ==
  ASSUME ForkInv, TypeOK, NEW n \in Past, Histories' \subseteq Histories \cup {n},
         DOMAIN wire \subseteq DOMAIN wire', \A i \in DOMAIN wire : wire'[i] = wire[i],
         Recorded(n, wire'),
         Race(wire') \/ \A g \in Histories : Comparable(n, g)
  PROVE  ForkInv'
<1>1. Race(wire) => Race(wire')
  BY RecordsStay
<1>2. \A h : Recorded(h, wire) => Recorded(h, wire')
  BY RecordsStay
<1>3. \A h \in Histories' : Recorded(h, wire')
  BY <1>2 DEF ForkInv
<1>4. Comparable(n, n)
  BY PrefixReflexive DEF Comparable
<1>5. ASSUME ~Race(wire'), NEW h \in Histories', NEW g \in Histories' PROVE Comparable(h, g)
  BY <1>1, <1>4, <1>5 DEF ForkInv, Comparable
<1> QED BY <1>3, <1>5 DEF ForkInv

\* No history more.
LEMMA NoMoreHistories ==
  ASSUME ForkInv, Histories' \subseteq Histories,
         DOMAIN wire \subseteq DOMAIN wire', \A i \in DOMAIN wire : wire'[i] = wire[i]
  PROVE  ForkInv'
<1>1. Race(wire) => Race(wire')
  BY RecordsStay
<1>2. \A h : Recorded(h, wire) => Recorded(h, wire')
  BY RecordsStay
<1>3. \A h \in Histories' : Recorded(h, wire')
  BY <1>2 DEF ForkInv
<1>4. Race(wire') \/ \A h, g \in Histories' : Comparable(h, g)
  BY <1>1 DEF ForkInv
<1> QED BY <1>3, <1>4 DEF ForkInv

\* The histories after an envelope was published by a member whose history may
\* have changed.
LEMMA HistoriesAfter ==
  ASSUME TypeOK, NEW p \in Signers, NEW f \in Frame, Publish(f),
         \A q \in Signers \ {p} : past'[q] = past[q]
  PROVE  Histories' \subseteq
           Histories \cup {past'[p], f.past}
             \cup (IF f.kind = "commit" THEN {Append(f.past, f.commit)} ELSE {})
<1>1. /\ DOMAIN wire' = DOMAIN wire \cup {Len(wire) + 1} /\ wire'[Len(wire) + 1] = f
      /\ \A i \in DOMAIN wire : wire'[i] = wire[i]
  BY PublishEffect DEF TypeOK
<1>2. {past'[q] : q \in Signers} \subseteq Histories \cup {past'[p]}
  BY DEF Histories
<1>3. {wire'[i].past : i \in DOMAIN wire'} \subseteq Histories \cup {f.past}
  BY <1>1 DEF Histories
<1>4. ASSUME NEW i \in Committed(wire')
      PROVE  \/ i \in Committed(wire) /\ wire'[i] = wire[i]
             \/ f.kind = "commit" /\ wire'[i] = f
  BY <1>1 DEF Committed
<1>5. {Append(wire'[i].past, wire'[i].commit) : i \in Committed(wire')} \subseteq
        Histories \cup (IF f.kind = "commit" THEN {Append(f.past, f.commit)} ELSE {})
  BY <1>4 DEF Histories
<1> QED BY <1>2, <1>3, <1>5 DEF Histories

\* The foundation compares with every history, and so does the empty one.
LEMMA FoundationCompares ==
  ASSUME ForkInv, TypeOK, NEW n \in {<<>>, <<Born>>}
  PROVE  n \in Past /\ Recorded(n, wire) /\ \A g \in Histories : Comparable(n, g)
<1>1. n \in Past /\ Recorded(n, wire)
  <2>1. CASE n = <<>>
    <3>1. Len(n) = 0 /\ n \in Past
      BY <2>1, FoundedIsPast
    <3> QED BY <2>1, <3>1 DEF Recorded
  <2>2. CASE n = <<Born>>
    <3>1. Len(n) = 1 /\ n[1] = Born /\ n \in Past
      BY <2>2, FoundedIsPast
    <3> HIDE <2>2
    <3> QED BY <3>1 DEF Recorded
  <2> QED BY <2>1, <2>2
<1>2. ASSUME NEW g \in Histories PROVE Comparable(n, g)
  <2>1. g \in Past /\ Recorded(g, wire)
    BY HistoriesType DEF ForkInv
  <2>2. CASE n = <<>> \/ g = <<>>
    BY <1>1, <2>1, <2>2, PrefixReflexive DEF Comparable
  <2>3. CASE n = <<Born>> /\ g # <<>>
    <3>1. g[1] = Born /\ Len(g) >= 1
      BY <2>1, <2>3, EmptySeq DEF Recorded, Past
    <3>2. Len(<<Born>>) = 1 /\ <<Born>>[1] = Born /\ <<Born>> \in Past
      BY FoundedIsPast
    <3>3. IsPrefixOf(n, g)
      BY <1>1, <2>1, <2>3, <3>1, <3>2, PrefixByPosition
    <3> QED BY <3>3 DEF Comparable
  <2> QED BY <2>2, <2>3
<1> QED BY <1>1, <1>2

\* A published commit makes a recorded history, which compares with every
\* other unless another commit was published to the same one.
LEMMA CommitIsRecorded ==
  ASSUME ForkInv, TypeOK, NEW h \in Histories, h # <<>>, NEW c \in Commit,
         DOMAIN wire \subseteq DOMAIN wire', \A i \in DOMAIN wire : wire'[i] = wire[i],
         NEW m \in Committed(wire'), wire'[m].past = h, wire'[m].commit = c
  PROVE  /\ Recorded(Append(h, c), wire')
         /\ Race(wire') \/ \A g \in Histories : Comparable(Append(h, c), g)
<1> DEFINE n == Append(h, c)
<1>1. h \in Past /\ Recorded(h, wire')
  BY HistoriesType, RecordsStay DEF ForkInv
<1>2. /\ n \in Past /\ n # <<>> /\ Len(n) = Len(h) + 1 /\ n[Len(h) + 1] = c
      /\ \A i \in 1 .. Len(h) : n[i] = h[i]
      /\ IsPrefixOf(h, n)
  BY <1>1, CommitAppends
<1> HIDE DEF n
<1>3. Len(h) \in Nat /\ Len(h) >= 1 /\ h[1] = Born
  BY <1>1, EmptySeq DEF Recorded, Past
<1>4. Recorded(n, wire')
  <2>1. n[1] = Born
    BY <1>2, <1>3
  <2>2. ASSUME NEW k \in 1 .. Len(n) - 1
        PROVE  \E i \in Committed(wire') : /\ Len(wire'[i].past) = k /\ IsPrefixOf(wire'[i].past, n)
                                           /\ wire'[i].commit = n[k + 1]
    <3>1. CASE k = Len(h)
      BY <1>2, <3>1
    <3>2. CASE k # Len(h)
      <4>1. k \in 1 .. Len(h) - 1 /\ k + 1 \in 1 .. Len(h)
        BY <1>2, <1>3, <3>2
      <4>2. PICK i \in Committed(wire') :
              Len(wire'[i].past) = k /\ IsPrefixOf(wire'[i].past, h) /\ wire'[i].commit = h[k + 1]
        BY <1>1, <4>1 DEF Recorded
      <4>3. h[k + 1] = n[k + 1]
        BY <1>2, <4>1
      <4>4. Len(wire'[i].past) <= Len(n) /\ SubSeq(n, 1, k) = SubSeq(h, 1, k)
        BY <1>1, <1>2, <1>3, <4>1, <4>2 DEF Past
      <4>5. IsPrefixOf(wire'[i].past, n)
        BY <4>2, <4>4 DEF IsPrefixOf
      <4> QED BY <4>2, <4>3, <4>5
    <3> QED BY <3>1, <3>2
  <2> QED BY <2>1, <2>2 DEF Recorded
<1>5. ASSUME ~Race(wire'), NEW g \in Histories PROVE Comparable(n, g)
  <2>1. g \in Past /\ Recorded(g, wire) /\ Comparable(h, g)
    BY <1>5, HistoriesType, RecordsStay DEF ForkInv
  <2>2. Len(g) \in Nat
    BY <2>1 DEF Past
  <2>3. CASE IsPrefixOf(g, h)
    BY <1>1, <1>2, <2>1, <2>3, PrefixTransitive DEF Comparable
  <2>4. CASE IsPrefixOf(h, g) /\ Len(h) = Len(g)
    <3>1. h = g
      BY <1>1, <2>1, <2>4, PrefixSameLength
    <3> QED BY <1>2, <3>1 DEF Comparable
  <2>5. CASE IsPrefixOf(h, g) /\ Len(h) # Len(g)
    <3>1. Len(h) < Len(g) /\ Len(h) \in 1 .. Len(g) - 1 /\ \A i \in 1 .. Len(h) : h[i] = g[i]
      BY <1>1, <1>3, <2>1, <2>2, <2>5, PrefixByPosition
    <3>2. PICK i \in Committed(wire) : /\ Len(wire[i].past) = Len(h) /\ IsPrefixOf(wire[i].past, g)
                                       /\ wire[i].commit = g[Len(h) + 1]
      BY <2>1, <3>1 DEF Recorded
    <3>3. wire[i].past \in Past
      BY FrameKinds DEF Committed, TypeOK
    <3>4. IsPrefixOf(wire[i].past, h)
      BY <1>1, <2>1, <3>1, <3>2, <3>3, PrefixByPosition
    <3>5. wire[i].past = h
      BY <1>1, <3>2, <3>3, <3>4, PrefixSameLength
    <3>6. i \in Committed(wire') /\ wire'[i] = wire[i]
      BY DEF Committed
    <3>7. g[Len(h) + 1] = c
      BY <1>5, <3>2, <3>5, <3>6 DEF Race
    <3>8. Len(n) <= Len(g) /\ \A j \in 1 .. Len(n) : n[j] = g[j]
      BY <1>2, <1>3, <2>2, <3>1, <3>7
    <3>9. IsPrefixOf(n, g)
      BY <1>2, <2>1, <3>8, PrefixByPosition
    <3> QED BY <3>9 DEF Comparable
  <2> QED BY <2>1, <2>3, <2>4, <2>5 DEF Comparable
<1> QED BY <1>4, <1>5 DEF n

\* Every step keeps histories recorded, and comparable as long as there is no
\* race.
LEMMA ForkStep == TypeOK /\ CallInv /\ ForkInv /\ [Next]_vars => ForkInv'
<1> SUFFICES ASSUME TypeOK, CallInv, ForkInv, [Next]_vars PROVE ForkInv'
  OBVIOUS
<1> USE DEF core
<1>a. past \in [Signers -> Past] /\ wire \in Seq(Frame)
  BY DEF TypeOK
<1>b. \A p \in Signers : past[p] \in Histories
  BY DEF Histories
\* Steps that publish nothing.
<1>1. ASSUME UNCHANGED <<past, wire>> PROVE ForkInv'
  <2>1. Histories' \subseteq Histories
    BY <1>1 DEF Histories
  <2> QED BY <1>1, <2>1, NoMoreHistories
<1>2. ASSUME NEW p \in Signers, NEW h \in Histories \cup {<<>>, <<Born>>},
             past' = [past EXCEPT ![p] = h], UNCHANGED wire
      PROVE  ForkInv'
  <2>1. Histories' \subseteq Histories \cup {h}
    BY <1>2, <1>a DEF Histories
  <2>2. CASE h \in Histories
    BY <1>2, <2>1, <2>2, NoMoreHistories
  <2>3. CASE h \in {<<>>, <<Born>>}
    <3>1. h \in Past /\ Recorded(h, wire) /\ \A g \in Histories : Comparable(h, g)
      BY <2>3, FoundationCompares
    <3> QED BY <1>2, <2>1, <3>1, OneMoreHistory
  <2> QED BY <2>2, <2>3
<1>3. ASSUME NEW members \in SUBSET Signers, Create(members) PROVE ForkInv'
  BY <1>2, <1>3, GroupV3Assumption DEF Create
<1>4. ASSUME NEW p \in Signers, NEW members \in SUBSET Signers, AddSigner(p, members) PROVE ForkInv'
  BY <1>1, <1>4 DEF AddSigner
<1>5. ASSUME NEW p \in Signers, CommitFails(p) \/ CommitLeft(p) \/ WelcomeFails(p) PROVE ForkInv'
  BY <1>1, <1>5 DEF CommitFails, CommitLeft, WelcomeFails, ClearPending
<1>6. ASSUME NEW p \in Signers, Restart(p) PROVE ForkInv'
  BY <1>2, <1>6 DEF Restart
<1>7. ASSUME NEW q \in Signers, DeliverTo(q) PROVE ForkInv'
  <2>1. PICK i \in DOMAIN wire, valid \in BOOLEAN : Deliver(q, i, valid)
    BY <1>7 DEF DeliverTo
  <2>2. wire[i] \in Frame /\ UNCHANGED wire
    BY <1>a, <2>1 DEF Deliver
  <2>3. CASE UNCHANGED past
    BY <1>1, <2>2, <2>3
  <2>4. CASE wire[i].kind = "welcome" /\ ~UNCHANGED past
    <3>1. past' = [past EXCEPT ![q] = wire[i].past]
      BY <2>1, <2>4 DEF Deliver, HandleWelcome
    <3>2. wire[i].past \in Histories
      BY DEF Histories
    <3> QED BY <1>2, <2>2, <3>1, <3>2
  <2>5. CASE wire[i].kind = "commit" /\ ~UNCHANGED past
    <3>1. past' = [past EXCEPT ![q] = Append(wire[i].past, wire[i].commit)]
      BY <2>1, <2>5 DEF Deliver, HandleCommit, Opens
    <3>2. Append(wire[i].past, wire[i].commit) \in Histories
      BY <2>5 DEF Histories, Committed
    <3> QED BY <1>2, <2>2, <3>1, <3>2
  <2>6. CASE wire[i].kind = "content"
    BY <2>1, <2>3, <2>6 DEF Deliver, HandleContent
  <2> QED BY <2>2, <2>3, <2>4, <2>5, <2>6, FrameKinds
\* Steps that publish something about a history there is.
<1>8. ASSUME NEW p \in Signers, NEW f \in Frame, Publish(f), UNCHANGED past, f.past = past[p],
             f.kind # "commit"
      PROVE  ForkInv'
  <2>1. Histories' \subseteq Histories
    BY <1>8, <1>b, HistoriesAfter
  <2> QED BY <1>8, <1>a, <2>1, PublishEffect, NoMoreHistories
<1>9. ASSUME NEW p \in Signers, NEW i \in invites[p], SendWelcome(p, i) PROVE ForkInv'
  <2> DEFINE f == [kind |-> "welcome", to |-> i.to, key |-> i.key, past |-> past[p], reach |-> {i.to}]
  <2>1. past[p] # <<>> /\ i \in Invites
    BY <1>9 DEF SendWelcome, CallInv, TypeOK
  <2>2. f \in Frame
    BY <1>a, <2>1 DEF Frame, Welcomes, Invites
  <2>3. Publish(f) /\ UNCHANGED past /\ f.past = past[p] /\ f.kind # "commit"
    BY <1>9 DEF SendWelcome
  <2> HIDE DEF f
  <2> QED BY <1>8, <2>2, <2>3
<1>10. ASSUME NEW p \in Signers, SendContent(p) PROVE ForkInv'
  <2> DEFINE f == [kind |-> "content", by |-> p, past |-> past[p], reach |-> subscribed]
  <2>1. f \in Frame
    BY <1>a DEF Frame, Contents, TypeOK
  <2>2. Publish(f) /\ UNCHANGED past /\ f.past = past[p] /\ f.kind # "commit"
    BY <1>10 DEF SendContent
  <2> HIDE DEF f
  <2> QED BY <1>8, <2>1, <2>2
\* The step that makes a history.
<1>11. ASSUME NEW p \in Signers, SendPendingCommit(p) PROVE ForkInv'
  <2>1. PICK h \in Histories : h = past[p]
    BY <1>b
  <2>2. PICK c \in Commit : c = staged[p]
    BY <1>11 DEF SendPendingCommit, CallInv
  <2> DEFINE f == [kind |-> "commit", by |-> p, past |-> h, commit |-> c, reach |-> subscribed]
  <2>3. h # <<>> /\ h \in Past
    BY <1>11, <2>1, HistoriesType DEF SendPendingCommit, CallInv
  <2>4. f \in Frame /\ f.kind = "commit" /\ f.past = h /\ f.commit = c
    BY <2>3 DEF Frame, Commits, TypeOK
  <2>5. Publish(f) /\ past' = [past EXCEPT ![p] = Append(h, c)]
    BY <1>11, <2>1, <2>2 DEF SendPendingCommit
  <2> HIDE DEF f
  <2>6. Append(h, c) \in Past
    BY <2>3, CommitAppends
  <2>7. Histories' \subseteq Histories \cup {Append(h, c)}
    <3>1. past'[p] = Append(h, c) /\ \A q \in Signers \ {p} : past'[q] = past[q]
      BY <1>a, <2>5
    <3> QED BY <2>4, <2>5, <3>1, HistoriesAfter
  <2>8. /\ DOMAIN wire \subseteq DOMAIN wire' /\ \A i \in DOMAIN wire : wire'[i] = wire[i]
        /\ Len(wire) + 1 \in DOMAIN wire' /\ wire'[Len(wire) + 1] = f
    BY <1>a, <2>4, <2>5, PublishEffect
  <2>9. PICK m \in Committed(wire') : wire'[m].past = h /\ wire'[m].commit = c
    BY <2>4, <2>8 DEF Committed
  <2>10. /\ Recorded(Append(h, c), wire')
         /\ Race(wire') \/ \A g \in Histories : Comparable(Append(h, c), g)
    BY <2>3, <2>8, <2>9, CommitIsRecorded
  <2> QED BY <2>6, <2>7, <2>8, <2>10, OneMoreHistory
<1>12. CASE UNCHANGED vars
  BY <1>1, <1>12 DEF vars
<1> QED BY <1>3, <1>4, <1>5, <1>6, <1>7, <1>9, <1>10, <1>11, <1>12 DEF Next, Proceed

----------------------------------------------------------------------------
\* Every state the program reaches has these types; a commit is pending only in
\* the middle of a call or after one that left it, and whoever is in one has a
\* group.
THEOREM PendingCorrect == Spec => [](TypeOK /\ CallInv)
  BY InitType, TypeStep, PTL DEF Spec

\* Whenever no call of add_signer or new runs the group has no pending commit,
\* whatever publish failed before (clear_pending_commit), unless the call ended
\* between staging and publishing or could not discard it.
THEOREM GroupNeverWedged == Spec => []NeverWedged
<1>1. CallInv => NeverWedged
  BY DEF CallInv, NeverWedged
<1> QED BY <1>1, PendingCorrect, PTL

\* Two members' groups part only after two commits were published to the same
\* group: nothing lost, late, repeated, failed or restarted forks a GroupV3
\* conversation by itself (send_pending_commit,
\* handle_mls_protocol_msg).
THEOREM OnlyRacesFork == Spec => []ForkNeedsRace
<1>1. Init => ForkInv
  <2> SUFFICES ASSUME Init PROVE ForkInv
    OBVIOUS
  <2>1. Histories \subseteq {<<>>}
    BY EmptySeq DEF Init, Histories, Committed
  <2>2. Recorded(<<>>, wire) /\ Comparable(<<>>, <<>>)
    BY FoundedIsPast, PrefixReflexive DEF Recorded, Comparable
  <2> QED BY <2>1, <2>2 DEF ForkInv
<1>2. Spec => []ForkInv
  BY <1>1, ForkStep, PendingCorrect, PTL DEF Spec
<1>3. ForkInv => ForkNeedsRace
  BY DEF ForkInv, ForkNeedsRace, Histories, Comparable, Race, Committed
<1> QED BY <1>2, <1>3, PTL
============================================================================
