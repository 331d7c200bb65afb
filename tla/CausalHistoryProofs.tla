------------------------ MODULE CausalHistoryProofs ------------------------
(***************************************************************************)
(* Proofs about CausalHistory, for any number of signers, any frontier     *)
(* length and any network behaviour.                                       *)
(***************************************************************************)
EXTENDS CausalHistory, SequenceTheorems, TLAPS

\* The bounded push keeps a frontier a sequence of frontiers, within
\* CAUSAL_HISTORY_LEN, and adds nothing but the new entry.
LEMMA PushBoundedFacts ==
  ASSUME NEW q \in Seq(Frontier), Len(q) <= CausalHistoryLen, NEW f \in Frontier
  PROVE  /\ PushBounded(q, f) \in Seq(Frontier)
         /\ Len(PushBounded(q, f)) <= CausalHistoryLen
         /\ \A i \in 1 .. Len(PushBounded(q, f)) :
              \/ PushBounded(q, f)[i] = f
              \/ \E j \in 1 .. Len(q) : PushBounded(q, f)[i] = q[j]
<1> DEFINE r == Append(q, f)
           ex == Len(r) - CausalHistoryLen
           lo == IF ex > 0 THEN ex + 1 ELSE 1
<1>1. /\ r \in Seq(Frontier)
      /\ Len(r) = Len(q) + 1
      /\ Len(q) \in Nat
      /\ \A j \in 1 .. Len(q) : r[j] = q[j]
      /\ r[Len(r)] = f
  BY AppendProperties, LenProperties
<1>2. /\ CausalHistoryLen \in Nat \ {0}
      /\ lo \in 1 .. Len(r) + 1
      /\ Len(r) - lo + 1 <= CausalHistoryLen
  BY <1>1, ConstantsAssumption
<1>3. PushBounded(q, f) = SubSeq(r, lo, Len(r))
  BY DEF PushBounded
<1> HIDE DEF r, ex, lo
<1>4. /\ SubSeq(r, lo, Len(r)) \in Seq(Frontier)
      /\ Len(SubSeq(r, lo, Len(r))) = IF lo <= Len(r) THEN Len(r) - lo + 1 ELSE 0
      /\ \A i \in 1 .. Len(r) - lo + 1 : SubSeq(r, lo, Len(r))[i] = r[lo + i - 1]
  BY <1>1, <1>2, SubSeqProperties
<1>5. ASSUME NEW i \in 1 .. Len(PushBounded(q, f))
      PROVE  \/ PushBounded(q, f)[i] = f
             \/ \E j \in 1 .. Len(q) : PushBounded(q, f)[i] = q[j]
  <2>1. i \in 1 .. Len(r) - lo + 1
    BY <1>1, <1>2, <1>3, <1>4
  <2>2. PushBounded(q, f)[i] = r[lo + i - 1] /\ lo + i - 1 \in 1 .. Len(r)
    BY <2>1, <1>1, <1>2, <1>3, <1>4
  <2>3. CASE lo + i - 1 = Len(r)
    BY <2>2, <2>3, <1>1
  <2>4. CASE lo + i - 1 \in 1 .. Len(q)
    BY <2>2, <2>4, <1>1
  <2> QED BY <2>2, <2>3, <2>4, <1>1
<1>6. PushBounded(q, f) \in Seq(Frontier)
  BY <1>3, <1>4
<1>7. Len(PushBounded(q, f)) <= CausalHistoryLen
  BY <1>1, <1>2, <1>3, <1>4
<1> QED BY <1>5, <1>6, <1>7

----------------------------------------------------------------------------
\* Adding one copy of each element of a fresh set to a bag.
LEMMA BagAddFresh ==
  ASSUME NEW M, NEW S, NEW R, NEW G, IsABag(M), IsABag(S),
         M (+) S = SetToBag(R), \A e \in G : e \notin R
  PROVE  (M (+) SetToBag(G)) (+) S = SetToBag(R \cup G)
<1>1. R = DOMAIN M \cup DOMAIN S
  BY DEF SetToBag, (+)
<1>2. \A e \in R : (IF e \in DOMAIN M THEN M[e] ELSE 0)
                    + (IF e \in DOMAIN S THEN S[e] ELSE 0) = 1
  BY <1>1 DEF SetToBag, (+)
<1> QED BY <1>1, <1>2 DEF SetToBag, (+), IsABag

\* Moving the contents of one bag to another leaves their sum unchanged.
LEMMA BagDrain ==
  ASSUME NEW M, NEW S, IsABag(M), IsABag(S)
  PROVE  EmptyBag (+) (S (+) M) = M (+) S
BY DEF EmptyBag, SetToBag, (+), IsABag

\* The sum of two bags over a set is a bag over that set.
LEMMA BagSum ==
  ASSUME NEW M, NEW S, NEW T, IsABag(M), IsABag(S),
         BagToSet(M) \subseteq T, BagToSet(S) \subseteq T
  PROVE  IsABag(M (+) S) /\ BagToSet(M (+) S) \subseteq T
BY DEF BagToSet, (+), IsABag

\* A set taken as a bag.
LEMMA BagOfSet ==
  ASSUME NEW T
  PROVE  IsABag(SetToBag(T)) /\ BagToSet(SetToBag(T)) = T
BY DEF BagToSet, SetToBag, IsABag

----------------------------------------------------------------------------
\* What record_seen does to the two fields it writes.
LEMMA RecordSeenFacts ==
  ASSUME TypeOK, NEW p \in Signers, NEW f \in Frontier, RecordSeen(p, f)
  PROVE  /\ seen' \in [Signers -> SUBSET Frontier]
         /\ frontiers' \in [Signers -> Seq(Frontier)]
         /\ \A q \in Signers : Len(frontiers'[q]) <= CausalHistoryLen
         /\ seen'[p] = seen[p] \cup {f}
         /\ \A q \in Signers \ {p} : seen'[q] = seen[q] /\ frontiers'[q] = frontiers[q]
         /\ \A i \in 1 .. Len(frontiers'[p]) :
              \/ frontiers'[p][i] = f
              \/ \E j \in 1 .. Len(frontiers[p]) : frontiers'[p][i] = frontiers[p][j]
<1>1. /\ frontiers[p] \in Seq(Frontier)
      /\ Len(frontiers[p]) <= CausalHistoryLen
  BY DEF TypeOK
<1> DEFINE pushed == PushBounded(frontiers[p], f)
<1>2. /\ pushed \in Seq(Frontier)
      /\ Len(pushed) <= CausalHistoryLen
      /\ \A i \in 1 .. Len(pushed) :
           \/ pushed[i] = f
           \/ \E j \in 1 .. Len(frontiers[p]) : pushed[i] = frontiers[p][j]
  BY <1>1, PushBoundedFacts
<1>3. /\ seen' = [seen EXCEPT ![p] = @ \cup {f}]
      /\ \/ frontiers' = frontiers
         \/ frontiers' = [frontiers EXCEPT ![p] = pushed]
  BY DEF RecordSeen
<1> HIDE DEF pushed
<1>4. /\ seen \in [Signers -> SUBSET Frontier]
      /\ frontiers \in [Signers -> Seq(Frontier)]
      /\ \A q \in Signers : Len(frontiers[q]) <= CausalHistoryLen
  BY DEF TypeOK
<1> QED BY <1>1, <1>2, <1>3, <1>4

\* A send writes a well-formed id, frontier and envelope.
LEMMA SendFacts ==
  ASSUME TypeOK, NEW s \in Signers, NEW c \in Contents, clock[s] < MaxLamport
  PROVE  /\ clock[s] + 1 \in 1 .. MaxLamport
         /\ DeriveMessageId(s, clock[s] + 1, c) \in MessageId
         /\ [sender |-> s, id |-> DeriveMessageId(s, clock[s] + 1, c)] \in Frontier
         /\ Envelope(s, c) \in ReliablePayload
<1>1. clock[s] \in 0 .. MaxLamport /\ MaxLamport \in Nat
  BY ConstantsAssumption DEF TypeOK
<1>2. clock[s] + 1 \in 1 .. MaxLamport
  BY <1>1
<1>3. DeriveMessageId(s, clock[s] + 1, c) \in MessageId
  BY <1>2 DEF DeriveMessageId, MessageId
<1>4. [sender |-> s, id |-> DeriveMessageId(s, clock[s] + 1, c)] \in Frontier
  BY <1>3 DEF Frontier
<1>5. frontiers[s] \in Seq(Frontier)
  BY DEF TypeOK
<1>6. \A i \in 1 .. Len(frontiers[s]) : FormatEntry(s, frontiers[s][i]) \in HistoryEntry
  <2>1. ASSUME NEW f \in Frontier
        PROVE  FormatEntry(s, f) \in HistoryEntry
    BY DEF FormatEntry, HistoryEntry, Frontier
  <2>2. \A i \in 1 .. Len(frontiers[s]) : frontiers[s][i] \in Frontier
    BY <1>5, ElementOfSeq
  <2> QED BY <2>1, <2>2
<1>7. [i \in 1 .. Len(frontiers[s]) |-> FormatEntry(s, frontiers[s][i])] \in Seq(HistoryEntry)
  <2> DEFINE n == Len(frontiers[s])
             h == [i \in 1 .. n |-> FormatEntry(s, frontiers[s][i])]
  <2>1. n \in Nat
    BY <1>5, LenProperties
  <2>2. h \in [1 .. n -> HistoryEntry]
    BY <1>6
  <2> HIDE DEF h, n
  <2>3. h \in Seq(HistoryEntry)
    BY <2>1, <2>2, SeqDef
  <2> QED BY <2>3 DEF h, n
<1>8. FormatSender(s) \in Signers \cup {NoSigner}
  BY DEF FormatSender
<1>9. Envelope(s, c) \in ReliablePayload
  BY <1>2, <1>3, <1>7, <1>8 DEF Envelope, ReliablePayload
<1> QED BY <1>2, <1>3, <1>4, <1>9

\* What a parsed envelope contributes is well formed.
LEMMA ReceiveFacts ==
  ASSUME TypeOK, NEW p \in Signers, NEW m \in network, m.sender \in Signers
  PROVE  /\ NewAcks(p, m) \subseteq DeliveryAck
         /\ NewGaps(p, m) \subseteq Frontier
         /\ [sender |-> m.sender, id |-> m.id] \in Frontier
         /\ m.lamport \in 1 .. MaxLamport
         /\ NewAcks(p, m) \cap ackedBy[p] = {}
         /\ NewGaps(p, m) \cap reported[p] = {}
<1>1. m \in ReliablePayload
  BY DEF TypeOK
<1>2. m.history \in Seq(HistoryEntry) /\ m.id \in MessageId /\ m.lamport \in 1 .. MaxLamport
  BY <1>1 DEF ReliablePayload
<1>3. ParsedEntries(m) \subseteq Frontier
  <2>1. ASSUME NEW e \in HistoryEntry, e.sender \in Signers
        PROVE  e \in Frontier
    BY <2>1 DEF HistoryEntry, Frontier
  <2>2. \A i \in 1 .. Len(m.history) : m.history[i] \in HistoryEntry
    BY <1>2, ElementOfSeq
  <2> QED BY <2>1, <2>2 DEF ParsedEntries, Entries
<1>4. NewGaps(p, m) \subseteq Frontier /\ NewGaps(p, m) \cap reported[p] = {}
  BY <1>3 DEF NewGaps
<1>5. NewAcks(p, m) \subseteq DeliveryAck /\ NewAcks(p, m) \cap ackedBy[p] = {}
  <2>1. ASSUME NEW a \in NewAcks(p, m)
        PROVE  a \in DeliveryAck /\ a \notin ackedBy[p]
    <3>1. /\ \E e \in ParsedEntries(m) : a = [id |-> e.id, by |-> m.sender]
          /\ a \notin ackedBy[p]
      BY DEF NewAcks
    <3> QED BY <3>1, <1>3 DEF DeliveryAck, Frontier
  <2> QED BY <2>1
<1> QED BY <1>2, <1>4, <1>5 DEF Frontier

----------------------------------------------------------------------------
\* Sends, failed or not, keep the types.
LEMMA OnSendType ==
  ASSUME TypeOK, NEW s \in Signers, NEW c \in Contents, clock[s] < MaxLamport,
         OnSend(s, c), UNCHANGED historyVars,
         \/ network' = network
         \/ network' = network \cup {Envelope(s, c)}
  PROVE  TypeOK'
<1> DEFINE id == DeriveMessageId(s, clock[s] + 1, c)
           f == [sender |-> s, id |-> id]
<1>1. /\ clock[s] + 1 \in 1 .. MaxLamport
      /\ id \in MessageId
      /\ f \in Frontier
      /\ Envelope(s, c) \in ReliablePayload
  BY SendFacts
<1>2. /\ clock' = [clock EXCEPT ![s] = @ + 1]
      /\ own' = [own EXCEPT ![s] = @ \cup {id}]
      /\ RecordSeen(s, f)
      /\ UNCHANGED <<reported, ackedBy, missing, acks>>
  BY DEF OnSend
<1> HIDE DEF id, f
<1>3. /\ seen' \in [Signers -> SUBSET Frontier]
      /\ frontiers' \in [Signers -> Seq(Frontier)]
      /\ \A q \in Signers : Len(frontiers'[q]) <= CausalHistoryLen
  BY <1>1, <1>2, RecordSeenFacts
<1>4. clock' \in [Signers -> 0 .. MaxLamport] /\ own' \in [Signers -> SUBSET MessageId]
  BY <1>1, <1>2 DEF TypeOK
<1>5. network' \subseteq ReliablePayload /\ delivered' \in [Signers -> SUBSET network']
  BY <1>1 DEF TypeOK, historyVars
<1> QED BY <1>2, <1>3, <1>4, <1>5 DEF TypeOK, historyVars

\* A parsed envelope keeps the types.
LEMMA OnReceiveType ==
  ASSUME TypeOK, NEW p \in Signers, NEW m \in network, m.sender \in Signers, OnReceive(p, m),
         delivered' = [delivered EXCEPT ![p] = @ \cup {m}],
         UNCHANGED <<network, surfaced, notified>>
  PROVE  TypeOK'
<1>1. /\ NewAcks(p, m) \subseteq DeliveryAck
      /\ NewGaps(p, m) \subseteq Frontier
      /\ [sender |-> m.sender, id |-> m.id] \in Frontier
      /\ m.lamport \in 1 .. MaxLamport
  BY ReceiveFacts
<1>2. /\ seen' \in [Signers -> SUBSET Frontier]
      /\ frontiers' \in [Signers -> Seq(Frontier)]
      /\ \A q \in Signers : Len(frontiers'[q]) <= CausalHistoryLen
  BY <1>1, RecordSeenFacts DEF OnReceive
<1>3. clock' \in [Signers -> 0 .. MaxLamport]
  BY <1>1, ConstantsAssumption DEF TypeOK, OnReceive
<1>4. /\ reported' \in [Signers -> SUBSET Frontier]
      /\ ackedBy' \in [Signers -> SUBSET DeliveryAck]
      /\ own' \in [Signers -> SUBSET MessageId]
  BY <1>1 DEF TypeOK, OnReceive
<1>5. network' \subseteq ReliablePayload /\ delivered' \in [Signers -> SUBSET network']
  BY DEF TypeOK
<1>6. /\ IsABag(missing[p] (+) SetToBag(NewGaps(p, m)))
      /\ BagToSet(missing[p] (+) SetToBag(NewGaps(p, m))) \subseteq Frontier
  <2>1. IsABag(missing[p]) /\ BagToSet(missing[p]) \subseteq Frontier
    BY DEF TypeOK
  <2>2. IsABag(SetToBag(NewGaps(p, m))) /\ BagToSet(SetToBag(NewGaps(p, m))) \subseteq Frontier
    BY <1>1, BagOfSet
  <2> QED BY <2>1, <2>2, BagSum
<1>7. /\ IsABag(acks[p] (+) SetToBag(NewAcks(p, m)))
      /\ BagToSet(acks[p] (+) SetToBag(NewAcks(p, m))) \subseteq DeliveryAck
  <2>1. IsABag(acks[p]) /\ BagToSet(acks[p]) \subseteq DeliveryAck
    BY DEF TypeOK
  <2>2. IsABag(SetToBag(NewAcks(p, m))) /\ BagToSet(SetToBag(NewAcks(p, m))) \subseteq DeliveryAck
    BY <1>1, BagOfSet
  <2> QED BY <2>1, <2>2, BagSum
<1>8. /\ DOMAIN missing' = Signers /\ DOMAIN acks' = Signers
      /\ missing'[p] = missing[p] (+) SetToBag(NewGaps(p, m))
      /\ acks'[p] = acks[p] (+) SetToBag(NewAcks(p, m))
      /\ \A q \in Signers \ {p} : missing'[q] = missing[q] /\ acks'[q] = acks[q]
  BY DEF OnReceive, TypeOK
<1>9. \A q \in Signers :
        /\ IsABag(missing'[q]) /\ BagToSet(missing'[q]) \subseteq Frontier
        /\ IsABag(acks'[q]) /\ BagToSet(acks'[q]) \subseteq DeliveryAck
  BY <1>6, <1>7, <1>8 DEF TypeOK
<1> QED BY <1>2, <1>3, <1>4, <1>5, <1>8, <1>9 DEF TypeOK

\* Draining the gaps keeps the types.
LEMMA TakeMissingType ==
  ASSUME TypeOK, NEW p \in Signers, TakeMissing(p)
  PROVE  TypeOK'
<1>1. /\ IsABag(surfaced[p] (+) missing[p])
      /\ BagToSet(surfaced[p] (+) missing[p]) \subseteq Frontier
  BY BagSum DEF TypeOK
<1>2. IsABag(EmptyBag) /\ BagToSet(EmptyBag) \subseteq Frontier
  BY BagOfSet DEF EmptyBag
<1>3. /\ DOMAIN missing' = Signers /\ DOMAIN surfaced' = Signers
      /\ missing'[p] = EmptyBag /\ surfaced'[p] = surfaced[p] (+) missing[p]
      /\ \A q \in Signers \ {p} : missing'[q] = missing[q] /\ surfaced'[q] = surfaced[q]
  BY DEF TakeMissing, TypeOK
<1>4. \A q \in Signers :
        /\ IsABag(missing'[q]) /\ BagToSet(missing'[q]) \subseteq Frontier
        /\ IsABag(surfaced'[q]) /\ BagToSet(surfaced'[q]) \subseteq Frontier
  BY <1>1, <1>2, <1>3 DEF TypeOK
<1> QED BY <1>3, <1>4 DEF TakeMissing, TypeOK

\* Draining the acknowledgements keeps the types.
LEMMA TakeAcksType ==
  ASSUME TypeOK, NEW p \in Signers, TakeAcks(p)
  PROVE  TypeOK'
<1>1. /\ IsABag(notified[p] (+) acks[p])
      /\ BagToSet(notified[p] (+) acks[p]) \subseteq DeliveryAck
  BY BagSum DEF TypeOK
<1>2. IsABag(EmptyBag) /\ BagToSet(EmptyBag) \subseteq DeliveryAck
  BY BagOfSet DEF EmptyBag
<1>3. /\ DOMAIN acks' = Signers /\ DOMAIN notified' = Signers
      /\ acks'[p] = EmptyBag /\ notified'[p] = notified[p] (+) acks[p]
      /\ \A q \in Signers \ {p} : acks'[q] = acks[q] /\ notified'[q] = notified[q]
  BY DEF TakeAcks, TypeOK
<1>4. \A q \in Signers :
        /\ IsABag(acks'[q]) /\ BagToSet(acks'[q]) \subseteq DeliveryAck
        /\ IsABag(notified'[q]) /\ BagToSet(notified'[q]) \subseteq DeliveryAck
  BY <1>1, <1>2, <1>3 DEF TypeOK
<1> QED BY <1>3, <1>4 DEF TakeAcks, TypeOK

\* Every step of every store keeps the types, whatever the network does.
LEMMA TypeStep == TypeOK /\ [Next]_vars => TypeOK'
<1> SUFFICES ASSUME TypeOK, [Next]_vars PROVE TypeOK'
  OBVIOUS
<1>1. ASSUME NEW p \in Signers, NEW c \in Contents, SendMessage(p, c)
      PROVE  TypeOK'
  BY <1>1, OnSendType DEF SendMessage, CanSend
<1>2. ASSUME NEW p \in Signers, NEW c \in Contents, SendMessageFails(p, c)
      PROVE  TypeOK'
  BY <1>2, OnSendType DEF SendMessageFails, CanSend
<1>3. ASSUME NEW p \in Signers, NEW m \in network, Receive(p, m)
      PROVE  TypeOK'
  <2>1. CASE m.sender \in Signers
    BY <1>3, <2>1, OnReceiveType DEF Receive
  <2>2. CASE m.sender \notin Signers
    BY <1>3, <2>2 DEF Receive, IgnoreMalformed, storeVars, TypeOK
  <2> QED BY <2>1, <2>2
<1>4. ASSUME NEW p \in Signers, TakeMissing(p)
      PROVE  TypeOK'
  BY <1>4, TakeMissingType
<1>5. ASSUME NEW p \in Signers, TakeAcks(p)
      PROVE  TypeOK'
  BY <1>5, TakeAcksType
<1>6. CASE UNCHANGED vars
  BY <1>6 DEF vars, storeVars, historyVars, TypeOK
<1> QED BY <1>1, <1>2, <1>3, <1>4, <1>5, <1>6 DEF Next

\* The initial state is well typed: every store starts from its default.
LEMMA TypeInit == Init => TypeOK
<1> SUFFICES ASSUME Init PROVE TypeOK
  OBVIOUS
<1>1. IsABag(EmptyBag) /\ BagToSet(EmptyBag) = {}
  BY BagOfSet DEF EmptyBag
<1>2. <<>> \in Seq(Frontier) /\ Len(<<>>) = 0
  BY EmptySeq
<1> QED BY <1>1, <1>2, ConstantsAssumption DEF Init, TypeOK

\* Type correctness of every signer's store, its bounded frontier included.
THEOREM TypeCorrect == Spec => []TypeOK
BY TypeInit, TypeStep, PTL DEF Spec

----------------------------------------------------------------------------
\* A send keeps the causal invariant: the new id is later than everything its
\* author has seen, and the envelope names only what the author has seen.
LEMMA OnSendCausal ==
  ASSUME TypeOK, CausalInv, NEW s \in Signers, NEW c \in Contents, clock[s] < MaxLamport,
         OnSend(s, c),
         \/ network' = network
         \/ network' = network \cup {Envelope(s, c)}
  PROVE  CausalInv'
<1> DEFINE id == DeriveMessageId(s, clock[s] + 1, c)
           f == [sender |-> s, id |-> id]
           env == Envelope(s, c)
<1>1. /\ id \in MessageId /\ f \in Frontier /\ env \in ReliablePayload
      /\ id.author = s /\ id.lamport = clock[s] + 1
      /\ f.sender = s /\ f.id = id
  BY SendFacts DEF DeriveMessageId
<1>2. /\ clock' = [clock EXCEPT ![s] = @ + 1]
      /\ own' = [own EXCEPT ![s] = @ \cup {id}]
      /\ RecordSeen(s, f)
      /\ UNCHANGED <<reported, ackedBy, missing, acks>>
  BY DEF OnSend
<1>3. /\ env.id = id /\ env.lamport = clock[s] + 1 /\ env.sender \in {s, NoSigner}
      /\ Len(env.history) = Len(frontiers[s])
      /\ \A i \in 1 .. Len(frontiers[s]) : env.history[i] = FormatEntry(s, frontiers[s][i])
  <2>1. frontiers[s] \in Seq(Frontier)
    BY DEF TypeOK
  <2> QED BY <2>1, LenProperties DEF Envelope, FormatSender
<1> HIDE DEF id, f, env
<1>4. /\ seen'[s] = seen[s] \cup {f}
      /\ \A q \in Signers \ {s} : seen'[q] = seen[q] /\ frontiers'[q] = frontiers[q]
      /\ \A i \in 1 .. Len(frontiers'[s]) :
           \/ frontiers'[s][i] = f
           \/ \E j \in 1 .. Len(frontiers[s]) : frontiers'[s][i] = frontiers[s][j]
  BY <1>1, <1>2, RecordSeenFacts
<1>5. /\ clock'[s] = clock[s] + 1 /\ own'[s] = own[s] \cup {id}
      /\ \A q \in Signers \ {s} : clock'[q] = clock[q] /\ own'[q] = own[q]
      /\ \A q \in Signers : clock[q] \in Nat /\ seen[q] \subseteq Frontier
                           /\ own[q] \subseteq MessageId /\ reported[q] \subseteq Frontier
                           /\ ackedBy[q] \subseteq DeliveryAck
  BY <1>2 DEF TypeOK
<1>6. \A q \in Signers : seen[q] \subseteq seen'[q] /\ own[q] \subseteq own'[q]
                        /\ clock[q] <= clock'[q]
  <2> SUFFICES ASSUME NEW q \in Signers
               PROVE  seen[q] \subseteq seen'[q] /\ own[q] \subseteq own'[q] /\ clock[q] <= clock'[q]
    OBVIOUS
  <2>0. clock[q] \in Nat
    BY <1>5
  <2>1. CASE q = s
    <3>1. clock'[q] = clock[q] + 1
      BY <1>5, <2>1
    <3>2. seen[q] \subseteq seen'[q] /\ own[q] \subseteq own'[q]
      BY <1>4, <1>5, <2>1
    <3> QED BY <2>0, <3>1, <3>2
  <2>2. CASE q # s
    <3>1. seen'[q] = seen[q] /\ own'[q] = own[q] /\ clock'[q] = clock[q]
      BY <1>4, <1>5, <2>2
    <3> QED BY <2>0, <3>1
  <2> QED BY <2>1, <2>2
<1>7. OwnIsSeen'
  <2> SUFFICES ASSUME NEW p \in Signers, NEW x \in own'[p]
               PROVE  x.author = p /\ x.lamport <= clock'[p] /\ [sender |-> p, id |-> x] \in seen'[p]
    BY DEF OwnIsSeen
  <2>1. CASE x \in own[p]
    <3>1. x \in MessageId /\ x.lamport \in Int
      BY <2>1, <1>5 DEF MessageId
    <3>2. x.author = p /\ x.lamport <= clock[p] /\ [sender |-> p, id |-> x] \in seen[p]
      BY <2>1 DEF CausalInv, OwnIsSeen
    <3> QED BY <3>1, <3>2, <1>5, <1>6
  <2>2. CASE x = id /\ p = s
    BY <2>2, <1>1, <1>4, <1>5 DEF f
  <2> QED BY <2>1, <2>2, <1>5
<1>8. SeenIsAuthored'
  <2> SUFFICES ASSUME NEW p \in Signers, NEW g \in seen'[p]
               PROVE  g.id.author = g.sender /\ g.id \in own'[g.sender] /\ g.id.lamport <= clock'[p]
    BY DEF SeenIsAuthored
  <2>1. CASE g \in seen[p]
    <3>1. g.sender \in Signers /\ g.id.lamport \in Int
      BY <2>1, <1>5 DEF Frontier, MessageId
    <3>2. g.id.author = g.sender /\ g.id \in own[g.sender] /\ g.id.lamport <= clock[p]
      BY <2>1 DEF CausalInv, SeenIsAuthored
    <3> QED BY <3>1, <3>2, <1>5, <1>6
  <2>2. CASE g = f /\ p = s
    BY <2>2, <1>1, <1>5
  <2> QED BY <2>1, <2>2, <1>4
<1>9. FrontierIsSeen'
  <2>1. ASSUME NEW q \in Signers, NEW i \in 1 .. Len(frontiers'[q])
        PROVE  frontiers'[q][i] \in seen'[q]
    <3>1. \A j \in 1 .. Len(frontiers[q]) : frontiers[q][j] \in seen'[q]
      BY <1>6 DEF CausalInv, FrontierIsSeen
    <3> QED BY <1>4, <3>1
  <2> QED BY <2>1 DEF FrontierIsSeen
<1>10. \A i \in 1 .. Len(frontiers[s]) :
         /\ frontiers[s][i] \in seen[s] /\ frontiers[s][i] \in Frontier
         /\ frontiers[s][i].id.author = frontiers[s][i].sender
         /\ frontiers[s][i].id.lamport <= clock[s]
  BY <1>5 DEF CausalInv, FrontierIsSeen, SeenIsAuthored
<1>11. \A i \in 1 .. Len(env.history) :
         /\ env.history[i].id = frontiers[s][i].id
         /\ env.history[i].sender \in {frontiers[s][i].id.author, NoSigner}
  <2>1. ASSUME NEW g, g.id.author = g.sender
        PROVE  /\ FormatEntry(s, g).id = g.id
               /\ FormatEntry(s, g).sender \in {g.id.author, NoSigner}
    BY <2>1 DEF FormatEntry
  <2>2. Len(env.history) = Len(frontiers[s])
    BY <1>3
  <2>3. ASSUME NEW i \in 1 .. Len(frontiers[s])
        PROVE  /\ env.history[i].id = frontiers[s][i].id
               /\ env.history[i].sender \in {frontiers[s][i].id.author, NoSigner}
    <3>1. env.history[i] = FormatEntry(s, frontiers[s][i])
      BY <1>3
    <3>2. frontiers[s][i].id.author = frontiers[s][i].sender
      BY <1>10
    <3> QED BY <2>1, <3>1, <3>2
  <2> QED BY <2>2, <2>3
<1>12. EnvelopeIsGrounded'
  <2> SUFFICES ASSUME NEW m \in network'
               PROVE  /\ m.id \in own'[m.id.author] /\ m.lamport = m.id.lamport
                      /\ m.sender \in {m.id.author, NoSigner}
                      /\ \A i \in 1 .. Len(m.history) :
                           /\ m.history[i].sender \in {m.history[i].id.author, NoSigner}
                           /\ [sender |-> m.history[i].id.author, id |-> m.history[i].id]
                                \in seen'[m.id.author]
    BY DEF EnvelopeIsGrounded
  <2>1. CASE m \in network
    <3>1. m.id.author \in Signers
      BY <2>1 DEF TypeOK, ReliablePayload, MessageId
    <3> QED BY <2>1, <3>1, <1>6 DEF CausalInv, EnvelopeIsGrounded
  <2>2. CASE m = env
    <3>1. \A i \in 1 .. Len(env.history) :
            [sender |-> env.history[i].id.author, id |-> env.history[i].id] = frontiers[s][i]
      BY <1>3, <1>10, <1>11 DEF Frontier
    <3>2. /\ env.id = id /\ id.author = s /\ id \in own'[s] /\ env.lamport = id.lamport
          /\ env.sender \in {s, NoSigner}
      BY <1>1, <1>3, <1>5
    <3>3. ASSUME NEW i \in 1 .. Len(env.history)
          PROVE  /\ env.history[i].sender \in {env.history[i].id.author, NoSigner}
                 /\ [sender |-> env.history[i].id.author, id |-> env.history[i].id] \in seen'[s]
      <4>1. frontiers[s][i] \in seen'[s]
        BY <1>3, <1>4, <1>10
      <4>2. env.history[i].sender \in {env.history[i].id.author, NoSigner}
        BY <1>11
      <4> QED BY <3>1, <4>1, <4>2
    <3> QED BY <2>2, <3>2, <3>3
  <2> QED BY <2>1, <2>2 DEF env
<1>13. AckImpliesHeld'
  <2>1. ASSUME NEW p \in Signers, NEW a \in ackedBy'[p]
        PROVE  a.id \in own'[p] /\ a.by # p /\ [sender |-> p, id |-> a.id] \in seen'[a.by]
    <3>1. a \in ackedBy[p] /\ a.by \in Signers
      BY <1>2, <1>5 DEF DeliveryAck
    <3> QED BY <3>1, <1>6 DEF CausalInv, AckImpliesHeld
  <2> QED BY <2>1 DEF AckImpliesHeld
<1>14. GapNamesForeignMessage'
  <2>1. ASSUME NEW p \in Signers, NEW g \in reported'[p]
        PROVE  g.sender # p /\ g.id.author = g.sender /\ g.id \in own'[g.sender]
    <3>1. g \in reported[p] /\ g.sender \in Signers
      BY <1>2, <1>5 DEF Frontier
    <3> QED BY <3>1, <1>6 DEF CausalInv, GapNamesForeignMessage
  <2> QED BY <2>1 DEF GapNamesForeignMessage
<1>15. ClockCondition'
  <2> SUFFICES ASSUME NEW m \in network', NEW i \in 1 .. Len(m.history)
               PROVE  m.history[i].id.lamport < m.lamport
    BY DEF ClockCondition, Entries
  <2>1. CASE m \in network
    BY <2>1 DEF CausalInv, ClockCondition, Entries
  <2>2. CASE m = env
    <3>1. frontiers[s][i].id.lamport \in Int
      BY <2>2, <1>3, <1>10 DEF Frontier, MessageId
    <3>2. clock[s] \in Nat /\ m.lamport = clock[s] + 1
      BY <2>2, <1>3, <1>5
    <3>3. m.history[i].id = frontiers[s][i].id /\ frontiers[s][i].id.lamport <= clock[s]
      BY <2>2, <1>3, <1>10, <1>11
    <3> QED BY <3>1, <3>2, <3>3
  <2> QED BY <2>1, <2>2 DEF env
<1> QED BY <1>7, <1>8, <1>9, <1>12, <1>13, <1>14, <1>15 DEF CausalInv

----------------------------------------------------------------------------
\* A receipt keeps the causal invariant: what it acknowledges the peer holds,
\* and what it reports missing was authored by the peer it names.
LEMMA OnReceiveCausal ==
  ASSUME TypeOK, CausalInv, NEW p \in Signers, NEW m \in network, m.sender \in Signers,
         OnReceive(p, m), network' = network
  PROVE  CausalInv'
<1> DEFINE f == [sender |-> m.sender, id |-> m.id]
<1>1. /\ m.sender = m.id.author /\ m.id \in own[m.sender] /\ m.id.lamport = m.lamport
      /\ f \in Frontier /\ f.sender = m.sender /\ f.id = m.id
      /\ m.lamport \in 1 .. MaxLamport
  BY ReceiveFacts, ConstantsAssumption DEF CausalInv, EnvelopeIsGrounded
<1>2. \A e \in ParsedEntries(m) :
        e \in Frontier /\ e.id.author = e.sender /\ e \in seen[m.sender]
  <2> SUFFICES ASSUME NEW i \in 1 .. Len(m.history), m.history[i].sender \in Signers
               PROVE  /\ m.history[i] \in Frontier
                      /\ m.history[i].id.author = m.history[i].sender
                      /\ m.history[i] \in seen[m.sender]
    BY DEF ParsedEntries, Entries
  <2>1. m.history[i] \in HistoryEntry
    <3>1. m.history \in Seq(HistoryEntry)
      BY DEF TypeOK, ReliablePayload
    <3> QED BY <3>1, ElementOfSeq
  <2>2. /\ m.history[i].sender \in {m.history[i].id.author, NoSigner}
        /\ [sender |-> m.history[i].id.author, id |-> m.history[i].id] \in seen[m.id.author]
    BY DEF CausalInv, EnvelopeIsGrounded
  <2>3. m.history[i].sender = m.history[i].id.author
    BY <2>2, ConstantsAssumption
  <2>4. /\ m.history[i] \in Frontier
        /\ m.history[i] = [sender |-> m.history[i].id.author, id |-> m.history[i].id]
    BY <2>1, <2>3 DEF HistoryEntry, Frontier
  <2> QED BY <2>2, <2>3, <2>4, <1>1
<1>3. /\ clock' = [clock EXCEPT ![p] = IF m.lamport > @ THEN m.lamport ELSE @]
      /\ ackedBy' = [ackedBy EXCEPT ![p] = @ \cup NewAcks(p, m)]
      /\ reported' = [reported EXCEPT ![p] = @ \cup NewGaps(p, m)]
      /\ RecordSeen(p, f)
      /\ own' = own
  BY DEF OnReceive
<1> HIDE DEF f
<1>4. /\ seen'[p] = seen[p] \cup {f}
      /\ \A q \in Signers \ {p} : seen'[q] = seen[q] /\ frontiers'[q] = frontiers[q]
      /\ \A i \in 1 .. Len(frontiers'[p]) :
           \/ frontiers'[p][i] = f
           \/ \E j \in 1 .. Len(frontiers[p]) : frontiers'[p][i] = frontiers[p][j]
  BY <1>1, <1>3, RecordSeenFacts
<1>5. \A q \in Signers : clock[q] \in Nat /\ seen[q] \subseteq Frontier
                        /\ own[q] \subseteq MessageId
  BY DEF TypeOK
<1>6. /\ \A q \in Signers : clock'[q] \in Nat /\ clock[q] <= clock'[q]
                          /\ seen[q] \subseteq seen'[q]
      /\ m.lamport <= clock'[p]
  <2>1. /\ m.lamport \in Nat /\ clock[p] \in Nat
        /\ clock'[p] = IF m.lamport > clock[p] THEN m.lamport ELSE clock[p]
        /\ \A q \in Signers \ {p} : clock'[q] = clock[q]
    <3>1. m.lamport \in Nat /\ clock[p] \in Nat
      BY <1>1, <1>5, ConstantsAssumption
    <3>2. clock \in [Signers -> 0 .. MaxLamport]
      BY DEF TypeOK
    <3> QED BY <1>3, <3>1, <3>2
  <2>2. clock'[p] \in Nat /\ clock[p] <= clock'[p] /\ m.lamport <= clock'[p]
    BY <2>1
  <2>3. ASSUME NEW q \in Signers
        PROVE  clock'[q] \in Nat /\ clock[q] <= clock'[q]
    <3>1. CASE q = p
      BY <2>2, <3>1
    <3>2. CASE q # p
      BY <1>5, <2>1, <3>2
    <3> QED BY <3>1, <3>2
  <2>4. \A q \in Signers : seen[q] \subseteq seen'[q]
    BY <1>4
  <2> QED BY <2>2, <2>3, <2>4
<1>7. OwnIsSeen'
  <2> SUFFICES ASSUME NEW q \in Signers, NEW x \in own[q]
               PROVE  x.author = q /\ x.lamport <= clock'[q] /\ [sender |-> q, id |-> x] \in seen'[q]
    BY <1>3 DEF OwnIsSeen
  <2>1. x.lamport \in Int
    BY <1>5 DEF MessageId
  <2>2. x.author = q /\ x.lamport <= clock[q] /\ [sender |-> q, id |-> x] \in seen[q]
    BY DEF CausalInv, OwnIsSeen
  <2>3. clock[q] \in Nat /\ clock'[q] \in Nat /\ clock[q] <= clock'[q]
    BY <1>5, <1>6
  <2>4. x.lamport <= clock'[q]
    BY <2>1, <2>2, <2>3
  <2> QED BY <2>2, <2>4, <1>6
<1>8. SeenIsAuthored'
  <2> SUFFICES ASSUME NEW q \in Signers, NEW g \in seen'[q]
               PROVE  g.id.author = g.sender /\ g.id \in own[g.sender] /\ g.id.lamport <= clock'[q]
    BY <1>3 DEF SeenIsAuthored
  <2>1. CASE g \in seen[q]
    <3>1. g.id.lamport \in Int
      BY <2>1, <1>5 DEF Frontier, MessageId
    <3>2. g.id.author = g.sender /\ g.id \in own[g.sender] /\ g.id.lamport <= clock[q]
      BY <2>1 DEF CausalInv, SeenIsAuthored
    <3> QED BY <3>1, <3>2, <1>5, <1>6
  <2>2. CASE g = f /\ q = p
    BY <2>2, <1>1, <1>6
  <2> QED BY <2>1, <2>2, <1>4
<1>9. FrontierIsSeen'
  <2>1. ASSUME NEW q \in Signers, NEW i \in 1 .. Len(frontiers'[q])
        PROVE  frontiers'[q][i] \in seen'[q]
    <3>1. \A j \in 1 .. Len(frontiers[q]) : frontiers[q][j] \in seen'[q]
      BY <1>6 DEF CausalInv, FrontierIsSeen
    <3> QED BY <1>4, <3>1
  <2> QED BY <2>1 DEF FrontierIsSeen
<1>10. EnvelopeIsGrounded'
  <2>1. \A n \in network : n.id.author \in Signers
    BY DEF TypeOK, ReliablePayload, MessageId
  <2> QED BY <2>1, <1>3, <1>6 DEF CausalInv, EnvelopeIsGrounded
<1>11. AckImpliesHeld'
  <2> SUFFICES ASSUME NEW q \in Signers, NEW a \in ackedBy'[q]
               PROVE  a.id \in own[q] /\ a.by # q /\ [sender |-> q, id |-> a.id] \in seen'[a.by]
    BY <1>3 DEF AckImpliesHeld
  <2>1. CASE a \in ackedBy[q]
    <3>1. a.by \in Signers
      BY <2>1 DEF TypeOK, DeliveryAck
    <3> QED BY <2>1, <3>1, <1>6 DEF CausalInv, AckImpliesHeld
  <2>2. CASE q = p /\ a \in NewAcks(p, m)
    <3>1. PICK e \in ParsedEntries(m) :
            e.id \in own[p] /\ e.sender # m.sender /\ a = [id |-> e.id, by |-> m.sender]
      BY <2>2 DEF NewAcks
    <3>2. e.id.author = p
      BY <3>1 DEF CausalInv, OwnIsSeen
    <3>3. e = [sender |-> p, id |-> e.id] /\ e.sender = p /\ e \in seen[m.sender]
      BY <3>2, <1>2 DEF Frontier
    <3> QED BY <2>2, <3>1, <3>3, <1>6
  <2> QED BY <2>1, <2>2, <1>3 DEF TypeOK
<1>12. GapNamesForeignMessage'
  <2> SUFFICES ASSUME NEW q \in Signers, NEW g \in reported'[q]
               PROVE  g.sender # q /\ g.id.author = g.sender /\ g.id \in own[g.sender]
    BY <1>3 DEF GapNamesForeignMessage
  <2>1. CASE g \in reported[q]
    BY <2>1 DEF CausalInv, GapNamesForeignMessage
  <2>2. CASE q = p /\ g \in NewGaps(p, m)
    <3>1. g \in ParsedEntries(m) /\ g \notin seen[p]
      BY <2>2 DEF NewGaps
    <3>2. g \in Frontier /\ g.id.author = g.sender /\ g \in seen[m.sender]
      BY <3>1, <1>2
    <3>3. g.id \in own[g.sender]
      BY <3>2 DEF CausalInv, SeenIsAuthored
    <3>4. g = [sender |-> g.sender, id |-> g.id]
      BY <3>2 DEF Frontier
    <3> QED BY <2>2, <3>1, <3>2, <3>3, <3>4 DEF CausalInv, OwnIsSeen
  <2> QED BY <2>1, <2>2, <1>3 DEF TypeOK
<1>13. ClockCondition'
  BY DEF CausalInv, ClockCondition, Entries
<1> QED BY <1>7, <1>8, <1>9, <1>10, <1>11, <1>12, <1>13 DEF CausalInv

----------------------------------------------------------------------------
\* CausalInv is inductive, given the types: sends and receipts by the two
\* lemmas above, the drains because they touch nothing it mentions.
LEMMA CausalStep == TypeOK /\ CausalInv /\ [Next]_vars => CausalInv'
<1> SUFFICES ASSUME TypeOK, CausalInv, [Next]_vars PROVE CausalInv'
  OBVIOUS
<1>1. ASSUME NEW p \in Signers, NEW c \in Contents, SendMessage(p, c)
      PROVE  CausalInv'
  BY <1>1, OnSendCausal DEF SendMessage, CanSend
<1>2. ASSUME NEW p \in Signers, NEW c \in Contents, SendMessageFails(p, c)
      PROVE  CausalInv'
  BY <1>2, OnSendCausal DEF SendMessageFails, CanSend
<1>3. ASSUME UNCHANGED <<clock, seen, frontiers, reported, own, ackedBy, network>>
      PROVE  CausalInv'
  BY <1>3 DEF CausalInv, OwnIsSeen, SeenIsAuthored, FrontierIsSeen, EnvelopeIsGrounded,
              AckImpliesHeld, GapNamesForeignMessage, ClockCondition, Entries
<1>4. ASSUME NEW p \in Signers, NEW m \in network, Receive(p, m)
      PROVE  CausalInv'
  <2>1. CASE m.sender \in Signers
    BY <1>4, <2>1, OnReceiveCausal DEF Receive
  <2>2. CASE m.sender \notin Signers
    BY <1>3, <1>4, <2>2 DEF Receive, IgnoreMalformed, storeVars
  <2> QED BY <2>1, <2>2
<1>5. ASSUME NEW p \in Signers, TakeMissing(p) \/ TakeAcks(p)
      PROVE  CausalInv'
  BY <1>3, <1>5 DEF TakeMissing, TakeAcks
<1>6. CASE UNCHANGED vars
  BY <1>3, <1>6 DEF vars, storeVars
<1> QED BY <1>1, <1>2, <1>4, <1>5, <1>6 DEF Next

\* The stores start with nothing seen, sent or received.
LEMMA CausalInit == Init => CausalInv
<1> SUFFICES ASSUME Init PROVE CausalInv
  OBVIOUS
<1>1. \A p \in Signers : /\ own[p] = {} /\ seen[p] = {} /\ ackedBy[p] = {} /\ reported[p] = {}
                         /\ frontiers[p] = <<>>
  BY DEF Init
<1>2. \A p \in Signers : Len(frontiers[p]) = 0
  BY <1>1
<1>3. network = {}
  BY DEF Init
<1>4. OwnIsSeen /\ SeenIsAuthored /\ AckImpliesHeld /\ GapNamesForeignMessage
  BY <1>1 DEF OwnIsSeen, SeenIsAuthored, AckImpliesHeld, GapNamesForeignMessage
<1>5. FrontierIsSeen
  BY <1>2 DEF FrontierIsSeen
<1>6. EnvelopeIsGrounded /\ ClockCondition
  BY <1>3 DEF EnvelopeIsGrounded, ClockCondition
<1> QED BY <1>4, <1>5, <1>6 DEF CausalInv

\* The inductive invariant holds in every reachable state of every instance.
THEOREM CausalCorrect == Spec => []CausalInv
<1>1. Init => TypeOK /\ CausalInv
  BY TypeInit, CausalInit
<1>2. TypeOK /\ CausalInv /\ [Next]_vars => TypeOK' /\ CausalInv'
  BY TypeStep, CausalStep
<1> QED BY <1>1, <1>2, PTL DEF Spec

\* Delivery acknowledgements are sound for any number of signers and any
\* loss, reordering or duplication of envelopes.
THEOREM AcksSound == Spec => []AckImpliesHeld
<1>1. CausalInv => AckImpliesHeld
  BY DEF CausalInv
<1> QED BY <1>1, CausalCorrect, PTL

\* A store never reports a message of its own, nor one nobody authored, as
\* missing.
THEOREM GapsReal == Spec => []GapNamesForeignMessage
<1>1. CausalInv => GapNamesForeignMessage
  BY DEF CausalInv
<1> QED BY <1>1, CausalCorrect, PTL

\* Lamport timestamps grow along the causal history of every envelope.
THEOREM ClocksGrow == Spec => []ClockCondition
<1>1. CausalInv => ClockCondition
  BY DEF CausalInv
<1> QED BY <1>1, CausalCorrect, PTL

----------------------------------------------------------------------------
\* Publishing keeps (sender, lamport) unique: the new timestamp is above the
\* author's clock, and all of the author's envelopes are at or below it.
LEMMA UniqueStep ==
  TypeOK /\ CausalInv /\ SenderLamportUnique /\ [Next]_vars => SenderLamportUnique'
<1> SUFFICES ASSUME TypeOK, CausalInv, SenderLamportUnique, [Next]_vars
             PROVE  SenderLamportUnique'
  OBVIOUS
<1>1. CASE network' = network
  BY <1>1 DEF SenderLamportUnique
<1>2. ASSUME NEW s \in Signers, NEW c \in Contents, SendMessage(s, c)
      PROVE  SenderLamportUnique'
  <2> DEFINE env == Envelope(s, c)
  <2>1. env.id.author = s /\ env.lamport = clock[s] + 1
    BY DEF Envelope, DeriveMessageId
  <2>2. ASSUME NEW m \in network, m.id.author = s
        PROVE  m.lamport # clock[s] + 1
    <3>1. m.id \in own[s] /\ m.lamport = m.id.lamport
      BY <2>2 DEF CausalInv, EnvelopeIsGrounded
    <3>2. m.id.lamport <= clock[s]
      BY <3>1 DEF CausalInv, OwnIsSeen
    <3>3. m.lamport \in Int /\ clock[s] \in Nat
      <4>1. m \in ReliablePayload /\ clock[s] \in 0 .. MaxLamport
        BY DEF TypeOK
      <4>2. m.lamport \in 1 .. MaxLamport
        BY <4>1 DEF ReliablePayload
      <4> QED BY <4>1, <4>2, ConstantsAssumption
    <3> QED BY <3>1, <3>2, <3>3
  <2>3. network' = network \cup {env}
    BY <1>2 DEF SendMessage
  <2> HIDE DEF env
  <2> QED BY <2>1, <2>2, <2>3 DEF SenderLamportUnique
<1>3. network' = network \/ \E s \in Signers, c \in Contents : SendMessage(s, c)
  BY DEF Next, SendMessageFails, Receive, TakeMissing, TakeAcks, vars
<1> QED BY <1>1, <1>2, <1>3

\* "(sender, lamport) is unique per message", as derive_message_id relies on,
\* for as long as the stores live.
THEOREM LamportUnique == Spec => []SenderLamportUnique
<1>1. Init => TypeOK /\ CausalInv /\ SenderLamportUnique
  <2>1. Init => SenderLamportUnique
    BY DEF Init, SenderLamportUnique
  <2> QED BY <2>1, TypeInit, CausalInit
<1>2. TypeOK /\ CausalInv /\ SenderLamportUnique /\ [Next]_vars
        => TypeOK' /\ CausalInv' /\ SenderLamportUnique'
  BY TypeStep, CausalStep, UniqueStep
<1> QED BY <1>1, <1>2, PTL DEF Spec

----------------------------------------------------------------------------
\* Seen-sets and reported gaps only grow, and a receipt files every entry of
\* its envelope under one of the two.
LEMMA NoSilentGapStep == TypeOK /\ NoSilentGap /\ [Next]_vars => NoSilentGap'
<1> SUFFICES ASSUME TypeOK, NoSilentGap, [Next]_vars PROVE NoSilentGap'
  OBVIOUS
<1>1. ASSUME delivered' = delivered,
             \A p \in Signers : seen[p] \subseteq seen'[p] /\ reported[p] \subseteq reported'[p]
      PROVE  NoSilentGap'
  BY <1>1 DEF NoSilentGap, ParsedEntries, Entries
<1>2. ASSUME NEW s \in Signers, NEW c \in Contents,
             SendMessage(s, c) \/ SendMessageFails(s, c)
      PROVE  NoSilentGap'
  <2>1. /\ clock[s] < MaxLamport /\ delivered' = delivered /\ reported' = reported
        /\ RecordSeen(s, [sender |-> s, id |-> DeriveMessageId(s, clock[s] + 1, c)])
    BY <1>2 DEF SendMessage, SendMessageFails, CanSend, OnSend, historyVars
  <2>2. \A p \in Signers : seen[p] \subseteq seen'[p]
    BY <2>1, SendFacts, RecordSeenFacts
  <2> QED BY <1>1, <2>1, <2>2
<1>3. ASSUME NEW p \in Signers, NEW m \in network, Receive(p, m)
      PROVE  NoSilentGap'
  <2>1. delivered' = [delivered EXCEPT ![p] = @ \cup {m}]
    BY <1>3 DEF Receive
  <2>2. CASE m.sender \in Signers
    <3>1. /\ RecordSeen(p, [sender |-> m.sender, id |-> m.id])
          /\ reported' = [reported EXCEPT ![p] = @ \cup NewGaps(p, m)]
      BY <1>3, <2>2 DEF Receive, OnReceive
    <3>2. \A q \in Signers : seen[q] \subseteq seen'[q] /\ reported[q] \subseteq reported'[q]
      <4>1. [sender |-> m.sender, id |-> m.id] \in Frontier
        BY <2>2, ReceiveFacts
      <4>2. \A q \in Signers : seen[q] \subseteq seen'[q]
        BY <3>1, <4>1, RecordSeenFacts
      <4>3. \A q \in Signers : reported[q] \subseteq reported'[q]
        BY <3>1 DEF TypeOK
      <4> QED BY <4>2, <4>3
    <3>3. ParsedEntries(m) \subseteq seen[p] \cup reported'[p]
      BY <3>1 DEF NewGaps, TypeOK
    <3>4. ASSUME NEW q \in Signers, NEW n \in delivered'[q], n.sender \in Signers
          PROVE  ParsedEntries(n) \subseteq seen'[q] \cup reported'[q]
      <4>1. CASE n \in delivered[q]
        BY <3>2, <3>4, <4>1 DEF NoSilentGap
      <4>2. CASE q = p /\ n = m
        BY <3>2, <3>3, <4>2
      <4> QED BY <2>1, <4>1, <4>2 DEF TypeOK
    <3> QED BY <3>4 DEF NoSilentGap, ParsedEntries, Entries
  <2>3. CASE m.sender \notin Signers
    <3>1. seen' = seen /\ reported' = reported
      BY <1>3, <2>3 DEF Receive, IgnoreMalformed, storeVars
    <3>2. ASSUME NEW q \in Signers, NEW n \in delivered'[q], n.sender \in Signers
          PROVE  ParsedEntries(n) \subseteq seen'[q] \cup reported'[q]
      <4>1. n \in delivered[q]
        BY <2>1, <2>3, <3>2 DEF TypeOK
      <4> QED BY <3>1, <3>2, <4>1 DEF NoSilentGap
    <3> QED BY <3>2 DEF NoSilentGap, ParsedEntries, Entries
  <2> QED BY <2>2, <2>3
<1>4. ASSUME NEW p \in Signers, TakeMissing(p) \/ TakeAcks(p)
      PROVE  NoSilentGap'
  BY <1>1, <1>4 DEF TakeMissing, TakeAcks
<1>5. CASE UNCHANGED vars
  BY <1>1, <1>5 DEF vars, storeVars, historyVars
<1> QED BY <1>2, <1>3, <1>4, <1>5 DEF Next

\* No entry of a received envelope is ever dropped on the floor: it is seen,
\* or it is reported missing.
THEOREM NoGapLost == Spec => []NoSilentGap
<1>1. Init => TypeOK /\ NoSilentGap
  BY TypeInit DEF Init, NoSilentGap
<1>2. TypeOK /\ NoSilentGap /\ [Next]_vars => TypeOK' /\ NoSilentGap'
  BY TypeStep, NoSilentGapStep
<1> QED BY <1>1, <1>2, PTL DEF Spec

----------------------------------------------------------------------------
\* Queued and handed-out gaps, and acknowledgements, stay one of each.
LEMMA SurfacedStep ==
  TypeOK /\ GapSurfacedOnce /\ AckSurfacedOnce /\ [Next]_vars
    => GapSurfacedOnce' /\ AckSurfacedOnce'
<1> SUFFICES ASSUME TypeOK, GapSurfacedOnce, AckSurfacedOnce, [Next]_vars
             PROVE  GapSurfacedOnce' /\ AckSurfacedOnce'
  OBVIOUS
<1>1. ASSUME UNCHANGED <<missing, surfaced, reported>>
      PROVE  GapSurfacedOnce'
  BY <1>1 DEF GapSurfacedOnce
<1>2. ASSUME UNCHANGED <<acks, notified, ackedBy>>
      PROVE  AckSurfacedOnce'
  BY <1>2 DEF AckSurfacedOnce
<1>3. ASSUME NEW s \in Signers, NEW c \in Contents,
             SendMessage(s, c) \/ SendMessageFails(s, c)
      PROVE  GapSurfacedOnce' /\ AckSurfacedOnce'
  BY <1>1, <1>2, <1>3 DEF SendMessage, SendMessageFails, OnSend, historyVars
<1>4. ASSUME NEW p \in Signers, NEW m \in network, Receive(p, m)
      PROVE  GapSurfacedOnce' /\ AckSurfacedOnce'
  <2>1. surfaced' = surfaced /\ notified' = notified
    BY <1>4 DEF Receive
  <2>2. CASE m.sender \in Signers
    <3>1. OnReceive(p, m)
      BY <1>4, <2>2 DEF Receive
    <3>2. /\ missing'[p] = missing[p] (+) SetToBag(NewGaps(p, m))
          /\ reported'[p] = reported[p] \cup NewGaps(p, m)
          /\ acks'[p] = acks[p] (+) SetToBag(NewAcks(p, m))
          /\ ackedBy'[p] = ackedBy[p] \cup NewAcks(p, m)
          /\ \A q \in Signers \ {p} : /\ missing'[q] = missing[q] /\ reported'[q] = reported[q]
                                       /\ acks'[q] = acks[q] /\ ackedBy'[q] = ackedBy[q]
      BY <3>1 DEF OnReceive, TypeOK
    <3>3. missing'[p] (+) surfaced[p] = SetToBag(reported'[p])
      <4>1. /\ IsABag(missing[p]) /\ IsABag(surfaced[p])
            /\ missing[p] (+) surfaced[p] = SetToBag(reported[p])
        BY DEF TypeOK, GapSurfacedOnce
      <4>2. \A e \in NewGaps(p, m) : e \notin reported[p]
        BY DEF NewGaps
      <4> DEFINE M == missing[p]
                 S == surfaced[p]
                 R == reported[p]
                 G == NewGaps(p, m)
      <4>3. IsABag(M) /\ IsABag(S) /\ M (+) S = SetToBag(R) /\ \A e \in G : e \notin R
        BY <4>1, <4>2
      <4> HIDE DEF M, S, R, G
      <4>4. (M (+) SetToBag(G)) (+) S = SetToBag(R \cup G)
        BY <4>3, BagAddFresh
      <4> QED BY <3>2, <4>4, Zenon DEF M, S, R, G
    <3>4. acks'[p] (+) notified[p] = SetToBag(ackedBy'[p])
      <4>1. /\ IsABag(acks[p]) /\ IsABag(notified[p])
            /\ acks[p] (+) notified[p] = SetToBag(ackedBy[p])
        BY DEF TypeOK, AckSurfacedOnce
      <4>2. \A e \in NewAcks(p, m) : e \notin ackedBy[p]
        BY DEF NewAcks
      <4> DEFINE M == acks[p]
                 S == notified[p]
                 R == ackedBy[p]
                 G == NewAcks(p, m)
      <4>3. IsABag(M) /\ IsABag(S) /\ M (+) S = SetToBag(R) /\ \A e \in G : e \notin R
        BY <4>1, <4>2
      <4> HIDE DEF M, S, R, G
      <4>4. (M (+) SetToBag(G)) (+) S = SetToBag(R \cup G)
        BY <4>3, BagAddFresh
      <4> QED BY <3>2, <4>4, Zenon DEF M, S, R, G
    <3>5. GapSurfacedOnce'
      BY <2>1, <3>2, <3>3 DEF GapSurfacedOnce
    <3>6. AckSurfacedOnce'
      BY <2>1, <3>2, <3>4 DEF AckSurfacedOnce
    <3> QED BY <3>5, <3>6
  <2>3. CASE m.sender \notin Signers
    BY <1>1, <1>2, <1>4, <2>1, <2>3 DEF Receive, IgnoreMalformed, storeVars
  <2> QED BY <2>2, <2>3
<1>5. ASSUME NEW p \in Signers, TakeMissing(p)
      PROVE  GapSurfacedOnce' /\ AckSurfacedOnce'
  <2>1. /\ missing'[p] = EmptyBag /\ surfaced'[p] = surfaced[p] (+) missing[p]
        /\ \A q \in Signers \ {p} : missing'[q] = missing[q] /\ surfaced'[q] = surfaced[q]
        /\ UNCHANGED <<reported, acks, notified, ackedBy>>
    BY <1>5 DEF TakeMissing, TypeOK
  <2>2. missing'[p] (+) surfaced'[p] = missing[p] (+) surfaced[p]
    BY <2>1, BagDrain DEF TypeOK
  <2>3. GapSurfacedOnce'
    BY <2>1, <2>2 DEF GapSurfacedOnce
  <2> QED BY <1>2, <2>1, <2>3
<1>6. ASSUME NEW p \in Signers, TakeAcks(p)
      PROVE  GapSurfacedOnce' /\ AckSurfacedOnce'
  <2>1. /\ acks'[p] = EmptyBag /\ notified'[p] = notified[p] (+) acks[p]
        /\ \A q \in Signers \ {p} : acks'[q] = acks[q] /\ notified'[q] = notified[q]
        /\ UNCHANGED <<reported, missing, surfaced, ackedBy>>
    BY <1>6 DEF TakeAcks, TypeOK
  <2>2. acks'[p] (+) notified'[p] = acks[p] (+) notified[p]
    BY <2>1, BagDrain DEF TypeOK
  <2>3. AckSurfacedOnce'
    BY <2>1, <2>2 DEF AckSurfacedOnce
  <2> QED BY <1>1, <2>1, <2>3
<1>7. CASE UNCHANGED vars
  BY <1>1, <1>2, <1>7 DEF vars, storeVars, historyVars
<1> QED BY <1>3, <1>4, <1>5, <1>6, <1>7 DEF Next

\* "a gap is surfaced exactly once", and so is each acknowledgement, however
\* receipts and drains interleave.
THEOREM SurfacedOnce == Spec => []GapSurfacedOnce /\ []AckSurfacedOnce
<1>1. Init => TypeOK /\ GapSurfacedOnce /\ AckSurfacedOnce
  <2>1. EmptyBag (+) EmptyBag = SetToBag({})
    BY DEF EmptyBag, SetToBag, (+)
  <2> QED BY <2>1, TypeInit DEF Init, GapSurfacedOnce, AckSurfacedOnce
<1>2. TypeOK /\ GapSurfacedOnce /\ AckSurfacedOnce /\ [Next]_vars
        => TypeOK' /\ GapSurfacedOnce' /\ AckSurfacedOnce'
  BY TypeStep, SurfacedStep
<1> QED BY <1>1, <1>2, PTL DEF Spec
=============================================================================
