--------------------------- MODULE CausalHistory ---------------------------
(***************************************************************************)
(* The causal-history store of one conversation                            *)
(* (core/conversations/src/causal_history.rs) and its signers: each keeps  *)
(* a Lamport clock, the set of messages it has seen, the bounded frontier  *)
(* it attaches to what it sends, and the gaps and acknowledgements that    *)
(* what it receives implies.  Envelopes travel over a network that may     *)
(* lose, delay, reorder and repeat them.                                   *)
(***************************************************************************)
EXTENDS Integers, Sequences, FiniteSets, Bags

CONSTANTS
  Signers,           \* installations, each with its own store
  NoSigner,          \* a sender id that does not parse as a signer key
  Contents,          \* application payloads
  CausalHistoryLen,  \* CAUSAL_HISTORY_LEN, the size of a frontier
  Dialect,           \* how each signer's client writes sender ids
  MaxLamport,        \* bound: highest Lamport timestamp
  MaxMessages        \* bound: messages sent or attempted, over all signers

Dialects == {"ok", "badSender", "badEntries"}

ASSUME ConstantsAssumption ==
  /\ NoSigner \notin Signers
  /\ CausalHistoryLen \in Nat \ {0}
  /\ MaxLamport \in Nat
  /\ MaxMessages \in Nat
  /\ Dialect \in [Signers -> Dialects]

\* Blake2b over channel, sender, lamport and content, taken as injective.
MessageId == [author : Signers, lamport : 1 .. MaxLamport, content : Contents]

DeriveMessageId(sender, lamport, content) ==
  [author |-> sender, lamport |-> lamport, content |-> content]

\* A Frontier, and the HistoryEntry it is written as in an envelope.
Frontier == [sender : Signers, id : MessageId]
HistoryEntry == [sender : Signers \cup {NoSigner}, id : MessageId]

ReliablePayload ==
  [id : MessageId, sender : Signers \cup {NoSigner},
   lamport : 1 .. MaxLamport, history : Seq(HistoryEntry)]

DeliveryAck == [id : MessageId, by : Signers]

VARIABLES
  clock,      \* lamport_clock of each signer
  seen,       \* seen: frontiers delivered locally, own sends included
  frontiers,  \* frontiers: the most recent of them, oldest first
  reported,   \* reported_missing
  own,        \* own: ids of messages authored here
  ackedBy,    \* acked_by, as a set of (id, peer) pairs
  missing,    \* Inner.missing, a Vec taken as a bag: gaps not yet drained
  acks,       \* Inner.acks, likewise
  network,    \* envelopes published to the conversation
  surfaced,   \* history: gaps handed out by take_missing
  notified,   \* history: acknowledgements handed out by take_acks
  delivered   \* history: envelopes each signer's on_receive was given

storeVars == <<clock, seen, frontiers, reported, own, ackedBy, missing, acks>>
historyVars == <<surfaced, notified, delivered>>
vars == <<storeVars, network, historyVars>>

TypeOK ==
  /\ clock \in [Signers -> 0 .. MaxLamport]
  /\ seen \in [Signers -> SUBSET Frontier]
  /\ frontiers \in [Signers -> Seq(Frontier)]
  /\ \A p \in Signers : Len(frontiers[p]) <= CausalHistoryLen
  /\ reported \in [Signers -> SUBSET Frontier]
  /\ own \in [Signers -> SUBSET MessageId]
  /\ ackedBy \in [Signers -> SUBSET DeliveryAck]
  /\ network \subseteq ReliablePayload
  /\ delivered \in [Signers -> SUBSET network]
  /\ DOMAIN missing = Signers /\ DOMAIN surfaced = Signers
  /\ DOMAIN acks = Signers /\ DOMAIN notified = Signers
  /\ \A p \in Signers :
       /\ IsABag(missing[p]) /\ BagToSet(missing[p]) \subseteq Frontier
       /\ IsABag(surfaced[p]) /\ BagToSet(surfaced[p]) \subseteq Frontier
       /\ IsABag(acks[p]) /\ BagToSet(acks[p]) \subseteq DeliveryAck
       /\ IsABag(notified[p]) /\ BagToSet(notified[p]) \subseteq DeliveryAck

Init ==
  /\ clock = [p \in Signers |-> 0]
  /\ seen = [p \in Signers |-> {}]
  /\ frontiers = [p \in Signers |-> <<>>]
  /\ reported = [p \in Signers |-> {}]
  /\ own = [p \in Signers |-> {}]
  /\ ackedBy = [p \in Signers |-> {}]
  /\ missing = [p \in Signers |-> EmptyBag]
  /\ acks = [p \in Signers |-> EmptyBag]
  /\ network = {}
  /\ surfaced = [p \in Signers |-> EmptyBag]
  /\ notified = [p \in Signers |-> EmptyBag]
  /\ delivered = [p \in Signers |-> {}]

----------------------------------------------------------------------------
\* push_back, then pop_front while longer than CAUSAL_HISTORY_LEN.
PushBounded(queue, f) ==
  LET longer == Append(queue, f)
      excess == Len(longer) - CausalHistoryLen
  IN  SubSeq(longer, IF excess > 0 THEN excess + 1 ELSE 1, Len(longer))

\* ConvoState::record_seen of p's store.
RecordSeen(p, f) ==
  /\ seen' = [seen EXCEPT ![p] = @ \cup {f}]
  /\ frontiers' = IF f \in seen[p] THEN frontiers
                  ELSE [frontiers EXCEPT ![p] = PushBounded(@, f)]

\* How s's client writes its own sender id, and those of its history.
FormatSender(s) == IF Dialect[s] = "badSender" THEN NoSigner ELSE s
FormatEntry(s, f) ==
  [sender |-> IF Dialect[s] = "badEntries" THEN NoSigner ELSE f.sender,
   id |-> f.id]

\* The envelope on_send returns; its history is the frontier before the send.
Envelope(s, content) ==
  [id |-> DeriveMessageId(s, clock[s] + 1, content),
   sender |-> FormatSender(s),
   lamport |-> clock[s] + 1,
   history |-> [i \in 1 .. Len(frontiers[s]) |-> FormatEntry(s, frontiers[s][i])]]

\* CausalHistoryStore::on_send.
OnSend(s, content) ==
  LET id == DeriveMessageId(s, clock[s] + 1, content)
  IN  /\ clock' = [clock EXCEPT ![s] = @ + 1]
      /\ own' = [own EXCEPT ![s] = @ \cup {id}]
      /\ RecordSeen(s, [sender |-> s, id |-> id])
      /\ UNCHANGED <<reported, ackedBy, missing, acks>>

Sent == UNION {own[p] : p \in Signers}

CanSend(s) == clock[s] < MaxLamport /\ Cardinality(Sent) < MaxMessages

\* GroupV1Convo::send_message when the publish succeeds.
SendMessage(s, content) ==
  /\ CanSend(s)
  /\ OnSend(s, content)
  /\ network' = network \cup {Envelope(s, content)}
  /\ UNCHANGED historyVars

\* send_message when encryption or the publish fails: on_send already ran.
SendMessageFails(s, content) ==
  /\ CanSend(s)
  /\ OnSend(s, content)
  /\ UNCHANGED <<network, historyVars>>

----------------------------------------------------------------------------
Entries(m) == {m.history[i] : i \in 1 .. Len(m.history)}

\* The entries on_receive looks at: those whose sender id parses.
ParsedEntries(m) == {e \in Entries(m) : e.sender \in Signers}

\* Mutant: any entry counts as an acknowledgement, ours or not.
NewAcksUnowned(p, m) ==
  {[id |-> e.id, by |-> m.sender] : e \in {f \in ParsedEntries(m) : f.sender # m.sender}}
  \ ackedBy[p]

\* Mutant: entries of the envelope's own sender are skipped.
NewGapsOfOthers(p, m) ==
  ({e \in ParsedEntries(m) : e.sender # m.sender} \ seen[p]) \ reported[p]

\* Mutant: reported_missing is not consulted before a gap is queued.
NewGapsRepeated(p, m) == ParsedEntries(m) \ seen[p]

\* The acknowledgements and gaps p learns of from m.
NewAcks(p, m) ==
  {[id |-> e.id, by |-> m.sender] :
     e \in {f \in ParsedEntries(m) : f.id \in own[p] /\ f.sender # m.sender}}
  \ ackedBy[p]

NewGaps(p, m) == (ParsedEntries(m) \ seen[p]) \ reported[p]

\* Mutant: the received timestamp is not merged into the clock.
OnReceiveNoMerge(p, m) ==
  /\ ackedBy' = [ackedBy EXCEPT ![p] = @ \cup NewAcks(p, m)]
  /\ acks' = [acks EXCEPT ![p] = @ (+) SetToBag(NewAcks(p, m))]
  /\ reported' = [reported EXCEPT ![p] = @ \cup NewGaps(p, m)]
  /\ missing' = [missing EXCEPT ![p] = @ (+) SetToBag(NewGaps(p, m))]
  /\ RecordSeen(p, [sender |-> m.sender, id |-> m.id])
  /\ UNCHANGED <<clock, own>>

\* CausalHistoryStore::on_receive when the payload's sender id parses.
OnReceive(p, m) ==
  /\ clock' = [clock EXCEPT ![p] = IF m.lamport > @ THEN m.lamport ELSE @]
  /\ ackedBy' = [ackedBy EXCEPT ![p] = @ \cup NewAcks(p, m)]
  /\ acks' = [acks EXCEPT ![p] = @ (+) SetToBag(NewAcks(p, m))]
  /\ reported' = [reported EXCEPT ![p] = @ \cup NewGaps(p, m)]
  /\ missing' = [missing EXCEPT ![p] = @ (+) SetToBag(NewGaps(p, m))]
  /\ RecordSeen(p, [sender |-> m.sender, id |-> m.id])
  /\ UNCHANGED own

\* The early return for a sender id that does not parse.
IgnoreMalformed == UNCHANGED storeVars

\* p decrypts an envelope some other signer published; it stays available.
Receive(p, m) ==
  /\ m.id.author # p
  /\ IF m.sender \in Signers THEN OnReceive(p, m) ELSE IgnoreMalformed
  /\ delivered' = [delivered EXCEPT ![p] = @ \cup {m}]
  /\ UNCHANGED <<network, surfaced, notified>>

TakeMissing(p) ==
  /\ missing[p] # EmptyBag
  /\ surfaced' = [surfaced EXCEPT ![p] = @ (+) missing[p]]
  /\ missing' = [missing EXCEPT ![p] = EmptyBag]
  /\ UNCHANGED <<clock, seen, frontiers, reported, own, ackedBy, acks>>
  /\ UNCHANGED <<network, notified, delivered>>

TakeAcks(p) ==
  /\ acks[p] # EmptyBag
  /\ notified' = [notified EXCEPT ![p] = @ (+) acks[p]]
  /\ acks' = [acks EXCEPT ![p] = EmptyBag]
  /\ UNCHANGED <<clock, seen, frontiers, reported, own, ackedBy, missing>>
  /\ UNCHANGED <<network, surfaced, delivered>>

Next ==
  \E p \in Signers :
    \/ \E c \in Contents : SendMessage(p, c)
    \/ \E c \in Contents : SendMessageFails(p, c)
    \/ \E m \in network : Receive(p, m)
    \/ TakeMissing(p)
    \/ TakeAcks(p)

Spec == Init /\ [][Next]_vars

----------------------------------------------------------------------------
\* What makes the safety properties below inductive.
OwnIsSeen ==
  \A p \in Signers : \A id \in own[p] :
    id.author = p /\ id.lamport <= clock[p] /\ [sender |-> p, id |-> id] \in seen[p]

SeenIsAuthored ==
  \A p \in Signers : \A f \in seen[p] :
    f.id.author = f.sender /\ f.id \in own[f.sender] /\ f.id.lamport <= clock[p]

FrontierIsSeen ==
  \A p \in Signers : \A i \in 1 .. Len(frontiers[p]) : frontiers[p][i] \in seen[p]

EnvelopeIsGrounded ==
  \A m \in network :
    /\ m.id \in own[m.id.author] /\ m.lamport = m.id.lamport
    /\ m.sender \in {m.id.author, NoSigner}
    /\ \A i \in 1 .. Len(m.history) :
         LET e == m.history[i]
         IN  /\ e.sender \in {e.id.author, NoSigner}
             /\ [sender |-> e.id.author, id |-> e.id] \in seen[m.id.author]

\* An acknowledgement is sound: a peer recorded in acked_by for one of our
\* messages has that message in its own seen-set ("it named that message ...
\* so it held ours at the time", DeliveryAck).
AckImpliesHeld ==
  \A p \in Signers : \A a \in ackedBy[p] :
    /\ a.id \in own[p] /\ a.by # p
    /\ [sender |-> p, id |-> a.id] \in seen[a.by]

\* A reported gap names a message its sender really authored, and never one
\* of the reporter's own.
GapNamesForeignMessage ==
  \A p \in Signers : \A f \in reported[p] :
    f.sender # p /\ f.id.author = f.sender /\ f.id \in own[f.sender]

\* The Lamport clock condition: whatever an envelope names as its causal past
\* carries a smaller timestamp, so causal pasts have no cycles.
ClockCondition ==
  \A m \in network : \A e \in Entries(m) : e.id.lamport < m.lamport

\* No gap is lost: each entry of each envelope on_receive was given is by now
\* either seen or reported, whatever the order of arrival.
NoSilentGap ==
  \A p \in Signers : \A m \in delivered[p] :
    m.sender \in Signers => ParsedEntries(m) \subseteq seen[p] \cup reported[p]

\* "a gap is surfaced exactly once": gaps still queued and gaps take_missing
\* handed out are together one of each in reported_missing.
GapSurfacedOnce ==
  \A p \in Signers : missing[p] (+) surfaced[p] = SetToBag(reported[p])

\* Each acknowledgement is surfaced exactly once per peer and message: acks
\* still queued and acks handed out are together one of each in acked_by.
AckSurfacedOnce ==
  \A p \in Signers : acks[p] (+) notified[p] = SetToBag(ackedBy[p])

\* The inductive invariant: every id anyone holds was authored by the sender
\* it is filed under, no later than that sender's and the holder's clocks say.
CausalInv ==
  /\ OwnIsSeen /\ SeenIsAuthored /\ FrontierIsSeen /\ EnvelopeIsGrounded
  /\ AckImpliesHeld /\ GapNamesForeignMessage /\ ClockCondition

\* "(sender, lamport) is unique per message", over all envelopes published.
SenderLamportUnique ==
  \A m, n \in network :
    m.id.author = n.id.author /\ m.lamport = n.lamport => m = n
=============================================================================
