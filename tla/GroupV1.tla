------------------------------ MODULE GroupV1 ------------------------------
(***************************************************************************)
(* One GroupV1 or DirectV1 conversation across its members' cores          *)
(* (conversation/group_v1.rs, direct_v1.rs, inbox_v2.rs and the registry   *)
(* of conversations in core.rs).  A member's MLS group is known by the     *)
(* commits it has merged; a frame opens only in a group with the same      *)
(* past as the one that sealed it.  The MLS state lives in memory, the     *)
(* conversation record in a store that outlives the process.               *)
(***************************************************************************)
EXTENDS Integers, Sequences, FiniteSets

CONSTANTS
  Signers,      \* installations
  Creator,      \* the one that creates the conversation
  Ordered,      \* TRUE: every member gets every frame once, in wire order
  MaxCommits,   \* bound: commits, the creation included
  MaxContents,  \* bound: messages sent
  MaxRestarts,  \* bound: restarts of all members together
  MaxFailures   \* bound: calls in which the delivery service fails

VARIABLES
  past,      \* the merged commits of each member's MLS group, <<>> without one
  convo,     \* the entry of cached_convos: "none", "group" or "direct"
  record,    \* who has a ConversationMeta in the store
  session,   \* the process of each member, counted from 1
  package,   \* the process whose key package the registry offers
  lamport,   \* the clock of the member's causal history
  used,      \* frames whose secret the member's group has consumed
  shown,     \* contents surfaced to each member's application
  wire,      \* every frame published, in order
  cursor,    \* frames each member has been handed, when Ordered
  decided,   \* every commit made, in order
  restarts, failures

vars == <<past, convo, record, session, package, lamport, used, shown, wire,
          cursor, decided, restarts, failures>>
local == <<past, convo, record, session, package, lamport, used, shown>>

ASSUME GroupAssumption ==
  /\ Creator \in Signers /\ Ordered \in BOOLEAN
  /\ MaxCommits \in Nat /\ MaxContents \in Nat /\ MaxRestarts \in Nat /\ MaxFailures \in Nat

Commit == [by : Signers, add : SUBSET Signers, rem : SUBSET Signers]
Past == Seq(Commit)
Welcomes == [kind : {"welcome"}, to : SUBSET Signers, past : Past \ {<<>>}, keys : [Signers -> Nat]]
Commits == [kind : {"commit"}, by : Signers, past : Past, commit : Commit]
Contents == [kind : {"content"}, by : Signers, past : Past, lamport : Nat, at : Nat]
Frame == Welcomes \cup Commits \cup Contents

TypeOK ==
  /\ past \in [Signers -> Past]
  /\ convo \in [Signers -> {"none", "group", "direct"}]
  /\ record \subseteq Signers
  /\ session \in [Signers -> Nat] /\ package \in [Signers -> Nat]
  /\ lamport \in [Signers -> Nat]
  /\ used \in [Signers -> SUBSET Nat] /\ shown \in [Signers -> SUBSET Nat]
  /\ wire \in Seq(Frame) /\ cursor \in [Signers -> Nat]
  /\ decided \in Past
  /\ restarts \in Nat /\ failures \in Nat
  /\ \A p \in Signers : convo[p] # "none" => past[p] # <<>>

\* Every member has registered its key package (Core::new_with_name).
Init ==
  /\ past = [p \in Signers |-> <<>>] /\ convo = [p \in Signers |-> "none"]
  /\ record = {}
  /\ session = [p \in Signers |-> 1] /\ package = [p \in Signers |-> 1]
  /\ lamport = [p \in Signers |-> 0]
  /\ used = [p \in Signers |-> {}] /\ shown = [p \in Signers |-> {}]
  /\ wire = <<>> /\ cursor = [p \in Signers |-> 0]
  /\ decided = <<>>
  /\ restarts = 0 /\ failures = 0

----------------------------------------------------------------------------
\* mls_group.members(): a seat is held from the commit that adds it to the
\* one that removes it.
Roster(h) ==
  {p \in Signers : \E i \in 1 .. Len(h) :
     p \in h[i].add /\ \A j \in i + 1 .. Len(h) : p \notin h[j].rem}

IsActive(p) == p \in Roster(past[p])

\* Core::can_send and Core::can_receive
CanSend(p) == convo[p] # "none" /\ IsActive(p)
CanReceive(p) == convo[p] # "none" \/ p \in record

\* The group an operation runs on: the cached one, or one loaded from the
\* record and the MLS state of this process.
Reachable(p) == past[p] # <<>> /\ CanReceive(p)

Seal(p) == [kind |-> "content", by |-> p, past |-> past[p],
            lamport |-> lamport[p] + 1, at |-> Len(decided)]

\* Mutant: the welcome leads to the epoch before the commit.
InviteBefore(h, to) ==
  [kind |-> "welcome", to |-> to, past |-> SubSeq(h, 1, Len(h) - 1), keys |-> package]

Invite(h, to) == [kind |-> "welcome", to |-> to, past |-> h, keys |-> package]
CommitFrame(h, c) == [kind |-> "commit", by |-> c.by, past |-> h, commit |-> c]

\* DeliveryService::publish of several frames in turn; an error ends the call.
\* invites are the members whose welcome went out.
Outgoing(invites, commitOut, h, c) ==
  (IF invites = {} THEN <<>> ELSE <<Invite(Append(h, c), invites)>>)
    \o (IF commitOut THEN <<CommitFrame(h, c)>> ELSE <<>>)

Publish(all, invites, commitOut, h, c) ==
  /\ invites \subseteq all /\ (commitOut => invites = all)
  /\ ~commitOut => failures < MaxFailures
  /\ failures' = IF commitOut THEN failures ELSE failures + 1
  /\ wire' = wire \o Outgoing(invites, commitOut, h, c)

Born == [by |-> Creator, add |-> {Creator}, rem |-> {}]

\* create_direct_convo_v1 and create_group_convo_v1.  The group's record is
\* saved before add_signer, whose failure returns without caching the
\* conversation; a direct conversation saves no record.
Create(kind, members, invites, commitOut) ==
  LET c == [by |-> Creator, add |-> members \ {Creator}, rem |-> {}]
      founded == IF c.add = {} THEN <<Born>> ELSE <<Born, c>>
  IN  /\ decided = <<>> /\ Len(founded) <= MaxCommits
      /\ kind = "direct" => Creator \notin members
      /\ IF c.add = {} THEN commitOut /\ invites = {} /\ UNCHANGED <<wire, failures>>
                       ELSE Publish(c.add, invites, commitOut, <<Born>>, c)
      /\ past' = [past EXCEPT ![Creator] = founded]
      /\ decided' = founded
      /\ convo' = IF commitOut THEN [convo EXCEPT ![Creator] = kind] ELSE convo
      /\ record' = IF kind = "group" THEN record \cup {Creator} ELSE record
      /\ UNCHANGED <<session, package, lamport, used, shown, cursor, restarts>>

\* create_group_convo_v1 whose add_signer finds no valid key package.
CreateUnseated ==
  /\ decided = <<>> /\ failures < MaxFailures
  /\ past' = [past EXCEPT ![Creator] = <<Born>>]
  /\ decided' = <<Born>>
  /\ record' = record \cup {Creator}
  /\ failures' = failures + 1
  /\ UNCHANGED <<convo, session, package, lamport, used, shown, wire, cursor, restarts>>

\* Mutant: the commit is left pending when it is published.
PublishUnmerged(p, c, invites, commitOut) ==
  UNCHANGED past /\ Publish(c.add, invites, commitOut, past[p], c)

\* The common tail of add_signer and remove_signer: the commit is merged, then
\* the welcomes and the commit go out.
MergeThenPublish(p, c, invites, commitOut) ==
  /\ past' = [past EXCEPT ![p] = Append(@, c)]
  /\ Publish(c.add, invites, commitOut, past[p], c)

\* Only a conversation cached as a group takes members in or out.
MayCommit(p) == convo[p] = "group" /\ IsActive(p) /\ Len(decided) < MaxCommits

AddSigner(p, members, invites, commitOut) ==
  LET c == [by |-> p, add |-> members \ Roster(past[p]), rem |-> {}]
  IN  /\ MayCommit(p) /\ c.add # {}
      /\ MergeThenPublish(p, c, invites, commitOut)
      /\ decided' = Append(decided, c)
      /\ UNCHANGED <<convo, record, session, package, lamport, used, shown, cursor, restarts>>

RemoveSigner(p, members, commitOut) ==
  LET c == [by |-> p, add |-> {}, rem |-> members \cap Roster(past[p])]
  IN  /\ MayCommit(p) /\ p \notin c.rem /\ c.rem # {}
      /\ MergeThenPublish(p, c, {}, commitOut)
      /\ decided' = Append(decided, c)
      /\ UNCHANGED <<convo, record, session, package, lamport, used, shown, cursor, restarts>>

\* Core::send_content: the message enters the causal history first; a group
\* the member was removed from then refuses to seal it, and publishing may
\* fail.
SendContent(p, published) ==
  /\ Reachable(p) /\ lamport[p] < MaxContents
  /\ Cardinality({i \in 1 .. Len(wire) : wire[i].kind = "content"}) < MaxContents
  /\ lamport' = [lamport EXCEPT ![p] = @ + 1]
  /\ published => IsActive(p)
  /\ ~published => ~IsActive(p) \/ failures < MaxFailures
  /\ failures' = IF ~published /\ IsActive(p) THEN failures + 1 ELSE failures
  /\ wire' = IF published THEN Append(wire, Seal(p)) ELSE wire
  /\ UNCHANGED <<past, convo, record, session, package, used, shown, cursor, decided, restarts>>

----------------------------------------------------------------------------
\* Mutant: a joiner may add and remove members as the creator may.
JoinedAsGroup == "group"

\* dispatch_to_inbox2: the welcome opens with the key package of this process
\* and founds a group unless MLS already has one; the conversation is recorded
\* and cached, as a direct one whatever it is.  If the delivery service fails to
\* subscribe, MLS keeps the group and nothing else is left of the welcome.
JoinedAs == "direct"

HandleWelcome(q, f) ==
  IF q \in f.to /\ f.keys[q] = session[q] /\ past[q] = <<>>
  THEN /\ past' = [past EXCEPT ![q] = f.past]
       /\ \/ /\ convo' = [convo EXCEPT ![q] = JoinedAs]
             /\ record' = record \cup {q}
             /\ UNCHANGED failures
          \/ /\ failures < MaxFailures
             /\ failures' = failures + 1
             /\ UNCHANGED <<convo, record>>
       /\ UNCHANGED <<session, package, lamport, used, shown>>
  ELSE UNCHANGED <<local, failures>>

\* GroupV1Convo::handle_payload gets as far as processing the message: not for
\* an inactive group, one's own frame or a past epoch; a later epoch or another
\* past is an error.
Opens(q, f) == Reachable(q) /\ IsActive(q) /\ f.by # q /\ f.past = past[q]

HandleCommit(q, f) ==
  IF Opens(q, f)
  THEN /\ past' = [past EXCEPT ![q] = Append(@, f.commit)]
       /\ UNCHANGED <<convo, record, session, package, lamport, used, shown>>
  ELSE UNCHANGED local

\* valid: the sender passes auth.  The causal history hears of the message
\* either way.
HandleContent(q, i, f, valid) ==
  IF Opens(q, f) /\ i \notin used[q]
  THEN /\ used' = [used EXCEPT ![q] = @ \cup {i}]
       /\ lamport' = [lamport EXCEPT ![q] = IF f.lamport > @ THEN f.lamport ELSE @]
       /\ shown' = IF valid THEN [shown EXCEPT ![q] = @ \cup {i}] ELSE shown
       /\ UNCHANGED <<past, convo, record, session, package>>
  ELSE UNCHANGED local

\* Core::handle_payload on the frame at position i.
Deliver(q, i, valid) ==
  /\ Ordered => i = cursor[q] + 1
  /\ CASE wire[i].kind = "welcome" -> HandleWelcome(q, wire[i])
       [] wire[i].kind = "commit" -> HandleCommit(q, wire[i]) /\ UNCHANGED failures
       [] wire[i].kind = "content" -> HandleContent(q, i, wire[i], valid) /\ UNCHANGED failures
  /\ cursor' = IF Ordered THEN [cursor EXCEPT ![q] = i] ELSE cursor
  /\ UNCHANGED <<wire, decided, restarts>>

\* The process ends and a new one opens the same store and identity, with
\* empty MLS storage and causal history and a fresh key package.
Restart(p) ==
  /\ restarts < MaxRestarts
  /\ restarts' = restarts + 1
  /\ past' = [past EXCEPT ![p] = <<>>] /\ convo' = [convo EXCEPT ![p] = "none"]
  /\ session' = [session EXCEPT ![p] = @ + 1] /\ package' = [package EXCEPT ![p] = session[p] + 1]
  /\ lamport' = [lamport EXCEPT ![p] = 0] /\ used' = [used EXCEPT ![p] = {}]
  /\ UNCHANGED <<record, shown, wire, cursor, decided, failures>>

DeliverTo(q) ==
  \E i \in 1 .. Len(wire) : \E valid \in {TRUE} \cup {wire[i].kind # "content"} : Deliver(q, i, valid)

Next ==
  \/ \E members \in SUBSET Signers, invites \in SUBSET Signers, commitOut \in BOOLEAN :
       \/ \E kind \in {"group", "direct"} : Create(kind, members, invites, commitOut)
       \/ \E p \in Signers : AddSigner(p, members, invites, commitOut)
  \/ \E p \in Signers, members \in SUBSET Signers, commitOut \in BOOLEAN :
       RemoveSigner(p, members, commitOut)
  \/ CreateUnseated
  \/ \E p \in Signers : Restart(p) \/ \E published \in BOOLEAN : SendContent(p, published)
  \/ \E q \in Signers : DeliverTo(q)

SafeSpec == Init /\ [][Next]_vars

\* The worker thread of each member keeps taking frames off its transport.
Spec == SafeSpec /\ \A q \in Signers : WF_vars(DeliverTo(q))

----------------------------------------------------------------------------
IsPrefixOf(h, g) == Len(h) <= Len(g) /\ \A i \in 1 .. Len(h) : h[i] = g[i]

\* No two members ever merge different commits at one epoch, although every
\* committer merges before anyone else has seen its commit: all groups are
\* prefixes of one history.
OneHistory == \A p \in Signers : IsPrefixOf(past[p], decided)

\* Nothing the creator sends after remove_signer has returned is shown to the
\* members it removed: content is only read by those who were on the roster
\* after every commit made when it was sent.
RemovedReadsNothingLater ==
  \A q \in Signers : \A i \in shown[q] :
    wire[i].by = Creator => q \in Roster(SubSeq(decided, 1, wire[i].at))

FrameInHistory(f, h) ==
  /\ IsPrefixOf(f.past, h)
  /\ f.kind = "welcome" => Creator \notin f.to
  /\ f.kind = "commit" => f.by = Creator /\ IsPrefixOf(Append(f.past, f.commit), h)
  /\ f.kind = "content" /\ f.by = Creator => Len(f.past) = f.at

\* The inductive strengthening of both: only the creator commits, its group is
\* the whole history for as long as its process lives, every frame belongs to
\* that history, and what was shown was sealed to a roster with its reader.
HistoryInv ==
  /\ OneHistory
  /\ \A p \in Signers : convo[p] = "group" => p = Creator
  /\ past[Creator] # <<>> => past[Creator] = decided
  /\ \A i \in 1 .. Len(wire) : FrameInHistory(wire[i], decided)
  /\ \A q \in Signers : \A i \in shown[q] :
       i \in 1 .. Len(wire) /\ wire[i].kind = "content" /\ q \in Roster(wire[i].past)

Undisturbed == Ordered /\ MaxRestarts = 0 /\ MaxFailures = 0
EverRemoved == UNION {decided[i].rem : i \in 1 .. Len(decided)}

\* When frames arrive in order and no call fails, everyone who was added and
\* never removed ends up with the creator's group, the roster included.
Converges ==
  Undisturbed => \A p \in Signers :
    <>[](p \in Roster(decided) \ EverRemoved => past[p] = decided)

\* "it is loaded this session and the local identity is still a member with
\* send rights": a core that has handled every frame, in one session, can send
\* exactly if its signer is a member.
MembershipReflected ==
  Undisturbed => \A p \in Signers :
    cursor[p] = Len(wire) => (CanSend(p) <=> p \in Roster(decided))
=============================================================================
