------------------------------ MODULE GroupV3 ------------------------------
(***************************************************************************)
(* One GroupV3 conversation across its members' cores                      *)
(* (conversation/group_v3.rs and its handlers, mls_utils.rs, the invites   *)
(* of inbox_v2.rs), over the in-process message bus                        *)
(* (delivery_in_process.rs) or over a network that fails, loses, repeats   *)
(* and reorders.  As in GroupV1, a member's MLS group is known by the      *)
(* commits it has merged.  Everyone may add members; a call publishes a    *)
(* commit and then one welcome after the other, and what others publish    *)
(* may come between them.  Nothing of a GroupV3 conversation is stored.    *)
(***************************************************************************)
EXTENDS Integers, Sequences, FiniteSets

CONSTANTS
  Signers,      \* installations
  Creator,      \* the one that creates the conversation
  NoCommit,     \* no staged commit
  MaxCommits,   \* bound: commits published
  MaxContents,  \* bound: messages published
  MaxFaults     \* bound: calls that fail on the way, and restarts

VARIABLES
  bus,         \* whether the transport is InProcessDelivery
  past,        \* the merged commits of each member's MLS group, <<>> without one
  staged,      \* its pending commit
  invites,     \* welcomes its call has yet to publish
  call,        \* where its call of new or add_signer is
  cached,      \* members with the conversation in cached_convos
  subscribed,  \* members listening on the conversation's address
  session,     \* the process of each member, whose key package is registered
  used,        \* frames whose secret the member's group has consumed
  shown,       \* contents surfaced to each member's application
  wire,        \* every envelope published, with who listened then
  cursor,      \* envelopes of the bus each member has been handed
  left,        \* history: members whose call left its commit pending
  overlapped,  \* history: a commit was made before the last one was settled
  faults

core == <<past, staged, left, invites, call, cached, subscribed, session>>
vars == <<bus, core, used, shown, wire, cursor, overlapped, faults>>

ASSUME GroupV3Assumption ==
  /\ Creator \in Signers
  /\ MaxCommits \in Nat /\ MaxContents \in Nat /\ MaxFaults \in Nat

Init ==
  /\ bus \in BOOLEAN
  /\ past = [p \in Signers |-> <<>>] /\ staged = [p \in Signers |-> NoCommit]
  /\ invites = [p \in Signers |-> {}] /\ call = [p \in Signers |-> "idle"]
  /\ left = {} /\ cached = {} /\ subscribed = {} /\ session = [p \in Signers |-> 1]
  /\ used = [p \in Signers |-> {}] /\ shown = [p \in Signers |-> {}]
  /\ wire = <<>> /\ cursor = [p \in Signers |-> 0]
  /\ overlapped = FALSE /\ faults = 0

Fault == faults < MaxFaults /\ faults' = faults + 1

----------------------------------------------------------------------------
\* ConvoBase::signers
Roster(h) == UNION {h[i].add : i \in DOMAIN h}

Count(kind) == Cardinality({i \in DOMAIN wire : wire[i].kind = kind})

\* MessageBus::publish fans out to the endpoints subscribed by then: to the
\* conversation's address, or to somebody's inbox.
Publish(f) == wire' = Append(wire, f)

Born == [by |-> Creator, add |-> {Creator}]

\* fetch_key_packages of those not in the group yet, and add_members.
Stage(p, h, members) ==
  LET new == members \ Roster(h)
  IN  /\ staged' = [staged EXCEPT ![p] = [by |-> p, add |-> new]]
      /\ invites' = [invites EXCEPT ![p] = {[to |-> q, key |-> session[q]] : q \in new}]
      /\ call' = [call EXCEPT ![p] = "commit"]

\* create_group_convo_v3 up to its commit: the group is founded and its address
\* subscribed; it is cached once new has returned.
Create(members) ==
  /\ past[Creator] = <<>> /\ wire = <<>> /\ session[Creator] = 1
  /\ past' = [past EXCEPT ![Creator] = <<Born>>]
  /\ \/ ~bus /\ Fault   \* the transport does not subscribe
        /\ UNCHANGED <<staged, invites, call, cached, subscribed>>
     \/ /\ subscribed' = subscribed \cup {Creator}
        /\ \/ members \subseteq {Creator} /\ cached' = cached \cup {Creator}
              /\ UNCHANGED <<staged, invites, call, faults>>
           \/ ~members \subseteq {Creator} /\ Stage(Creator, <<Born>>, members)
              /\ UNCHANGED <<cached, faults>>
           \/ ~members \subseteq {Creator} /\ Fault   \* a key package is missing or invalid
              /\ UNCHANGED <<staged, invites, call, cached>>
  /\ UNCHANGED <<bus, left, session, used, shown, wire, cursor, overlapped>>

Idle(p) == p \in cached /\ call[p] = "idle"

\* add_signer up to its commit.  When a key package is missing, everyone is a
\* member already or a commit is pending, it changes nothing.
AddSigner(p, members) ==
  /\ Idle(p) /\ ~members \subseteq Roster(past[p]) /\ staged[p] = NoCommit
  /\ Count("commit") < MaxCommits
  /\ Stage(p, past[p], members)
  /\ UNCHANGED <<bus, past, left, cached, subscribed, session, used, shown, wire, cursor, overlapped,
                 faults>>

\* Mutant: the commit is merged although it was not published.
MergeUnpublished(p) ==
  /\ past' = [past EXCEPT ![p] = Append(@, staged[p])]
  /\ staged' = [staged EXCEPT ![p] = NoCommit]

\* Mutant: the staged commit is left behind.
KeepPending(p) == UNCHANGED <<past, staged>>

\* clear_pending_commit
ClearPending(p) == staged' = [staged EXCEPT ![p] = NoCommit] /\ UNCHANGED past

Settled(h) == \A q \in Roster(h) : past[q] = h

\* send_pending_commit: publish and then merge, or discard the commit.
SendPendingCommit(p) ==
  /\ call[p] = "commit"
  /\ Publish([kind |-> "commit", by |-> p, past |-> past[p], commit |-> staged[p],
              reach |-> subscribed])
  /\ past' = [past EXCEPT ![p] = Append(@, staged[p])]
  /\ staged' = [staged EXCEPT ![p] = NoCommit]
  /\ call' = [call EXCEPT ![p] = "welcome"]
  /\ overlapped' = (overlapped \/ ~Settled(past[p]))
  /\ UNCHANGED <<bus, left, invites, cached, subscribed, session, used, shown, cursor, faults>>

CommitFails(p) ==
  /\ ~bus /\ call[p] = "commit" /\ Fault
  /\ ClearPending(p)
  /\ invites' = [invites EXCEPT ![p] = {}] /\ call' = [call EXCEPT ![p] = "idle"]
  /\ UNCHANGED <<bus, left, cached, subscribed, session, used, shown, wire, cursor, overlapped>>

\* The two ways in which the call returns and leaves the commit staged: the
\* welcome cannot be encoded, before anything is published, or the commit can
\* neither be published nor discarded, which is only logged.
CommitLeft(p) ==
  /\ call[p] = "commit" /\ Fault
  /\ left' = left \cup {p}
  /\ invites' = [invites EXCEPT ![p] = {}] /\ call' = [call EXCEPT ![p] = "idle"]
  /\ UNCHANGED <<bus, past, staged, cached, subscribed, session, used, shown, wire, cursor, overlapped>>

\* The next dependent message; after the last one the call returns, and
\* create_group_convo_v3 registers the conversation.
SendWelcome(p, i) ==
  /\ call[p] = "welcome"
  /\ Publish([kind |-> "welcome", to |-> i.to, key |-> i.key, past |-> past[p], reach |-> {i.to}])
  /\ invites' = [invites EXCEPT ![p] = @ \ {i}]
  /\ IF invites'[p] = {}
     THEN call' = [call EXCEPT ![p] = "idle"] /\ cached' = cached \cup {p}
     ELSE UNCHANGED <<call, cached>>
  /\ UNCHANGED <<bus, past, staged, left, subscribed, session, used, shown, cursor, overlapped, faults>>

\* The first welcome that cannot be published ends the call.
WelcomeFails(p) ==
  /\ ~bus /\ call[p] = "welcome" /\ Fault
  /\ invites' = [invites EXCEPT ![p] = {}] /\ call' = [call EXCEPT ![p] = "idle"]
  /\ UNCHANGED <<bus, past, staged, left, cached, subscribed, session, used, shown, wire, cursor,
                 overlapped>>

\* send_content; when it is not published nothing changes.
SendContent(p) ==
  /\ Idle(p) /\ Count("content") < MaxContents
  /\ Publish([kind |-> "content", by |-> p, past |-> past[p], reach |-> subscribed])
  /\ UNCHANGED <<bus, core, used, shown, cursor, overlapped, faults>>

----------------------------------------------------------------------------
\* Mutant: the joiner does not subscribe the conversation's address.
JoinDeaf(q) == UNCHANGED subscribed

\* GroupV3Convo::init
Listen(q) == subscribed' = subscribed \cup {q}

\* new_from_welcome: the welcome opens with this process's key package and
\* founds a group unless there is one.  It stays when the address cannot be
\* subscribed, but the conversation is not cached.
HandleWelcome(q, f) ==
  IF q = f.to /\ f.key = session[q] /\ past[q] = <<>>
  THEN /\ past' = [past EXCEPT ![q] = f.past]
       /\ \/ Listen(q) /\ cached' = cached \cup {q} /\ UNCHANGED faults
          \/ ~bus /\ Fault /\ UNCHANGED <<subscribed, cached>>
       /\ UNCHANGED <<staged, left, invites, call, session, used, shown>>
  ELSE UNCHANGED <<core, used, shown, faults>>

\* handle_mls_protocol_msg gets past its early returns, and MLS can open the
\* message: an earlier epoch or one's own frame is dropped, a later epoch or
\* another past is an error.
Opens(q, f) == q \in cached /\ f.by # q /\ f.past = past[q]

\* merge_staged_commit; a pending commit does not survive it.
HandleCommit(q, f) ==
  IF Opens(q, f)
  THEN /\ past' = [past EXCEPT ![q] = Append(@, f.commit)]
       /\ staged' = [staged EXCEPT ![q] = NoCommit] /\ left' = left \ {q}
       /\ UNCHANGED <<invites, call, cached, subscribed, session, used, shown>>
  ELSE UNCHANGED <<core, used, shown>>

HandleContent(q, i, valid) ==
  IF Opens(q, wire[i]) /\ i \notin used[q]
  THEN /\ used' = [used EXCEPT ![q] = @ \cup {i}]
       /\ shown' = IF valid THEN [shown EXCEPT ![q] = @ \cup {i}] ELSE shown
       /\ UNCHANGED core
  ELSE UNCHANGED <<core, used, shown>>

\* The endpoint's channel holds what was fanned out to it, in order; off the
\* bus, whatever was published may turn up at any time.
Arrives(q, i) ==
  bus => /\ i > cursor[q] /\ q \in wire[i].reach
         /\ \A j \in cursor[q] + 1 .. i - 1 : q \notin wire[j].reach

\* Core::handle_payload; a core in the middle of a call does not get to it.
Deliver(q, i, valid) ==
  /\ call[q] = "idle" /\ Arrives(q, i)
  /\ CASE wire[i].kind = "welcome" -> HandleWelcome(q, wire[i])
       [] wire[i].kind = "commit" -> HandleCommit(q, wire[i]) /\ UNCHANGED faults
       [] wire[i].kind = "content" -> HandleContent(q, i, valid) /\ UNCHANGED faults
  /\ cursor' = IF bus THEN [cursor EXCEPT ![q] = i] ELSE cursor
  /\ UNCHANGED <<bus, wire, overlapped>>

DeliverTo(q) ==
  \E i \in DOMAIN wire : \E valid \in {TRUE, wire[i].kind # "content"} : Deliver(q, i, valid)

\* The process ends, also in the middle of a call; the next one has nothing but
\* its identity, a new endpoint and a new key package.
Restart(p) ==
  /\ Fault
  /\ past' = [past EXCEPT ![p] = <<>>] /\ staged' = [staged EXCEPT ![p] = NoCommit]
  /\ invites' = [invites EXCEPT ![p] = {}] /\ call' = [call EXCEPT ![p] = "idle"]
  /\ left' = left \ {p} /\ cached' = cached \ {p} /\ subscribed' = subscribed \ {p}
  /\ session' = [session EXCEPT ![p] = @ + 1]
  /\ used' = [used EXCEPT ![p] = {}] /\ cursor' = [cursor EXCEPT ![p] = Len(wire)]
  /\ UNCHANGED <<bus, shown, wire, overlapped>>

\* What a core does by itself: finish its call, and take what arrives.
Proceed(p) ==
  \/ SendPendingCommit(p)
  \/ \E i \in invites[p] : SendWelcome(p, i)
  \/ DeliverTo(p)

Next ==
  \/ \E members \in SUBSET Signers : Create(members) \/ \E p \in Signers : AddSigner(p, members)
  \/ \E p \in Signers :
       \/ Proceed(p)
       \/ SendContent(p) \/ CommitFails(p) \/ CommitLeft(p) \/ WelcomeFails(p) \/ Restart(p)

\* Calls return, and the worker thread keeps taking payloads off its transport.
Spec == Init /\ [][Next]_vars /\ \A p \in Signers : WF_vars(Proceed(p))

----------------------------------------------------------------------------
IsPrefixOf(h, g) == Len(h) <= Len(g) /\ SubSeq(g, 1, Len(h)) = h

\* Two groups part only where two members have both published a commit to the
\* same group: no failed publish, lost, late or repeated frame, half finished
\* call or restart forks the conversation by itself.
ForkNeedsRace ==
  \A p, q \in Signers :
    \/ IsPrefixOf(past[p], past[q]) \/ IsPrefixOf(past[q], past[p])
    \/ \E i, j \in DOMAIN wire :
         /\ wire[i].kind = "commit" /\ wire[j].kind = "commit"
         /\ wire[i].past = wire[j].past /\ wire[i].commit # wire[j].commit

\* "Discard the staged commit so the group isn't left wedged": whenever no call
\* runs the group has no pending commit, so that adding can be tried again,
\* except after an error that is not that of a publish: then one stays until a
\* commit of another member arrives.
NeverWedged == \A p \in Signers : call[p] = "idle" => staged[p] = NoCommit \/ p \in left

\* On the bus, if whoever commits does so after everyone on the roster has
\* joined and merged the last commit, everyone on a roster ends up with the
\* same group.  Otherwise it may not: a joiner hears nothing of a commit that
\* is published before it has handled its welcome.
Converges ==
  <>[](\/ ~bus \/ overlapped \/ faults > 0
       \/ \A p \in cached : Settled(past[p]))
=============================================================================
