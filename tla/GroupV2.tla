------------------------------ MODULE GroupV2 ------------------------------
(***************************************************************************)
(* One installation's side of a GroupV2 conversation: GroupV2Convo, the     *)
(* wrapper around a de-mls session (core/conversations/src/conversation/    *)
(* group_v2.rs), driven by Core, by frames of the other members and by the  *)
(* alarms it asks the wakeup service for.                                   *)
(*                                                                          *)
(* The de-mls session is a library outside the repository.  It is modelled  *)
(* by what the wrapper relies on: a membership change is put to a vote (a   *)
(* round), a round that passed starts a freeze, and the commit that ends    *)
(* the freeze merges every change that passed.  It acts on a due deadline   *)
(* only when polled, so the wrapper must keep an alarm set for it.          *)
(* member_directory is left out: it is written and never read.              *)
(*                                                                          *)
(* Deadlines and alarms are kept as the time left to them, which Tick       *)
(* lowers.                                                                  *)
(***************************************************************************)
EXTENDS Integers, Sequences, FiniteSets, FiniteSetsExt, SequencesExt, Functions

CONSTANTS
    Signers,      \* installations, by signer key
    Me,           \* the installation modelled
    Vacant,       \* content of a blank leaf
    NotFrozen,    \* value of the freeze timer in the Working state
    VoteTime,     \* consensus_timeout: how long a round may stay open
    FreezeTime,   \* freeze_duration
    MaxRounds,    \* bound: rounds open at once
    MaxFailures   \* bound: failing publishes

ASSUME SignersAssumption == /\ IsFiniteSet(Signers)
                            /\ Me \in Signers
                            /\ Vacant \notin Signers
ASSUME TimesAssumption == /\ VoteTime \in Nat \ {0}
                          /\ FreezeTime \in Nat \ {0}
                          /\ NotFrozen \notin Nat

VARIABLES
    known,     \* whether the conversation is in Core's cached_convos
    session,   \* GroupV2Convo::conversation
    seat,      \* member_id_bytes: the leaf this installation was given
    pending,   \* GroupV2Convo::pending_invites, its keys
    armed,     \* time left to each alarm registered with the wakeup service
    ours,      \* history: signers whose latest add here was accepted
    sent,      \* history: joiners the last step sent a welcome to
    observed,  \* history: whether the last step returned SignersChanged
    garbled,   \* history: whether a malformed post cost the last step its outcome
    lapsed,    \* history: whether the last after_op failed before re-arming
    failures   \* publishes that failed so far

vars == <<known, session, seat, pending, armed, ours, sent, observed, garbled, lapsed, failures>>

Leaves == 0 .. Cardinality(Signers) - 1
Peers == Signers \ {Me}
Kinds == {"add", "remove"}
Changes == [kind : Kinds, who : Signers]
Rounds == [kind : Kinds, who : Signers, left : 0 .. VoteTime]
Sessions == [leaf : [Leaves -> Signers \cup {Vacant}],
             rounds : SUBSET Rounds, passed : SUBSET Changes,
             freeze : 0 .. FreezeTime \cup {NotFrozen}, ejected : BOOLEAN]

----------------------------------------------------------------------------
(* The de-mls session.                                                     *)

Seated(s) == Range(s.leaf) \ {Vacant}

SeatOf(leaf, x) == CHOOSE i \in Leaves : leaf[i] = x

(* members_view in leaf order. *)
MembersView(s) == SelectSeq([i \in 1 .. Cardinality(Leaves) |-> s.leaf[i - 1]],
                            LAMBDA x : x # Vacant)

(* A session that has just been created or joined, with these leaves. *)
FreshSession(leaf, rounds) ==
    [leaf |-> leaf, rounds |-> rounds, passed |-> {},
     freeze |-> NotFrozen, ejected |-> FALSE]

(* The ways to seat the newcomers: MLS fills the leftmost blank leaves. *)
Seatings(leaf, newcomers) ==
    LET blank == {i \in Leaves : leaf[i] = Vacant}
        taken == {i \in blank :
                    Cardinality({j \in blank : j < i}) < Cardinality(newcomers)}
    IN  {[i \in Leaves |-> IF i \in taken THEN f[i] ELSE leaf[i]] :
            f \in {g \in [taken -> newcomers] : Range(g) = newcomers}}

(* What a call into the session leaves behind: the session, and the events  *)
(* it emitted, as the joiners of its WelcomeReady and whether there is any  *)
(* of CommitApplied, WelcomeReady, MembersChanged and Leaving.              *)
Result(s, joiners, changed) == [session |-> s, joiners |-> joiners, changed |-> changed]

Quiet(s) == Result(s, {}, FALSE)

(* A commit: its removals empty their leaves before its additions take      *)
(* blank ones, so a newcomer may get the leaf of a member it removes.  The  *)
(* member it removes gets Leaving in place of the other events.             *)
CommitResults(s) ==
    LET gone == {p.who : p \in {q \in s.passed : q.kind = "remove"}} \cap Seated(s)
        cleared == [i \in Leaves |-> IF s.leaf[i] \in gone THEN Vacant ELSE s.leaf[i]]
        joiners == {p.who : p \in {q \in s.passed : q.kind = "add"}}
                     \ Range(cleared)
        out == Me \in gone
    IN  {Result([leaf |-> l, rounds |-> IF out THEN {} ELSE s.rounds,
                 passed |-> {}, freeze |-> NotFrozen, ejected |-> out],
                IF out THEN {} ELSE joiners, TRUE) : l \in Seatings(cleared, joiners)}

(* A vote's outcome takes the round off; one that passed waits for a commit. *)
Decided(s, closed, ok) ==
    [s EXCEPT !.rounds = @ \ closed,
              !.passed = @ \cup {[kind |-> r.kind, who |-> r.who] : r \in ok}]

(* Conversation::poll: a round that is due closes with the vote it got (a   *)
(* member alone in the group decides with its own); what passed starts a    *)
(* freeze; a freeze that is over merges the commit.                         *)
PollResults(s) ==
    LET alone == Seated(s) = {Me}
        due == {r \in s.rounds : alone \/ r.left = 0}
        Advanced(d) ==
            IF d.freeze = 0 THEN CommitResults(d)
            ELSE {Quiet([d EXCEPT !.freeze = IF @ = NotFrozen /\ d.passed # {}
                                             THEN FreezeTime ELSE @])}
    IN  IF s.ejected THEN {Quiet(s)}
        ELSE UNION {Advanced(Decided(s, due, ok)) :
                      ok \in IF alone THEN {due} ELSE SUBSET due}

(* Whether a round may be opened: only in Working, for a change the group   *)
(* does not have and is not deciding already.                               *)
MayOpen(s, kind, x) ==
    /\ ~s.ejected
    /\ s.freeze = NotFrozen
    /\ Cardinality(s.rounds) < MaxRounds
    /\ (kind = "add") <=> (x \notin Seated(s))
    /\ [kind |-> kind, who |-> x] \notin s.passed
    /\ \A r \in s.rounds : <<r.kind, r.who>> # <<kind, x>>

Opened(s, kind, who) ==
    [s EXCEPT !.rounds = @ \cup {[kind |-> kind, who |-> x, left |-> VoteTime] : x \in who}]

(* Conversation::process_inbound, when it returns Ok: nothing changes (a    *)
(* post, a vote that decides nothing, our own frame), a peer's proposal     *)
(* opens a round, the last vote decides one, or the steward's commit        *)
(* arrives during the freeze.  An ejected session fails every frame.        *)
InboundResults(s) ==
    LET proposals == {q \in Changes : MayOpen(s, q.kind, q.who)}
        fromPeers ==
            {Quiet(Opened(s, p.kind, {p.who})) : p \in proposals}
              \cup UNION {{Quiet(Decided(s, {r}, ok)) : ok \in {{}, {r}}} : r \in s.rounds}
              \cup (IF s.freeze # NotFrozen THEN CommitResults(s) ELSE {})
    IN  IF s.ejected THEN {}
        ELSE {Quiet(s)} \cup (IF Seated(s) = {Me} THEN {} ELSE fromPeers)

(* Conversation::next_wakeup_in is the least of these. *)
Deadlines(s) ==
    {r.left : r \in s.rounds}
      \cup (IF s.freeze # NotFrozen THEN {s.freeze}
            ELSE IF s.passed # {} THEN {0} ELSE {})

----------------------------------------------------------------------------
(* GroupV2Convo.                                                            *)

(* own_signer: whoever holds the leaf this installation was given. *)
OwnSigner == session.leaf[seat]

IsMember == OwnSigner # Vacant

(* seats_of: the named that hold a leaf, in the order of the leaves. *)
SeatsOf(members) == SelectSeq(MembersView(session), LAMBDA x : x \in members)

(* Mutant: a WelcomeReady clears every pending invite, its joiners' or not. *)
AfterOpClearsInvites(res, invites, alarms) ==
    LET due == Deadlines(res.session)
    IN  /\ session' = res.session
        /\ pending' = IF res.joiners = {} THEN invites ELSE {}
        /\ sent' = res.joiners \cap invites
        /\ armed' = IF due = {} THEN alarms ELSE alarms \cup {Min(due)}
        /\ lapsed' = FALSE
        /\ UNCHANGED failures

(* after_op with the session, the joiners of its WelcomeReady, and pending  *)
(* invites and alarms as the operation left them.  Welcomes go out first,   *)
(* each after its joiner left pending_invites, then the outbound frames,    *)
(* and the alarm is set last; the first publish that fails ends it.         *)
AfterOp(res, invites, alarms) ==
    LET mine == res.joiners \cap invites
        due == Deadlines(res.session)
        Left(done, set, failed) ==
            /\ pending' = invites \ done
            /\ armed' = set
            /\ lapsed' = failed
            /\ failures' = IF failed THEN failures + 1 ELSE failures
    IN  /\ session' = res.session
        /\ \/ /\ Left(mine, IF due = {} THEN alarms ELSE alarms \cup {Min(due)}, FALSE)
              /\ sent' = mine
           \/ /\ failures < MaxFailures          \* a frame is not published
              /\ Left(mine, alarms, TRUE)
              /\ sent' = mine
           \/ /\ failures < MaxFailures          \* a welcome is not published
              /\ \E j \in mine : \E done \in SUBSET (mine \ {j}) :
                    /\ Left(done \cup {j}, alarms, TRUE)
                    /\ sent' = done

(* outcome_from_events: SignersChanged is observed, unless after_op failed  *)
(* or the post among the events is malformed, which is returned as an error *)
(* before anything is looked at.                                            *)
OutcomeFromEvents(res, malformed) ==
    /\ garbled' = malformed
    /\ observed' = (res.changed /\ ~lapsed' /\ ~malformed)

(* add_signer, remove_signer and send_content return no outcome. *)
NoOutcome == observed' = FALSE /\ garbled' = FALSE

(* history: an admitted signer is no longer waiting for its add. *)
Waiting(accepted) == ours' = accepted \ Seated(session')

Init ==
    /\ known = FALSE
    /\ session = FreshSession([i \in Leaves |-> Vacant], {})
    /\ seat = 0
    /\ pending = {}
    /\ armed = {}
    /\ ours = {}
    /\ sent = {}
    /\ observed = FALSE
    /\ garbled = FALSE
    /\ lapsed = FALSE
    /\ failures = 0

(* GroupV2Convo::new and its registration: the creator takes leaf 0 and the *)
(* invited are seated by the creation itself.                               *)
Create(invites) ==
    /\ ~known
    /\ \E leaf \in Seatings([i \in Leaves |-> IF i = 0 THEN Me ELSE Vacant], invites) :
          AfterOp(Result(FreshSession(leaf, {}), invites, TRUE), invites, armed)
    /\ ~lapsed'
    /\ known' = TRUE
    /\ seat' = 0
    /\ Waiting({}) /\ NoOutcome

(* A publish of new or new_from_welcome fails: the conversation is dropped, *)
(* though welcomes may have left.                                           *)
CreateFails(invites) ==
    /\ ~known
    /\ failures < MaxFailures
    /\ failures' = failures + 1
    /\ sent' \in SUBSET invites
    /\ NoOutcome
    /\ UNCHANGED <<known, session, seat, pending, armed, ours, lapsed>>

(* GroupV2Convo::new_from_welcome and its registration, from a welcome with *)
(* these leaves.  While a conversation is registered, another welcome for   *)
(* it fails at register_convo and changes nothing here.                     *)
Join(leaf) ==
    /\ ~known
    /\ AfterOp(Quiet(FreshSession(leaf, {})), {}, armed)
    /\ ~lapsed'
    /\ known' = TRUE
    /\ seat' = SeatOf(leaf, Me)
    /\ Waiting({}) /\ NoOutcome

(* Mutant: the session is polled whether or not an add was accepted. *)
AddSignerPollsAlways(batch) ==
    LET todo == SelectSeq(batch, LAMBDA x : x \notin Seated(session))
    IN  /\ known
        /\ \E n \in 0 .. Len(todo) :
             LET accepted == Range(SubSeq(todo, 1, n))
                 refused == {todo[i] : i \in DOMAIN todo \cap {n + 1}}
                 opened == Opened(session, "add", accepted)
             IN  /\ Cardinality(opened.rounds) <= MaxRounds
                 /\ \A x \in accepted : MayOpen(session, "add", x)
                 /\ \E res \in PollResults(opened) :
                       AfterOp(res, (pending \cup accepted) \ refused, armed)
                 /\ Waiting((ours \cup accepted) \ refused) /\ NoOutcome
        /\ UNCHANGED <<known, seat>>

(* Mutant: a refused signer returns at once, without the flush. *)
AddSignerReturnsEarly(batch) ==
    LET todo == SelectSeq(batch, LAMBDA x : x \notin Seated(session))
    IN  /\ known
        /\ \E n \in 0 .. Len(todo) :
             LET accepted == Range(SubSeq(todo, 1, n))
                 refused == {todo[i] : i \in DOMAIN todo \cap {n + 1}}
                 invites == (pending \cup accepted) \ refused
                 opened == Opened(session, "add", accepted)
             IN  /\ Cardinality(opened.rounds) <= MaxRounds
                 /\ \A x \in accepted : MayOpen(session, "add", x)
                 /\ IF refused = {}
                    THEN \E res \in PollResults(opened) : AfterOp(res, invites, armed)
                    ELSE /\ session' = opened
                         /\ pending' = invites
                         /\ sent' = {}
                         /\ UNCHANGED <<armed, lapsed, failures>>
                 /\ Waiting((ours \cup accepted) \ refused) /\ NoOutcome
        /\ UNCHANGED <<known, seat>>

(* add_signer: signers not seated are put forward one by one, the first     *)
(* that de-mls refuses ends the batch, and what was opened is flushed all   *)
(* the same.  AlreadyMember cannot be returned here: nothing changes the    *)
(* group between the check and the call.                                    *)
AddSigner(batch) ==
    LET todo == SelectSeq(batch, LAMBDA x : x \notin Seated(session))
    IN  /\ known
        /\ \E n \in 0 .. Len(todo) :
             LET accepted == Range(SubSeq(todo, 1, n))
                 refused == {todo[i] : i \in DOMAIN todo \cap {n + 1}}
                 invites == (pending \cup accepted) \ refused
                 opened == Opened(session, "add", accepted)
             IN  /\ Cardinality(opened.rounds) <= MaxRounds
                 /\ \A x \in accepted : MayOpen(session, "add", x)
                 /\ \E res \in IF accepted = {} THEN {Quiet(opened)}
                                                ELSE PollResults(opened) :
                       AfterOp(res, invites, armed)
                 /\ Waiting((ours \cup accepted) \ refused) /\ NoOutcome
        /\ UNCHANGED <<known, seat>>

(* remove_signer: one removal round for each of the named that is seated,   *)
(* in the order of the leaves, up to the first refusal.                     *)
RemoveSigner(members) ==
    LET targets == SeatsOf(members)
    IN  /\ known
        /\ OwnSigner \notin members
        /\ targets # <<>>
        /\ \E n \in 0 .. Len(targets) :
             LET accepted == Range(SubSeq(targets, 1, n))
                 opened == Opened(session, "remove", accepted)
             IN  /\ Cardinality(opened.rounds) <= MaxRounds
                 /\ \A x \in accepted : MayOpen(session, "remove", x)
                 /\ AfterOp(Quiet(opened), pending, armed)
        /\ Waiting(ours) /\ NoOutcome
        /\ UNCHANGED <<known, seat>>

(* send_content, when de-mls takes the message. *)
SendContent ==
    /\ known
    /\ ~session.ejected
    /\ AfterOp(Quiet(session), pending, armed)
    /\ Waiting(ours) /\ NoOutcome
    /\ UNCHANGED <<known, seat>>

(* handle_payload of a frame de-mls accepts; one it fails changes nothing.  *)
(* The frame may be a post, with a payload that does not decode; without a  *)
(* commit in the same drain, that differs from other posts in nothing here. *)
HandlePayload ==
    /\ known
    /\ IsMember
    /\ \E heard \in InboundResults(session) :
         \E polled \in PollResults(heard.session), malformed \in BOOLEAN :
            LET res == Result(polled.session, heard.joiners \cup polled.joiners,
                              heard.changed \/ polled.changed)
            IN  /\ malformed => heard = Quiet(session) /\ res.changed
                /\ AfterOp(res, pending, armed) /\ OutcomeFromEvents(res, malformed)
    /\ Waiting(ours)
    /\ UNCHANGED <<known, seat>>

(* Mutant: the alarm that fired is not followed by another. *)
WakeupWithoutRearm ==
    /\ known
    /\ 0 \in armed
    /\ UNCHANGED <<known, seat, lapsed, failures>>
    /\ \E polled \in PollResults(session) :
          /\ session' = polled.session
          /\ pending' = pending \ polled.joiners
          /\ sent' = pending \cap polled.joiners
          /\ OutcomeFromEvents(polled, FALSE)
    /\ armed' = armed \ {0}
    /\ Waiting(ours)

(* wakeup, when an alarm is due. *)
Wakeup ==
    /\ known
    /\ 0 \in armed
    /\ \E polled \in PollResults(session) :
          AfterOp(polled, pending, armed \ {0}) /\ OutcomeFromEvents(polled, FALSE)
    /\ Waiting(ours)
    /\ UNCHANGED <<known, seat>>

Less(t) == IF t = 0 THEN 0 ELSE t - 1

(* Time passes for the session's deadlines and for the alarms alike. *)
Tick ==
    /\ \E t \in Deadlines(session) \cup armed : t > 0
    /\ session' = [session EXCEPT !.rounds = {[r EXCEPT !.left = Less(@)] : r \in @},
                                  !.freeze = IF @ = NotFrozen THEN @ ELSE Less(@)]
    /\ armed' = {Less(t) : t \in armed}
    /\ sent' = {} /\ NoOutcome
    /\ UNCHANGED <<known, seat, pending, ours, lapsed, failures>>

(* Leaves a welcome may carry: no signer twice, this installation and at    *)
(* least the member that added it among them.                               *)
WelcomeLeaves ==
    {leaf \in [Leaves -> Signers \cup {Vacant}] :
        /\ \A i, j \in Leaves : leaf[i] = leaf[j] /\ leaf[i] # Vacant => i = j
        /\ Me \in Range(leaf)
        /\ Range(leaf) \cap Peers # {}}

(* The signers one call may name, in order; fetch_key_packages drops the    *)
(* repeated ones, and fails before anything changes if one has no package.  *)
Batches == {<<x>> : x \in Peers} \cup {b \in Peers \X Peers : b[1] # b[2]}

Next ==
    \/ \E invites \in SUBSET Peers : Create(invites) \/ CreateFails(invites)
    \/ \E leaf \in WelcomeLeaves : Join(leaf)
    \/ \E batch \in Batches : AddSigner(batch)
    \/ \E members \in SUBSET Peers : RemoveSigner(members)
    \/ SendContent
    \/ HandlePayload
    \/ Wakeup
    \/ Tick

(* The wakeup thread delivers a due alarm and the worker handles it; clocks *)
(* run.  Frames and the user's calls need never come.                       *)
Spec == Init /\ [][Next]_vars /\ WF_vars(Wakeup) /\ WF_vars(Tick)

----------------------------------------------------------------------------

(* The wrapper's fields and the session keep their shapes. *)
TypeOK ==
    /\ known \in BOOLEAN
    /\ session \in Sessions
    /\ seat \in Leaves
    /\ pending \subseteq Peers
    /\ armed \subseteq 0 .. Max({VoteTime, FreezeTime})
    /\ ours \subseteq Peers
    /\ sent \subseteq Peers
    /\ observed \in BOOLEAN
    /\ garbled \in BOOLEAN
    /\ lapsed \in BOOLEAN
    /\ failures \in 0 .. MaxFailures

(* A session with a deadline has an alarm set no later than it, unless the  *)
(* operation before failed to publish: after_op runs at the end of every    *)
(* operation, "or they sit dormant until an unrelated frame drives the      *)
(* conversation" (group_v2.rs, add_signer).                                 *)
NeverDormant ==
    Deadlines(session) # {} /\ ~lapsed =>
        \E t \in armed : t <= Min(Deadlines(session))

(* A signer whose add was accepted here, and not refused since, is sent its *)
(* welcome by the very operation that sees it seated, whoever's commit      *)
(* seated it, unless a publish of that operation fails or the commit ejects *)
(* this installation.                                                       *)
AdmittedAreWelcomed ==
    [][ failures' = failures /\ ~session'.ejected =>
          (ours \cap Seated(session')) \subseteq sent' ]_vars

(* No change of the roster goes unobserved: the operation that sees a       *)
(* commit merged reports SignersChanged, unless it ends in an error because *)
(* a publish of it fails, or because the frame that drove it is a post that *)
(* does not decode: either costs the report of a commit merged before it.   *)
(* add_signer polls as well and drops the events; it does so only after an  *)
(* accepted add, hence in Working, where "a poll can merge a commit, whose  *)
(* events this method would drop" does not apply.                           *)
RosterChangesObserved ==
    [][ known /\ session'.leaf # session.leaf /\ failures' = failures /\ ~garbled' => observed' ]_vars

(* A vote on a signer's seat ends, though no frame ever arrives, unless a   *)
(* failed publish left the conversation without its alarm: wakeup polls and *)
(* re-arms until de-mls has nothing left to do.                             *)
RoundsEnd ==
    \A x \in Signers :
        (\E r \in session.rounds : r.who = x)
          ~> (lapsed \/ \A r \in session.rounds : r.who # x)

(* An ejected installation is no longer a member: own_signer is documented  *)
(* to be "`None` once a removal commit has ejected us", and can_send and    *)
(* handle_payload rely on it.                                               *)
EjectedIsNotMember == session.ejected => ~IsMember
=============================================================================
