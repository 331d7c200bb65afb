---------------------------- MODULE AccountSync ----------------------------
(***************************************************************************)
(* One account's log, authored by several devices that share its key       *)
(* (account/account/src/account.rs), kept by a provider and read by        *)
(* resolvers (resolver.rs).  A publish reads the log and posts the         *)
(* extended one in a second request; other devices may post in between, a  *)
(* fetch may reach a stale replica, an answer may be lost, and the         *)
(* provider may lose the log.                                              *)
(***************************************************************************)
EXTENDS AccountLog

CONSTANTS
  Devices,        \* installations holding the account key
  Resolvers,      \* readers of the account
  Batches,        \* edits a device may publish: sequences of entries, the empty one included
  ForeignEntries, \* entries other implementations append
  NoLog,          \* never published
  Unsigned,       \* an answer the account's key did not sign
  MaxEntries,     \* bound: entries in a log
  MaxLosses       \* bound: times the provider loses the log

VARIABLES
  stored,   \* the provider's current log
  served,   \* what its replicas may still answer with
  posting,  \* the log each device has signed and is posting
  doubled,  \* history: logs in which another implementation endorsed a live key again
  held,     \* AccountResolver.known of each resolver
  forked,   \* resolvers whose resolve has returned Forked
  losses    \* times the provider lost the log

vars == <<stored, served, posting, doubled, held, forked, losses>>

Entry == ForeignEntries \cup UNION {{b[i] : i \in 1 .. Len(b)} : b \in Batches}
Logs == Seq(Entry)

ASSUME AccountAssumption ==
  /\ NoLog \notin Logs /\ NoLog # Unsigned
  /\ Batches \subseteq Logs
  /\ \A e \in Entry : /\ e.op = "remove" => e.index \in Nat
                      /\ IsKeyAdd(e) => e = Add(e.ctx, Key(e.data.key))
  /\ MaxEntries \in Nat /\ MaxLosses \in Nat

TypeOK ==
  /\ stored \in Logs \cup {NoLog}
  /\ served \subseteq Logs \cup {NoLog}
  /\ posting \in [Devices -> Logs \cup {NoLog}]
  /\ doubled \subseteq Logs
  /\ held \in [Resolvers -> Logs \cup {NoLog}]
  /\ forked \subseteq Resolvers
  /\ losses \in 0 .. MaxLosses

Init ==
  /\ stored = NoLog /\ served = {NoLog}
  /\ posting = [d \in Devices |-> NoLog]
  /\ doubled = {}
  /\ held = [r \in Resolvers |-> NoLog]
  /\ forked = {} /\ losses = 0

----------------------------------------------------------------------------
\* Mutant: unreadable entries are carried into the draft.
DraftAcceptsOpaque(fetched) == fetched # NoLog => Decodes(fetched)

\* Account::draft on a fetched log: an empty draft if there is none, an error
\* if the log cannot be verified or holds entries this build cannot read.
DraftAccepts(fetched) == fetched # NoLog => Decodes(fetched) /\ ~FirstUnreadable(fetched)
Draft(fetched) == IF fetched = NoLog THEN <<>> ELSE fetched

\* The first half of AccountUpdate::publish: fetch, apply every entry, encode
\* and sign.  A refusal anywhere returns an error and changes nothing.  Only
\* pushed entries are checked: an update without any signs again what was
\* fetched, as it is.
BeginPublish(d, fetched, batch) ==
  LET log == Draft(fetched) \o batch
  IN  /\ posting[d] = NoLog
      /\ Len(log) <= MaxEntries
      /\ DraftAccepts(fetched)
      /\ PushAllAccepts(Draft(fetched), batch)
      /\ Encodes(log)
      /\ posting' = [posting EXCEPT ![d] = log]
      /\ UNCHANGED <<stored, served, doubled, held, forked, losses>>

\* The server's extension check, on payloads it cannot read.
ServerAccepts(log) == stored # NoLog => Extends(log, stored)

Store(log) == stored' = log /\ served' = served \cup {log}

\* provider.publish reaches the server, which stores the log.  Whether the answer
\* arrives (publish returns Ok) or is lost (Err), the update is over.
PublishStored(d) ==
  /\ posting[d] # NoLog /\ ServerAccepts(posting[d])
  /\ Store(posting[d])
  /\ posting' = [posting EXCEPT ![d] = NoLog]
  /\ UNCHANGED <<doubled, held, forked, losses>>

\* The server refuses, or the request never reaches it: publish returns Err.
PublishFails(d) ==
  /\ posting[d] # NoLog
  /\ posting' = [posting EXCEPT ![d] = NoLog]
  /\ UNCHANGED <<stored, served, doubled, held, forked, losses>>

\* Another implementation holding the account key appends an entry: one that
\* this build cannot read, or a key that is live already.
ForeignPublish(e) ==
  LET log == Append(Draft(stored), e)
  IN  /\ Len(log) <= MaxEntries /\ Decodes(log)
      /\ Store(log)
      /\ doubled' = IF EnsureSingleUseKeys(log) THEN doubled ELSE doubled \cup {log}
      /\ UNCHANGED <<posting, held, forked, losses>>

\* The provider loses the log, replicas included.
ServerLosesLog ==
  /\ stored # NoLog /\ losses < MaxLosses
  /\ stored' = NoLog /\ served' = {NoLog} /\ losses' = losses + 1
  /\ UNCHANGED <<posting, doubled, held, forked>>

----------------------------------------------------------------------------
\* SignedAccountLog::verify
Verifies(candidate) == candidate \notin {NoLog, Unsigned} /\ Decodes(candidate)

\* Mutant: a longer log is taken for a newer one.
UpdateIfLonger(record, candidate) ==
  IF Verifies(candidate) /\ (record = NoLog \/ Len(candidate) > Len(record))
  THEN candidate ELSE record

\* AccountRecord::new on first contact, AccountRecord::update afterwards.
Update(record, candidate) ==
  IF Verifies(candidate)
       /\ (record = NoLog \/ CompareLogFreshness(record, candidate) = "Newer")
  THEN candidate ELSE record

IsFork(record, candidate) ==
  Verifies(candidate) /\ record # NoLog /\ CompareLogFreshness(record, candidate) = "Diverged"

\* HttpAuthClient::validate_signer, on whatever the provider answers: a record is
\* made of this answer alone.
ValidateSigner(fetched, ctx, key) ==
  IF fetched = NoLog THEN "Invalid"
  ELSE IF ~Verifies(fetched) THEN "Err"
  ELSE IF key \in Ed25519KeysFor(fetched, ctx) THEN "Valid"
  ELSE IF key \in RevokedEd25519KeysFor(fetched, ctx) THEN "Revoked"
  ELSE "Invalid"

\* AccountResolver::resolve, on whatever the provider answers.
Resolve(r, candidate) ==
  /\ held' = [held EXCEPT ![r] = Update(@, candidate)]
  /\ forked' = IF IsFork(held[r], candidate) THEN forked \cup {r} ELSE forked
  /\ UNCHANGED <<stored, served, posting, doubled, losses>>

Next ==
  \/ \E d \in Devices :
       \/ \E fetched \in served, batch \in Batches : BeginPublish(d, fetched, batch)
       \/ PublishStored(d) \/ PublishFails(d)
  \/ \E e \in ForeignEntries : ForeignPublish(e)
  \/ \E r \in Resolvers, candidate \in served \cup {Unsigned} : Resolve(r, candidate)
  \/ ServerLosesLog

Spec == Init /\ [][Next]_vars

----------------------------------------------------------------------------
\* As long as the provider keeps the log, no resolver is told of a fork, and
\* any two hold logs one of which extends the other.
NoFork ==
  losses = 0 =>
    /\ forked = {}
    /\ \A r, q \in Resolvers :
         held[r] # NoLog /\ held[q] # NoLog =>
           Extends(held[r], held[q]) \/ Extends(held[q], held[r])

\* Everything the provider has served is a prefix of what it stores.
ServedIsHistory ==
  /\ \A log \in served \ {NoLog} : stored # NoLog /\ Extends(stored, log)
  /\ losses = 0 => \A r \in Resolvers : held[r] \in served

\* A resolver's record only ever grows at the end, through stale replicas,
\* second histories and lost logs ("the held record survives it").
HeldOnlyExtends ==
  [][\A r \in Resolvers : held[r] # NoLog => held'[r] # NoLog /\ Extends(held'[r], held[r])]_vars

\* Nothing is signed with an entry that this build cannot interpret, nor with a
\* key live twice ("always valid"), but for one case: from_log takes such a log
\* when another implementation wrote it, and an update without entries signs it
\* again as it is.
DraftsAreSound ==
  \A d \in Devices :
    posting[d] # NoLog =>
      ~FirstUnreadable(posting[d]) /\ (EnsureSingleUseKeys(posting[d]) \/ posting[d] \in doubled)

\* Position j endorses the same key as position i, both counted from 0.
SameKey(log, i, j) ==
  IsKeyAdd(log[i + 1]) /\ IsKeyAdd(log[j + 1]) /\ log[i + 1].data.key = log[j + 1].data.key

\* One revoke is enough to withdraw a key: however often its endorsement was
\* published again after an answer was lost, or by two devices at once, what is
\* live of it after a Remove of one of its entries was added later.  Excepted
\* are logs in which another implementation has endorsed a live key again.
RevokingIsEnough ==
  \A log \in served \ {NoLog} :
    (\A other \in doubled : ~Extends(log, other)) =>
      \A n \in 1 .. Len(log), i \in LiveIndexed(log) :
        log[n].op = "remove" /\ SameKey(log, log[n].index, i) => i >= n

Contexts == {e.ctx : e \in {x \in Entry : x.op = "add"}}

\* While the provider keeps the log, a signer that validate_signer has once
\* called revoked is not called otherwise by a later answer that is not older
\* than the one it was judged by, unless the account has endorsed the key again
\* since.  The auth service judges every answer afresh and remembers none, so an
\* answer that is older may undo the revocation.
RevocationSticks ==
  \A first, second \in served \ {NoLog}, ctx \in Contexts, key \in ValidKeys :
    Len(first) <= Len(second) /\ ValidateSigner(first, ctx, key) = "Revoked" =>
      \/ ValidateSigner(second, ctx, key) \in {"Revoked", "Err"}
      \/ \E i \in Len(first) + 1 .. Len(second) : second[i] = Add(ctx, Key(key))

\* "an owner must not publish a payload no consumer will accept": whatever a
\* device posts can be decoded again.
PublishedIsReadable == \A d \in Devices : posting[d] # NoLog => Decodes(posting[d])
=============================================================================
