----------------------------- MODULE ChatStore -----------------------------
(***************************************************************************)
(* What a store promises a client: the traits KvStore and KvTx,            *)
(* ConversationStore and IdentityStore (core/conversations/src/storage.rs, *)
(* storage/identity.rs), in the form of MemStore                           *)
(* (storage/in_memory_store.rs), which keeps every scope as a map and a    *)
(* transaction as a copy it takes back on commit.  A store that outlives   *)
(* its process may fall back to an earlier version, never to anything      *)
(* else.                                                                   *)
(***************************************************************************)
EXTENDS Integers, Sequences

CONSTANTS Namespaces, Instances, Keys, Values, Convos, Kinds, Installations,
          Users,    \* holders of a handle to the store
          Absent,   \* no value, no record
          Free      \* no transaction is open

VARIABLES
  versions,  \* the store now, and the versions a power cut may leave of it
  staged,    \* the copy the open transaction works on
  holder     \* whose it is, or Free: MemStore.tx_open

vars == <<versions, staged, holder>>

Scopes == Namespaces \X Instances
Empty == [s \in Scopes |-> [k \in Keys |-> Absent]]
Now == versions[Len(versions)]

\* A version is added; those before it may have become safe.
Add(now) ==
  versions' \in {SubSeq(Append(versions, now), n, Len(versions) + 1) : n \in 1 .. Len(versions)}

Init ==
  /\ versions = <<[kv |-> Empty, convos |-> [c \in Convos |-> Absent], installation |-> Absent]>>
  /\ staged = Empty /\ holder = Free

----------------------------------------------------------------------------
\* The transaction: only its holder sees what it has staged.
Begin(u) ==
  /\ holder = Free
  /\ holder' = u /\ staged' = Now.kv
  /\ UNCHANGED versions

StartsWith(key, prefix) ==
  Len(prefix) <= Len(key) /\ \A i \in 1 .. Len(prefix) : key[i] = prefix[i]

Get(kv, s, k) == kv[s][k]
ScanPrefix(kv, s, prefix) ==
  {<<k, kv[s][k]>> : k \in {k \in Keys : kv[s][k] # Absent /\ StartsWith(k, prefix)}}

Cleared(kv, s, doomed) ==
  [kv EXCEPT ![s] = [k \in Keys |-> IF k \in doomed THEN Absent ELSE @[k]]]

\* What one verb may make of a copy.
Edits(kv) ==
  {[kv EXCEPT ![s][k] = v] : s \in Scopes, k \in Keys, v \in Values \cup {Absent}}
    \cup {Cleared(kv, s, {k \in Keys : StartsWith(k, p)}) : s \in Scopes, p \in Keys}
    \cup {Cleared(kv, s, Keys) : s \in Scopes}
    \cup {[s \in Scopes |-> IF s[1] = ns THEN Empty[s] ELSE kv[s]] : ns \in Namespaces}

Verb ==
  /\ holder # Free /\ UNCHANGED holder
  /\ UNCHANGED versions
  /\ staged' \in Edits(staged)

Commit ==
  /\ holder # Free
  /\ holder' = Free
  /\ UNCHANGED staged
  /\ Add([Now EXCEPT !.kv = staged])

Drop ==
  /\ holder # Free
  /\ holder' = Free /\ staged' = Now.kv
  /\ UNCHANGED versions

\* save_conversation, remove_conversation, and the insert-only
\* save_installation.
Recorded(now) ==
  {[now EXCEPT !.convos[c] = kind] : c \in Convos, kind \in Kinds \cup {Absent}}
    \cup {[now EXCEPT !.installation = i] :
            i \in {i \in Installations : now.installation = Absent}}

Has(now, c) == now.convos[c] # Absent
Listed(now) == {<<c, now.convos[c]>> : c \in {c \in Convos : Has(now, c)}}

Record ==
  /\ holder = Free /\ UNCHANGED holder
  /\ UNCHANGED staged
  /\ \E now \in Recorded(Now) : Add(now)

\* Another schema in the same file is written: nothing of the store's changes.
Elsewhere ==
  /\ UNCHANGED <<staged, holder>>
  /\ Add(Now) \/ versions' = <<Now>>

PowerCut ==
  /\ holder' = Free /\ staged' = Now'.kv
  /\ versions' \in {SubSeq(versions, 1, n) : n \in 1 .. Len(versions)}

Next == Verb \/ Commit \/ Drop \/ Record \/ Elsewhere \/ PowerCut \/ \E u \in Users : Begin(u)

Spec == Init /\ [][Next]_vars
============================================================================
