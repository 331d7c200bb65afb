----------------------------- MODULE AccountLog -----------------------------
(***************************************************************************)
(* The account log (account/account-log/src): a sequence of entries that   *)
(* endorse keys and texts or tombstone earlier entries, its validity, what *)
(* it endorses, how it is authored through a draft, and its encoding as    *)
(* far as sizes go.  Positions are counted from 0, as in the code.         *)
(***************************************************************************)
EXTENDS Integers, Sequences, FiniteSets

CONSTANTS
  ValidKeys  \* keys that are canonically encoded and not small-order

\* Sizes on the wire, in bytes (codec.rs); a context is 11 bytes long.
MaxPayloadBytes == 131072
DomainBytes == 17
HeaderBytes == 3
ContextBytes == 11
LenModulus == 65536  \* the body length is written as a u16

\* AccountEntry and EntryData.  A text is known by its length.
Add(ctx, data) == [op |-> "add", ctx |-> ctx, data |-> data]
Remove(index) == [op |-> "remove", index |-> index]
Key(k) == [kind |-> "key", key |-> k]
Text(len) == [kind |-> "text", len |-> len]
Opaque == [op |-> "unknown"]

IsKeyAdd(e) == e.op = "add" /\ e.data.kind = "key"
IsTextAdd(e) == e.op = "add" /\ e.data.kind = "text"

----------------------------------------------------------------------------
\* Why the Remove at entries[n] is refused, given what is removed before it.
RemoveFaults(entries, n, removed) ==
  LET target == entries[n].index
  IN  target >= n - 1 \/ target \in removed \/ entries[target + 1].op = "remove"

\* filter_mask_removed: one pass, stopping at the first fault.
FilterMaskRemoved(entries) ==
  LET mask[n \in 0 .. Len(entries)] ==
        IF n = 0 THEN [fault |-> FALSE, removed |-> {}]
        ELSE IF mask[n - 1].fault \/ entries[n].op # "remove" THEN mask[n - 1]
        ELSE IF RemoveFaults(entries, n, mask[n - 1].removed)
             THEN [mask[n - 1] EXCEPT !.fault = TRUE]
        ELSE [mask[n - 1] EXCEPT !.removed = @ \cup {entries[n].index}]
  IN  mask[Len(entries)]

\* ensure_valid_types
EnsureValidTypes(entries) ==
  \A i \in 1 .. Len(entries) : IsKeyAdd(entries[i]) => entries[i].data.key \in ValidKeys

\* AccountLog::from_entries accepts.
FromEntries(entries) == ~FilterMaskRemoved(entries).fault /\ EnsureValidTypes(entries)

\* live_indexed, as the set of positions.
LiveIndexed(log) ==
  LET removed == FilterMaskRemoved(log).removed
  IN  {i \in 0 .. Len(log) - 1 : i \notin removed /\ log[i + 1].op # "remove"}

EntriesFor(log, ctx) == {i \in LiveIndexed(log) : log[i + 1].op = "add" /\ log[i + 1].ctx = ctx}

Ed25519KeysFor(log, ctx) ==
  {log[i + 1].data.key : i \in {j \in EntriesFor(log, ctx) : IsKeyAdd(log[j + 1])}}

\* Mutant: only what the last entry has removed.
RevokedByLast(log, ctx) ==
  IF log # <<>> /\ log[Len(log)].op = "remove" /\ IsKeyAdd(log[log[Len(log)].index + 1])
  THEN {log[log[Len(log)].index + 1].data.key} \ Ed25519KeysFor(log, ctx) ELSE {}

RevokedEd25519KeysFor(log, ctx) ==
  {log[i + 1].data.key :
     i \in {j \in FilterMaskRemoved(log).removed : IsKeyAdd(log[j + 1]) /\ log[j + 1].ctx = ctx}}
  \ Ed25519KeysFor(log, ctx)

\* Some entry of the whole history cannot be interpreted by this build.
FirstUnreadable(log) ==
  \E i \in 1 .. Len(log) :
    log[i].op = "unknown" \/ (log[i].op = "add" /\ log[i].data.kind = "unknown")

\* ensure_single_use_keys accepts: no key is live under two entries.
EnsureSingleUseKeys(log) ==
  \A i, j \in LiveIndexed(log) :
    IsKeyAdd(log[i + 1]) /\ IsKeyAdd(log[j + 1])
      /\ log[i + 1].data.key = log[j + 1].data.key => i = j

----------------------------------------------------------------------------
\* Mutant: the same key may be endorsed again while it is live.
PushAcceptsTwice(log, e) == ~FirstUnreadable(<<e>>) /\ FromEntries(Append(log, e))

\* AccountLogDraft::push accepts e onto log.
PushAccepts(log, e) ==
  /\ ~FirstUnreadable(<<e>>)
  /\ FromEntries(Append(log, e))
  /\ EnsureSingleUseKeys(Append(log, e))

\* AccountUpdate::publish pushes its entries one by one and stops at the first
\* that is refused.
PushAllAccepts(log, batch) ==
  \A n \in 1 .. Len(batch) : PushAccepts(log \o SubSeq(batch, 1, n - 1), batch[n])

----------------------------------------------------------------------------
\* encode_add and encode_entries, by the length of an entry's body.
BodyBytes(e) ==
  IF IsKeyAdd(e) THEN 1 + ContextBytes + 1 + 32
  ELSE IF IsTextAdd(e) THEN 1 + ContextBytes + 1 + e.data.len
  ELSE 4

PayloadBytes(entries) ==
  LET sum[n \in 0 .. Len(entries)] ==
        IF n = 0 THEN DomainBytes ELSE sum[n - 1] + HeaderBytes + BodyBytes(entries[n])
  IN  sum[Len(entries)]

\* check_size, which is all that AccountLog::encode refuses.
Encodes(log) == PayloadBytes(log) <= MaxPayloadBytes

\* decode_entry reads back the u16 it finds.  A body written with a truncated
\* length leaves text where the next header should be, whose bytes are no
\* opcodes, so the whole payload is refused.
Decodes(log) ==
  /\ \A i \in 1 .. Len(log) : BodyBytes(log[i]) % LenModulus = BodyBytes(log[i])
  /\ FromEntries(log)

----------------------------------------------------------------------------
\* compare_log_freshness, on logs that both decode: there a byte prefix is an
\* entry prefix.
Extends(longer, shorter) ==
  /\ Len(shorter) <= Len(longer)
  /\ \A i \in 1 .. Len(shorter) : longer[i] = shorter[i]

\* Mutant: an older log is taken for another history.
FreshnessWithoutBehind(existing, candidate) ==
  IF candidate = existing THEN "Identical"
  ELSE IF Extends(candidate, existing) THEN "Newer" ELSE "Diverged"

CompareLogFreshness(existing, candidate) ==
  IF candidate = existing THEN "Identical"
  ELSE IF Extends(candidate, existing) /\ Len(candidate) > Len(existing) THEN "Newer"
  ELSE IF Extends(existing, candidate) THEN "Behind"
  ELSE "Diverged"
=============================================================================
