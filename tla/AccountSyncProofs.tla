------------------------- MODULE AccountSyncProofs -------------------------
(***************************************************************************)
(* Proofs about AccountSync, for any devices, resolvers, edits and bounds. *)
(* The pass of FilterMaskRemoved is reasoned about by taking the least     *)
(* position where a claim fails; no proof looks inside PayloadBytes.       *)
(***************************************************************************)
EXTENDS AccountSync, SequenceTheorems, WellFoundedInduction, TLAPS

\* A log extends itself.
LEMMA ExtendsReflexive == \A log \in Logs : Extends(log, log)
  BY DEF Extends, Logs

\* A log that extends an extension extends the original.
LEMMA ExtendsTransitive ==
  ASSUME NEW a \in Logs, NEW b \in Logs, NEW c \in Logs, Extends(a, b), Extends(b, c)
  PROVE  Extends(a, c)
<1>1. Len(a) \in Nat /\ Len(b) \in Nat /\ Len(c) \in Nat
  BY DEF Logs
<1> QED BY <1>1 DEF Extends

\* Two prefixes of one log: one extends the other.
LEMMA PrefixesCompare ==
  ASSUME NEW a \in Logs, NEW b \in Logs, NEW c \in Logs, Extends(a, b), Extends(a, c)
  PROVE  Extends(b, c) \/ Extends(c, b)
<1>1. Len(a) \in Nat /\ Len(b) \in Nat /\ Len(c) \in Nat
  BY DEF Logs
<1> QED BY <1>1 DEF Extends

\* What is appended to a log extends it.
LEMMA AppendExtends ==
  ASSUME NEW a \in Logs, NEW e \in Entry
  PROVE  Append(a, e) \in Logs /\ Extends(Append(a, e), a)
<1>1. Append(a, e) \in Seq(Entry) /\ Len(Append(a, e)) = Len(a) + 1
  BY AppendProperties DEF Logs
<1>2. \A i \in 1 .. Len(a) : Append(a, e)[i] = a[i]
  BY AppendProperties DEF Logs
<1>3. Len(a) \in Nat
  BY DEF Logs
<1> QED BY <1>1, <1>2, <1>3 DEF Extends, Logs

\* Two comparable logs are never called diverged.
LEMMA ComparableNotDiverged ==
  ASSUME NEW a \in Logs, NEW b \in Logs, Extends(a, b) \/ Extends(b, a)
  PROVE  CompareLogFreshness(a, b) # "Diverged"
<1>1. CASE Extends(a, b)
  BY <1>1 DEF CompareLogFreshness
<1>2. CASE Extends(b, a)
  <2>1. Len(a) \in Nat /\ Len(b) \in Nat
    BY DEF Logs
  <2>2. CASE Len(b) > Len(a)
    BY <1>2, <2>2 DEF CompareLogFreshness
  <2>3. CASE Len(b) = Len(a)
    BY <1>2, <2>1, <2>3 DEF CompareLogFreshness, Extends
  <2> QED BY <1>2, <2>1, <2>2, <2>3 DEF Extends
<1> QED BY <1>1, <1>2

----------------------------------------------------------------------------
\* A draft is a log, and applying a batch to it gives a log.
LEMMA DraftIsLog ==
  ASSUME NEW fetched \in Logs \cup {NoLog}
  PROVE  Draft(fetched) \in Logs
  BY EmptySeq DEF Draft, Logs

\* Every step keeps the types.
LEMMA TypeStep == TypeOK /\ [Next]_vars => TypeOK'
<1> SUFFICES ASSUME TypeOK, [Next]_vars PROVE TypeOK'
  OBVIOUS
<1> USE AccountAssumption DEF TypeOK
<1>1. ASSUME NEW d \in Devices, NEW fetched \in served, NEW batch \in Batches,
             BeginPublish(d, fetched, batch)
      PROVE  TypeOK'
  <2>1. Draft(fetched) \o batch \in Logs
    BY DraftIsLog, ConcatProperties DEF Logs
  <2> QED BY <1>1, <2>1 DEF BeginPublish
<1>2. ASSUME NEW d \in Devices,
             PublishStored(d) \/ PublishFails(d)
      PROVE  TypeOK'
  BY <1>2 DEF PublishStored, PublishFails, Store
<1>3. ASSUME NEW e \in ForeignEntries, ForeignPublish(e)
      PROVE  TypeOK'
  <2>1. Append(Draft(stored), e) \in Logs
    BY DraftIsLog, AppendExtends DEF Entry
  <2> QED BY <1>3, <2>1 DEF ForeignPublish, Store
<1>4. ASSUME NEW r \in Resolvers, NEW candidate \in served \cup {Unsigned},
             Resolve(r, candidate)
      PROVE  TypeOK'
  BY <1>4 DEF Resolve, Update, Verifies
<1>5. CASE ServerLosesLog
  BY <1>5 DEF ServerLosesLog
<1>6. CASE UNCHANGED vars
  BY <1>6 DEF vars
<1> QED BY <1>1, <1>2, <1>3, <1>4, <1>5, <1>6 DEF Next

\* Every reachable state is well typed.
THEOREM TypeCorrect == Spec => []TypeOK
<1>1. Init => TypeOK
  BY AccountAssumption DEF Init, TypeOK
<1> QED BY <1>1, TypeStep, PTL DEF Spec

----------------------------------------------------------------------------
\* Every step keeps the inductive invariant: what the provider serves and (while
\* nothing is lost) what resolvers hold are prefixes of what it stores.
LEMMA HistoryStep == TypeOK /\ ServedIsHistory /\ [Next]_vars => ServedIsHistory'
<1> SUFFICES ASSUME TypeOK, ServedIsHistory, [Next]_vars PROVE ServedIsHistory'
  OBVIOUS
<1> USE AccountAssumption DEF TypeOK, ServedIsHistory
<1>0. ASSUME NEW log \in Logs, ServerAccepts(log), Store(log)
      PROVE  \A old \in served' \ {NoLog} : stored' # NoLog /\ Extends(stored', old)
  <2> SUFFICES ASSUME NEW old \in served' \ {NoLog} PROVE Extends(log, old)
    BY <1>0 DEF Store
  <2>1. CASE old = log
    BY <2>1, ExtendsReflexive
  <2>2. CASE old \in served
    <3>1. stored \in Logs /\ Extends(stored, old) /\ Extends(log, stored)
      BY <1>0, <2>2 DEF ServerAccepts
    <3> QED BY <2>2, <3>1, ExtendsTransitive
  <2> QED BY <1>0, <2>1, <2>2 DEF Store
<1>1. ASSUME NEW d \in Devices, NEW fetched \in served, NEW batch \in Batches,
             BeginPublish(d, fetched, batch)
      PROVE  ServedIsHistory'
  BY <1>1 DEF BeginPublish
<1>2. ASSUME NEW d \in Devices, PublishFails(d)
      PROVE  ServedIsHistory'
  BY <1>2 DEF PublishFails
<1>3. ASSUME NEW d \in Devices, PublishStored(d)
      PROVE  ServedIsHistory'
  <2>1. /\ posting[d] \in Logs /\ ServerAccepts(posting[d]) /\ Store(posting[d])
        /\ posting[d] # NoLog
        /\ held' = held /\ losses' = losses
    BY <1>3 DEF PublishStored
  <2>2. \A old \in served' \ {NoLog} : stored' # NoLog /\ Extends(stored', old)
    BY <1>0, <2>1
  <2> QED BY <2>1, <2>2 DEF Store
<1>4. ASSUME NEW e \in ForeignEntries, ForeignPublish(e)
      PROVE  ServedIsHistory'
  <2> DEFINE log == Append(Draft(stored), e)
  <2>1. log \in Logs /\ Extends(log, Draft(stored))
    BY DraftIsLog, AppendExtends DEF Entry
  <2>2. ServerAccepts(log) /\ Store(log) /\ UNCHANGED <<held, losses>>
    BY <1>4, <2>1 DEF ForeignPublish, ServerAccepts, Draft
  <2>3. \A old \in served' \ {NoLog} : stored' # NoLog /\ Extends(stored', old)
    BY <1>0, <2>1, <2>2
  <2> QED BY <2>2, <2>3 DEF Store
<1>5. ASSUME NEW r \in Resolvers, NEW candidate \in served \cup {Unsigned},
             Resolve(r, candidate)
      PROVE  ServedIsHistory'
  BY <1>5 DEF Resolve, Update, Verifies
<1>6. CASE ServerLosesLog
  BY <1>6 DEF ServerLosesLog
<1>7. CASE UNCHANGED vars
  BY <1>7 DEF vars
<1> QED BY <1>1, <1>2, <1>3, <1>4, <1>5, <1>6, <1>7 DEF Next

\* What the provider has served is always a prefix of what it stores.
THEOREM HistoryCorrect == Spec => []ServedIsHistory
<1>1. Init => ServedIsHistory
  BY DEF Init, ServedIsHistory
<1> QED BY <1>1, TypeCorrect, HistoryStep, PTL DEF Spec

\* While the provider keeps the log, resolve never answers Forked and any two
\* resolvers hold comparable logs.
THEOREM ForkFree == Spec => []NoFork
<1> DEFINE Quiet == losses = 0 => forked = {}
<1>1. Init => Quiet
  BY DEF Init
<1>2. TypeOK /\ ServedIsHistory /\ Quiet /\ [Next]_vars => Quiet'
  <2> SUFFICES ASSUME TypeOK, ServedIsHistory, Quiet, [Next]_vars PROVE Quiet'
    OBVIOUS
  <2>1. ASSUME NEW r \in Resolvers, NEW candidate \in served \cup {Unsigned},
               Resolve(r, candidate), losses = 0
        PROVE  ~IsFork(held[r], candidate)
    <3> SUFFICES ASSUME Verifies(candidate), held[r] # NoLog
                 PROVE  CompareLogFreshness(held[r], candidate) # "Diverged"
      BY DEF IsFork
    <3>1. candidate \in Logs /\ candidate \in served \ {NoLog}
      BY DEF Verifies, TypeOK
    <3>2. held[r] \in Logs /\ held[r] \in served \ {NoLog}
      BY <2>1 DEF TypeOK, ServedIsHistory
    <3>3. stored \in Logs /\ Extends(stored, candidate) /\ Extends(stored, held[r])
      BY <3>1, <3>2 DEF TypeOK, ServedIsHistory
    <3> QED BY <3>1, <3>2, <3>3, PrefixesCompare, ComparableNotDiverged
  <2>2. ASSUME NEW r \in Resolvers, NEW candidate \in served \cup {Unsigned},
               Resolve(r, candidate)
        PROVE  Quiet'
    BY <2>1, <2>2 DEF Resolve
  <2>3. CASE ServerLosesLog
    BY <2>3 DEF ServerLosesLog, TypeOK
  <2>4. CASE UNCHANGED <<forked, losses>>
    BY <2>4
  <2>5. \/ UNCHANGED <<forked, losses>> \/ ServerLosesLog
        \/ \E r \in Resolvers, candidate \in served \cup {Unsigned} : Resolve(r, candidate)
    BY DEF Next, vars, BeginPublish, PublishStored, PublishFails,
           ForeignPublish
  <2> QED BY <2>2, <2>3, <2>4, <2>5
<1>3. TypeOK /\ ServedIsHistory /\ Quiet => NoFork
  <2> SUFFICES ASSUME TypeOK, ServedIsHistory, Quiet, losses = 0,
                      NEW r \in Resolvers, NEW q \in Resolvers,
                      held[r] # NoLog, held[q] # NoLog
               PROVE  Extends(held[r], held[q]) \/ Extends(held[q], held[r])
    BY DEF NoFork
  <2>1. held[r] \in Logs /\ held[q] \in Logs
    BY DEF TypeOK
  <2>2. stored \in Logs /\ Extends(stored, held[r]) /\ Extends(stored, held[q])
    BY DEF ServedIsHistory, TypeOK
  <2> QED BY <2>1, <2>2, PrefixesCompare
<1> QED BY <1>1, <1>2, <1>3, TypeCorrect, HistoryCorrect, PTL DEF Spec

----------------------------------------------------------------------------
\* AccountRecord::update never gives up an entry it holds, whatever it is
\* offered and whatever the provider has lost.
THEOREM RecordGrows == Spec => HeldOnlyExtends
<1>1. TypeOK /\ [Next]_vars =>
        [\A r \in Resolvers : held[r] # NoLog => held'[r] # NoLog /\ Extends(held'[r], held[r])]_vars
  <2> SUFFICES ASSUME TypeOK, [Next]_vars, NEW r \in Resolvers, held[r] # NoLog
               PROVE  held'[r] # NoLog /\ Extends(held'[r], held[r])
    OBVIOUS
  <2>1. held[r] \in Logs
    BY DEF TypeOK
  <2>2. CASE held'[r] = held[r]
    BY <2>1, <2>2, ExtendsReflexive
  <2>3. ASSUME NEW q \in Resolvers, NEW candidate \in served \cup {Unsigned},
               Resolve(q, candidate), held'[r] # held[r]
        PROVE  held'[r] # NoLog /\ Extends(held'[r], held[r])
    <3>1. held'[r] = candidate /\ Verifies(candidate)
          /\ CompareLogFreshness(held[r], candidate) = "Newer"
      BY <2>3 DEF Resolve, Update, TypeOK
    <3> QED BY <3>1 DEF CompareLogFreshness, Verifies
  <2>4. \/ held' = held
        \/ \E q \in Resolvers, candidate \in served \cup {Unsigned} : Resolve(q, candidate)
    BY DEF Next, vars, BeginPublish, PublishStored, PublishFails,
           ForeignPublish, ServerLosesLog
  <2> QED BY <2>2, <2>3, <2>4
<1> QED BY <1>1, TypeCorrect, PTL DEF Spec, HeldOnlyExtends

----------------------------------------------------------------------------
(* What filter_mask_removed finds, entry by entry.                         *)

\* What the pass holds after entry n, from what m holds after the entry before.
Pass(entries, m, n) ==
  IF n = 0 THEN [fault |-> FALSE, removed |-> {}]
  ELSE IF m[n - 1].fault \/ entries[n].op # "remove" THEN m[n - 1]
  ELSE IF RemoveFaults(entries, n, m[n - 1].removed) THEN [m[n - 1] EXCEPT !.fault = TRUE]
  ELSE [m[n - 1] EXCEPT !.removed = @ \cup {entries[n].index}]

\* m is the pass over the first k entries.
IsPass(entries, m, k) == m = [n \in 0 .. k |-> Pass(entries, m, n)]

\* A set of naturals with a member has a least one.
LEMMA LeastOf ==
  ASSUME NEW S \in SUBSET Nat, S # {}
  PROVE  \E x \in S : \A y \in S : x <= y
<1> DEFINE under == {pair \in Nat \X Nat : pair[1] < pair[2]}
<1>1. IsWellFoundedOn(under, Nat)
  BY NatLessThanWellFounded DEF OpToRel
<1> HIDE DEF under
<1>2. PICK x \in S : \A y \in S : ~(<<y, x>> \in under)
  BY <1>1, WFMin
<1>3. \A y \in S : ~(y < x)
  BY <1>2 DEF under
<1> QED BY <1>2, <1>3

\* The pass looks no further back than the entry before.
LEMMA PassSame ==
  ASSUME NEW entries, NEW m, NEW g, NEW n, n = 0 \/ m[n - 1] = g[n - 1]
  PROVE  Pass(entries, m, n) = Pass(entries, g, n)
  BY DEF Pass

\* The pass over a log exists: it is built one entry at a time.
LEMMA PassExists ==
  ASSUME NEW entries, NEW len \in Nat
  PROVE  \E m : IsPass(entries, m, len)
<1> DEFINE without == {k \in Nat : ~\E m : IsPass(entries, m, k)}
<1> SUFFICES ASSUME without # {} PROVE FALSE
  OBVIOUS
<1>1. PICK k \in without : \A j \in without : k <= j
  BY LeastOf
<1>2. k \in Nat /\ ~\E m : IsPass(entries, m, k)
  OBVIOUS
<1>3. CASE k = 0
  <2> DEFINE m == [n \in 0 .. 0 |-> Pass(entries, <<>>, n)]
  <2>1. \A n \in 0 .. 0 : Pass(entries, m, n) = Pass(entries, <<>>, n)
    BY PassSame
  <2>2. m = [n \in 0 .. 0 |-> Pass(entries, m, n)]
    BY <2>1
  <2> QED BY <1>2, <1>3, <2>2 DEF IsPass
<1>4. CASE k # 0
  <2>1. k - 1 \in Nat /\ k - 1 \notin without
    BY <1>1, <1>4
  <2>2. PICK g : IsPass(entries, g, k - 1)
    BY <2>1
  <2> DEFINE m == [n \in 0 .. k |-> IF n < k THEN g[n] ELSE Pass(entries, g, k)]
  <2>3. \A n \in 0 .. k : n = 0 \/ m[n - 1] = g[n - 1]
    BY <1>2
  <2>4. \A n \in 0 .. k : Pass(entries, m, n) = Pass(entries, g, n)
    BY <2>3, PassSame
  <2>5. \A n \in 0 .. k : n < k => g[n] = Pass(entries, g, n)
    BY <1>2, <2>2 DEF IsPass
  <2>6. \A n \in 0 .. k : m[n] = Pass(entries, m, n)
    BY <1>2, <2>4, <2>5
  <2>7. m = [n \in 0 .. k |-> Pass(entries, m, n)]
    BY <2>6
  <2> QED BY <1>2, <2>7 DEF IsPass
<1> QED BY <1>3, <1>4

\* FilterMaskRemoved is where the pass ends.
LEMMA MaskIsPass ==
  ASSUME NEW entries \in Logs
  PROVE  \E m : IsPass(entries, m, Len(entries)) /\ FilterMaskRemoved(entries) = m[Len(entries)]
<1> DEFINE mask == CHOOSE m : m = [n \in 0 .. Len(entries) |->
             IF n = 0 THEN [fault |-> FALSE, removed |-> {}]
             ELSE IF m[n - 1].fault \/ entries[n].op # "remove" THEN m[n - 1]
             ELSE IF RemoveFaults(entries, n, m[n - 1].removed) THEN [m[n - 1] EXCEPT !.fault = TRUE]
             ELSE [m[n - 1] EXCEPT !.removed = @ \cup {entries[n].index}]]
<1>1. FilterMaskRemoved(entries) = mask[Len(entries)]
  BY DEF FilterMaskRemoved
<1>2. mask = CHOOSE m : IsPass(entries, m, Len(entries))
  BY DEF IsPass, Pass
<1> HIDE DEF mask
<1>3. \E m : IsPass(entries, m, Len(entries))
  BY PassExists DEF Logs
<1>4. IsPass(entries, mask, Len(entries))
  BY <1>2, <1>3
<1> QED BY <1>1, <1>4

\* What the pass has removed lies before where it stands, and neither that nor a
\* fault is ever given up.
LEMMA PassGrows ==
  ASSUME NEW entries \in Logs, NEW m, IsPass(entries, m, Len(entries))
  PROVE  \A n \in 0 .. Len(entries) :
           /\ m[n] \in [fault : BOOLEAN, removed : SUBSET (0 .. n - 1)]
           /\ \A k \in 0 .. n : m[k].removed \subseteq m[n].removed /\ (m[k].fault => m[n].fault)
<1> DEFINE sound(n) == /\ m[n] \in [fault : BOOLEAN, removed : SUBSET (0 .. n - 1)]
                       /\ \A k \in 0 .. n : m[k].removed \subseteq m[n].removed /\ (m[k].fault => m[n].fault)
           fails == {n \in 0 .. Len(entries) : ~sound(n)}
<1> SUFFICES ASSUME fails # {} PROVE FALSE
  OBVIOUS
<1>1. Len(entries) \in Nat /\ \A i \in 1 .. Len(entries) : entries[i] \in Entry
  BY DEF Logs
<1>2. PICK n \in fails : \A j \in fails : n <= j
  <2>1. fails \in SUBSET Nat
    BY <1>1
  <2> HIDE DEF fails
  <2> QED BY <2>1, LeastOf
<1>3. n \in 0 .. Len(entries) /\ ~sound(n) /\ n \in Nat
  BY <1>1
<1>4. m[n] = Pass(entries, m, n)
  BY <1>3 DEF IsPass
<1>5. CASE n = 0
  <2>1. m[n] = [fault |-> FALSE, removed |-> {}]
    BY <1>4, <1>5 DEF Pass
  <2>2. \A k \in 0 .. n : k = n
    BY <1>5
  <2> QED BY <1>3, <2>1, <2>2
<1>6. CASE n # 0
  <2>1. n - 1 \in 0 .. Len(entries) /\ n - 1 \notin fails /\ n \in 1 .. Len(entries)
    BY <1>1, <1>2, <1>3, <1>6
  <2>2. sound(n - 1)
    BY <2>1
  <2> DEFINE old == m[n - 1]
  <2>3. old \in [fault : BOOLEAN, removed : SUBSET (0 .. n - 1)]
    <3>1. old \in [fault : BOOLEAN, removed : SUBSET (0 .. (n - 1) - 1)]
      BY <2>2
    <3>2. 0 .. (n - 1) - 1 \subseteq 0 .. n - 1
      BY <1>3
    <3> QED BY <3>1, <3>2
  <2>4. CASE m[n] = old \/ m[n] = [old EXCEPT !.fault = TRUE]
    <3>1. /\ m[n] \in [fault : BOOLEAN, removed : SUBSET (0 .. n - 1)]
          /\ m[n].removed = old.removed /\ (old.fault => m[n].fault)
      BY <2>3, <2>4
    <3>2. \A k \in 0 .. n : k = n \/ k \in 0 .. n - 1
      BY <1>3
    <3> QED BY <1>3, <2>2, <3>1, <3>2
  <2>5. CASE /\ m[n] = [old EXCEPT !.removed = @ \cup {entries[n].index}]
             /\ entries[n].op = "remove" /\ ~RemoveFaults(entries, n, old.removed)
    <3>1. entries[n].index \in Nat /\ ~(entries[n].index >= n - 1)
      BY <1>1, <2>1, <2>5, AccountAssumption DEF RemoveFaults
    <3>2. entries[n].index \in 0 .. n - 1
      BY <1>3, <3>1
    <3>3. /\ m[n] \in [fault : BOOLEAN, removed : SUBSET (0 .. n - 1)]
          /\ old.removed \subseteq m[n].removed /\ (old.fault => m[n].fault)
      BY <2>3, <2>5, <3>2
    <3>4. \A k \in 0 .. n : k = n \/ k \in 0 .. n - 1
      BY <1>3
    <3> QED BY <1>3, <2>2, <3>3, <3>4
  <2> QED BY <1>4, <1>6, <2>4, <2>5 DEF Pass
<1> QED BY <1>5, <1>6

\* The pass over a longer log begins as the pass over the shorter one.
LEMMA PassAgrees ==
  ASSUME NEW short \in Logs, NEW long \in Logs, Extends(long, short),
         NEW m, IsPass(short, m, Len(short)), NEW w, IsPass(long, w, Len(long))
  PROVE  \A n \in 0 .. Len(short) : w[n] = m[n]
<1> DEFINE fails == {n \in 0 .. Len(short) : w[n] # m[n]}
<1> SUFFICES ASSUME fails # {} PROVE FALSE
  OBVIOUS
<1>1. /\ Len(short) \in Nat /\ Len(long) \in Nat /\ Len(short) <= Len(long)
      /\ \A i \in 1 .. Len(short) : long[i] = short[i] /\ short[i] \in Entry
  BY DEF Logs, Extends
<1>2. PICK n \in fails : \A j \in fails : n <= j
  <2>1. fails \in SUBSET Nat
    BY <1>1
  <2> HIDE DEF fails
  <2> QED BY <2>1, LeastOf
<1>3. n \in 0 .. Len(short) /\ n \in 0 .. Len(long) /\ n \in Nat /\ w[n] # m[n]
  BY <1>1
<1>4. m[n] = Pass(short, m, n) /\ w[n] = Pass(long, w, n)
  BY SMTT(30), <1>3 DEF IsPass
<1>5. CASE n = 0
  BY <1>3, <1>4, <1>5 DEF Pass
<1>6. CASE n # 0
  <2>1. n - 1 \in 0 .. Len(short) /\ n - 1 \notin fails /\ n \in 1 .. Len(short)
    BY <1>1, <1>2, <1>3, <1>6
  <2>2. w[n - 1] = m[n - 1] /\ long[n] = short[n]
    BY <1>1, <2>1
  <2>3. ASSUME short[n].op = "remove", NEW removed
        PROVE  RemoveFaults(long, n, removed) = RemoveFaults(short, n, removed)
    <3> DEFINE target == short[n].index
    <3>1. target \in Nat /\ long[n].index = target
      BY <1>1, <2>1, <2>2, <2>3, AccountAssumption
    <3>2. CASE target >= n - 1
      BY <3>1, <3>2 DEF RemoveFaults
    <3>3. CASE ~(target >= n - 1)
      <4>1. target + 1 \in 1 .. Len(short)
        BY <1>1, <1>3, <3>1, <3>3
      <4>2. long[target + 1] = short[target + 1]
        BY <1>1, <4>1
      <4> QED BY <3>1, <4>2 DEF RemoveFaults
    <3> QED BY <3>2, <3>3
  <2>4. Pass(long, w, n) = Pass(short, m, n)
    BY <1>6, <2>2, <2>3 DEF Pass
  <2> QED BY <1>3, <1>4, <2>4
<1> QED BY <1>5, <1>6

\* A log removes entries of its own, and a log that extends it has removed them
\* too.
LEMMA MaskExtends ==
  ASSUME NEW short \in Logs, NEW long \in Logs, Extends(long, short)
  PROVE  /\ FilterMaskRemoved(short).removed \subseteq 0 .. Len(short) - 1
         /\ FilterMaskRemoved(short).removed \subseteq FilterMaskRemoved(long).removed
<1>1. PICK m : IsPass(short, m, Len(short)) /\ FilterMaskRemoved(short) = m[Len(short)]
  BY MaskIsPass
<1>2. PICK w : IsPass(long, w, Len(long)) /\ FilterMaskRemoved(long) = w[Len(long)]
  BY MaskIsPass
<1>3. /\ Len(short) \in 0 .. Len(short) /\ Len(short) \in 0 .. Len(long)
      /\ Len(long) \in 0 .. Len(long)
  BY DEF Logs, Extends
<1>4. w[Len(short)] = m[Len(short)]
  BY <1>1, <1>2, <1>3, PassAgrees
<1>5. w[Len(short)].removed \subseteq w[Len(long)].removed
  BY <1>2, <1>3, PassGrows
<1>6. m[Len(short)] \in [fault : BOOLEAN, removed : SUBSET (0 .. Len(short) - 1)]
  BY <1>1, <1>3, PassGrows
<1> QED BY <1>1, <1>2, <1>4, <1>5, <1>6

\* A key that is live under a context in a log has an entry there that is live.
LEMMA EndorsedBy ==
  ASSUME NEW log, NEW ctx, NEW key
  PROVE  key \in Ed25519KeysFor(log, ctx) <=>
           \E i \in 0 .. Len(log) - 1 :
             /\ i \notin FilterMaskRemoved(log).removed
             /\ IsKeyAdd(log[i + 1]) /\ log[i + 1].ctx = ctx /\ log[i + 1].data.key = key
<1>1. ASSUME NEW i
      PROVE  i \in EntriesFor(log, ctx) /\ IsKeyAdd(log[i + 1]) <=>
               /\ i \in 0 .. Len(log) - 1 /\ i \notin FilterMaskRemoved(log).removed
               /\ IsKeyAdd(log[i + 1]) /\ log[i + 1].ctx = ctx
  BY DEF EntriesFor, LiveIndexed, IsKeyAdd
<1>2. key \in Ed25519KeysFor(log, ctx) <=>
        \E i : i \in EntriesFor(log, ctx) /\ IsKeyAdd(log[i + 1]) /\ log[i + 1].data.key = key
  BY DEF Ed25519KeysFor
<1> QED BY <1>1, <1>2

\* What a longer log can say of a key the shorter one has revoked.
LEMMA RevokedOrEndorsedAgain ==
  ASSUME NEW short \in Logs, NEW long \in Logs, Extends(long, short), NEW ctx, NEW key,
         key \in RevokedEd25519KeysFor(short, ctx)
  PROVE  \/ key \in RevokedEd25519KeysFor(long, ctx) /\ key \notin Ed25519KeysFor(long, ctx)
         \/ \E i \in Len(short) + 1 .. Len(long) : long[i] = Add(ctx, Key(key))
<1> DEFINE gone == FilterMaskRemoved(short).removed
           removed == FilterMaskRemoved(long).removed
<1>1. /\ Len(short) \in Nat /\ Len(long) \in Nat /\ Len(short) <= Len(long)
      /\ \A i \in 1 .. Len(short) : long[i] = short[i]
      /\ \A i \in 1 .. Len(long) : long[i] \in Entry
  BY DEF Logs, Extends
<1>2. gone \subseteq 0 .. Len(short) - 1 /\ gone \subseteq removed
  BY MaskExtends
<1>3. key \notin Ed25519KeysFor(short, ctx)
  BY DEF RevokedEd25519KeysFor
<1>4. PICK j \in gone : IsKeyAdd(short[j + 1]) /\ short[j + 1].ctx = ctx /\ short[j + 1].data.key = key
  BY DEF RevokedEd25519KeysFor
<1> HIDE DEF gone, removed
<1>5. CASE key \in Ed25519KeysFor(long, ctx)
  <2>1. PICK i \in 0 .. Len(long) - 1 :
          i \notin removed /\ IsKeyAdd(long[i + 1]) /\ long[i + 1].ctx = ctx /\ long[i + 1].data.key = key
    BY <1>5, EndorsedBy DEF removed
  <2>2. i + 1 \in 1 .. Len(long)
    BY <1>1
  <2>3. ~(i + 1 <= Len(short))
    <3> SUFFICES ASSUME i + 1 <= Len(short) PROVE FALSE
      OBVIOUS
    <3>1. i \in 0 .. Len(short) - 1 /\ i + 1 \in 1 .. Len(short)
      BY <1>1
    <3>2. long[i + 1] = short[i + 1] /\ i \notin gone
      BY <1>1, <1>2, <2>1, <3>1
    <3> QED BY <1>3, <2>1, <3>1, <3>2, EndorsedBy DEF gone
  <2>4. i + 1 \in Len(short) + 1 .. Len(long)
    BY <1>1, <2>2, <2>3
  <2>5. long[i + 1] = Add(ctx, Key(key))
    BY <1>1, <2>1, <2>2, AccountAssumption
  <2> QED BY <2>4, <2>5
<1>6. CASE key \notin Ed25519KeysFor(long, ctx)
  <2>1. j \in removed /\ j + 1 \in 1 .. Len(short)
    BY <1>1, <1>2
  <2>2. IsKeyAdd(long[j + 1]) /\ long[j + 1].ctx = ctx /\ long[j + 1].data.key = key
    BY <1>1, <1>4, <2>1
  <2>3. key \in RevokedEd25519KeysFor(long, ctx)
    BY <1>6, <2>1, <2>2 DEF RevokedEd25519KeysFor, removed
  <2> QED BY <1>6, <2>3
<1> QED BY <1>5, <1>6

\* What validate_signer has called revoked it calls revoked on every answer that
\* is not older, while the provider keeps the log, unless the account endorses
\* the key again.
THEOREM RevokedStays == Spec => []RevocationSticks
<1>1. TypeOK /\ ServedIsHistory => RevocationSticks
  <2> SUFFICES ASSUME TypeOK, ServedIsHistory,
                      NEW first \in served \ {NoLog}, NEW second \in served \ {NoLog},
                      NEW ctx \in Contexts, NEW key \in ValidKeys,
                      Len(first) <= Len(second), ValidateSigner(first, ctx, key) = "Revoked",
                      ValidateSigner(second, ctx, key) # "Err"
               PROVE  \/ ValidateSigner(second, ctx, key) = "Revoked"
                      \/ \E i \in Len(first) + 1 .. Len(second) : second[i] = Add(ctx, Key(key))
    BY DEF RevocationSticks
  <2>1. first \in Logs /\ second \in Logs /\ stored \in Logs
        /\ Extends(stored, first) /\ Extends(stored, second)
    BY DEF TypeOK, ServedIsHistory
  <2>2. Extends(second, first)
    <3>1. Len(first) \in Nat /\ Len(second) \in Nat
      BY <2>1 DEF Logs
    <3>2. CASE Extends(first, second)
      BY <3>1, <3>2 DEF Extends
    <3> QED BY <2>1, <3>2, PrefixesCompare
  <2>3. key \in RevokedEd25519KeysFor(first, ctx)
    BY DEF ValidateSigner
  <2>4. CASE key \in RevokedEd25519KeysFor(second, ctx) /\ key \notin Ed25519KeysFor(second, ctx)
    BY <2>4 DEF ValidateSigner
  <2> QED BY <2>1, <2>2, <2>3, <2>4, RevokedOrEndorsedAgain
<1> QED BY <1>1, TypeCorrect, HistoryCorrect, PTL

----------------------------------------------------------------------------
(* What a draft checks when entries are pushed onto it.                    *)

\* The first n entries of a log.
First(log, n) == SubSeq(log, 1, n)

\* The pass over a log found no fault, and no key was live twice after any of its
\* entries, unless another implementation appended that one.
Checked(log) ==
  /\ ~FilterMaskRemoved(log).fault
  /\ \A n \in 0 .. Len(log) : EnsureSingleUseKeys(First(log, n)) \/ First(log, n) \in doubled

\* Every log in the system was checked.
LogsChecked ==
  /\ stored # NoLog => Checked(stored)
  /\ \A log \in served \ {NoLog} : Checked(log)
  /\ \A d \in Devices : posting[d] # NoLog => Checked(posting[d])

\* The beginning of a log is a log that it extends.
LEMMA FirstIsLog ==
  ASSUME NEW log \in Logs, NEW n \in 0 .. Len(log)
  PROVE  /\ First(log, n) \in Logs /\ Len(First(log, n)) = n /\ Extends(log, First(log, n))
         /\ \A i \in 1 .. n : First(log, n)[i] = log[i]
<1>1. log \in Seq(Entry) /\ Len(log) \in Nat
  BY DEF Logs
<1>2. First(log, n) \in Seq(Entry) /\ Len(First(log, n)) = n
  BY <1>1 DEF First
<1>3. \A i \in 1 .. n : First(log, n)[i] = log[i]
  BY <1>1 DEF First
<1> QED BY <1>1, <1>2, <1>3 DEF Logs, Extends

\* An empty log has nothing to check.
LEMMA EmptyChecked == <<>> \in Logs /\ Checked(<<>>)
<1>1. <<>> \in Logs /\ Len(<<>>) = 0
  BY EmptySeq DEF Logs
<1>2. ~FilterMaskRemoved(<<>>).fault
  <2>1. PICK m : IsPass(<<>>, m, Len(<<>>)) /\ FilterMaskRemoved(<<>>) = m[Len(<<>>)]
    BY <1>1, MaskIsPass
  <2>2. m[0] = Pass(<<>>, m, 0)
    BY <1>1, <2>1 DEF IsPass
  <2> QED BY <1>1, <2>1, <2>2 DEF Pass
<1>3. \A n \in 0 .. Len(<<>>) : Len(First(<<>>, n)) = 0
  BY <1>1, FirstIsLog
<1>4. ASSUME NEW log, Len(log) = 0 PROVE EnsureSingleUseKeys(log)
  <2>1. LiveIndexed(log) = {}
    BY <1>4 DEF LiveIndexed
  <2> QED BY <2>1 DEF EnsureSingleUseKeys
<1> QED BY <1>1, <1>2, <1>3, <1>4 DEF Checked

\* A Remove in a log without fault aims at an entry that comes before it and was
\* not yet removed.
LEMMA RemoveTarget ==
  ASSUME NEW log \in Logs, ~FilterMaskRemoved(log).fault,
         NEW n \in 1 .. Len(log), log[n].op = "remove"
  PROVE  /\ log[n].index \in Nat /\ log[n].index < n - 1
         /\ log[n].index \notin FilterMaskRemoved(First(log, n - 1)).removed
         /\ log[n].index \in FilterMaskRemoved(log).removed
<1> DEFINE short == First(log, n - 1)
<1>1. Len(log) \in Nat /\ n \in Nat /\ n - 1 \in 0 .. Len(log) /\ log[n] \in Entry
  BY DEF Logs
<1>2. short \in Logs /\ Len(short) = n - 1 /\ Extends(log, short)
  BY <1>1, FirstIsLog
<1>3. PICK w : IsPass(log, w, Len(log)) /\ FilterMaskRemoved(log) = w[Len(log)]
  BY MaskIsPass
<1>4. PICK m : IsPass(short, m, Len(short)) /\ FilterMaskRemoved(short) = m[Len(short)]
  BY <1>2, MaskIsPass
<1> HIDE DEF short
<1>5. w[n - 1] = m[n - 1]
  <2>1. \A k \in 0 .. Len(short) : w[k] = m[k]
    BY <1>2, <1>3, <1>4, PassAgrees
  <2> QED BY <1>1, <1>2, <2>1
<1>6. /\ w[n - 1] \in [fault : BOOLEAN, removed : SUBSET (0 .. (n - 1) - 1)]
      /\ w[n] \in [fault : BOOLEAN, removed : SUBSET (0 .. n - 1)]
      /\ w[n].removed \subseteq w[Len(log)].removed /\ ~w[n].fault
  BY <1>1, <1>3, PassGrows
<1>7. w[n] = Pass(log, w, n)
  BY <1>1, <1>3 DEF IsPass
<1>8. CASE w[n - 1].fault
  <2>1. w[n] = w[n - 1]
    BY <1>1, <1>7, <1>8 DEF Pass
  <2> QED BY <1>6, <1>8, <2>1
<1>9. CASE ~w[n - 1].fault
  <2>1. ~RemoveFaults(log, n, w[n - 1].removed)
    <3> SUFFICES ASSUME RemoveFaults(log, n, w[n - 1].removed) PROVE FALSE
      OBVIOUS
    <3>1. w[n] = [w[n - 1] EXCEPT !.fault = TRUE]
      BY <1>1, <1>7, <1>9 DEF Pass
    <3> QED BY <1>6, <3>1
  <2>2. w[n] = [w[n - 1] EXCEPT !.removed = @ \cup {log[n].index}]
    BY <1>1, <1>7, <1>9, <2>1 DEF Pass
  <2>3. log[n].index \in Nat
    BY <1>1, AccountAssumption
  <2>4. ~(log[n].index >= n - 1) /\ log[n].index \notin w[n - 1].removed
    BY <2>1 DEF RemoveFaults
  <2>5. log[n].index \in w[n].removed
    BY <1>6, <2>2
  <2> QED BY <1>1, <1>2, <1>3, <1>4, <1>5, <1>6, <2>3, <2>4, <2>5 DEF short
<1> QED BY <1>8, <1>9

\* A log that was checked stays so: other implementations only append more.
LEMMA CheckedKept ==
  ASSUME NEW log, Checked(log), doubled \subseteq doubled'
  PROVE  /\ ~FilterMaskRemoved(log).fault
         /\ \A n \in 0 .. Len(log) : EnsureSingleUseKeys(First(log, n)) \/ First(log, n) \in doubled'
  BY DEF Checked

\* The beginning of a concatenation lies in the first part or reaches into the
\* second.
LEMMA FirstOfConcat ==
  ASSUME NEW log \in Logs, NEW batch \in Logs, NEW n \in 0 .. Len(log \o batch)
  PROVE  \/ n \in 0 .. Len(log) /\ First(log \o batch, n) = First(log, n)
         \/ \E k \in 1 .. Len(batch) :
              First(log \o batch, n) = Append(log \o SubSeq(batch, 1, k - 1), batch[k])
<1>1. log \in Seq(Entry) /\ batch \in Seq(Entry) /\ Len(log) \in Nat /\ Len(batch) \in Nat
      /\ Len(log \o batch) = Len(log) + Len(batch)
  BY DEF Logs
<1>2. CASE n <= Len(log)
  BY <1>1, <1>2 DEF First
<1>3. CASE n > Len(log)
  <2> DEFINE k == n - Len(log)
  <2>1. k \in 1 .. Len(batch)
    BY <1>1, <1>3
  <2>2. First(log \o batch, n) = Append(log \o SubSeq(batch, 1, k - 1), batch[k])
    BY SMTT(30), <1>1, <1>3 DEF First
  <2> HIDE DEF k
  <2> QED BY Zenon, <2>1, <2>2
<1>4. n <= Len(log) \/ n > Len(log)
  BY <1>1
<1> QED BY <1>2, <1>3, <1>4

\* Pushing a batch entry by entry onto a log that was checked gives one.
LEMMA PushedChecked ==
  ASSUME NEW log \in Logs, Checked(log), NEW batch \in Logs, PushAllAccepts(log, batch)
  PROVE  Checked(log \o batch)
<1>1. log \in Seq(Entry) /\ batch \in Seq(Entry) /\ Len(batch) \in Nat
  BY DEF Logs
<1>2. ~FilterMaskRemoved(log \o batch).fault
  <2>1. CASE Len(batch) = 0
    <3>1. log \o batch = log
      BY <1>1, <2>1
    <3> QED BY <3>1 DEF Checked
  <2>2. CASE Len(batch) # 0
    <3> DEFINE n == Len(batch)
    <3>1. n \in 1 .. n
      BY <1>1, <2>2
    <3>2. Append(log \o SubSeq(batch, 1, n - 1), batch[n]) = log \o batch
      BY SMTT(30), <1>1, <3>1
    <3>3. PushAccepts(log \o SubSeq(batch, 1, n - 1), batch[n])
      BY <3>1 DEF PushAllAccepts
    <3> QED BY <3>2, <3>3 DEF PushAccepts, FromEntries
  <2> QED BY <2>1, <2>2
<1>3. ASSUME NEW n \in 0 .. Len(log \o batch)
      PROVE  EnsureSingleUseKeys(First(log \o batch, n)) \/ First(log \o batch, n) \in doubled
  <2>1. CASE n \in 0 .. Len(log) /\ First(log \o batch, n) = First(log, n)
    BY <2>1 DEF Checked
  <2>2. ASSUME NEW k \in 1 .. Len(batch),
               First(log \o batch, n) = Append(log \o SubSeq(batch, 1, k - 1), batch[k])
        PROVE  EnsureSingleUseKeys(First(log \o batch, n))
    <3>1. PushAccepts(log \o SubSeq(batch, 1, k - 1), batch[k])
      BY DEF PushAllAccepts
    <3> QED BY <2>2, <3>1 DEF PushAccepts
  <2> QED BY <2>1, <2>2, FirstOfConcat
<1> QED BY <1>2, <1>3 DEF Checked

\* Every step keeps every log checked.
LEMMA CheckedStep == TypeOK /\ LogsChecked /\ [Next]_vars => LogsChecked'
<1> SUFFICES ASSUME TypeOK, LogsChecked, [Next]_vars PROVE LogsChecked'
  OBVIOUS
<1>0. ASSUME NEW log, Checked(log), doubled \subseteq doubled' PROVE Checked(log)'
  BY <1>0, CheckedKept DEF Checked
<1>1. ASSUME NEW d \in Devices, NEW fetched \in served, NEW batch \in Batches,
             BeginPublish(d, fetched, batch)
      PROVE  LogsChecked'
  <2> DEFINE log == Draft(fetched) \o batch
  <2>1. Draft(fetched) \in Logs /\ batch \in Logs
    BY DraftIsLog, AccountAssumption DEF TypeOK
  <2>2. Checked(Draft(fetched))
    BY EmptyChecked DEF Draft, LogsChecked
  <2>3. Checked(log)
    BY <1>1, <2>1, <2>2, PushedChecked DEF BeginPublish
  <2>4. posting' = [posting EXCEPT ![d] = log] /\ UNCHANGED <<stored, served, doubled>>
    BY <1>1 DEF BeginPublish
  <2> HIDE DEF log
  <2>5. \A c \in Devices : posting'[c] = IF c = d THEN log ELSE posting[c]
    BY <2>4 DEF TypeOK
  <2>6. \A old : Checked(old) => Checked(old)'
    BY <1>0, <2>4
  <2> QED BY <2>3, <2>4, <2>5, <2>6 DEF LogsChecked
<1>2. ASSUME NEW d \in Devices, PublishStored(d) \/ PublishFails(d)
      PROVE  LogsChecked'
  <2>1. /\ \A c \in Devices : posting'[c] \in {posting[c], NoLog}
        /\ \/ UNCHANGED <<stored, served>>
           \/ Store(posting[d]) /\ posting[d] # NoLog
        /\ doubled' = doubled
    BY <1>2 DEF PublishStored, PublishFails, TypeOK
  <2>2. \A old : Checked(old) => Checked(old)'
    BY <1>0, <2>1
  <2> QED BY <2>1, <2>2 DEF LogsChecked, Store
<1>3. ASSUME NEW e \in ForeignEntries, ForeignPublish(e)
      PROVE  LogsChecked'
  <2>0. PICK draft : draft = Draft(stored)
    OBVIOUS
  <2> DEFINE log == Append(draft, e)
  <2>1. draft \in Logs /\ <<e>> \in Logs /\ Checked(draft) /\ log = draft \o <<e>>
    BY <2>0, DraftIsLog, EmptyChecked DEF TypeOK, Draft, LogsChecked, Logs, Entry
  <2>2. ~FilterMaskRemoved(log).fault
    BY <1>3, <2>0 DEF ForeignPublish, Decodes, FromEntries
  <2>3. ASSUME NEW n \in 0 .. Len(log)
        PROVE  EnsureSingleUseKeys(First(log, n)) \/ First(log, n) \in doubled'
    <3>1. doubled' = IF EnsureSingleUseKeys(log) THEN doubled ELSE doubled \cup {log}
      BY <1>3, <2>0 DEF ForeignPublish
    <3>2. CASE n \in 0 .. Len(draft) /\ First(log, n) = First(draft, n)
      BY <2>1, <3>1, <3>2 DEF Checked
    <3>3. ASSUME NEW k \in 1 .. Len(<<e>>),
                 First(log, n) = Append(draft \o SubSeq(<<e>>, 1, k - 1), <<e>>[k])
          PROVE  First(log, n) = log
      <4>1. k = 1
        OBVIOUS
      <4>2. SubSeq(<<e>>, 1, k - 1) = <<>> /\ draft \o <<>> = draft
        BY <2>1, <4>1 DEF Logs
      <4>3. <<e>>[k] = e
        BY <4>1
      <4> QED BY <3>3, <4>2, <4>3
    <3> QED BY ZenonT(30), <2>1, <3>1, <3>2, <3>3, FirstOfConcat
  <2>4. Checked(log)'
    BY <2>2, <2>3 DEF Checked
  <2>5. Store(log) /\ doubled \subseteq doubled' /\ posting' = posting
    <3>1. doubled' \in {doubled, doubled \cup {log}}
      BY <1>3, <2>0 DEF ForeignPublish
    <3> QED BY <1>3, <2>0, <3>1 DEF ForeignPublish
  <2>6. \A old : Checked(old) => Checked(old)'
    BY <1>0, <2>5
  <2> HIDE DEF log
  <2> QED BY <2>4, <2>5, <2>6 DEF LogsChecked, Store
<1>4. CASE ServerLosesLog
  <2>1. \A old : Checked(old) => Checked(old)'
    BY <1>0, <1>4 DEF ServerLosesLog
  <2> QED BY <1>4, <2>1 DEF ServerLosesLog, LogsChecked
<1>5. CASE UNCHANGED <<stored, served, posting, doubled>>
  <2>1. \A old : Checked(old) => Checked(old)'
    BY <1>0, <1>5
  <2> QED BY <1>5, <2>1 DEF LogsChecked
<1> QED BY <1>1, <1>2, <1>3, <1>4, <1>5 DEF Next, Resolve, vars

\* Every log in the system was checked, entry by entry.
THEOREM CheckedCorrect == Spec => []LogsChecked
<1>1. Init => LogsChecked
  BY DEF Init, LogsChecked
<1> QED BY <1>1, TypeCorrect, CheckedStep, PTL DEF Spec

\* One revoke withdraws a key: whatever was published again after a lost answer
\* or by two devices at once, push let no key be live twice when the Remove was
\* appended, so nothing of the key that came before it is left.
THEOREM RevokingWithdraws == Spec => []RevokingIsEnough
<1>1. TypeOK /\ LogsChecked => RevokingIsEnough
  <2> SUFFICES ASSUME TypeOK, LogsChecked, NEW log \in served \ {NoLog},
                      \A other \in doubled : ~Extends(log, other),
                      NEW n \in 1 .. Len(log), NEW i \in LiveIndexed(log),
                      log[n].op = "remove", SameKey(log, log[n].index, i)
               PROVE  i >= n
    BY DEF RevokingIsEnough
  <2> DEFINE t == log[n].index
             short == First(log, n - 1)
             gone == FilterMaskRemoved(short).removed
             removed == FilterMaskRemoved(log).removed
  <2>1. log \in Logs /\ Checked(log)
    BY DEF TypeOK, LogsChecked
  <2>2. Len(log) \in Nat /\ n \in Nat /\ n - 1 \in 0 .. Len(log)
    BY <2>1 DEF Logs
  <2>3. i \in 0 .. Len(log) - 1 /\ i \notin removed /\ log[i + 1].op # "remove"
    BY DEF LiveIndexed
  <2>4. t \in Nat /\ t < n - 1 /\ t \notin gone /\ t \in removed
    BY <2>1, RemoveTarget DEF Checked
  <2>5. /\ short \in Logs /\ Len(short) = n - 1 /\ Extends(log, short)
        /\ \A j \in 1 .. n - 1 : short[j] = log[j]
    BY <2>1, <2>2, FirstIsLog
  <2>6. gone \subseteq removed
    BY <2>1, <2>5, MaskExtends
  <2>7. EnsureSingleUseKeys(short)
    BY <2>1, <2>2, <2>5 DEF Checked
  <2>8. SameKey(log, t, i)
    OBVIOUS
  <2> HIDE DEF t, short, gone, removed
  <2>9. SUFFICES ASSUME i < n PROVE FALSE
    BY <2>2, <2>3
  <2>10. i \in 0 .. (n - 1) - 1 /\ t \in 0 .. (n - 1) - 1
    <3>1. i + 1 # n
      BY <2>3
    <3> QED BY <2>2, <2>3, <2>4, <2>9, <3>1
  <2>11. short[i + 1] = log[i + 1] /\ short[t + 1] = log[t + 1]
    BY SMTT(30), <2>2, <2>5, <2>10
  <2>12. i \in LiveIndexed(short) /\ t \in LiveIndexed(short)
    BY SMTT(30), <2>3, <2>4, <2>5, <2>6, <2>8, <2>10, <2>11 DEF LiveIndexed, gone, SameKey, IsKeyAdd
  <2>13. i = t
    BY <2>7, <2>8, <2>11, <2>12 DEF EnsureSingleUseKeys, SameKey
  <2> QED BY <2>3, <2>4, <2>13
<1> QED BY <1>1, TypeCorrect, CheckedCorrect, PTL

\* Readable parts make a readable whole.
LEMMA ReadableConcat ==
  ASSUME NEW log \in Logs, NEW batch \in Logs, ~FirstUnreadable(log),
         \A n \in 1 .. Len(batch) : ~FirstUnreadable(<<batch[n]>>)
  PROVE  ~FirstUnreadable(log \o batch)
<1> DEFINE Bad(e) == e.op = "unknown" \/ (e.op = "add" /\ e.data.kind = "unknown")
<1> HIDE DEF Bad
<1>1. \A s : FirstUnreadable(s) <=> \E i \in 1 .. Len(s) : Bad(s[i])
  BY DEF FirstUnreadable, Bad
<1>2. ASSUME NEW n \in 1 .. Len(batch) PROVE ~Bad(batch[n])
  <2> DEFINE one == <<batch[n]>>
  <2>1. 1 \in 1 .. Len(one) /\ one[1] = batch[n]
    OBVIOUS
  <2>2. ~FirstUnreadable(one)
    OBVIOUS
  <2> HIDE DEF one
  <2>3. ~Bad(one[1])
    BY <1>1, <2>1, <2>2
  <2> QED BY <2>1, <2>3
<1>3. ASSUME NEW i \in 1 .. Len(log \o batch) PROVE ~Bad((log \o batch)[i])
  <2>1. log \in Seq(Entry) /\ batch \in Seq(Entry)
    BY DEF Logs
  <2>2. Len(log) \in Nat /\ Len(batch) \in Nat /\ Len(log \o batch) = Len(log) + Len(batch)
    BY <2>1
  <2>3. CASE i <= Len(log)
    <3>1. i \in 1 .. Len(log) /\ (log \o batch)[i] = log[i]
      BY <2>1, <2>2, <2>3, ConcatProperties
    <3> QED BY <1>1, <3>1
  <2>4. CASE i > Len(log)
    <3>1. i - Len(log) \in 1 .. Len(batch) /\ (log \o batch)[i] = batch[i - Len(log)]
      BY <2>1, <2>2, <2>4, ConcatProperties
    <3> QED BY <1>2, <3>1
  <2> QED BY <2>2, <2>3, <2>4
<1> QED BY <1>1, <1>3

\* No device ever signs a log with an entry it cannot read, nor one with a key
\* live twice that another implementation has not published just so.
THEOREM SoundDrafts == Spec => []DraftsAreSound
<1> DEFINE Readable == \A d \in Devices : posting[d] # NoLog => ~FirstUnreadable(posting[d])
<1>1. Init => Readable
  BY DEF Init
<1>2. TypeOK /\ Readable /\ [Next]_vars => Readable'
  <2> SUFFICES ASSUME TypeOK, Readable, [Next]_vars PROVE Readable'
    OBVIOUS
  <2>1. ASSUME NEW d \in Devices, NEW fetched \in served, NEW batch \in Batches,
               BeginPublish(d, fetched, batch)
        PROVE  Readable'
    <3> DEFINE log == Draft(fetched) \o batch
    <3>1. Draft(fetched) \in Logs /\ batch \in Logs
      BY DraftIsLog, AccountAssumption DEF TypeOK
    <3>2. ~FirstUnreadable(Draft(fetched))
      <4>1. CASE fetched = NoLog
        <5>1. 1 .. Len(<<>>) = {}
          OBVIOUS
        <5> QED BY <4>1, <5>1 DEF Draft, FirstUnreadable
      <4>2. CASE fetched # NoLog
        BY <2>1, <4>2 DEF BeginPublish, DraftAccepts, Draft
      <4> QED BY <4>1, <4>2
    <3>3. \A n \in 1 .. Len(batch) : ~FirstUnreadable(<<batch[n]>>)
      BY <2>1 DEF BeginPublish, PushAllAccepts, PushAccepts
    <3>4. ~FirstUnreadable(log)
      BY <3>1, <3>2, <3>3, ReadableConcat
    <3>5. posting' = [posting EXCEPT ![d] = log]
      BY <2>1 DEF BeginPublish
    <3> HIDE DEF log
    <3>6. \A c \in Devices : posting'[c] = IF c = d THEN log ELSE posting[c]
      BY <3>5 DEF TypeOK
    <3> QED BY <3>4, <3>6
  <2>2. ASSUME NEW d \in Devices, posting' = [posting EXCEPT ![d] = NoLog]
        PROVE  Readable'
    BY <2>2 DEF TypeOK
  <2>3. CASE UNCHANGED posting
    BY <2>3
  <2>4. \/ UNCHANGED posting
        \/ \E d \in Devices : posting' = [posting EXCEPT ![d] = NoLog]
        \/ \E d \in Devices, fetched \in served, batch \in Batches :
             BeginPublish(d, fetched, batch)
    BY DEF Next, vars, PublishStored, PublishFails, ForeignPublish, Resolve, ServerLosesLog
  <2> QED BY <2>1, <2>2, <2>3, <2>4
<1>3. TypeOK /\ Readable /\ LogsChecked => DraftsAreSound
  <2> SUFFICES ASSUME TypeOK, Readable, LogsChecked, NEW d \in Devices, posting[d] # NoLog
               PROVE  /\ ~FirstUnreadable(posting[d])
                      /\ EnsureSingleUseKeys(posting[d]) \/ posting[d] \in doubled
    BY DEF DraftsAreSound
  <2>1. PICK log \in Logs : log = posting[d] /\ Checked(log)
    BY DEF TypeOK, LogsChecked
  <2>2. Len(log) \in 0 .. Len(log) /\ First(log, Len(log)) = log
    BY <2>1 DEF First, Logs
  <2>3. EnsureSingleUseKeys(log) \/ log \in doubled
    BY <2>1, <2>2 DEF Checked
  <2> QED BY <2>1, <2>3
<1> QED BY <1>1, <1>2, <1>3, TypeCorrect, CheckedCorrect, PTL DEF Spec
============================================================================
