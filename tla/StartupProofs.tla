--------------------------- MODULE StartupProofs ---------------------------
(***************************************************************************)
(* Proofs about Startup, for any processes, aliases, plans and retries and *)
(* any number of crashes, lost answers, revocations and lost logs.         *)
(***************************************************************************)
EXTENDS Startup, TLAPS

\* Most leaves are first-order reasoning; the others are arithmetic.
USE ZenonT(2), SMT

\* Where a session is when its start has come to: the vault, its account, its
\* key, the identity it runs with.
InVault == {"account", "openAccount", "writeAccount", "name", "key", "endorse", "openKey", "writeKey"}
HasKey == {"endorse", "openKey", "writeKey", "mint", "save", "validate", "subscribe", "register",
           "await", "running"}
HasAccount == HasKey \cup {"openAccount", "writeAccount", "name", "key"}
Identified == {"validate", "subscribe", "register", "await", "running"}
Places == {"idle", "load"} \cup InVault \cup HasKey

Memory == [account : Nat \cup {Missing}, key : Nat \cup {Missing}, origin : {"Stored", "Minted"},
           package : Nat, attempt : Nat]
Entries == [key : Nat, package : Nat \ {0}]
Submissions == [key : Nat, package : Nat \ {0}, attempt : Nat]

\* What is shared by the sessions.
SharedOK ==
  /\ accountFile \in Nat \cup {Missing, Torn} /\ keyFile \in [Aliases -> Nat \cup {Missing, Torn}]
  /\ stored \in (Nat \X Nat) \cup {Missing, Torn} /\ endorsed \subseteq Nat \X Nat
  /\ registry \subseteq Entries /\ inflight \subseteq Submissions /\ settled \subseteq Entries
  /\ raced \in BOOLEAN /\ fresh \in Nat /\ faults \in Nat

TypeOK ==
  /\ DOMAIN way \subseteq Procs /\ way \in [DOMAIN way -> Ways]
  /\ wire \in [DOMAIN way -> {"Http", "Delivery"}]
  /\ pc \in [Procs -> Places] /\ mem \in [Procs -> Memory] /\ subscribed \subseteq Procs
  /\ packages \in Nat
  /\ SharedOK

\* What a session holds where: only one started in the vault is there, whoever
\* submits has an identity and a key package, and a key package is made after
\* subscribing and only once.
SessionOK(p) ==
  /\ pc[p] # "idle" => p \in DOMAIN way
  /\ pc[p] \in InVault => way[p] \in Aliases
  /\ pc[p] \in {"load", "save"} => way[p] = Database
  /\ pc[p] = "mint" => way[p] \notin Aliases
  /\ pc[p] \in HasAccount => mem[p].account \in Nat
  /\ pc[p] \in HasKey => mem[p].key \in Nat
  /\ mem[p].package # 0 => p \in subscribed /\ mem[p].package <= packages
  /\ pc[p] \in {"register", "await", "running"} => mem[p].package # 0
Sessions == \A p \in Procs : SessionOK(p)

\* The initial states have these types.
LEMMA InitType == Init => TypeOK /\ Sessions
<1> SUFFICES ASSUME Init PROVE TypeOK /\ Sessions
  OBVIOUS
<1>1. PICK plan \in Plans : way = plan.way /\ faults = plan.faults
  BY DEF Init
<1>2. PICK users \in SUBSET Procs : plan.way \in [users -> Ways]
  BY StartupAssumption
<1>3. DOMAIN way \subseteq Procs /\ way \in [DOMAIN way -> Ways] /\ faults \in Nat
  BY <1>1, <1>2, StartupAssumption
<1>4. Blank \in Memory /\ Blank.package = 0
  BY DEF Blank, Memory
<1>5. pc = [p \in Procs |-> "idle"] /\ mem = [p \in Procs |-> Blank]
  BY DEF Init
<1>6. TypeOK
  BY <1>3, <1>4 DEF Init, TypeOK, SharedOK, Places, InVault, HasKey
<1>7. Sessions
  BY <1>4, <1>5 DEF Sessions, SessionOK, InVault, HasKey, HasAccount
<1> QED BY <1>6, <1>7

\* A process that ends keeps nothing and leaves the others alone.
LEMMA ExitEffect ==
  ASSUME TypeOK, NEW p \in Procs, Exit(p)
  PROVE  /\ pc' \in [Procs -> Places] /\ mem' \in [Procs -> Memory] /\ subscribed' \subseteq Procs
         /\ pc'[p] = "idle" /\ mem'[p] = Blank /\ subscribed' = subscribed \ {p}
         /\ \A q \in Procs \ {p} : pc'[q] = pc[q] /\ mem'[q] = mem[q]
  BY DEF Exit, Goto, Hold, TypeOK, Blank, Memory, Places, InVault, HasKey

\* What a step needs to know of the sessions that are not its own.
LEMMA OthersKeep ==
  ASSUME TypeOK, Sessions, NEW p \in Procs, SessionOK(p)', UNCHANGED way,
         packages' \in Nat, packages <= packages',
         \A q \in Procs \ {p} : pc'[q] = pc[q] /\ mem'[q] = mem[q] /\ (q \in subscribed => q \in subscribed')
  PROVE  Sessions'
<1> SUFFICES ASSUME NEW q \in Procs \ {p} PROVE SessionOK(q)'
  BY DEF Sessions
<1>1. SessionOK(q)
  BY DEF Sessions
<1>2. mem[q].package \in Nat /\ packages \in Nat
  BY DEF TypeOK, Memory
<1> QED BY <1>1, <1>2 DEF SessionOK

\* A step that moves one process on, with new memory, and leaves it listening.
LEMMA MoveEffect ==
  ASSUME TypeOK, NEW p \in Procs, NEW place \in Places, NEW r \in Memory, Goto(p, place), Hold(p, r)
  PROVE  /\ pc' \in [Procs -> Places] /\ mem' \in [Procs -> Memory]
         /\ pc'[p] = place /\ mem'[p] = r
         /\ \A q \in Procs \ {p} : pc'[q] = pc[q] /\ mem'[q] = mem[q]
  BY DEF Goto, Hold, TypeOK

\* A step that moves one process on with the memory it has.
LEMMA GotoEffect ==
  ASSUME TypeOK, NEW p \in Procs, NEW place \in Places, Goto(p, place), UNCHANGED mem
  PROVE  /\ pc' \in [Procs -> Places] /\ mem' \in [Procs -> Memory]
         /\ pc'[p] = place /\ mem'[p] = mem[p]
         /\ \A q \in Procs \ {p} : pc'[q] = pc[q] /\ mem'[q] = mem[q]
  BY DEF Goto, TypeOK

\* A process that ends leaves types and sessions in order.
LEMMA ExitKeepsType ==
  ASSUME TypeOK, Sessions, NEW p \in Procs, Exit(p), UNCHANGED <<way, wire, packages>>, SharedOK'
  PROVE  TypeOK' /\ Sessions'
<1>1. TypeOK'
  BY ExitEffect DEF TypeOK
<1>2. SessionOK(p)'
  BY ExitEffect DEF SessionOK, Blank, InVault, HasKey, HasAccount
<1>3. Sessions'
  BY <1>2, ExitEffect, OthersKeep DEF TypeOK
<1> QED BY <1>1, <1>3

\* A process that moves on leaves types and sessions in order, if it has what
\* its new place asks for.
LEMMA MoveKeepsType ==
  ASSUME TypeOK, Sessions, NEW p \in Procs, NEW place \in Places, NEW r \in Memory,
         Goto(p, place), mem' = [mem EXCEPT ![p] = r],
         UNCHANGED <<way, wire>>, subscribed \subseteq subscribed', subscribed' \subseteq Procs,
         packages' \in Nat, packages <= packages', SharedOK', p \in DOMAIN way,
         place \in InVault => way[p] \in Aliases,
         place \in {"load", "save"} => way[p] = Database,
         place = "mint" => way[p] \notin Aliases,
         place \in HasAccount => r.account \in Nat,
         place \in HasKey => r.key \in Nat,
         r.package # 0 => p \in subscribed' /\ r.package <= packages',
         place \in {"register", "await", "running"} => r.package # 0
  PROVE  TypeOK' /\ Sessions'
<1>1. Hold(p, r)
  BY DEF Hold
<1>2. /\ pc' \in [Procs -> Places] /\ mem' \in [Procs -> Memory]
      /\ pc'[p] = place /\ mem'[p] = r
      /\ \A q \in Procs \ {p} : pc'[q] = pc[q] /\ mem'[q] = mem[q]
  BY <1>1, MoveEffect
<1>3. TypeOK'
  BY <1>2 DEF TypeOK
<1>4. SessionOK(p)'
  BY <1>2 DEF SessionOK
<1> QED BY <1>2, <1>3, <1>4, OthersKeep

\* The same for one that keeps its memory.
LEMMA GotoKeepsType ==
  ASSUME TypeOK, Sessions, NEW p \in Procs, NEW place \in Places, Goto(p, place),
         UNCHANGED <<way, wire, mem, subscribed, packages>>, SharedOK', p \in DOMAIN way,
         place \in InVault => way[p] \in Aliases,
         place \in {"load", "save"} => way[p] = Database,
         place = "mint" => way[p] \notin Aliases,
         place \in HasAccount => mem[p].account \in Nat,
         place \in HasKey => mem[p].key \in Nat,
         place \in {"register", "await", "running"} => mem[p].package # 0
  PROVE  TypeOK' /\ Sessions'
<1>1. mem[p] \in Memory /\ mem' = [mem EXCEPT ![p] = mem[p]]
  BY DEF TypeOK
<1>2. SessionOK(p)
  BY DEF Sessions
<1>3. mem[p].package # 0 => p \in subscribed' /\ mem[p].package <= packages'
  BY <1>2 DEF SessionOK
<1>4. subscribed' \subseteq Procs /\ packages' \in Nat /\ packages <= packages'
  BY DEF TypeOK
<1> QED BY <1>1, <1>3, <1>4, MoveKeepsType

\* Every step keeps the types and what sessions hold.
LEMMA TypeStep == TypeOK /\ Sessions /\ [Next]_vars => TypeOK' /\ Sessions'
<1> SUFFICES ASSUME TypeOK, Sessions, [Next]_vars PROVE TypeOK' /\ Sessions'
  OBVIOUS
<1> USE DEF setup, disk, server, contacts, At, InVault, HasKey, HasAccount, Places
<1>a. \A p \in Procs : SessionOK(p) /\ mem[p] \in Memory
  BY DEF Sessions, TypeOK
<1>c. \A p \in Procs : p \in DOMAIN way => way[p] \in Ways
  BY DEF TypeOK
<1>d. packages \in Nat /\ packages <= packages /\ subscribed \subseteq Procs /\ SharedOK
  BY DEF TypeOK
<1>e. ASSUME NEW p \in Procs, pc[p] # "idle"
      PROVE  /\ p \in DOMAIN way /\ mem[p].package \in Nat
             /\ mem[p].package # 0 => p \in subscribed /\ mem[p].package <= packages
  BY <1>a, <1>e DEF SessionOK, Memory
<1>1. ASSUME NEW p \in Procs, Start(p) PROVE TypeOK' /\ Sessions'
  <2> DEFINE minted == [account |-> fresh + 1, key |-> fresh + 2, origin |-> "Minted", package |-> 0,
                        attempt |-> 0]
  <2>1. minted \in Memory /\ minted.account \in Nat /\ minted.key \in Nat /\ minted.package = 0
    BY <1>d DEF Memory, SharedOK
  <2>2. SharedOK' /\ p \in DOMAIN way /\ UNCHANGED <<way, wire, subscribed, packages>>
    BY <1>1, <1>d DEF Start, Mint, SharedOK
  <2>3. CASE way[p] = Ephemeral
    <3>1. Goto(p, "mint") /\ mem' = [mem EXCEPT ![p] = minted]
      BY <1>1, <2>3, StartupAssumption DEF Start, Mint, Hold
    <3> HIDE DEF minted
    <3> QED BY <1>d, <2>1, <2>2, <2>3, <3>1, MoveKeepsType, StartupAssumption
  <2>4. CASE way[p] # Ephemeral
    <3>1. Goto(p, IF way[p] \in Aliases THEN "account" ELSE "load") /\ UNCHANGED mem
      BY <1>1, <1>c, <2>4 DEF Start, Ways
    <3> QED BY <1>c, <2>2, <2>4, <3>1, GotoKeepsType DEF Ways
  <2> QED BY <2>3, <2>4
<1>2. ASSUME NEW p \in Procs, ReadAccount(p) PROVE TypeOK' /\ Sessions'
  <2>1. CASE Exit(p) /\ UNCHANGED fresh
    BY <1>2, <1>d, <2>1, ExitKeepsType DEF ReadAccount, SharedOK
  <2>2. ASSUME NEW place \in {"openAccount", "key"}, NEW a \in Nat, Goto(p, place),
               Hold(p, [mem[p] EXCEPT !.account = a]), fresh' \in Nat, UNCHANGED subscribed
        PROVE  TypeOK' /\ Sessions'
    <3> DEFINE r == [mem[p] EXCEPT !.account = a]
    <3>1. r \in Memory /\ r.account \in Nat /\ r.package = mem[p].package /\ mem' = [mem EXCEPT ![p] = r]
      BY <1>a, <2>2 DEF Memory, Hold
    <3>2. SharedOK' /\ UNCHANGED <<way, wire, packages>> /\ pc[p] = "account" /\ way[p] \in Aliases
      BY <1>2, <1>a, <1>d, <2>2 DEF ReadAccount, SharedOK, SessionOK
    <3> HIDE DEF r
    <3> QED BY <1>d, <1>e, <2>2, <3>1, <3>2, MoveKeepsType
  <2> QED BY <1>2, <1>d, <2>1, <2>2 DEF ReadAccount, SharedOK
<1>3. ASSUME NEW p \in Procs, OpenAccount(p) PROVE TypeOK' /\ Sessions'
  <2>1. SharedOK'
    BY <1>3, <1>d DEF OpenAccount, SharedOK
  <2> QED BY <1>3, <1>a, <1>e, <2>1, GotoKeepsType DEF OpenAccount, SessionOK
<1>4. ASSUME NEW p \in Procs, WriteAccount(p) PROVE TypeOK' /\ Sessions'
  <2>1. mem[p].account \in Nat
    BY <1>4, <1>a DEF WriteAccount, SessionOK
  <2>2. SharedOK'
    BY <1>4, <1>d, <2>1 DEF WriteAccount, SharedOK
  <2> QED BY <1>4, <1>a, <1>e, <2>2, GotoKeepsType DEF WriteAccount, SessionOK
<1>5. ASSUME NEW p \in Procs, PublishName(p) PROVE TypeOK' /\ Sessions'
  <2>1. SharedOK'
    BY <1>5, <1>d DEF PublishName, SharedOK
  <2> QED BY <1>5, <1>a, <1>e, <2>1, GotoKeepsType DEF PublishName, SessionOK
<1>6. ASSUME NEW p \in Procs, ReadKey(p) PROVE TypeOK' /\ Sessions'
  <2>1. CASE Exit(p) /\ UNCHANGED fresh
    BY <1>6, <1>d, <2>1, ExitKeepsType DEF ReadKey, SharedOK
  <2>2. ASSUME NEW place \in {"endorse", "validate"}, NEW k \in Nat, Goto(p, place),
               Hold(p, [mem[p] EXCEPT !.key = k]), fresh' \in Nat, UNCHANGED subscribed
        PROVE  TypeOK' /\ Sessions'
    <3> DEFINE r == [mem[p] EXCEPT !.key = k]
    <3>1. /\ r \in Memory /\ r.account = mem[p].account /\ r.key \in Nat /\ r.package = mem[p].package
          /\ mem' = [mem EXCEPT ![p] = r]
      BY <1>a, <2>2 DEF Memory, Hold
    <3>2. /\ SharedOK' /\ UNCHANGED <<way, wire, packages>> /\ pc[p] = "key"
          /\ way[p] \in Aliases /\ mem[p].account \in Nat
      BY <1>6, <1>a, <1>d, <2>2 DEF ReadKey, SharedOK, SessionOK
    <3> HIDE DEF r
    <3> QED BY <1>d, <1>e, <2>2, <3>1, <3>2, MoveKeepsType
  <2>3. keyFile[way[p]] \in Nat \cup {Missing, Torn}
    BY <1>6, <1>a, <1>d DEF ReadKey, SharedOK, SessionOK
  <2>4. CASE keyFile[way[p]] = Missing
    <3>1. fresh' \in Nat /\ Goto(p, "endorse") /\ Hold(p, [mem[p] EXCEPT !.key = fresh']) /\ UNCHANGED subscribed
      BY <1>6, <1>d, <2>4, StartupAssumption DEF ReadKey, SharedOK
    <3> QED BY <2>2, <3>1
  <2>5. CASE keyFile[way[p]] \notin {Torn, Missing}
    BY <1>6, <1>d, <2>2, <2>3, <2>5 DEF ReadKey, SharedOK
  <2>6. CASE keyFile[way[p]] = Torn
    BY <1>6, <2>1, <2>6, StartupAssumption DEF ReadKey
  <2> QED BY <2>3, <2>4, <2>5, <2>6
<1>7. ASSUME NEW p \in Procs, Endorse(p) PROVE TypeOK' /\ Sessions'
  <2>1. mem[p].account \in Nat /\ mem[p].key \in Nat
    BY <1>7, <1>a DEF Endorse, EndorseAnswered, SessionOK
  <2>2. SharedOK'
    BY <1>7, <1>d, <2>1 DEF Endorse, EndorseAnswered, SharedOK
  <2>3. UNCHANGED <<way, wire, mem, subscribed, packages>> /\ pc[p] \in {"endorse", "mint"}
    BY <1>7 DEF Endorse, EndorseAnswered
  <2>4. CASE pc[p] = "endorse"
    <3>1. Goto(p, "openKey") /\ way[p] \in Aliases
      BY <1>7, <1>a, <2>4 DEF Endorse, EndorseAnswered, SessionOK
    <3> QED BY <1>e, <2>1, <2>2, <2>3, <2>4, <3>1, GotoKeepsType
  <2>5. CASE pc[p] = "mint" /\ way[p] = Ephemeral
    <3>1. Goto(p, "validate")
      BY <1>7, <2>5 DEF Endorse, EndorseAnswered
    <3> QED BY <1>e, <2>1, <2>2, <2>3, <2>5, <3>1, GotoKeepsType
  <2>6. CASE pc[p] = "mint" /\ way[p] # Ephemeral
    <3>1. Goto(p, "save") /\ way[p] = Database
      BY <1>7, <1>a, <1>c, <2>6 DEF Endorse, EndorseAnswered, SessionOK, Ways
    <3> QED BY <1>e, <2>1, <2>2, <2>3, <2>6, <3>1, GotoKeepsType
  <2> QED BY <2>3, <2>4, <2>5, <2>6
<1>8. ASSUME NEW p \in Procs, OpenKey(p) \/ WriteKey(p) PROVE TypeOK' /\ Sessions'
  <2>1. mem[p].account \in Nat /\ mem[p].key \in Nat /\ way[p] \in Aliases
    BY <1>8, <1>a DEF OpenKey, WriteKey, SessionOK
  <2>2. SharedOK'
    BY <1>8, <1>d, <2>1 DEF OpenKey, WriteKey, SharedOK
  <2> QED BY <1>8, <1>e, <2>1, <2>2, GotoKeepsType DEF OpenKey, WriteKey
<1>9. ASSUME NEW p \in Procs, Load(p) PROVE TypeOK' /\ Sessions'
  <2>1. CASE Exit(p) /\ UNCHANGED fresh
    BY <1>9, <1>d, <2>1, ExitKeepsType DEF Load, SharedOK
  <2>2. ASSUME NEW place \in {"mint", "validate"}, NEW r \in Memory, Goto(p, place), Hold(p, r),
               r.account \in Nat, r.key \in Nat, r.package # 0 => r.package = mem[p].package,
               fresh' \in Nat, UNCHANGED subscribed
        PROVE  TypeOK' /\ Sessions'
    <3>1. /\ SharedOK' /\ UNCHANGED <<way, wire, packages>> /\ pc[p] = "load" /\ way[p] = Database
          /\ mem' = [mem EXCEPT ![p] = r]
      BY <1>9, <1>a, <1>d, <2>2 DEF Load, SharedOK, SessionOK, Hold
    <3> QED BY <1>d, <1>e, <2>2, <3>1, MoveKeepsType, StartupAssumption
  <2>3. CASE stored = Missing /\ Goto(p, "mint") /\ Mint(p) /\ UNCHANGED subscribed
    <3> DEFINE r == [account |-> fresh + 1, key |-> fresh + 2, origin |-> "Minted", package |-> 0,
                     attempt |-> 0]
    <3>1. r \in Memory /\ r.account \in Nat /\ r.key \in Nat /\ r.package = 0 /\ fresh' \in Nat
      BY <1>d, <2>3 DEF Memory, SharedOK, Mint
    <3>2. Hold(p, r)
      BY <2>3 DEF Mint
    <3> HIDE DEF r
    <3> QED BY <2>2, <2>3, <3>1, <3>2
  <2>4. CASE stored \notin {Missing, Torn}
    <3> DEFINE r == [mem[p] EXCEPT !.account = stored[1], !.key = stored[2]]
    <3>1. stored \in Nat \X Nat
      BY <1>d, <2>4 DEF SharedOK
    <3>2. stored[1] \in Nat /\ stored[2] \in Nat
      BY <3>1
    <3>3. r \in Memory /\ r.account \in Nat /\ r.key \in Nat /\ r.package = mem[p].package
      BY <1>a, <3>2 DEF Memory
    <3>4. Hold(p, r) /\ Goto(p, "validate") /\ UNCHANGED <<subscribed, fresh>>
      BY <1>9, <2>4 DEF Load
    <3> HIDE DEF r
    <3> QED BY <1>d, <2>2, <3>3, <3>4 DEF SharedOK
  <2> QED BY <1>9, <2>1, <2>3, <2>4 DEF Load
<1>10. ASSUME NEW p \in Procs, Save(p) PROVE TypeOK' /\ Sessions'
  <2>1. mem[p].account \in Nat /\ mem[p].key \in Nat
    BY <1>10, <1>a DEF Save, SaveRecord, SessionOK
  <2>2. SharedOK'
    BY <1>10, <1>d, <2>1 DEF Save, SaveRecord, SharedOK
  <2>3. CASE Exit(p)
    BY <1>10, <2>2, <2>3, ExitKeepsType DEF Save, SaveRecord
  <2>4. CASE Goto(p, "validate") /\ UNCHANGED <<mem, subscribed>>
    BY <1>10, <1>e, <2>1, <2>2, <2>4, GotoKeepsType DEF Save, SaveRecord
  <2> QED BY <1>10, <2>3, <2>4 DEF Save, SaveRecord
<1>11. ASSUME NEW p \in Procs, Validate(p) \/ ValidateUnanswered(p) PROVE TypeOK' /\ Sessions'
  <2>1. mem[p].account \in Nat /\ mem[p].key \in Nat
    BY <1>11, <1>a DEF Validate, ValidateUnanswered, SessionOK
  <2>2. SharedOK' /\ UNCHANGED <<way, wire, packages>> /\ pc[p] = "validate"
    BY <1>11, <1>d DEF Validate, ValidateUnanswered, SharedOK, Fault
  <2>3. CASE Exit(p)
    BY <2>2, <2>3, ExitKeepsType
  <2>4. CASE Goto(p, "subscribe") /\ UNCHANGED <<mem, subscribed>>
    BY <1>e, <2>1, <2>2, <2>4, GotoKeepsType
  <2> QED BY <1>11, <2>3, <2>4 DEF Validate, ValidateUnanswered
<1>12. ASSUME NEW p \in Procs, Subscribe(p) PROVE TypeOK' /\ Sessions'
  <2> DEFINE r == [mem[p] EXCEPT !.package = packages + 1]
  <2>1. /\ r \in Memory /\ r.account = mem[p].account /\ r.key = mem[p].key
        /\ r.package = packages + 1 /\ mem' = [mem EXCEPT ![p] = r]
    BY <1>12, <1>a, <1>d DEF Subscribe, Memory, Hold
  <2>2. /\ mem[p].account \in Nat /\ mem[p].key \in Nat /\ SharedOK' /\ UNCHANGED <<way, wire>>
        /\ packages' = packages + 1 /\ subscribed' = subscribed \cup {p} /\ Goto(p, "register")
        /\ pc[p] = "subscribe"
    BY <1>12, <1>a, <1>d DEF Subscribe, SubscribeInbox, SharedOK, SessionOK
  <2>3. /\ packages' \in Nat /\ packages <= packages' /\ r.package # 0 /\ r.package <= packages'
        /\ subscribed' \subseteq Procs
    BY <1>d, <2>1, <2>2
  <2> HIDE DEF r
  <2> QED BY <1>e, <2>1, <2>2, <2>3, MoveKeepsType
<1>f. ASSUME NEW p \in Procs, pc[p] \in {"register", "await"}
      PROVE  /\ mem[p].account \in Nat /\ mem[p].key \in Nat /\ mem[p].package \in Nat \ {0}
             /\ Submission(p) \in Submissions /\ Entry(Submission(p)) \in Entries
  BY <1>a, <1>f DEF SessionOK, Memory, Submission, Submissions, Entry, Entries
<1>13. ASSUME NEW p \in Procs, Submit(p) PROVE TypeOK' /\ Sessions'
  <2>1. SharedOK'
    BY <1>13, <1>d, <1>f DEF Submit, SharedOK
  <2>2. UNCHANGED <<way, wire, mem, subscribed, packages>> /\ pc[p] = "register"
    BY <1>13 DEF Submit
  <2>3. CASE Goto(p, "await")
    BY <1>e, <1>f, <2>1, <2>2, <2>3, GotoKeepsType
  <2>4. CASE Goto(p, "running")
    BY <1>e, <1>f, <2>1, <2>2, <2>4, GotoKeepsType
  <2> QED BY <1>13, <2>3, <2>4 DEF Submit
<1>14. ASSUME NEW p \in Procs, Answered(p) PROVE TypeOK' /\ Sessions'
  <2>1. SharedOK'
    BY <1>14, <1>d, <1>f DEF Answered, Land, SharedOK
  <2>2. UNCHANGED <<way, wire, mem, subscribed, packages>> /\ pc[p] = "await" /\ Goto(p, "running")
    BY <1>14 DEF Answered
  <2> QED BY <1>e, <1>f, <2>1, <2>2, GotoKeepsType
<1>15. ASSUME NEW p \in Procs, Unanswered(p) PROVE TypeOK' /\ Sessions'
  <2>1. SharedOK' /\ UNCHANGED <<way, wire, packages>> /\ pc[p] = "await"
    BY <1>15, <1>d, <1>f DEF Unanswered, RetryOrFail, Land, SharedOK, Fault
  <2>2. CASE Exit(p)
    BY <2>1, <2>2, ExitKeepsType
  <2>3. CASE Goto(p, "register") /\ Hold(p, [mem[p] EXCEPT !.attempt = @ + 1]) /\ UNCHANGED subscribed
    <3> DEFINE r == [mem[p] EXCEPT !.attempt = @ + 1]
    <3>1. /\ r \in Memory /\ r.account = mem[p].account /\ r.key = mem[p].key
          /\ r.package = mem[p].package /\ mem' = [mem EXCEPT ![p] = r]
      BY <1>a, <2>3 DEF Memory, Hold
    <3> HIDE DEF r
    <3> QED BY <1>d, <1>e, <1>f, <2>1, <2>3, <3>1, MoveKeepsType
  <2> QED BY <1>15, <2>2, <2>3 DEF Unanswered, RetryOrFail
<1>16. ASSUME NEW p \in Procs, PublishFails(p) \/ RegisterFails(p) \/ Crash(p)
       PROVE  TypeOK' /\ Sessions'
  <2>1. Exit(p) /\ UNCHANGED <<way, wire, packages>>
    BY <1>16 DEF PublishFails, RegisterFails, Crash
  <2>2. CASE PublishFails(p) /\ pc[p] # "name"
    <3>1. mem[p].account \in Nat /\ mem[p].key \in Nat
      BY <1>a, <2>2 DEF PublishFails, SessionOK
    <3>2. SharedOK'
      BY <1>d, <2>2, <3>1 DEF PublishFails, SharedOK, Fault
    <3> QED BY <2>1, <3>2, ExitKeepsType
  <2>3. CASE ~(PublishFails(p) /\ pc[p] # "name")
    <3>1. SharedOK'
      BY <1>16, <1>d, <2>3 DEF PublishFails, RegisterFails, Crash, SharedOK, Fault
    <3> QED BY <2>1, <3>1, ExitKeepsType
  <2> QED BY <2>2, <2>3
<1>17. ASSUME UNCHANGED <<way, wire, pc, mem, subscribed, packages>>, SharedOK'
       PROVE  TypeOK' /\ Sessions'
  BY <1>17 DEF TypeOK, Sessions, SessionOK
<1>18. ASSUME NEW s \in inflight, Straggler(s) PROVE TypeOK' /\ Sessions'
  <2>1. Entry(s) \in Entries
    BY <1>d DEF SharedOK, Submissions, Entry, Entries
  <2>2. SharedOK'
    BY <1>18, <1>d, <2>1 DEF Straggler, Land, SharedOK
  <2> QED BY <1>17, <1>18, <2>2 DEF Straggler
<1>19. ASSUME NEW e \in endorsed \ revoked, Revoke(e) \/ ServerLosesLog(e[1]) PROVE TypeOK' /\ Sessions'
  <2>1. SharedOK'
    BY <1>19, <1>d DEF Revoke, ServerLosesLog, SharedOK, Fault
  <2> QED BY <1>17, <1>19, <2>1 DEF Revoke, ServerLosesLog
<1>20. ASSUME PowerCut PROVE TypeOK' /\ Sessions'
  <2>1. SharedOK'
    BY <1>20, <1>d DEF PowerCut, SharedOK, Fault
  <2>2. Blank \in Memory /\ Blank.package = 0
    BY DEF Blank, Memory
  <2>3. pc' \in [Procs -> Places] /\ mem' \in [Procs -> Memory]
    BY <1>20, <2>2 DEF PowerCut
  <2>4. TypeOK'
    BY <1>20, <2>1, <2>3 DEF PowerCut, TypeOK
  <2>5. \A p \in Procs : pc'[p] = "idle" /\ mem'[p] = Blank
    BY <1>20 DEF PowerCut
  <2>6. Sessions'
    BY <2>2, <2>5 DEF Sessions, SessionOK
  <2> QED BY <2>4, <2>6
<1>21. CASE UNCHANGED vars
  BY <1>21, <1>17, <1>d DEF vars, SharedOK
<1> QED
  BY <1>1, <1>2, <1>3, <1>4, <1>5, <1>6, <1>7, <1>8, <1>9, <1>10, <1>11, <1>12, <1>13, <1>14, <1>15,
     <1>16, <1>18, <1>19, <1>20, <1>21 DEF Next, Proceed

----------------------------------------------------------------------------
\* Whoever is about to write a key has had it endorsed; as long as nobody has
\* written over an account key, it is for the account on disk, and only one
\* process is writing that.
Endorsed(p) == <<mem[p].account, mem[p].key>> \in endorsed
VaultInv ==
  /\ \A p \in Procs : pc[p] \in {"openKey", "writeKey", "save"} => Endorsed(p)
  /\ ~raced => \A p \in Procs :
       /\ pc[p] \in {"name", "key", "endorse", "openKey", "writeKey"} => mem[p].account = accountFile
       /\ pc[p] = "writeAccount" =>
            accountFile = Torn /\ \A q \in Procs : pc[q] = "writeAccount" => q = p
DiskInv == VaultInv /\ OnDiskIsEndorsed

\* The registry has one package for a key.  What is settled is there, and what
\* is on its way for the same key is the same package; whoever awaits an answer
\* has a submission on its way, and no two sessions have the same package.
RegistryInv ==
  /\ \A e, f \in registry : e.key = f.key => e = f
  /\ settled \subseteq registry
  /\ \A e \in settled, s \in inflight : e.key = s.key => e.package = s.package
  /\ \A p \in Procs : pc[p] = "await" => Submission(p) \in inflight
  /\ \A p, q \in Procs : mem[p].package = mem[q].package /\ mem[p].package # 0 => p = q

\* A step of one process that writes nothing to disk keeps the invariant if the
\* process has what it may write next.
LEMMA UnwrittenKeepsDisk ==
  ASSUME DiskInv, NEW p \in Procs, UNCHANGED disk, endorsed \subseteq endorsed',
         \A q \in Procs \ {p} : pc'[q] = pc[q] /\ mem'[q] = mem[q],
         pc'[p] \in {"openKey", "writeKey", "save"} => Endorsed(p)',
         ~raced /\ pc'[p] \in {"name", "key", "endorse", "openKey", "writeKey"} =>
           mem'[p].account = accountFile,
         pc'[p] # "writeAccount"
  PROVE  DiskInv'
<1>1. OnDiskIsEndorsed'
  BY DEF DiskInv, OnDiskIsEndorsed, disk, Whole
<1>2. ASSUME NEW q \in Procs, pc'[q] \in {"openKey", "writeKey", "save"} PROVE Endorsed(q)'
  BY <1>2 DEF DiskInv, VaultInv, Endorsed
<1>3. ASSUME ~raced', NEW q \in Procs, pc'[q] \in {"name", "key", "endorse", "openKey", "writeKey"}
      PROVE  (mem[q].account = accountFile)'
  BY <1>3 DEF DiskInv, VaultInv, disk
<1>4. ASSUME ~raced', NEW q \in Procs, pc'[q] = "writeAccount"
      PROVE  (accountFile = Torn /\ \A q1 \in Procs : pc[q1] = "writeAccount" => q1 = q)'
  BY <1>4 DEF DiskInv, VaultInv, disk
<1> QED BY <1>1, <1>2, <1>3, <1>4 DEF DiskInv, VaultInv

\* Every step keeps what is on disk endorsed.
LEMMA DiskStep == TypeOK /\ Sessions /\ DiskInv /\ [Next]_vars => DiskInv'
<1> SUFFICES ASSUME TypeOK, Sessions, DiskInv, [Next]_vars PROVE DiskInv'
  OBVIOUS
<1> USE DEF setup, server, contacts, At, Goto, Hold
<1>a. pc \in [Procs -> Places] /\ mem \in [Procs -> Memory]
  BY DEF TypeOK
<1>b. \A p \in Procs : SessionOK(p)
  BY DEF Sessions
<1>c. accountFile \in {Missing, Torn} => accountFile \notin Nat
  BY StartupAssumption
<1>d. \A e \in endorsed : e[1] \in Nat
  BY DEF TypeOK, SharedOK
<1>0. ASSUME NEW p \in Procs, Exit(p), UNCHANGED disk, endorsed \subseteq endorsed' PROVE DiskInv'
  BY <1>0, ExitEffect, UnwrittenKeepsDisk
<1>1. ASSUME NEW p \in Procs, Start(p) PROVE DiskInv'
  BY <1>1, <1>a, UnwrittenKeepsDisk DEF Start, Mint
<1>2. ASSUME NEW p \in Procs, ReadAccount(p) PROVE DiskInv'
  <2>1. CASE Exit(p)
    BY <1>0, <1>2, <2>1 DEF ReadAccount
  <2>2. CASE accountFile = Missing
    BY <1>2, <1>a, <2>2, UnwrittenKeepsDisk, StartupAssumption DEF ReadAccount
  <2>3. CASE accountFile \notin {Torn, Missing}
    <3>1. pc'[p] = "key" /\ mem'[p].account = accountFile
      BY <1>2, <1>a, <2>3 DEF ReadAccount, Memory
    <3> QED BY <1>2, <1>a, <2>3, <3>1, UnwrittenKeepsDisk DEF ReadAccount
  <2> QED BY <1>2, <2>1, <2>2, <2>3 DEF ReadAccount
<1>3. ASSUME NEW p \in Procs, OpenAccount(p) PROVE DiskInv'
  <2>1. CASE raced'
    BY <1>3, <1>a, <2>1 DEF OpenAccount, DiskInv, VaultInv, OnDiskIsEndorsed, Endorsed, Whole
  <2>2. CASE ~raced'
    <3>1. ~raced /\ accountFile = Missing /\ accountFile' = Torn
      BY <1>3, <2>2 DEF OpenAccount
    <3>2. \A n \in Aliases : ~Whole(keyFile[n])
      BY <1>c, <1>d, <3>1 DEF DiskInv, OnDiskIsEndorsed
    <3>3. \A q \in Procs : pc[q] \notin {"name", "key", "endorse", "openKey", "writeKey", "writeAccount"}
      BY <1>b, <3>1, StartupAssumption DEF DiskInv, VaultInv, SessionOK, HasAccount, HasKey
    <3>4. OnDiskIsEndorsed'
      BY <1>3, <3>2 DEF OpenAccount, DiskInv, OnDiskIsEndorsed, Whole
    <3>5. VaultInv'
      BY <1>3, <1>a, <3>1, <3>3 DEF OpenAccount, DiskInv, VaultInv, Endorsed
    <3> QED BY <3>4, <3>5 DEF DiskInv
  <2> QED BY <2>1, <2>2
<1>4. ASSUME NEW p \in Procs, WriteAccount(p) PROVE DiskInv'
  <2>1. mem[p].account \in Nat /\ UNCHANGED raced
    BY <1>4, <1>b DEF WriteAccount, SessionOK, HasAccount
  <2>2. CASE raced
    BY <1>4, <1>a, <2>1, <2>2 DEF WriteAccount, DiskInv, VaultInv, OnDiskIsEndorsed, Endorsed, Whole
  <2>3. CASE ~raced
    <3>1. accountFile = Torn /\ accountFile' = mem[p].account
      BY <1>4, <2>3 DEF WriteAccount, DiskInv, VaultInv
    <3>2. \A n \in Aliases : ~Whole(keyFile[n])
      BY <1>c, <1>d, <2>3, <3>1 DEF DiskInv, OnDiskIsEndorsed
    <3>3. \A q \in Procs \ {p} :
            pc[q] \notin {"name", "key", "endorse", "openKey", "writeKey", "writeAccount"}
      BY <1>4, <1>b, <2>3, <3>1, StartupAssumption DEF WriteAccount, DiskInv, VaultInv, SessionOK, HasAccount, HasKey
    <3>4. OnDiskIsEndorsed'
      BY <1>4, <3>2 DEF WriteAccount, DiskInv, OnDiskIsEndorsed, Whole
    <3>5. VaultInv'
      BY <1>4, <1>a, <3>1, <3>3 DEF WriteAccount, DiskInv, VaultInv, Endorsed
    <3> QED BY <3>4, <3>5 DEF DiskInv
  <2> QED BY <2>2, <2>3
<1>5. ASSUME NEW p \in Procs, PublishName(p) PROVE DiskInv'
  <2>1. ~raced => mem[p].account = accountFile
    BY <1>5 DEF PublishName, DiskInv, VaultInv
  <2> QED BY <1>5, <1>a, <2>1, UnwrittenKeepsDisk DEF PublishName
<1>6. ASSUME NEW p \in Procs, ReadKey(p) PROVE DiskInv'
  <2>1. CASE Exit(p)
    BY <1>0, <1>6, <2>1 DEF ReadKey
  <2>2. CASE ~Exit(p)
    <3>1. pc'[p] \in {"endorse", "validate"} /\ mem'[p].account = mem[p].account
      BY <1>6, <1>a, <2>2 DEF ReadKey, Memory
    <3>2. ~raced => mem[p].account = accountFile
      BY <1>6 DEF ReadKey, DiskInv, VaultInv
    <3>3. UNCHANGED <<disk, endorsed>> /\ \A q \in Procs \ {p} : pc'[q] = pc[q] /\ mem'[q] = mem[q]
      BY <1>6, <1>a, <2>2 DEF ReadKey
    <3> QED BY <3>1, <3>2, <3>3, UnwrittenKeepsDisk
  <2> QED BY <2>1, <2>2
<1>7. ASSUME NEW p \in Procs, Endorse(p) PROVE DiskInv'
  <2>1. pc'[p] \in {"openKey", "validate", "save"} /\ UNCHANGED <<disk, mem>>
    BY <1>7, <1>a DEF Endorse, EndorseAnswered
  <2>2. endorsed \subseteq endorsed' /\ Endorsed(p)'
    BY <1>7 DEF Endorse, EndorseAnswered, Endorsed
  <2>3. \A q \in Procs \ {p} : pc'[q] = pc[q]
    BY <1>7, <1>a DEF Endorse, EndorseAnswered
  <2>4. ~raced /\ pc'[p] = "openKey" => mem[p].account = accountFile
    BY <1>7, <1>a DEF Endorse, EndorseAnswered, DiskInv, VaultInv
  <2> QED BY <2>1, <2>2, <2>3, <2>4, UnwrittenKeepsDisk
<1>8. ASSUME NEW p \in Procs, OpenKey(p) PROVE DiskInv'
  <2>1. OnDiskIsEndorsed'
    BY <1>8 DEF OpenKey, DiskInv, OnDiskIsEndorsed, Whole, SharedOK
  <2>2. VaultInv'
    BY <1>8, <1>a DEF OpenKey, DiskInv, VaultInv, Endorsed
  <2> QED BY <2>1, <2>2 DEF DiskInv
<1>9. ASSUME NEW p \in Procs, WriteKey(p) PROVE DiskInv'
  <2>1. Endorsed(p) /\ (~raced => mem[p].account = accountFile)
    BY <1>9 DEF WriteKey, DiskInv, VaultInv
  <2>2. OnDiskIsEndorsed'
    BY <1>9, <2>1 DEF WriteKey, DiskInv, OnDiskIsEndorsed, Whole, SharedOK, Endorsed
  <2>3. VaultInv'
    BY <1>9, <1>a DEF WriteKey, DiskInv, VaultInv, Endorsed
  <2> QED BY <2>2, <2>3 DEF DiskInv
<1>10. ASSUME NEW p \in Procs, Load(p) PROVE DiskInv'
  <2>1. CASE Exit(p)
    BY <1>0, <1>10, <2>1 DEF Load
  <2>2. CASE ~Exit(p)
    <3>1. pc'[p] \in {"mint", "validate"}
      BY <1>10, <1>a, <2>2 DEF Load
    <3>2. UNCHANGED <<disk, endorsed>> /\ \A q \in Procs \ {p} : pc'[q] = pc[q] /\ mem'[q] = mem[q]
      BY <1>10, <1>a, <2>2 DEF Load, Mint
    <3> QED BY <3>1, <3>2, UnwrittenKeepsDisk
  <2> QED BY <2>1, <2>2
<1>11. ASSUME NEW p \in Procs, Save(p) PROVE DiskInv'
  <2>1. CASE stored = Missing
    <3>1. Endorsed(p)
      BY <1>11 DEF Save, SaveRecord, DiskInv, VaultInv
    <3>2. OnDiskIsEndorsed'
      BY <1>11, <2>1, <3>1 DEF Save, SaveRecord, DiskInv, OnDiskIsEndorsed, Whole, Endorsed
    <3>3. VaultInv'
      BY <1>11, <1>a, <2>1 DEF Save, SaveRecord, DiskInv, VaultInv, Endorsed
    <3> QED BY <3>2, <3>3 DEF DiskInv
  <2>2. CASE stored # Missing
    BY <1>0, <1>11, <2>2 DEF Save, SaveRecord, disk
  <2> QED BY <2>1, <2>2
\* From here on nothing is written, and no place reached is one from which
\* something will be.
<1>12. ASSUME NEW p \in Procs,
              \/ Validate(p) \/ ValidateUnanswered(p) \/ Subscribe(p) \/ Submit(p) \/ Answered(p)
              \/ Unanswered(p) \/ PublishFails(p) \/ RegisterFails(p) \/ Crash(p)
       PROVE  DiskInv'
  <2>1. UNCHANGED disk /\ endorsed \subseteq endorsed'
    BY <1>12 DEF Validate, ValidateUnanswered, Subscribe, Submit, Answered, Unanswered, PublishFails,
                 RegisterFails, Crash
  <2>2. \/ Exit(p)
        \/ \E place \in {"subscribe", "register", "await", "running"} : Goto(p, place)
           /\ (UNCHANGED mem \/ \E r : Hold(p, r))
    BY <1>12 DEF Validate, ValidateUnanswered, Subscribe, Submit, Answered, Unanswered, RetryOrFail,
                 PublishFails, RegisterFails, Crash
  <2>3. CASE Exit(p)
    BY <1>0, <2>1, <2>3
  <2>4. ASSUME NEW place \in {"subscribe", "register", "await", "running"}, Goto(p, place),
               UNCHANGED mem \/ \E r : Hold(p, r)
        PROVE  DiskInv'
    <3>1. pc'[p] = place /\ \A q \in Procs \ {p} : pc'[q] = pc[q] /\ mem'[q] = mem[q]
      BY <1>a, <2>4
    <3> QED BY <2>1, <3>1, UnwrittenKeepsDisk
  <2> QED BY <2>2, <2>3, <2>4
<1>13. ASSUME UNCHANGED <<pc, mem, disk, endorsed>> PROVE DiskInv'
  BY <1>13 DEF disk, DiskInv, VaultInv, OnDiskIsEndorsed, Endorsed, Whole
<1>14. ASSUME NEW s \in inflight, Straggler(s) PROVE DiskInv'
  BY <1>13, <1>14 DEF Straggler
<1>15. ASSUME NEW e \in endorsed \ revoked, Revoke(e) \/ ServerLosesLog(e[1]) PROVE DiskInv'
  BY <1>13, <1>15 DEF Revoke, ServerLosesLog
<1>16. ASSUME PowerCut PROVE DiskInv'
  BY <1>16 DEF PowerCut, DiskInv, VaultInv, OnDiskIsEndorsed, Whole
<1>17. CASE UNCHANGED vars
  BY <1>13, <1>17 DEF vars
<1> QED
  BY <1>1, <1>2, <1>3, <1>4, <1>5, <1>6, <1>7, <1>8, <1>9, <1>10, <1>11, <1>12, <1>14, <1>15, <1>16,
     <1>17 DEF Next, Proceed

----------------------------------------------------------------------------
\* A step of one process keeps OneInstallationPerStore if the record stays and
\* the process runs as the one stored, in case it has come that far.
LEMMA KeepsInstallation ==
  ASSUME OneInstallationPerStore, TypeOK, NEW p \in Procs, UNCHANGED <<way, stored>>,
         \A q \in Procs \ {p} : pc'[q] = pc[q] /\ mem'[q] = mem[q],
         p \in DOMAIN way /\ way[p] = Database /\ pc'[p] \in Identified =>
           stored = <<mem'[p].account, mem'[p].key>>
  PROVE  OneInstallationPerStore'
  BY DEF OneInstallationPerStore, TypeOK, Identified

\* Every step keeps one installation to a store.
LEMMA InstallationStep ==
  TypeOK /\ Sessions /\ OneInstallationPerStore /\ [Next]_vars => OneInstallationPerStore'
<1> SUFFICES ASSUME TypeOK, Sessions, OneInstallationPerStore, [Next]_vars
             PROVE  OneInstallationPerStore'
  OBVIOUS
<1> USE DEF setup, disk, server, contacts, At, Goto, Hold
<1>a. pc \in [Procs -> Places] /\ mem \in [Procs -> Memory] /\ DOMAIN way \subseteq Procs
  BY DEF TypeOK
<1>b. \A p \in Procs : SessionOK(p)
  BY DEF Sessions
<1>c. SharedOK
  BY DEF TypeOK
<1>d. ASSUME NEW p \in Procs, UNCHANGED <<way, stored>>,
             \A q \in Procs \ {p} : pc'[q] = pc[q] /\ mem'[q] = mem[q],
             pc'[p] \notin Identified \/ way[p] # Database
      PROVE  OneInstallationPerStore'
  BY <1>d, KeepsInstallation
\* Whoever ends, mints or is in the vault.
<1>1. ASSUME NEW p \in Procs, Exit(p), UNCHANGED <<way, stored>> PROVE OneInstallationPerStore'
  BY <1>1, <1>a, <1>d DEF Exit, Identified
<1>2. ASSUME NEW p \in Procs, Start(p) PROVE OneInstallationPerStore'
  <2>1. pc'[p] \notin Identified /\ UNCHANGED <<way, stored>>
    BY <1>2, <1>a DEF Start, Identified
  <2>2. \A q \in Procs \ {p} : pc'[q] = pc[q] /\ mem'[q] = mem[q]
    BY <1>2, <1>a DEF Start, Mint
  <2> QED BY <1>d, <2>1, <2>2
<1>3. ASSUME NEW p \in Procs,
             \/ ReadAccount(p) \/ OpenAccount(p) \/ WriteAccount(p) \/ PublishName(p)
             \/ ReadKey(p) \/ OpenKey(p) \/ WriteKey(p)
      PROVE  OneInstallationPerStore'
  <2>1. way[p] # Database
    BY <1>3, <1>b, StartupAssumption DEF ReadAccount, OpenAccount, WriteAccount, PublishName, ReadKey, OpenKey, WriteKey,
                      SessionOK, InVault
  <2>2. UNCHANGED <<way, stored>>
    BY <1>3 DEF ReadAccount, OpenAccount, WriteAccount, PublishName, ReadKey, OpenKey, WriteKey
  <2>3. \A q \in Procs \ {p} : pc'[q] = pc[q] /\ mem'[q] = mem[q]
    BY <1>3, <1>a DEF ReadAccount, OpenAccount, WriteAccount, PublishName, ReadKey, OpenKey, WriteKey,
                      Exit
  <2> QED BY <1>d, <2>1, <2>2, <2>3
<1>4. ASSUME NEW p \in Procs, Endorse(p) PROVE OneInstallationPerStore'
  <2>1. pc'[p] \notin Identified \/ way[p] # Database
    BY <1>4, <1>a, StartupAssumption DEF Endorse, EndorseAnswered, Identified
  <2> QED BY <1>4, <1>a, <1>d, <2>1 DEF Endorse, EndorseAnswered
<1>5. ASSUME NEW p \in Procs, Load(p) PROVE OneInstallationPerStore'
  <2>1. CASE Exit(p)
    BY <1>1, <1>5, <2>1 DEF Load
  <2>2. CASE Mint(p) /\ Goto(p, "mint")
    <3>1. pc'[p] \notin Identified
      BY <1>a, <2>2 DEF Identified
    <3>2. \A q \in Procs \ {p} : pc'[q] = pc[q] /\ mem'[q] = mem[q]
      BY <1>a, <2>2 DEF Mint
    <3> QED BY <1>5, <1>d, <3>1, <3>2 DEF Load
  <2>3. CASE stored \notin {Missing, Torn}
    <3>1. stored \in Nat \X Nat
      BY <1>c, <2>3 DEF SharedOK
    <3>2. stored = <<stored[1], stored[2]>>
      BY <3>1
    <3> DEFINE r == [mem[p] EXCEPT !.account = stored[1], !.key = stored[2]]
    <3>3. r.account = stored[1] /\ r.key = stored[2]
      BY <1>a DEF Memory
    <3>4. mem' = [mem EXCEPT ![p] = r] /\ pc' = [pc EXCEPT ![p] = "validate"]
          /\ UNCHANGED <<way, stored>>
      BY <1>5, <2>3 DEF Load
    <3> HIDE DEF r
    <3>5. stored = <<mem'[p].account, mem'[p].key>>
      BY <1>a, <3>2, <3>3, <3>4
    <3> QED BY <1>a, <3>4, <3>5, KeepsInstallation
  <2> QED BY <1>5, <2>1, <2>2, <2>3 DEF Load
\* The first to save: nobody can have got past the record before.
<1>6. ASSUME NEW p \in Procs, Save(p) PROVE OneInstallationPerStore'
  <2>1. CASE stored = Missing
    <3>1. \A q \in DOMAIN way : way[q] = Database => pc[q] \notin Identified
      <4>1. SUFFICES ASSUME NEW q \in DOMAIN way, way[q] = Database, pc[q] \in Identified PROVE FALSE
        OBVIOUS
      <4>2. stored = <<mem[q].account, mem[q].key>>
        BY <4>1 DEF OneInstallationPerStore, Identified
      <4>3. mem[q].account \in Nat /\ mem[q].key \in Nat
        BY <1>a, <1>b, <4>1 DEF SessionOK, Identified, HasAccount, HasKey
      <4> QED BY <2>1, <4>2, <4>3, StartupAssumption
    <3>2. /\ pc' = [pc EXCEPT ![p] = "validate"] /\ stored' = <<mem[p].account, mem[p].key>>
          /\ UNCHANGED <<way, mem>>
      BY <1>6, <2>1 DEF Save, SaveRecord
    <3> QED BY <1>a, <3>1, <3>2 DEF OneInstallationPerStore, Identified
  <2>2. CASE stored # Missing
    BY <1>1, <1>6, <2>2 DEF Save, SaveRecord
  <2> QED BY <2>1, <2>2
\* Past the record neither the identity nor what is stored changes.
<1>7. ASSUME NEW p \in Procs, UNCHANGED <<way, stored>>, pc[p] \in Identified,
             \A q \in Procs \ {p} : pc'[q] = pc[q] /\ mem'[q] = mem[q],
             mem'[p].account = mem[p].account, mem'[p].key = mem[p].key
      PROVE  OneInstallationPerStore'
  BY <1>7, <1>a, KeepsInstallation DEF OneInstallationPerStore, Identified
<1>8. ASSUME NEW p \in Procs, Validate(p) \/ ValidateUnanswered(p) PROVE OneInstallationPerStore'
  <2>1. CASE Exit(p)
    BY <1>1, <1>8, <2>1 DEF Validate, ValidateUnanswered
  <2>2. CASE ~Exit(p)
    BY <1>7, <1>8, <1>a, <2>2 DEF Validate, ValidateUnanswered, Identified
  <2> QED BY <2>1, <2>2
<1>9. ASSUME NEW p \in Procs, Subscribe(p) PROVE OneInstallationPerStore'
  <2>1. mem'[p].account = mem[p].account /\ mem'[p].key = mem[p].key
    BY <1>9, <1>a DEF Subscribe, Memory
  <2> QED BY <1>7, <1>9, <1>a, <2>1 DEF Subscribe, Identified
<1>10. ASSUME NEW p \in Procs, Submit(p) \/ Answered(p) PROVE OneInstallationPerStore'
  BY <1>7, <1>10, <1>a DEF Submit, Answered, Identified
<1>11. ASSUME NEW p \in Procs, Unanswered(p) PROVE OneInstallationPerStore'
  <2>1. CASE Exit(p)
    BY <1>1, <1>11, <2>1 DEF Unanswered
  <2>2. CASE ~Exit(p)
    <3>1. mem'[p].account = mem[p].account /\ mem'[p].key = mem[p].key
      BY <1>11, <1>a, <2>2 DEF Unanswered, RetryOrFail, Memory
    <3> QED BY <1>7, <1>11, <1>a, <2>2, <3>1 DEF Unanswered, RetryOrFail, Identified
  <2> QED BY <2>1, <2>2
<1>12. ASSUME NEW p \in Procs, PublishFails(p) \/ RegisterFails(p) \/ Crash(p)
       PROVE  OneInstallationPerStore'
  BY <1>1, <1>12 DEF PublishFails, RegisterFails, Crash
<1>13. ASSUME UNCHANGED <<way, pc, mem, stored>> PROVE OneInstallationPerStore'
  BY <1>13 DEF OneInstallationPerStore
<1>14. ASSUME NEW s \in inflight, Straggler(s) PROVE OneInstallationPerStore'
  BY <1>13, <1>14 DEF Straggler
<1>15. ASSUME NEW e \in endorsed \ revoked, Revoke(e) \/ ServerLosesLog(e[1])
       PROVE  OneInstallationPerStore'
  BY <1>13, <1>15 DEF Revoke, ServerLosesLog
<1>16. ASSUME PowerCut PROVE OneInstallationPerStore'
  BY <1>16, <1>a DEF PowerCut, OneInstallationPerStore
<1>17. CASE UNCHANGED vars
  BY <1>13, <1>17 DEF vars
<1> QED
  BY <1>2, <1>3, <1>4, <1>5, <1>6, <1>8, <1>9, <1>10, <1>11, <1>12, <1>14, <1>15, <1>16, <1>17
     DEF Next, Proceed

----------------------------------------------------------------------------
\* A step of one process in which nothing travels or lands, and which leaves
\* it awaiting nothing, with the package it had or one nobody else has.
LEMMA KeepsRegistry ==
  ASSUME TypeOK, Sessions, RegistryInv, NEW p \in Procs, UNCHANGED contacts,
         \A q \in Procs \ {p} : pc'[q] = pc[q] /\ mem'[q] = mem[q],
         pc'[p] # "await",
         mem'[p].package \in {0, mem[p].package, packages + 1}
  PROVE  RegistryInv'
<1>1. packages \in Nat /\ \A q \in Procs : mem[q].package \in Nat /\ mem[q].package <= packages
  BY DEF TypeOK, Sessions, SessionOK, Memory
<1>2. \A q, r \in Procs : mem'[q].package = mem'[r].package /\ mem'[q].package # 0 => q = r
  <2>1. \A q, r \in Procs : mem[q].package = mem[r].package /\ mem[q].package # 0 => q = r
    BY DEF RegistryInv
  <2>2. \A q \in Procs \ {p} : mem'[q].package = mem[q].package /\ mem[q].package # packages + 1
    BY <1>1
  <2>3. \A q \in Procs \ {p} : mem'[q].package = mem'[p].package => mem'[p].package = 0
    BY <2>1, <2>2
  <2> QED BY <2>1, <2>2, <2>3
<1>3. \A q \in Procs : pc'[q] = "await" => Submission(q)' \in inflight'
  BY DEF RegistryInv, Submission, contacts
<1> QED BY <1>2, <1>3 DEF RegistryInv, contacts

\* A submission that lands, on time or late, replaces nothing that is settled.
LEMMA LandKeepsSettled ==
  ASSUME SharedOK, RegistryInv, NEW s \in inflight, Land(s)
  PROVE  /\ \A e, f \in registry' : e.key = f.key => e = f
         /\ settled \cup {Entry(s)} \subseteq registry'
<1>1. s \in Submissions /\ settled \subseteq Entries
  BY DEF SharedOK
<1>2. Entry(s).key = s.key /\ Entry(s).package = s.package
  BY DEF Entry
<1>3. \A e, f \in registry' : e.key = f.key => e = f
  BY <1>2 DEF Land, RegistryInv
<1>4. ASSUME NEW e \in settled, e.key = s.key PROVE e = Entry(s)
  BY <1>1, <1>4 DEF RegistryInv, Entry, Entries
<1> QED BY <1>3, <1>4 DEF Land, RegistryInv

\* Every step keeps the registry in order.
LEMMA RegistryStep == TypeOK /\ Sessions /\ RegistryInv /\ [Next]_vars => RegistryInv'
<1> SUFFICES ASSUME TypeOK, Sessions, RegistryInv, [Next]_vars PROVE RegistryInv'
  OBVIOUS
<1> USE DEF setup, disk, server, At, Goto, Hold
<1>a. pc \in [Procs -> Places] /\ mem \in [Procs -> Memory]
  BY DEF TypeOK
<1>b. \A p \in Procs : SessionOK(p)
  BY DEF Sessions
<1>c. SharedOK /\ packages \in Nat
  BY DEF TypeOK
<1>e. /\ \A e, f \in registry : e.key = f.key => e = f
      /\ settled \subseteq registry
      /\ \A e \in settled, s \in inflight : e.key = s.key => e.package = s.package
  BY DEF RegistryInv
<1>d. ASSUME NEW p \in Procs, NEW q \in Procs, pc[p] = "await", Submission(p) = Submission(q)
      PROVE  p = q
  <2>1. mem[p].package = mem[q].package
    BY <1>d DEF Submission
  <2> QED BY <1>b, <1>d, <2>1 DEF RegistryInv, SessionOK
<1>1. ASSUME NEW p \in Procs, Exit(p), UNCHANGED contacts PROVE RegistryInv'
  <2>1. pc'[p] = "idle" /\ mem'[p].package = 0
    BY <1>1, <1>a DEF Exit, Blank
  <2>2. \A q \in Procs \ {p} : pc'[q] = pc[q] /\ mem'[q] = mem[q]
    BY <1>1, <1>a DEF Exit
  <2> QED BY <1>1, <2>1, <2>2, KeepsRegistry
<1>2. ASSUME NEW p \in Procs, Start(p) PROVE RegistryInv'
  <2>1. pc'[p] # "await" /\ UNCHANGED contacts
    BY <1>2, <1>a DEF Start
  <2>2. mem'[p].package \in {0, mem[p].package}
    BY <1>2, <1>a DEF Start, Mint
  <2>3. \A q \in Procs \ {p} : pc'[q] = pc[q] /\ mem'[q] = mem[q]
    BY <1>2, <1>a DEF Start, Mint
  <2> QED BY <2>1, <2>2, <2>3, KeepsRegistry
<1>3. ASSUME NEW p \in Procs,
             \/ ReadAccount(p) \/ ReadKey(p) \/ Load(p) \/ Subscribe(p)
      PROVE  RegistryInv'
  <2>1. CASE Exit(p)
    BY <1>1, <1>3, <2>1 DEF ReadAccount, ReadKey, Load, Subscribe
  <2>2. CASE ~Exit(p)
    <3>1. pc'[p] # "await" /\ UNCHANGED contacts
      BY <1>3, <1>a, <2>2 DEF ReadAccount, ReadKey, Load, Subscribe
    <3>2. \A q \in Procs \ {p} : pc'[q] = pc[q] /\ mem'[q] = mem[q]
      BY <1>3, <1>a, <2>2 DEF ReadAccount, ReadKey, Load, Subscribe, Mint
    <3>3. mem[p] \in Memory
      BY <1>a
    <3>4. CASE ReadAccount(p)
      BY <1>a, <2>2, <3>1, <3>2, <3>3, <3>4, KeepsRegistry DEF ReadAccount, Memory
    <3>5. CASE ReadKey(p)
      BY <1>a, <2>2, <3>1, <3>2, <3>3, <3>5, KeepsRegistry DEF ReadKey, Memory
    <3>6. CASE Load(p)
      <4>1. CASE Mint(p)
        <5>1. mem'[p].package = 0
          BY <1>a, <4>1 DEF Mint
        <5> QED BY <3>1, <3>2, <5>1, KeepsRegistry
      <4>2. CASE mem' = [mem EXCEPT ![p] = [mem[p] EXCEPT !.account = stored[1], !.key = stored[2]]]
        <5>1. mem'[p].package = mem[p].package
          BY <1>a, <3>3, <4>2 DEF Memory
        <5> QED BY <3>1, <3>2, <5>1, KeepsRegistry
      <4> QED BY <2>2, <3>6, <4>1, <4>2 DEF Load
    <3>7. CASE Subscribe(p)
      BY <1>a, <3>1, <3>2, <3>3, <3>7, KeepsRegistry DEF Subscribe, Memory
    <3> QED BY <1>3, <3>4, <3>5, <3>6, <3>7
  <2> QED BY <2>1, <2>2
<1>4. ASSUME NEW p \in Procs,
             \/ OpenAccount(p) \/ WriteAccount(p) \/ PublishName(p) \/ Endorse(p) \/ OpenKey(p)
             \/ WriteKey(p) \/ Save(p) \/ Validate(p) \/ ValidateUnanswered(p)
      PROVE  RegistryInv'
  <2>1. UNCHANGED contacts
    BY <1>4 DEF OpenAccount, WriteAccount, PublishName, Endorse, OpenKey, WriteKey, Save, Validate,
                ValidateUnanswered
  <2>2. CASE Exit(p)
    BY <1>1, <2>1, <2>2
  <2>3. CASE ~Exit(p)
    <3>1. pc'[p] # "await" /\ UNCHANGED mem /\ \A q \in Procs \ {p} : pc'[q] = pc[q]
      BY <1>4, <1>a, <2>3 DEF OpenAccount, WriteAccount, PublishName, Endorse, EndorseAnswered,
                 OpenKey, WriteKey, Save, SaveRecord, Validate, ValidateUnanswered
    <3> QED BY <2>1, <3>1, KeepsRegistry
  <2> QED BY <2>2, <2>3
\* What is submitted unsettles its key.
<1>5. ASSUME NEW p \in Procs, Submit(p) PROVE RegistryInv'
  <2>1. inflight' = inflight \cup {Submission(p)} /\ settled' = {e \in settled : e.key # mem[p].key}
        /\ UNCHANGED <<mem, registry>> /\ \A q \in Procs \ {p} : pc'[q] = pc[q]
    BY <1>5, <1>a DEF Submit
  <2>2. Submission(p).key = mem[p].key /\ \A q \in Procs : Submission(q)' = Submission(q)
    BY <2>1 DEF Submission
  <2>3. \A e \in settled', s \in inflight' : e.key = s.key => e.package = s.package
    BY <2>1, <2>2 DEF RegistryInv
  <2>4. \A q \in Procs : pc'[q] = "await" => Submission(q)' \in inflight'
    BY <2>1, <2>2 DEF RegistryInv
  <2> QED BY <2>1, <2>3, <2>4 DEF RegistryInv
\* Whoever stops awaiting an answer takes at most its own submission along.
<1>6. ASSUME NEW p \in Procs, pc[p] = "await", pc'[p] # "await",
             \A q \in Procs \ {p} : pc'[q] = pc[q] /\ mem'[q] = mem[q],
             mem'[p].package \in {0, mem[p].package},
             inflight' \in {inflight, inflight \ {Submission(p)}},
             Land(Submission(p)) \/ UNCHANGED registry,
             \/ UNCHANGED settled
             \/ /\ Land(Submission(p)) /\ settled' = settled \cup {Entry(Submission(p))}
                /\ \A o \in inflight : o.key = mem[p].key => o.package = mem[p].package
      PROVE  RegistryInv'
  <2> DEFINE s == Submission(p)
  <2>1. s \in inflight /\ s.key = mem[p].key /\ s.package = mem[p].package
        /\ Entry(s).key = s.key /\ Entry(s).package = s.package
    BY <1>6 DEF RegistryInv, Submission, Entry
  <2>2. /\ \A e, f \in registry' : e.key = f.key => e = f
        /\ settled' \subseteq registry'
    <3>1. CASE Land(s)
      <4>1. /\ \A e, f \in registry' : e.key = f.key => e = f
            /\ settled \cup {Entry(s)} \subseteq registry'
        BY <1>c, <2>1, <3>1, LandKeepsSettled
      <4>2. settled' \subseteq settled \cup {Entry(s)}
        BY <1>6
      <4> QED BY <4>1, <4>2
    <3>2. CASE UNCHANGED registry /\ UNCHANGED settled
      BY <3>2, <1>e
    <3> QED BY <1>6, <3>1, <3>2
  <2>3. \A e \in settled', o \in inflight' : e.key = o.key => e.package = o.package
    <3>1. inflight' \subseteq inflight
      BY <1>6
    <3>2. CASE UNCHANGED settled
      BY <1>e, <3>1, <3>2
    <3>3. CASE settled' = settled \cup {Entry(s)} /\ \A o \in inflight : o.key = mem[p].key => o.package = mem[p].package
      <4> HIDE DEF s
      <4> QED BY <1>e, <2>1, <3>1, <3>3
    <3> QED BY <1>6, <3>2, <3>3
  <2>4. ASSUME NEW q \in Procs, pc'[q] = "await" PROVE Submission(q)' \in inflight'
    <3>1. q # p /\ pc[q] = "await" /\ Submission(q)' = Submission(q)
      BY <1>6, <2>4 DEF Submission
    <3>2. Submission(q) # s /\ Submission(q) \in inflight
      BY <1>6, <1>d, <3>1 DEF RegistryInv
    <3> QED BY <1>6, <3>1, <3>2
  <2>5. \A q, r \in Procs : mem'[q].package = mem'[r].package /\ mem'[q].package # 0 => q = r
    <3>1. \A q \in Procs : mem'[q].package \in {0, mem[q].package}
      <4>1. \A q \in Procs \ {p} : mem'[q] = mem[q]
        BY <1>6
      <4>2. mem'[p].package \in {0, mem[p].package}
        BY <1>6
      <4> QED BY <4>1, <4>2
    <3> QED BY <3>1 DEF RegistryInv
  <2> QED BY <2>2, <2>3, <2>4, <2>5 DEF RegistryInv
<1>7. ASSUME NEW p \in Procs, Answered(p) PROVE RegistryInv'
  <2>1. /\ pc[p] = "await" /\ pc'[p] # "await" /\ UNCHANGED mem /\ Land(Submission(p))
        /\ inflight' = inflight \ {Submission(p)} /\ \A q \in Procs \ {p} : pc'[q] = pc[q]
    BY <1>7, <1>a DEF Answered
  <2>2. Submission(p).key = mem[p].key /\ Submission(p).package = mem[p].package
    BY DEF Submission
  <2>3. \/ UNCHANGED settled
        \/ /\ settled' = settled \cup {Entry(Submission(p))}
           /\ \A o \in inflight : o.key = mem[p].key => o.package = mem[p].package
    BY <1>7, <2>2 DEF Answered
  <2> QED BY <1>6, <2>1, <2>3
<1>8. ASSUME NEW p \in Procs, Unanswered(p) PROVE RegistryInv'
  <2>1. /\ pc[p] = "await" /\ inflight' \in {inflight, inflight \ {Submission(p)}} /\ UNCHANGED settled
        /\ Land(Submission(p)) \/ UNCHANGED registry
    BY <1>8 DEF Unanswered, RetryOrFail
  <2>2. pc'[p] # "await" /\ \A q \in Procs \ {p} : pc'[q] = pc[q] /\ mem'[q] = mem[q]
    BY <1>8, <1>a DEF Unanswered, RetryOrFail, Exit
  <2>3. mem'[p].package \in {0, mem[p].package}
    BY <1>8, <1>a DEF Unanswered, RetryOrFail, Exit, Blank, Memory
  <2> QED BY <1>6, <2>1, <2>2, <2>3
<1>9. ASSUME NEW p \in Procs, RegisterFails(p) PROVE RegistryInv'
  <2>1. pc'[p] = "idle" /\ mem'[p].package = 0
    BY <1>9, <1>a DEF RegisterFails, Exit, Blank
  <2>2. \A q \in Procs \ {p} : pc'[q] = pc[q] /\ mem'[q] = mem[q]
    BY <1>9, <1>a DEF RegisterFails, Exit
  <2>3. inflight' = inflight \ {Submission(p)} /\ UNCHANGED <<registry, settled>>
    BY <1>9 DEF RegisterFails
  <2>4. ASSUME NEW q \in Procs, pc'[q] = "await" PROVE Submission(q)' \in inflight'
    <3>1. q # p /\ pc[q] = "await" /\ Submission(q)' = Submission(q)
      BY <2>1, <2>2, <2>4 DEF Submission
    <3>2. Submission(q) # Submission(p) /\ Submission(q) \in inflight
      BY <1>d, <3>1 DEF RegistryInv
    <3> QED BY <2>3, <3>1, <3>2
  <2>5. \A q, r \in Procs : mem'[q].package = mem'[r].package /\ mem'[q].package # 0 => q = r
    BY <2>1, <2>2 DEF RegistryInv
  <2> QED BY <2>3, <2>4, <2>5 DEF RegistryInv
<1>10. ASSUME NEW p \in Procs, PublishFails(p) \/ Crash(p) PROVE RegistryInv'
  BY <1>1, <1>10 DEF PublishFails, Crash
<1>11. ASSUME NEW s \in inflight, Straggler(s) PROVE RegistryInv'
  <2>1. /\ \A p \in Procs : pc[p] = "await" => s # Submission(p)
        /\ inflight' = inflight \ {s} /\ UNCHANGED <<pc, mem, settled>>
        /\ Land(s) \/ UNCHANGED registry
    BY <1>11 DEF Straggler
  <2>2. /\ \A e, f \in registry' : e.key = f.key => e = f
        /\ settled' \subseteq registry'
    <3>1. CASE Land(s)
      <4>1. /\ \A e, f \in registry' : e.key = f.key => e = f
            /\ settled \cup {Entry(s)} \subseteq registry'
        BY <1>c, <3>1, LandKeepsSettled
      <4> QED BY <2>1, <4>1
    <3>2. CASE UNCHANGED registry
      BY <1>e, <2>1, <3>2
    <3> QED BY <2>1, <3>1, <3>2
  <2>3. \A p \in Procs : pc'[p] = "await" => Submission(p)' \in inflight'
    BY <2>1 DEF RegistryInv, Submission
  <2> QED BY <2>1, <2>2, <2>3 DEF RegistryInv
<1>12. ASSUME UNCHANGED <<pc, mem, contacts>> PROVE RegistryInv'
  BY <1>12 DEF RegistryInv, Submission, contacts
<1>13. ASSUME NEW e \in endorsed \ revoked, Revoke(e) \/ ServerLosesLog(e[1]) PROVE RegistryInv'
  BY <1>12, <1>13 DEF Revoke, ServerLosesLog
<1>14. ASSUME PowerCut PROVE RegistryInv'
  <2>1. \A p \in Procs : pc'[p] = "idle" /\ mem'[p].package = 0
    BY <1>14 DEF PowerCut, Blank
  <2> QED BY <1>14, <2>1 DEF PowerCut, RegistryInv, contacts
<1>15. CASE UNCHANGED vars
  BY <1>12, <1>15 DEF vars
<1> QED
  BY <1>2, <1>3, <1>4, <1>5, <1>7, <1>8, <1>9, <1>10, <1>11, <1>13, <1>14, <1>15 DEF Next, Proceed

----------------------------------------------------------------------------
\* The initial states satisfy the invariants.
LEMMA InitInvs == Init => DiskInv /\ OneInstallationPerStore /\ RegistryInv
<1> SUFFICES ASSUME Init PROVE DiskInv /\ OneInstallationPerStore /\ RegistryInv
  OBVIOUS
<1>1. TypeOK
  BY InitType
<1>2. \A p \in Procs : pc[p] = "idle" /\ mem[p] = Blank /\ Blank.package = 0
  BY DEF Init, Blank
<1>3. DiskInv
  BY <1>2 DEF Init, DiskInv, VaultInv, OnDiskIsEndorsed, Whole
<1>4. OneInstallationPerStore
  BY <1>1, <1>2 DEF OneInstallationPerStore, TypeOK
<1>5. RegistryInv
  BY <1>2 DEF Init, RegistryInv
<1> QED BY <1>3, <1>4, <1>5

\* Every state the program reaches has these types, and every session holds
\* what its place in the start asks for.
THEOREM SessionsHoldWhatTheyNeed == Spec => [](TypeOK /\ Sessions)
  BY InitType, TypeStep, PTL DEF Spec

\* Whatever crashes, is lost or runs at the same time, the installation the
\* next start finds on disk was endorsed by the account it is paired with
\* (BasicFileKeyVault::install, Installation::load_or_create).
THEOREM DiskIsEndorsed == Spec => []OnDiskIsEndorsed
<1>1. Spec => []DiskInv
  BY InitInvs, DiskStep, SessionsHoldWhatTheyNeed, PTL DEF Spec
<1>2. DiskInv => OnDiskIsEndorsed
  BY DEF DiskInv
<1> QED BY <1>1, <1>2, PTL

\* However many processes open a database at once, those that get past
\* Installation::load_or_create run as the installation it stores.
THEOREM OneInstallation == Spec => []OneInstallationPerStore
  BY InitInvs, InstallationStep, SessionsHoldWhatTheyNeed, PTL DEF Spec

\* Nobody can fetch the key package of a session before its inbox listens
\* (Core::assemble subscribes before register_keypackage makes the package).
THEOREM ListeningBeforeInvited == Spec => []ListensBeforeInvited
<1>1. TypeOK /\ Sessions => ListensBeforeInvited
  BY DEF TypeOK, SharedOK, Entries, Sessions, SessionOK, ListensBeforeInvited
<1> QED BY <1>1, SessionsHoldWhatTheyNeed, PTL

\* What ContactRegistry::register has let through is what peers retrieve,
\* through timeouts, retries and late duplicates.
THEOREM RegisteredServed == Spec => []RegisteredIsServed
<1>1. Spec => []RegistryInv
  BY InitInvs, RegistryStep, SessionsHoldWhatTheyNeed, PTL DEF Spec
<1>2. RegistryInv => RegisteredIsServed
  BY DEF RegistryInv, RegisteredIsServed, Retrieve
<1> QED BY <1>1, <1>2, PTL
============================================================================
