------------------------------ MODULE Startup ------------------------------
(***************************************************************************)
(* How a client comes by its identity and gets to where peers can invite   *)
(* it: bin/chat-cli/src/main.rs, the key vault                             *)
(* (extensions/components/src/key_vault/basic_file_key_vault.rs),          *)
(* crates/logos-chat/src/logos.rs, crates/generic-chat/src/installation.rs *)
(* and builder.rs, ChatClient::new and Core::new_with_name, and the key    *)
(* package registry (extensions/components/src/contact_registry/store.rs). *)
(* Processes of one user share the vault directory and the database; each  *)
(* may crash between any two steps and be started again; the account       *)
(* server and the registry may not answer, or answer what is lost.  The    *)
(* database is SharedDatabase, of which this module keeps the record of    *)
(* the installation; the account log is AccountSync, of which it keeps     *)
(* which keys an account has endorsed.                                     *)
(***************************************************************************)
EXTENDS Integers, FiniteSets

CONSTANTS
  Procs,        \* processes of the user
  Plans,        \* ways in which some of them are started, each with a bound on
                \* sessions that end, requests that fail, keys revoked, logs lost
  Aliases,      \* installations of one account in the vault: saro:1, saro:2
  Database,     \* a way to start: open_with_transport on the database
  Ephemeral,    \* a way to start: IdentityMode::Ephemeral
  Missing,      \* no file, no record, no key
  Torn,         \* a file without a whole key, a record this build cannot read
  MaxRetries    \* MAX_RETRIES

VARIABLES
  way,          \* how each process is started
  wire,         \* its RegistryPublishMode
  pc, mem,      \* where its session is, and what it holds in memory
  subscribed,   \* processes listening on their inbox address
  accountFile, keyFile,   \* account.key and installations/<n>.key
  stored,       \* the installation record of the database
  endorsed,     \* account and key: endorsements that reached the server
  revoked,      \* those among them taken back by another device
  lost,         \* those among them the server has lost, with the log
  registry,     \* key and the key package served for it
  inflight,     \* submissions on their way to the registry
  settled,      \* history: acknowledged ones that nothing older can replace
  raced,        \* history: a process has written over an account key
  fresh,        \* keys generated so far
  packages,     \* key packages made so far
  faults        \* how many more there may be

disk == <<accountFile, keyFile, stored, raced>>
server == <<endorsed, revoked, lost>>
contacts == <<registry, inflight, settled>>
setup == <<way, wire>>
vars == <<setup, pc, mem, subscribed, disk, server, contacts, fresh, packages, faults>>

Ways == Aliases \cup {Database, Ephemeral}

ASSUME StartupAssumption ==
  /\ Missing # Torn /\ {Missing, Torn} \cap (Nat \cup (Nat \X Nat)) = {}
  /\ Database \notin Aliases /\ Ephemeral \notin Aliases /\ Database # Ephemeral
  /\ \A plan \in Plans :
       /\ plan.faults \in Nat
       /\ \E users \in SUBSET Procs : plan.way \in [users -> Ways]
  /\ MaxRetries \in Nat

Blank == [account |-> Missing, key |-> Missing, origin |-> "Stored", package |-> 0, attempt |-> 0]

\* client_with always submits over HTTP.
Init ==
  /\ \E plan \in Plans : way = plan.way /\ faults = plan.faults
  /\ wire \in {w \in [DOMAIN way -> {"Http", "Delivery"}] :
                \A p \in DOMAIN way : way[p] \in Aliases => w[p] = "Http"}
  /\ pc = [p \in Procs |-> "idle"] /\ mem = [p \in Procs |-> Blank]
  /\ subscribed = {}
  /\ accountFile = Missing /\ keyFile = [n \in Aliases |-> Missing]
  /\ stored \in {Missing, Torn}
  /\ endorsed = {} /\ revoked = {} /\ lost = {}
  /\ registry = {} /\ inflight = {} /\ settled = {}
  /\ raced = FALSE /\ fresh = 0 /\ packages = 0

----------------------------------------------------------------------------
\* A step of p from one place to another, leaving everything else alone that
\* the step does not name.
At(p, place) == pc[p] = place
Goto(p, place) == pc' = [pc EXCEPT ![p] = place]
Hold(p, record) == mem' = [mem EXCEPT ![p] = record]

\* main returns an error, or the process ends: memory is gone.
Exit(p) == Goto(p, "idle") /\ Hold(p, Blank) /\ subscribed' = subscribed \ {p}

Fault == faults > 0 /\ faults' = faults - 1

\* register_account: a new account and a new key for it to endorse.
Mint(p) ==
  /\ Hold(p, [account |-> fresh + 1, key |-> fresh + 2, origin |-> "Minted", package |-> 0,
              attempt |-> 0])
  /\ fresh' = fresh + 2

\* main, by transport.
Start(p) ==
  /\ p \in DOMAIN way /\ At(p, "idle")
  /\ Goto(p, IF way[p] \in Aliases THEN "account" ELSE IF way[p] = Database THEN "load" ELSE "mint")
  /\ IF way[p] = Ephemeral THEN Mint(p) ELSE UNCHANGED <<mem, fresh>>
  /\ UNCHANGED <<setup, subscribed, disk, server, contacts, packages, faults>>

----------------------------------------------------------------------------
\* BasicFileKeyVault::account: read the key, or generate and write one, then
\* publish the display name.
ReadAccount(p) ==
  /\ At(p, "account")
  /\ \/ accountFile = Torn /\ Exit(p) /\ UNCHANGED fresh
     \/ /\ accountFile = Missing
        /\ Goto(p, "openAccount") /\ fresh' = fresh + 1
        /\ Hold(p, [mem[p] EXCEPT !.account = fresh']) /\ UNCHANGED subscribed
     \/ /\ accountFile \notin {Torn, Missing}
        /\ Goto(p, "key") /\ Hold(p, [mem[p] EXCEPT !.account = accountFile])
        /\ UNCHANGED <<subscribed, fresh>>
  /\ UNCHANGED <<setup, disk, server, contacts, packages, faults>>

\* write_new: fs::write truncates whatever is there, and then writes.
OpenAccount(p) ==
  /\ At(p, "openAccount") /\ Goto(p, "writeAccount")
  /\ accountFile' = Torn /\ raced' = (raced \/ accountFile # Missing)
  /\ UNCHANGED <<setup, mem, subscribed, keyFile, stored, server, contacts, fresh, packages, faults>>

WriteAccount(p) ==
  /\ At(p, "writeAccount") /\ Goto(p, "name")
  /\ accountFile' = mem[p].account
  /\ UNCHANGED <<setup, mem, subscribed, keyFile, stored, raced, server, contacts, fresh, packages,
                 faults>>

\* The display name is published; the name itself is left out.
PublishName(p) ==
  /\ At(p, "name") /\ Goto(p, "key")
  /\ UNCHANGED <<setup, mem, subscribed, disk, server, contacts, fresh, packages, faults>>

\* BasicFileKeyVault::install: read the installation's key or generate one.
ReadKey(p) ==
  LET file == keyFile[way[p]]
  IN  /\ At(p, "key")
      /\ \/ file = Torn /\ Exit(p) /\ UNCHANGED fresh
         \/ /\ file = Missing
            /\ Goto(p, "endorse") /\ fresh' = fresh + 1
            /\ Hold(p, [mem[p] EXCEPT !.key = fresh']) /\ UNCHANGED subscribed
         \/ /\ file \notin {Torn, Missing}
            /\ Goto(p, "validate") /\ Hold(p, [mem[p] EXCEPT !.key = file])
            /\ UNCHANGED <<subscribed, fresh>>
      /\ UNCHANGED <<setup, disk, server, contacts, packages, faults>>

\* Mutant: the result of publish is ignored, and the request was lost.
EndorseUnchecked(p) ==
  /\ pc[p] \in {"endorse", "mint"}
  /\ Goto(p, IF At(p, "endorse") THEN "openKey" ELSE IF way[p] = Ephemeral THEN "validate" ELSE "save")
  /\ UNCHANGED endorsed

\* AccountUpdate::publish of an endorsement is answered: by the vault for a key
\* it will write, and by register_account for a new account.
EndorseAnswered(p) ==
  /\ pc[p] \in {"endorse", "mint"}
  /\ Goto(p, IF At(p, "endorse") THEN "openKey" ELSE IF way[p] = Ephemeral THEN "validate" ELSE "save")
  /\ endorsed' = endorsed \cup {<<mem[p].account, mem[p].key>>}

Endorse(p) ==
  /\ EndorseAnswered(p)
  /\ UNCHANGED <<setup, mem, subscribed, disk, revoked, lost, contacts, fresh, packages, faults>>

OpenKey(p) ==
  /\ At(p, "openKey") /\ Goto(p, "writeKey")
  /\ keyFile' = [keyFile EXCEPT ![way[p]] = Torn]
  /\ UNCHANGED <<setup, mem, subscribed, accountFile, stored, raced, server, contacts, fresh,
                 packages, faults>>

\* Installation::make then marks it as stored.
WriteKey(p) ==
  /\ At(p, "writeKey") /\ Goto(p, "validate")
  /\ keyFile' = [keyFile EXCEPT ![way[p]] = mem[p].key]
  /\ UNCHANGED <<setup, mem, subscribed, accountFile, stored, raced, server, contacts, fresh,
                 packages, faults>>

----------------------------------------------------------------------------
\* Installation::load_or_create on the database: the record, or a new account
\* and key from register_account.
Load(p) ==
  /\ At(p, "load")
  /\ \/ stored = Torn /\ Exit(p) /\ UNCHANGED fresh
     \/ stored = Missing /\ Goto(p, "mint") /\ Mint(p) /\ UNCHANGED subscribed
     \/ /\ stored \notin {Missing, Torn}
        /\ Goto(p, "validate") /\ UNCHANGED <<subscribed, fresh>>
        /\ Hold(p, [mem[p] EXCEPT !.account = stored[1], !.key = stored[2]])
  /\ UNCHANGED <<setup, disk, server, contacts, packages, faults>>

\* Mutant: save_installation replaces what is stored.
SaveOver(p) ==
  /\ At(p, "save") /\ Goto(p, "validate")
  /\ stored' = <<mem[p].account, mem[p].key>>
  /\ UNCHANGED <<mem, subscribed>>

\* Insert-only: somebody else's record fails the open.
SaveRecord(p) ==
  /\ At(p, "save")
  /\ IF stored = Missing
     THEN /\ Goto(p, "validate") /\ stored' = <<mem[p].account, mem[p].key>>
          /\ UNCHANGED <<mem, subscribed>>
     ELSE Exit(p) /\ UNCHANGED stored

Save(p) ==
  /\ SaveRecord(p)
  /\ UNCHANGED <<setup, accountFile, keyFile, raced, server, contacts, fresh, packages, faults>>

----------------------------------------------------------------------------
\* The keys the account's log endorses, as HttpAuthClient reads it; a log the
\* server does not have endorses none.
Fetch(account) == {e[2] : e \in {e \in endorsed \ (revoked \cup lost) : e[1] = account}}

\* ChatClient::new: the auth service's verdict.
Valid(m) == m.key \in Fetch(m.account)

Validate(p) ==
  /\ At(p, "validate")
  /\ IF Valid(mem[p]) THEN Goto(p, "subscribe") /\ UNCHANGED <<mem, subscribed>> ELSE Exit(p)
  /\ UNCHANGED <<setup, disk, server, contacts, fresh, packages, faults>>

\* No answer: fatal only for an installation minted in this session.
ValidateUnanswered(p) ==
  /\ At(p, "validate") /\ Fault
  /\ IF mem[p].origin = "Stored"
     THEN Goto(p, "subscribe") /\ UNCHANGED <<mem, subscribed>> ELSE Exit(p)
  /\ UNCHANGED <<setup, disk, server, contacts, fresh, packages>>

\* Mutant: the key package is published before the inbox listens.
SubscribeLater(p) == UNCHANGED subscribed

\* InboxV2::new
SubscribeInbox(p) == subscribed' = subscribed \cup {p}

\* Core::assemble subscribes the inbox address, then register_keypackage makes
\* a key package that only this session can open welcomes with.
Subscribe(p) ==
  /\ At(p, "subscribe") /\ Goto(p, "register")
  /\ SubscribeInbox(p)
  /\ packages' = packages + 1 /\ Hold(p, [mem[p] EXCEPT !.package = packages'])
  /\ UNCHANGED <<setup, disk, server, contacts, fresh, faults>>

----------------------------------------------------------------------------
Submission(p) == [key |-> mem[p].key, package |-> mem[p].package, attempt |-> mem[p].attempt]
Entry(s) == [key |-> s.key, package |-> s.package]

\* ContactRegistry::register.  Over the delivery network that is all of it.
Submit(p) ==
  /\ At(p, "register")
  /\ Goto(p, IF wire[p] = "Http" THEN "await" ELSE "running")
  /\ inflight' = inflight \cup {Submission(p)}
  /\ settled' = {e \in settled : e.key # mem[p].key}
  /\ UNCHANGED <<setup, mem, subscribed, disk, server, registry, fresh, packages, faults>>

\* The registry keeps what reaches it last.
Land(s) == registry' = {e \in registry : e.key # s.key} \cup {Entry(s)}

\* The registry answers.
Answered(p) ==
  LET s == Submission(p)
  IN  /\ At(p, "await") /\ Goto(p, "running")
      /\ Land(s) /\ inflight' = inflight \ {s}
      /\ settled' = IF \E o \in inflight : o.key = s.key /\ o.package # s.package
                    THEN settled ELSE settled \cup {Entry(s)}
      /\ UNCHANGED <<setup, mem, subscribed, disk, server, fresh, packages, faults>>

\* Mutant: after the last attempt the failure is taken for an answer.
LastTimeoutPasses(p) ==
  IF mem[p].attempt < MaxRetries
  THEN /\ Goto(p, "register") /\ Hold(p, [mem[p] EXCEPT !.attempt = @ + 1])
       /\ UNCHANGED <<subscribed, settled>>
  ELSE /\ Goto(p, "running") /\ settled' = settled \cup {Entry(Submission(p))}
       /\ UNCHANGED <<mem, subscribed>>

\* send_retrying: a network error, a timeout, a 5xx or a 429 is tried again,
\* and is an error after the last attempt.
RetryOrFail(p) ==
  IF mem[p].attempt < MaxRetries
  THEN /\ Goto(p, "register") /\ Hold(p, [mem[p] EXCEPT !.attempt = @ + 1])
       /\ UNCHANGED <<subscribed, settled>>
  ELSE Exit(p) /\ UNCHANGED settled

\* The attempt was shed, has landed unanswered, or is still on its way.
Unanswered(p) ==
  LET s == Submission(p)
  IN  /\ At(p, "await") /\ Fault
      /\ RetryOrFail(p)
      /\ \/ inflight' = inflight \ {s} /\ UNCHANGED registry
         \/ inflight' = inflight \ {s} /\ Land(s)
         \/ UNCHANGED <<inflight, registry>>
      /\ UNCHANGED <<setup, disk, server, fresh, packages>>

\* Nobody waits for s any more: it lands late, or never.
Straggler(s) ==
  /\ ~\E p \in Procs : At(p, "await") /\ s = Submission(p)
  /\ inflight' = inflight \ {s}
  /\ Land(s) \/ UNCHANGED registry
  /\ UNCHANGED <<setup, pc, mem, subscribed, disk, server, settled, fresh, packages, faults>>

----------------------------------------------------------------------------
\* AccountUpdate::publish returns an error, whether or not it has landed.
PublishFails(p) ==
  /\ pc[p] \in {"name", "endorse", "mint"} /\ Fault
  /\ Exit(p)
  /\ \/ pc[p] # "name" /\ endorsed' = endorsed \cup {<<mem[p].account, mem[p].key>>}
     \/ UNCHANGED endorsed
  /\ UNCHANGED <<setup, disk, revoked, lost, contacts, fresh, packages>>

\* A 4xx, or the delivery network refuses: register returns an error.
RegisterFails(p) ==
  /\ pc[p] \in {"register", "await"} /\ Fault
  /\ Exit(p) /\ inflight' = inflight \ {Submission(p)}
  /\ UNCHANGED <<setup, disk, server, registry, settled, fresh, packages>>

\* The process crashes, or its user ends it.
Crash(p) ==
  /\ pc[p] # "idle" /\ Fault
  /\ Exit(p)
  /\ UNCHANGED <<setup, disk, server, contacts, fresh, packages>>

\* The machine stops, and with it goes a record not yet checkpointed.
PowerCut ==
  /\ Fault /\ stored \notin {Missing, Torn} /\ stored' = Missing
  /\ pc' = [p \in Procs |-> "idle"] /\ mem' = [p \in Procs |-> Blank] /\ subscribed' = {}
  /\ UNCHANGED <<setup, accountFile, keyFile, raced, server, contacts, fresh, packages>>

\* Another device holding the account's key takes an endorsement back.
Revoke(e) ==
  /\ e[1] = accountFile
  /\ Fault /\ revoked' = revoked \cup {e}
  /\ UNCHANGED <<setup, pc, mem, subscribed, disk, endorsed, lost, contacts, fresh, packages>>

\* The server no longer has the account's log, and answers 404.
ServerLosesLog(account) ==
  /\ Fault
  /\ lost' = lost \cup {e \in endorsed : e[1] = account} /\ lost' # lost
  /\ UNCHANGED <<setup, pc, mem, subscribed, disk, endorsed, revoked, contacts, fresh, packages>>

\* What a process does as long as everybody answers.
Proceed(p) ==
  \/ Start(p)
  \/ ReadAccount(p) \/ OpenAccount(p) \/ WriteAccount(p) \/ PublishName(p)
  \/ ReadKey(p) \/ Endorse(p) \/ OpenKey(p) \/ WriteKey(p)
  \/ Load(p) \/ Save(p)
  \/ Validate(p) \/ Subscribe(p) \/ Submit(p) \/ Answered(p)

Next ==
  \/ \E p \in Procs :
       \/ Proceed(p)
       \/ PublishFails(p) \/ ValidateUnanswered(p) \/ Unanswered(p) \/ RegisterFails(p) \/ Crash(p)
  \/ \E s \in inflight : Straggler(s)
  \/ \E e \in endorsed \ revoked : Revoke(e) \/ ServerLosesLog(e[1])
  \/ PowerCut

\* A user who wants to chat starts the client again, and requests are answered
\* in the end.
Spec == Init /\ [][Next]_vars /\ \A p \in Procs : WF_vars(Proceed(p))

----------------------------------------------------------------------------
Whole(file) == file \notin {Missing, Torn}

\* "Endorsed before the key reaches disk, so a key on disk is always one the
\* log carries", and a record is stored "only once its endorsement is
\* published": whatever crashed, was lost or ran at the same time, the
\* installation the next start will find was endorsed by the account it is
\* paired with.  Left out is a vault in which two first starts have written
\* account.key one over the other.
OnDiskIsEndorsed ==
  /\ Whole(stored) => stored \in endorsed
  /\ ~raced => \A n \in Aliases :
       Whole(keyFile[n]) => <<accountFile, keyFile[n]>> \in endorsed

\* "One store, one installation": however many processes open a new database
\* at once, those that get past Installation::load_or_create run as the one
\* that is stored.
OneInstallationPerStore ==
  \A p \in DOMAIN way :
    way[p] = Database /\ pc[p] \in {"validate", "subscribe", "register", "await", "running"} =>
      stored = <<mem[p].account, mem[p].key>>

\* As soon as peers can fetch the key package of a session its inbox is
\* listening, so no welcome is sent to nobody.
ListensBeforeInvited ==
  \A p \in Procs :
    [key |-> mem[p].key, package |-> mem[p].package] \in registry => p \in subscribed

\* ContactRegistry::retrieve, as a peer calls it.
Retrieve(key) == {e.package : e \in {e \in registry : e.key = key}}

\* A client that register has let through over HTTP is served to its peers
\* with the key package it holds the keys of, through timeouts, retries and
\* duplicates, as long as no other session submits for the same installation
\* and nothing of an earlier one was still on its way.
RegisteredIsServed == \A e \in settled : Retrieve(e.key) = {e.package}

\* Nothing can get p's installation back: its file or record is unreadable, its
\* endorsement is revoked or lost, or two first starts have written account.key
\* one over the other.
LockedOut(p) ==
  \/ way[p] = Database /\ (stored = Torn \/ stored \in lost)
  \/ /\ way[p] \in Aliases
     /\ \/ raced
        \/ Torn \in {accountFile, keyFile[way[p]]}
        \/ <<accountFile, keyFile[way[p]]>> \in revoked \cup lost

\* "A crash after the publish re-runs registration harmlessly": a user who keeps
\* trying gets a running client again, after whatever has gone wrong, unless
\* what is on disk is unreadable or no longer endorsed.  A log the server has
\* lost belongs here: validate_signer answers Invalid for a 404, which
\* Installation::validate takes for a verdict and not for an unreachable server.
EventuallyRuns ==
  \A p \in Procs :
    []<>At(p, "running") \/ <>[](p \notin DOMAIN way \/ LockedOut(p))
============================================================================
