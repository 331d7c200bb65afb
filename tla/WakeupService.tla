--------------------------- MODULE WakeupService ---------------------------
(***************************************************************************)
(* ThreadedWakeupService (extensions/components/src/wakeup.rs): callers    *)
(* register deadlines in a heap guarded by a mutex, one background thread  *)
(* sleeps on a condition variable until the nearest of them, and dropping  *)
(* the service asks the thread to stop and joins it.                       *)
(***************************************************************************)
EXTENDS Integers, Sequences

CONSTANTS
  Convos,     \* conversation ids
  Durations,  \* delays a caller may ask for
  MaxTime,    \* bound: the last instant
  MaxArmed    \* bound: registrations

ASSUME WakeupAssumption == Durations \subseteq Nat /\ MaxTime \in Nat /\ MaxArmed \in Nat

\* The deadline of Condvar::wait, which has no timeout.
Never == -1

\* A WakeupRecord; the ticket tells equal records of the heap apart.
WakeupRecord == [ticket : 1 .. MaxArmed, expiry : 0 .. MaxTime, convo : Convos]

VARIABLES
  now,       \* Instant::now()
  armed,     \* registrations so far
  pending,   \* Shared.pending, the heap as a set
  running,   \* Shared.running
  thread,    \* where run() is: "lock", "check", "peek", "wait", "send", "done"
  deadline,  \* when the thread's wait times out
  notified,  \* the parked thread has been notified
  inHand,    \* the record popped but not sent yet, if any
  owner,     \* the service: "live", then in Drop "stored", "joining", "dropped"
  receiver,  \* the event channel's receiver exists
  sent       \* events sent, oldest first

vars == <<now, armed, pending, running, thread, deadline, notified, inHand, owner, receiver, sent>>

TypeOK ==
  /\ now \in 0 .. MaxTime /\ armed \in 0 .. MaxArmed
  /\ pending \subseteq WakeupRecord /\ inHand \subseteq WakeupRecord
  /\ sent \in Seq(WakeupRecord)
  /\ running \in BOOLEAN /\ notified \in BOOLEAN /\ receiver \in BOOLEAN
  /\ thread \in {"lock", "check", "peek", "wait", "send", "done"}
  /\ owner \in {"live", "stored", "joining", "dropped"}
  /\ deadline \in {Never} \cup 0 .. MaxTime
  /\ inHand # {} <=> thread = "send"

Init ==
  /\ now = 0 /\ armed = 0
  /\ pending = {} /\ inHand = {} /\ sent = <<>>
  /\ running = TRUE /\ notified = FALSE /\ receiver = TRUE
  /\ thread = "lock" /\ deadline = Never /\ owner = "live"

----------------------------------------------------------------------------
\* The mutex around pending; only the thread keeps it from step to step.
LockFree == thread \notin {"check", "peek"}

\* Mutant: nobody is notified.
NotifyNobody == UNCHANGED notified

\* Condvar::notify_one: only a parked thread hears it.
NotifyOne == notified' = (notified \/ thread = "wait")

\* wakeup_in: push and notify, all under the mutex.
WakeupIn(d, c) ==
  /\ owner = "live" /\ LockFree
  /\ armed < MaxArmed /\ now + d <= MaxTime
  /\ armed' = armed + 1
  /\ pending' = pending \cup {[ticket |-> armed + 1, expiry |-> now + d, convo |-> c]}
  /\ NotifyOne
  /\ UNCHANGED <<now, running, thread, deadline, inHand, owner, receiver, sent>>

\* Drop::drop stores the flag, notifies and joins.  It never takes the mutex.
DropStore ==
  /\ owner = "live"
  /\ owner' = "stored" /\ running' = FALSE
  /\ UNCHANGED <<now, armed, pending, thread, deadline, notified, inHand, receiver, sent>>

DropNotify ==
  /\ owner = "stored"
  /\ owner' = "joining" /\ NotifyOne
  /\ UNCHANGED <<now, armed, pending, running, thread, deadline, inHand, receiver, sent>>

DropJoin ==
  /\ owner = "joining" /\ thread = "done"
  /\ owner' = "dropped"
  /\ UNCHANGED <<now, armed, pending, running, thread, deadline, notified, inHand, receiver, sent>>

----------------------------------------------------------------------------
\* The top of the loop: take the mutex.
ThreadLock ==
  /\ thread = "lock" /\ LockFree
  /\ thread' = "check"
  /\ UNCHANGED <<now, armed, pending, running, deadline, notified, inHand, owner, receiver, sent>>

\* Mutant: the flag is never looked at.
ThreadCheckNothing ==
  /\ thread = "check" /\ thread' = "peek"
  /\ UNCHANGED <<now, armed, pending, running, deadline, notified, inHand, owner, receiver, sent>>

\* if !running { return }
ThreadCheck ==
  /\ thread = "check"
  /\ thread' = IF running THEN "peek" ELSE "done"
  /\ UNCHANGED <<now, armed, pending, running, deadline, notified, inHand, owner, receiver, sent>>

\* What peek() may return: equal expiries are in no particular order.
Nearest == {r \in pending : \A q \in pending : r.expiry <= q.expiry}

Expired(r) == r.expiry <= now

\* Parks the thread and frees the mutex, in one step as a Condvar does.
Park(until) ==
  /\ thread' = "wait" /\ deadline' = until /\ notified' = FALSE
  /\ UNCHANGED <<pending, inHand>>

Pop(r) ==
  /\ pending' = pending \ {r} /\ inHand' = {r} /\ thread' = "send"
  /\ UNCHANGED <<deadline, notified>>

\* From peek() to the end of the critical section.
ThreadPeek ==
  /\ thread = "peek"
  /\ \/ pending = {} /\ Park(Never)
     \/ \E r \in Nearest : ~Expired(r) /\ Park(r.expiry)
     \/ \E r \in Nearest : Expired(r) /\ Pop(r)
  /\ UNCHANGED <<now, armed, running, owner, receiver, sent>>

\* The wait returns its guard, which is dropped at once.
Resume ==
  /\ thread = "wait" /\ LockFree
  /\ thread' = "lock" /\ notified' = FALSE
  /\ UNCHANGED <<now, armed, pending, running, deadline, inHand, owner, receiver, sent>>

ThreadWake == (notified \/ (deadline # Never /\ deadline <= now)) /\ Resume

\* A condition variable may also wake for no reason.
SpuriousWake == Resume

\* events.send: the thread ends when the receiver is gone.
ThreadSend ==
  /\ thread = "send"
  /\ thread' = IF receiver THEN "lock" ELSE "done"
  /\ \E r \in inHand : sent' = IF receiver THEN Append(sent, r) ELSE sent
  /\ inHand' = {}
  /\ UNCHANGED <<now, armed, pending, running, deadline, notified, owner, receiver>>

----------------------------------------------------------------------------
\* The client worker, which holds the receiver, has returned.
ReceiverGone ==
  /\ receiver /\ receiver' = FALSE
  /\ UNCHANGED <<now, armed, pending, running, thread, deadline, notified, inHand, owner, sent>>

Tick ==
  /\ now < MaxTime /\ now' = now + 1
  /\ UNCHANGED <<armed, pending, running, thread, deadline, notified, inHand, owner, receiver, sent>>

ThreadStep == ThreadLock \/ ThreadCheck \/ ThreadPeek \/ ThreadWake \/ ThreadSend
DropStep == DropNotify \/ DropJoin

Next ==
  \/ \E d \in Durations, c \in Convos : WakeupIn(d, c)
  \/ DropStore \/ DropStep
  \/ ThreadStep \/ SpuriousWake
  \/ ReceiverGone \/ Tick

\* The scheduler runs a thread that can run, and time passes.  Nobody has to
\* register or drop anything, and spurious wakeups are not relied on.
Fairness == WF_vars(ThreadStep) /\ WF_vars(DropStep) /\ WF_vars(Tick)

SafeSpec == Init /\ [][Next]_vars
Spec == SafeSpec /\ Fairness

----------------------------------------------------------------------------
\* The thread never oversleeps: parked and not notified, it will time out no
\* later than the nearest registered deadline, however wakeup_in raced it.
NeverOversleeps ==
  thread = "wait" /\ ~notified =>
    \A r \in pending : deadline # Never /\ deadline <= r.expiry

\* No timer fires early: nothing is taken or sent before it expires.
NeverEarly ==
  /\ \A r \in inHand : r.expiry <= now
  /\ \A i \in 1 .. Len(sent) : sent[i].expiry <= now

\* Wakeups are sent in the order of their deadlines.
SentInOrder ==
  \A i, j \in 1 .. Len(sent) : i < j => sent[i].expiry <= sent[j].expiry

\* What is still queued is no earlier than what has left the heap.
QueuedIsLater ==
  \A r \in pending \cup inHand : \A i \in 1 .. Len(sent) : sent[i].expiry <= r.expiry

InHandIsNearest == \A h \in inHand : \A r \in pending : h.expiry <= r.expiry

\* Each registration is sent at most once: a ticket is in one place, and one
\* position of the stream, at a time.
SentOnce ==
  /\ \A r, q \in pending \cup inHand : r.ticket = q.ticket => r = q
  /\ pending \cap inHand = {}
  /\ \A i, j \in 1 .. Len(sent) : sent[i].ticket = sent[j].ticket => i = j
  /\ \A i \in 1 .. Len(sent), r \in pending \cup inHand : sent[i].ticket # r.ticket

TicketsIssued ==
  /\ \A r \in pending \cup inHand : r.ticket <= armed
  /\ \A i \in 1 .. Len(sent) : sent[i].ticket <= armed

\* The inductive invariant behind the order and timing properties.
WakeupInv == NeverOversleeps /\ NeverEarly /\ SentInOrder /\ QueuedIsLater /\ InHandIsNearest

\* A registered wakeup is delivered, unless the service is dropped or nobody
\* listens any more.
EventuallySent ==
  \A t \in 1 .. MaxArmed :
    armed >= t ~> \/ \E i \in 1 .. Len(sent) : sent[i].ticket = t
                  \/ owner # "live" \/ ~receiver

\* Dropping the service ends when a timer is still armed: the timed wait
\* returns and the thread sees the flag.
DropEndsWhenArmed == (owner = "joining" /\ pending # {}) ~> owner = "dropped"

\* "wait until a registration or shutdown wakes us": a drop ends whatever the
\* thread was doing.  (DropStore and DropNotify can both fall between the
\* thread's check of running and its wait.)
ShutdownWakes == owner = "joining" ~> owner = "dropped"
=============================================================================
