---------------------------- MODULE ChatClient -----------------------------
(***************************************************************************)
(* One chat-cli process: the application thread (bin/chat-cli/src/app.rs,  *)
(* main.rs, ui.rs), the client's worker thread and its Drop                *)
(* (crates/generic-chat/src/client.rs) and the core they share behind a    *)
(* mutex.  Of the core this module keeps which conversations are loaded    *)
(* and which the client can send to; GroupV1 says why.  The transport may  *)
(* hand over anything at any time.  An error is an event that only changes *)
(* the status line, as is a gap, which is left out.                        *)
(***************************************************************************)
EXTENDS Integers, Sequences

CONSTANTS
  Convos,      \* conversation ids
  Mine,        \* conversations this client creates
  Restored,    \* conversations whose chat and record a previous session left
  NoChat,      \* no active chat
  MaxFrames,   \* bound: frames of peers and messages of this client
  MaxWakeups   \* bound: wakeups of conversations

VARIABLES
  inbound,     \* the channel from the transport
  loaded,      \* cached_convos of the core
  seated,      \* those among them that can_send
  used,        \* frames and messages so far
  sent,        \* own messages published: conversation and id
  echo,        \* the message or conversation a call has just returned
  wakeups,     \* the channel of the wakeup service
  worker,      \* "select", "emit" or "done"
  batch,       \* the events the worker has yet to send
  events,      \* the channel to the application
  receiver,    \* the application still holds its end of it
  shutdown,    \* the client's end of the shutdown channel is dropped
  phase,       \* the application thread
  chats,       \* ids of state.chats
  shown,       \* messages in them: conversation and id
  delivered,   \* own messages shown with an acknowledgement
  active, isActive,
  saved,       \* the state file: chats, shown and delivered
  surfaced,    \* history: messages handed out by the core and not deleted or cleared
  acked,       \* history: own messages the core reported as acknowledged
  deleted,     \* history: chats the user deleted
  unsynced,    \* history: the active chat or its membership changed unnoticed
  wakes

core == <<loaded, seated, sent, surfaced, acked, used>>
threads == <<inbound, wakeups, worker, batch, shutdown, wakes>>
view == <<chats, shown, delivered, active, isActive, unsynced>>
app == <<phase, echo, view, deleted, saved>>
vars == <<core, threads, app, events, receiver>>

ASSUME ClientAssumption ==
  /\ Mine \subseteq Convos /\ Restored \subseteq Convos \ Mine
  /\ NoChat \notin Convos \cup (Convos \X Nat)
  /\ MaxFrames \in Nat /\ MaxWakeups \in Nat

Ids == 0 .. MaxFrames
Messages == Convos \X Ids
Frames == [kind : {"welcome", "content", "change", "eject", "garbage"}, convo : Convos,
           id : Ids, acks : SUBSET Messages]
Events == [kind : {"error"}] \cup [kind : {"started", "changed"}, convo : Convos]
            \cup [kind : {"received", "acked"}, convo : Convos, id : Ids]

CoreOK ==
  /\ seated \subseteq loaded /\ loaded \subseteq Convos
  /\ used \in Ids /\ sent \subseteq Messages
  /\ surfaced \subseteq Messages /\ acked \subseteq sent

ThreadsOK ==
  /\ inbound \in Seq(Frames) /\ wakeups \in Seq(Convos) /\ wakes \in 0 .. MaxWakeups
  /\ worker \in {"select", "emit", "done"} /\ (worker = "emit" => batch # <<>>)
  /\ batch \in Seq(Events) /\ events \in Seq(Events)
  /\ receiver \in BOOLEAN /\ shutdown \in BOOLEAN

AppOK ==
  /\ phase \in {"opening", "drain", "draining", "input", "sending", "creating", "closing", "joining", "closed"}
  /\ echo \in Messages \cup {NoChat} /\ (phase \in {"sending", "creating"} <=> echo # NoChat)
  /\ chats \subseteq Convos /\ shown \subseteq chats \X Ids /\ delivered \subseteq shown
  /\ active \in chats \cup {NoChat} /\ isActive \in BOOLEAN /\ unsynced \in BOOLEAN
  /\ saved \in (SUBSET Convos) \X (SUBSET Messages) \X (SUBSET Messages)
  /\ deleted \subseteq Convos

TypeOK == CoreOK /\ ThreadsOK /\ AppOK

Init ==
  /\ inbound = <<>> /\ loaded = {} /\ seated = {} /\ used = 0 /\ sent = {} /\ echo = NoChat
  /\ wakeups = <<>> /\ worker = "select" /\ batch = <<>> /\ events = <<>>
  /\ receiver = TRUE /\ shutdown = FALSE /\ phase = "opening"
  /\ chats = {} /\ shown = {} /\ delivered = {} /\ active = NoChat /\ isActive = FALSE
  /\ saved = <<Restored, Restored \X {0}, {}>>
  /\ surfaced = {} /\ acked = {} /\ deleted = {} /\ unsynced = FALSE
  /\ wakes = 0

----------------------------------------------------------------------------
\* The transport hands a frame over: a welcome to a conversation of another
\* client, or anything on a conversation that exists.  Content acknowledges what
\* its sender has of ours.  A torn frame is garbage, and names no conversation.
\* Once the worker has ended its end of the channel is gone.
FrameArrives(kind, c) ==
  /\ worker # "done" /\ used < MaxFrames /\ used' = used + 1
  /\ CASE kind = "welcome" -> c \notin Mine
       [] kind = "garbage" -> c = CHOOSE d \in Convos : TRUE
       [] OTHER -> c \in Mine => c \in loaded
  /\ inbound' = Append(inbound, [kind |-> kind, convo |-> c, id |-> used + 1,
                                 acks |-> IF kind = "content" THEN {m \in sent : m[1] = c} ELSE {}])
  /\ UNCHANGED <<loaded, seated, sent, surfaced, acked, wakeups, worker, batch, shutdown, wakes,
                 app, events, receiver>>

----------------------------------------------------------------------------
\* The worker.  The core's mutex makes each call into it one step.
Event(kind, c) == [kind |-> kind, convo |-> c]
Received(e) == <<[kind |-> "received", convo |-> e.convo, id |-> e.id]>>
Error == <<[kind |-> "error"]>>

\* delivery_ack_events: one event for each acknowledgement, in some order.
AckEvents(acks) ==
  LET order == CHOOSE s \in UNION {[1 .. n -> acks] : n \in 0 .. MaxFrames} :
                 \A m \in acks : \E i \in DOMAIN s : \A j \in DOMAIN s : s[j] = m <=> j = i
  IN  [i \in DOMAIN order |-> [kind |-> "acked", convo |-> order[i][1], id |-> order[i][2]]]

\* Core::handle_payload on a conversation the client has no seat in: a record
\* without its MLS state is an error, anything else is passed over.
Unread(c) == IF c \in Restored /\ c \notin loaded THEN Error ELSE <<>>

\* Mutant: acknowledgements are left in the core.
EventsOfNoAcks(e) ==
  CASE e.kind = "welcome" -> IF e.convo \in loaded THEN Error
                             ELSE <<Event("started", e.convo)>>
    [] e.kind = "garbage" -> Error
    [] e.kind = "content" -> IF e.convo \in seated THEN Received(e) ELSE Unread(e.convo)
    [] OTHER -> IF e.convo \in seated THEN <<Event("changed", e.convo)>> ELSE Unread(e.convo)

\* events_from_inbound, then delivery_ack_events.
EventsOf(e) ==
  CASE e.kind = "welcome" -> IF e.convo \in loaded THEN Error
                             ELSE <<Event("started", e.convo)>>
    [] e.kind = "garbage" -> Error
    [] e.kind = "content" -> IF e.convo \in seated THEN Received(e) \o AckEvents(e.acks \ acked)
                             ELSE Unread(e.convo)
    [] OTHER -> IF e.convo \in seated THEN <<Event("changed", e.convo)>> ELSE Unread(e.convo)

\* What the frame does to the core.
HandlePayload(e) ==
  LET heard == e.kind = "content" /\ e.convo \in seated
  IN  /\ loaded' = IF e.kind = "welcome" THEN loaded \cup {e.convo} ELSE loaded
      /\ seated' = IF e.kind = "welcome" /\ e.convo \notin loaded THEN seated \cup {e.convo}
                   ELSE IF e.kind = "eject" THEN seated \ {e.convo} ELSE seated
      /\ surfaced' = IF heard THEN surfaced \cup {<<e.convo, e.id>>} ELSE surfaced
      /\ acked' = IF heard THEN acked \cup e.acks ELSE acked
      /\ UNCHANGED <<sent, used>>

\* The worker leaves the mutex with the events still to be sent.
Emit(es) == batch' = es /\ worker' = IF es = <<>> THEN "select" ELSE "emit"

WorkerInbound ==
  /\ worker = "select" /\ inbound # <<>>
  /\ inbound' = Tail(inbound)
  /\ Emit(EventsOf(Head(inbound))) /\ HandlePayload(Head(inbound))
  /\ UNCHANGED <<wakeups, shutdown, wakes, app, events, receiver>>

\* The application does not hear of what the call has changed.
Untold == unsynced' = (unsynced \/ (active \in seated /\ active \notin seated'))

\* handle_payload fails: before the frame has had any effect, or after it, when
\* what it led to cannot be sent, armed or read.  Of what it did only the
\* acknowledgements are taken out of the core.
WorkerInboundFails(applied) ==
  /\ worker = "select" /\ inbound # <<>>
  /\ inbound' = Tail(inbound)
  /\ LET e == Head(inbound)
     IN  /\ applied => e.kind \in {"content", "eject"} /\ e.convo \in seated
         /\ seated' = IF applied /\ e.kind = "eject" THEN seated \ {e.convo} ELSE seated
         /\ acked' = IF applied THEN acked \cup e.acks ELSE acked
  /\ Emit(Error \o AckEvents(acked' \ acked)) /\ Untold
  /\ UNCHANGED <<loaded, sent, surfaced, used, wakeups, shutdown, wakes, phase, echo, chats, shown,
                 delivered, active, isActive, deleted, saved, events, receiver>>

\* The wakeup service fires for a conversation of this session.
WakeupDue(c) ==
  /\ worker # "done" /\ c \in loaded /\ wakes < MaxWakeups
  /\ wakeups' = Append(wakeups, c) /\ wakes' = wakes + 1
  /\ UNCHANGED <<core, inbound, worker, batch, shutdown, app, events, receiver>>

\* A wakeup may come to nothing, merge a commit of this client or one that
\* removes it, or fail, which is only logged, before or after it has merged that.
WorkerWakeup(outcome) ==
  /\ worker = "select" /\ wakeups # <<>>
  /\ wakeups' = Tail(wakeups)
  /\ LET c == Head(wakeups)
     IN  /\ outcome # "none" => c \in seated
         /\ Emit(IF outcome \in {"change", "eject"} THEN <<Event("changed", c)>> ELSE <<>>)
         /\ seated' = IF outcome \in {"eject", "fail"} THEN seated \ {c} ELSE seated
  /\ IF outcome = "fail" THEN Untold ELSE UNCHANGED unsynced
  /\ UNCHANGED <<loaded, sent, surfaced, acked, used, inbound, shutdown, wakes, phase, echo, chats,
                 shown, delivered, active, isActive, deleted, saved, events, receiver>>

\* event_tx.send fails once the application has dropped its receiver.
WorkerEmit ==
  /\ worker = "emit"
  /\ IF receiver
     THEN /\ events' = Append(events, Head(batch)) /\ batch' = Tail(batch)
          /\ worker' = IF Len(batch) = 1 THEN "select" ELSE "emit"
     ELSE worker' = "done" /\ batch' = <<>> /\ UNCHANGED events
  /\ UNCHANGED <<core, inbound, wakeups, shutdown, wakes, app, receiver>>

\* select! picks any branch that is ready.
WorkerShutdown ==
  /\ worker = "select" /\ shutdown
  /\ worker' = "done"
  /\ UNCHANGED <<core, inbound, wakeups, batch, shutdown, wakes, app, events, receiver>>

Worker ==
  \/ WorkerInbound \/ WorkerEmit \/ WorkerShutdown
  \/ \E applied \in BOOLEAN : WorkerInboundFails(applied)
  \/ \E outcome \in {"none", "change", "eject", "fail"} : WorkerWakeup(outcome)

----------------------------------------------------------------------------
\* The application thread.
CanSend(c) == c \in seated

\* The file is written in one go; that it may tear is left out.
SaveState == saved' = <<chats', shown', delivered'>>

SetActiveChat(c) == active' = c /\ isActive' = CanSend(c) /\ unsynced' = FALSE

StartSession(c) ==
  /\ chats' = chats \cup {c}
  /\ shown' = {m \in shown : m[1] # c} /\ delivered' = {m \in delivered : m[1] # c}
  /\ SetActiveChat(c)

\* ChatApp::new, load_state: the chats of the last session, none of them active.
Open ==
  /\ phase = "opening" /\ phase' = "drain"
  /\ chats' = saved[1] /\ shown' = saved[2] /\ delivered' = saved[3]
  /\ surfaced' = surfaced \cup shown'
  /\ UNCHANGED <<loaded, seated, sent, acked, used, threads, echo, active, isActive, unsynced,
                 deleted, saved, events, receiver>>

\* ChatApp::new fails: it drops the event receiver, then the client.
OpenFails ==
  /\ phase = "opening" /\ phase' = "closing"
  /\ receiver' = FALSE
  /\ UNCHANGED <<core, threads, echo, view, deleted, saved, events>>

\* Mutant: a chat that exists is started again.
HandleStartedAnew(c) == StartSession(c)

HandleStarted(c) ==
  IF c \in chats
  THEN /\ unsynced' = (unsynced \/ c = active)
       /\ UNCHANGED <<chats, shown, delivered, active, isActive>>
  ELSE StartSession(c)

\* Mutant: the flag is only set when the chat becomes active.
HandleChangedIgnored(c) == UNCHANGED view

HandleChanged(c) ==
  /\ isActive' = IF c = active THEN CanSend(c) ELSE isActive
  /\ unsynced' = IF c = active THEN FALSE ELSE unsynced
  /\ UNCHANGED <<chats, shown, delivered, active>>

HandleReceived(c, id) ==
  /\ shown' = IF c \in chats THEN shown \cup {<<c, id>>} ELSE shown
  /\ UNCHANGED <<chats, delivered, active, isActive, unsynced>>

HandleAcked(c, id) ==
  /\ delivered' = IF <<c, id>> \in shown THEN delivered \cup {<<c, id>>} ELSE delivered
  /\ UNCHANGED <<chats, shown, active, isActive, unsynced>>

\* One turn of the loop in process_incoming.
ProcessIncoming ==
  /\ phase \in {"drain", "draining"} /\ events # <<>> /\ phase' = "draining"
  /\ events' = Tail(events)
  /\ LET v == Head(events)
     IN  CASE v.kind = "started" -> HandleStarted(v.convo)
           [] v.kind = "changed" -> HandleChanged(v.convo)
           [] v.kind = "received" -> HandleReceived(v.convo, v.id)
           [] v.kind = "acked" -> HandleAcked(v.convo, v.id)
           [] v.kind = "error" -> UNCHANGED view
  /\ UNCHANGED <<core, threads, echo, deleted, saved, receiver>>

\* Mutant: only the commands save.
DrainedUnsaved ==
  /\ phase \in {"drain", "draining"} /\ events = <<>> /\ phase' = "input"
  /\ UNCHANGED <<core, threads, echo, view, deleted, saved, events, receiver>>

\* The channel is empty: save what came out of it, draw, and poll the keyboard.
Drained ==
  /\ phase \in {"drain", "draining"} /\ events = <<>> /\ phase' = "input"
  /\ UNCHANGED <<core, threads, echo, view, deleted, events, receiver>>
  /\ IF phase = "draining" THEN SaveState ELSE UNCHANGED saved

\* Mutant: the keyboard is read without a timeout.
NoInputWaits == phase = "input" /\ UNCHANGED vars

\* No key, or a call that fails: a send the core refuses, an error of publish.
NoInput ==
  /\ phase = "input" /\ phase' = "drain"
  /\ UNCHANGED <<core, threads, echo, view, deleted, saved, events, receiver>>

\* /switch
Switch(c) ==
  /\ phase = "input" /\ phase' = "drain"
  /\ c \in chats
  /\ SetActiveChat(c)
  /\ UNCHANGED <<core, threads, echo, chats, shown, delivered, deleted, events, receiver>>
  /\ SaveState

\* The chat /delete makes active: any other one if it deletes the active one.
NextActive(c) ==
  IF active # c THEN {active} ELSE IF chats = {c} THEN {NoChat} ELSE chats \ {c}

Delete(c) ==
  /\ phase = "input" /\ phase' = "drain"
  /\ c \in chats
  /\ chats' = chats \ {c}
  /\ shown' = {m \in shown : m[1] # c} /\ delivered' = {m \in delivered : m[1] # c}
  /\ surfaced' = surfaced \ (shown \ shown') /\ deleted' = deleted \cup {c}
  /\ \E d \in NextActive(c) : active' = d /\ unsynced' = (unsynced \/ d # active)
  /\ UNCHANGED <<loaded, seated, sent, acked, used, threads, echo, isActive, events, receiver>>
  /\ SaveState

\* /clear
Clear ==
  /\ phase = "input" /\ phase' = "drain"
  /\ active # NoChat
  /\ shown' = {m \in shown : m[1] # active} /\ delivered' = {m \in delivered : m[1] # active}
  /\ surfaced' = surfaced \ (shown \ shown')
  /\ UNCHANGED <<loaded, seated, sent, acked, used, threads, echo, chats, active, isActive, unsynced,
                 deleted, events, receiver>>
  /\ SaveState

\* send_message and send_reply: the core publishes and lets go of the mutex.
SendMessage ==
  /\ phase = "input" /\ phase' = "sending"
  /\ active # NoChat /\ isActive /\ CanSend(active)
  /\ used < MaxFrames /\ used' = used + 1
  /\ echo' = <<active, used + 1>> /\ sent' = sent \cup {echo'}
  /\ UNCHANGED <<loaded, seated, surfaced, acked, threads, view, deleted, saved, events, receiver>>

EchoSent ==
  /\ phase = "sending" /\ phase' = "drain"
  /\ shown' = shown \cup {echo} /\ echo' = NoChat
  /\ UNCHANGED <<core, threads, chats, delivered, active, isActive, unsynced, deleted,
                 events, receiver>>
  /\ SaveState

\* /dm and /new: the core caches the conversation, then the session starts.
Create(c) ==
  /\ phase = "input" /\ phase' = "creating"
  /\ c \in Mine \ loaded
  /\ loaded' = loaded \cup {c} /\ seated' = seated \cup {c} /\ echo' = <<c, 0>>
  /\ UNCHANGED <<sent, surfaced, acked, used, threads, view, deleted, saved, events, receiver>>

Created ==
  /\ phase = "creating" /\ phase' = "drain"
  /\ StartSession(echo[1]) /\ echo' = NoChat
  /\ UNCHANGED <<core, threads, deleted, events, receiver>>
  /\ SaveState

\* /quit, Esc or Ctrl+C.
Quit ==
  /\ phase = "input" /\ phase' = "closing"
  /\ UNCHANGED <<core, threads, echo, view, deleted, saved, events, receiver>>

\* Mutant: the worker is joined without being told.
DropClientUntold ==
  /\ phase = "closing" /\ phase' = "joining"
  /\ UNCHANGED <<core, threads, echo, view, deleted, saved, events, receiver>>

\* ChatClient::drop: let go of the shutdown channel, then join.
DropClient ==
  /\ phase = "closing" /\ phase' = "joining"
  /\ shutdown' = TRUE
  /\ UNCHANGED <<core, inbound, wakeups, worker, batch, wakes, echo, view, deleted, saved, events,
                 receiver>>

Join ==
  /\ phase = "joining" /\ worker = "done" /\ phase' = "closed"
  /\ UNCHANGED <<core, threads, echo, view, deleted, saved, events, receiver>>

\* The steps the thread takes by itself, and those a user or a failure brings about.
Thread ==
  Open \/ ProcessIncoming \/ Drained \/ NoInput \/ EchoSent \/ Created \/ DropClient \/ Join
User ==
  \/ OpenFails \/ Clear \/ SendMessage \/ Quit
  \/ \E c \in Convos : Switch(c) \/ Delete(c) \/ Create(c)

Next ==
  \/ Worker \/ Thread \/ User
  \/ \E c \in Convos : WakeupDue(c)
  \/ \E kind \in {"welcome", "content", "change", "eject", "garbage"}, c \in Convos :
       FrameArrives(kind, c)

\* Both threads run.
Spec == Init /\ [][Next]_vars /\ WF_vars(Worker) /\ WF_vars(Thread)

----------------------------------------------------------------------------
InFlight(v) == v \in {batch[i] : i \in 1 .. Len(batch)} \cup {events[i] : i \in 1 .. Len(events)}
Running == phase \in {"drain", "draining", "input", "sending", "creating"}

\* Worker and application never settle on different views of the active chat:
\* is_active is what can_send says now, or the event that will correct it is on
\* its way.  Left out are the three cases in which nothing asks can_send until
\* the chat changes again: /delete picks the next chat itself, a conversation
\* that is started again leaves its chat as it is, and of a call that removed
\* this client and then failed the application hears an error or nothing.
ActiveFlagFresh ==
  Running /\ ~unsynced =>
    \/ isActive <=> CanSend(active)
    \/ \E kind \in {"changed", "started"} : InFlight(Event(kind, active))

\* "Mirrors ChatClient::can_send for the active chat": the same without those
\* cases.  It does not hold (ChatClientMirror.cfg).
FlagMirrors ==
  Running =>
    \/ isActive <=> CanSend(active)
    \/ \E kind \in {"changed", "started"} : InFlight(Event(kind, active))

\* An acknowledgement the core has reported reaches the message it is for, even
\* when the worker reports it before the sending thread has echoed the message.
AckReachesMessage ==
  Running => \A m \in acked \cap shown :
    m \in delivered \/ InFlight([kind |-> "acked", convo |-> m[1], id |-> m[2]])

\* A message the core has handed out, in this session or an earlier one, is in
\* its chat or on its way there, until the user deletes or clears it.
ContentReachesChat ==
  Running => \A m \in surfaced :
    \/ m \in shown \/ m[1] \in deleted
    \/ InFlight([kind |-> "received", convo |-> m[1], id |-> m[2]])

\* What the user is looking at while the application waits for a key is in the
\* state file: the events that brought it are consumed and the core's secrets
\* for it are used up, so a crash would otherwise lose it for good.
SavedBeforeDrawn == phase = "input" => saved = <<chats, shown, delivered>>

\* Whatever the transport hands over ends up with the application, as long as
\* neither thread is told to end.
EventuallyShown ==
  <>[](Running => inbound = <<>> /\ batch = <<>> /\ events = <<>>)

\* Closing never hangs: ChatClient::drop gets its worker back whatever the
\* worker is doing and whatever is queued for it.
QuitEnds == phase = "closing" ~> phase = "closed"
=============================================================================
