--------------------------- MODULE WebtermClient ----------------------------
(***************************************************************************)
(* mt5-webterm/src/client.rs `Client`, once dial has logged in: any number *)
(* of callers, the reader, the writer and the heartbeat are tasks that     *)
(* share the map of waiting requests, the outbound queue, the subscribed   *)
(* symbols and the closed flag.  An action is what a task does between two *)
(* points where another may run.                                           *)
(*                                                                         *)
(* A frame carries a command and no request number; `of` is a ghost that   *)
(* says which request the server answered.                                 *)
(***************************************************************************)
EXTENDS Naturals, Sequences, FiniteSets

CONSTANTS Requests,     \* the calls of `request` made on one client
          Subscribers,  \* the calls of `subscribe`
          Commands,     \* the commands requests use
          Symbols,
          Nobody,       \* no waiting request
          QueueSize,    \* the capacity of the outbound channel, 32
          WireSize      \* bound: messages in flight, in each direction

ASSUME WebtermAssumption ==
    /\ QueueSize \in Nat \ {0} /\ WireSize \in Nat \ {0}
    /\ Nobody \notin Requests

VARIABLES
    \* a call of request: where it is, what it asks, its oneshot channel
    pc, command, slot,
    \* a call of subscribe: where it is, the symbols it asks for, its list
    spc, asked, list,
    pending,        \* Client::pending
    subscriptions,  \* Client::subscriptions
    closed,         \* Client::closed
    outbound,       \* the channel to the writer
    writer, reader, heartbeat,   \* where the tasks are
    held,           \* the application still holds the client
    \* the socket and the server, external
    socket, toServer, toClient, streaming,
    overlapped      \* ghost: two calls of subscribe were under way at once

callers == <<pc, command, slot, pending>>
subscribers == <<spc, asked, list, subscriptions, overlapped>>
tasks == <<closed, writer, reader, heartbeat, held>>
wire == <<socket, toServer, toClient, streaming>>
vars == <<callers, subscribers, tasks, outbound, wire>>

Empty == [state |-> "empty"]
Dropped == [state |-> "dropped"]
Frame(r) == [state |-> "sent", cmd |-> command[r], of |-> r]

RequestMessage(r) == [kind |-> "request", of |-> r]
SubscribeMessage(all) == [kind |-> "subscribe", all |-> all]
Heartbeat == [kind |-> "heartbeat"]

Waiting == {r \in Requests : pc[r] \in {"registered", "waiting"}}
Active(t) == t \in {"checked", "registered", "waiting", "started", "extended"}
InUse == \/ \E r \in Requests : Active(pc[r])
         \/ \E s \in Subscribers : Active(spc[s])

\* The writer's end of the channel is gone once its task has ended.
Listening == writer = "running"
Sendable == Listening /\ Len(outbound) < QueueSize

Init ==
    /\ pc = [r \in Requests |-> "new"]
    /\ command \in [Requests -> Commands]
    /\ slot = [r \in Requests |-> Empty]
    /\ spc = [s \in Subscribers |-> "new"]
    /\ asked \in [Subscribers -> SUBSET Symbols]
    /\ list = [s \in Subscribers |-> {}]
    /\ pending = [c \in Commands |-> Nobody]
    /\ subscriptions = {} /\ streaming = {} /\ overlapped = FALSE
    /\ closed = FALSE /\ held = TRUE
    /\ writer = "running" /\ reader = "running" /\ heartbeat = "sleeping"
    /\ outbound = <<>>
    /\ socket = "open" /\ toServer = <<>> /\ toClient = <<>>

------------------------------------------------------------------------------
(* request *)

\* is_closed, looked at once, before the map is locked.
Check(r) ==
    /\ held
    /\ pc[r] = "new"
    /\ pc' = [pc EXCEPT ![r] = IF closed THEN "refused" ELSE "checked"]
    /\ UNCHANGED <<command, slot, pending, subscribers, tasks, outbound, wire>>

\* Fault: the sender of the request it replaces stays alive.
KeptSlots(r) == slot

\* insert drops the sender of the request it replaces.
ReplacedSlots(r) ==
    [q \in Requests |->
        IF q = pending[command[r]] /\ slot[q] = Empty THEN Dropped ELSE slot[q]]

Register(r) ==
    /\ pc[r] = "checked"
    /\ pc' = [pc EXCEPT ![r] = "registered"]
    /\ pending' = [pending EXCEPT ![command[r]] = r]
    /\ slot' = ReplacedSlots(r)
    /\ UNCHANGED <<command, subscribers, tasks, outbound, wire>>

\* Waits for room in the channel, without a deadline.
Send(r) ==
    /\ pc[r] = "registered"
    /\ Sendable
    /\ outbound' = Append(outbound, RequestMessage(r))
    /\ pc' = [pc EXCEPT ![r] = "waiting"]
    /\ UNCHANGED <<command, slot, pending, subscribers, tasks, wire>>

\* The entry stays in the map.
SendFails(r) ==
    /\ pc[r] = "registered"
    /\ ~Listening
    /\ pc' = [pc EXCEPT ![r] = "failed"]
    /\ UNCHANGED <<command, slot, pending, subscribers, tasks, outbound, wire>>

Resolve(r) ==
    /\ pc[r] = "waiting"
    /\ slot[r] # Empty
    /\ pc' = [pc EXCEPT ![r] = IF slot[r] = Dropped THEN "cancelled" ELSE "answered"]
    /\ UNCHANGED <<command, slot, pending, subscribers, tasks, outbound, wire>>

\* Fault: the answer is awaited without a deadline.
NoTimeOut(r) == FALSE /\ pc[r] = "waiting" /\ UNCHANGED vars

\* 20 s after the send, with nothing in the channel.  The entry stays.
TimeOut(r) ==
    /\ pc[r] = "waiting"
    /\ slot[r] = Empty
    /\ pc' = [pc EXCEPT ![r] = "timeout"]
    /\ UNCHANGED <<command, slot, pending, subscribers, tasks, outbound, wire>>

------------------------------------------------------------------------------
(* subscribe *)

\* Returns at once when the connection lists none of the names.
StartSubscribe(s) ==
    /\ held
    /\ spc[s] = "new"
    /\ spc' = [spc EXCEPT ![s] = IF asked[s] = {} THEN "subscribed" ELSE "started"]
    /\ overlapped' = (overlapped \/ \E t \in Subscribers : Active(spc[t]))
    /\ UNCHANGED <<asked, list, subscriptions, callers, tasks, outbound, wire>>

\* Fault: the request carries the new symbols only.
ExtendNewOnly(s) ==
    /\ spc[s] = "started"
    /\ spc' = [spc EXCEPT ![s] = "extended"]
    /\ subscriptions' = subscriptions \union asked[s]
    /\ list' = [list EXCEPT ![s] = asked[s]]
    /\ UNCHANGED <<asked, overlapped, callers, tasks, outbound, wire>>

\* Under the lock of subscriptions; the list is the set as it stands now.
Extend(s) ==
    /\ spc[s] = "started"
    /\ spc' = [spc EXCEPT ![s] = "extended"]
    /\ subscriptions' = subscriptions \union asked[s]
    /\ list' = [list EXCEPT ![s] = subscriptions']
    /\ UNCHANGED <<asked, overlapped, callers, tasks, outbound, wire>>

SendList(s) ==
    /\ spc[s] = "extended"
    /\ \/ /\ Sendable
          /\ outbound' = Append(outbound, SubscribeMessage(list[s]))
          /\ spc' = [spc EXCEPT ![s] = "subscribed"]
       \/ /\ ~Listening
          /\ spc' = [spc EXCEPT ![s] = "failed"]
          /\ UNCHANGED outbound
    /\ UNCHANGED <<asked, list, subscriptions, overlapped, callers, tasks, wire>>

\* The last handle is dropped; calls borrow one.
Drop ==
    /\ held /\ ~InUse
    /\ held' = FALSE
    /\ UNCHANGED <<callers, subscribers, closed, writer, reader, heartbeat,
                   outbound, wire>>

------------------------------------------------------------------------------
(* The tasks *)

\* Fault: the heartbeat keeps a sender of its own.
SenderKept == held \/ heartbeat # "ended"

\* A strong sender exists: a handle of the client, or the one the heartbeat
\* upgraded its weak sender to and keeps until the channel took its message.
SenderLeft == held \/ heartbeat = "sending"

Wake ==
    /\ heartbeat = "sleeping"
    /\ heartbeat' = IF SenderLeft THEN "sending" ELSE "ended"
    /\ UNCHANGED <<callers, subscribers, closed, writer, reader, held, outbound, wire>>

Beat ==
    /\ heartbeat = "sending"
    /\ \/ /\ Sendable
          /\ outbound' = Append(outbound, Heartbeat)
          /\ heartbeat' = "sleeping"
       \/ /\ ~Listening
          /\ heartbeat' = "ended"
          /\ UNCHANGED outbound
    /\ UNCHANGED <<callers, subscribers, closed, writer, reader, held, wire>>

\* A write to a socket that closed may still succeed, into nothing.
Write ==
    /\ Listening /\ outbound # <<>>
    /\ \/ /\ socket = "open" /\ Len(toServer) < WireSize
          /\ toServer' = Append(toServer, Head(outbound))
          /\ outbound' = Tail(outbound)
          /\ UNCHANGED writer
       \/ /\ socket = "closed"
          /\ outbound' = Tail(outbound)
          /\ UNCHANGED <<writer, toServer>>
       \/ /\ socket = "closed"
          /\ writer' = "ended"
          /\ outbound' = <<>>
          /\ UNCHANGED toServer
    /\ UNCHANGED <<callers, subscribers, closed, reader, heartbeat, held,
                   socket, toClient, streaming>>

\* recv returns None: no sender is left and the channel is empty.
HangUp ==
    /\ Listening /\ outbound = <<>>
    /\ ~SenderLeft
    /\ writer' = "ended"
    /\ UNCHANGED <<callers, subscribers, closed, reader, heartbeat, held,
                   outbound, wire>>

\* Fault: any waiting request is answered.
ReadForAnyone ==
    /\ reader = "running" /\ toClient # <<>>
    /\ toClient' = Tail(toClient)
    /\ \E c \in Commands :
         /\ pending' = [pending EXCEPT ![c] = Nobody]
         /\ slot' = [q \in Requests |->
                        IF q = pending[c] THEN Head(toClient) ELSE slot[q]]
    /\ UNCHANGED <<pc, command, subscribers, tasks, outbound,
                   socket, toServer, streaming>>

\* The waiting request of the frame's command is taken out and answered; the
\* send fails silently when its call has given up.
Read ==
    /\ reader = "running" /\ toClient # <<>>
    /\ toClient' = Tail(toClient)
    /\ LET frame == Head(toClient)
           wait == pending[frame.cmd] IN
       /\ pending' = [pending EXCEPT ![frame.cmd] = Nobody]
       /\ slot' = [q \in Requests |-> IF q = wait THEN frame ELSE slot[q]]
    /\ UNCHANGED <<pc, command, subscribers, tasks, outbound,
                   socket, toServer, streaming>>

\* A close frame, the end of the stream or a read error; frames behind it are
\* not read.
ReaderEnds ==
    /\ reader = "running" /\ socket = "closed"
    /\ reader' = "clearing"
    /\ closed' = TRUE
    /\ UNCHANGED <<callers, subscribers, writer, heartbeat, held, outbound, wire>>

Clear ==
    /\ reader = "clearing"
    /\ reader' = "ended"
    /\ slot' = [q \in Requests |->
                   IF \E c \in Commands : pending[c] = q THEN Dropped ELSE slot[q]]
    /\ pending' = [c \in Commands |-> Nobody]
    /\ UNCHANGED <<pc, command, subscribers, closed, writer, heartbeat, held,
                   outbound, wire>>

------------------------------------------------------------------------------
(* The server: it reads in order, and answers in order or not at all.  A      *)
(* frame the reader cannot decipher is one it did not send.                   *)

Serve ==
    /\ toServer # <<>> /\ socket = "open"
    /\ toServer' = Tail(toServer)
    /\ LET m == Head(toServer) IN
       \/ /\ m.kind = "request"
          /\ Len(toClient) < WireSize
          /\ toClient' = Append(toClient, Frame(m.of))
          /\ UNCHANGED streaming
       \/ /\ m.kind = "request"
          /\ UNCHANGED <<toClient, streaming>>
       \/ /\ m.kind = "subscribe"
          /\ streaming' = m.all
          /\ UNCHANGED toClient
       \/ /\ m.kind = "heartbeat"
          /\ UNCHANGED <<toClient, streaming>>
    /\ UNCHANGED <<callers, subscribers, tasks, outbound, socket>>

CloseSocket ==
    /\ socket = "open"
    /\ socket' = "closed"
    /\ UNCHANGED <<callers, subscribers, tasks, outbound, toServer, toClient, streaming>>

------------------------------------------------------------------------------

RequestStep(r) ==
    Check(r) \/ Register(r) \/ Send(r) \/ SendFails(r) \/ Resolve(r) \/ TimeOut(r)
SubscribeStep(s) == StartSubscribe(s) \/ Extend(s) \/ SendList(s)
ReaderStep == Read \/ ReaderEnds \/ Clear
WriterStep == Write \/ HangUp
HeartbeatStep == Wake \/ Beat

Next ==
    \/ \E r \in Requests : RequestStep(r)
    \/ \E s \in Subscribers : SubscribeStep(s)
    \/ ReaderStep \/ WriterStep \/ HeartbeatStep
    \/ Drop \/ Serve \/ CloseSocket

Spec == Init /\ [][Next]_vars

\* Every task that can run does, timers fire, and the channel hands out room in
\* the order it was asked for.  Of the network: what is written is taken by the
\* far end or the connection closes.  Nothing says that the server answers.
Fairness ==
    /\ \A r \in Requests :
         /\ WF_vars(Register(r)) /\ SF_vars(Send(r)) /\ WF_vars(SendFails(r))
         /\ WF_vars(Resolve(r) \/ TimeOut(r))
    /\ \A s \in Subscribers : WF_vars(Extend(s)) /\ SF_vars(SendList(s))
    /\ WF_vars(ReaderStep) /\ WF_vars(WriterStep)
    /\ WF_vars(Wake) /\ SF_vars(Beat)
    /\ WF_vars(Serve \/ CloseSocket)
FairSpec == Spec /\ Fairness

------------------------------------------------------------------------------
(* Properties *)

Slots == {Empty, Dropped} \union [state : {"sent"}, cmd : Commands, of : Requests]
OutboundMessages ==
    [kind : {"request"}, of : Requests] \union
    [kind : {"subscribe"}, all : SUBSET Symbols] \union {Heartbeat}

\* The shapes of the shared state; the closed flag is set as the reader ends.
TypeOK ==
    /\ pc \in [Requests -> {"new", "refused", "checked", "registered", "waiting",
                            "answered", "cancelled", "timeout", "failed"}]
    /\ command \in [Requests -> Commands]
    /\ slot \in [Requests -> Slots]
    /\ spc \in [Subscribers -> {"new", "started", "extended", "subscribed", "failed"}]
    /\ asked \in [Subscribers -> SUBSET Symbols]
    /\ list \in [Subscribers -> SUBSET Symbols]
    /\ pending \in [Commands -> Requests \union {Nobody}]
    /\ subscriptions \subseteq Symbols /\ streaming \subseteq Symbols
    /\ overlapped \in BOOLEAN /\ held \in BOOLEAN
    /\ closed = (reader # "running")
    /\ writer \in {"running", "ended"}
    /\ reader \in {"running", "clearing", "ended"}
    /\ heartbeat \in {"sleeping", "sending", "ended"}
    /\ socket \in {"open", "closed"}
    /\ outbound \in Seq(OutboundMessages) /\ Len(outbound) \in 0 .. QueueSize
    /\ toServer \in Seq(OutboundMessages) /\ Len(toServer) \in 0 .. WireSize
    /\ toClient \in Seq(Slots \ {Empty, Dropped}) /\ Len(toClient) \in 0 .. WireSize

\* A call that waits, and has neither an answer nor word that none will come,
\* is the one the reader would find for its command: no call waits for a frame
\* the reader would drop.
WaiterRegistered ==
    \A r \in Waiting : slot[r] = Empty => pending[command[r]] = r

\* The commands of which some call gave up, or was replaced in the map, while its
\* answer could still come.
Disturbed ==
    {command[q] : q \in {p \in Requests : pc[p] = "timeout" \/ slot[p] = Dropped}}

\* While no call of its command gave up and none was replaced, a request gets
\* the answer to itself: frames carry no request number, only a command.
AnswersAreOwn ==
    \A r \in Requests :
        slot[r].state = "sent" /\ command[r] \notin Disturbed => slot[r].of = r

\* Once every subscription is sent and served, the server streams all symbols
\* subscribed on this connection, provided no two calls overlapped.
Settled ==
    /\ socket = "open" /\ Listening
    /\ \A s \in Subscribers : ~Active(spc[s])
    /\ \A i \in DOMAIN outbound : outbound[i].kind # "subscribe"
    /\ \A i \in DOMAIN toServer : toServer[i].kind # "subscribe"
SubscribedInTurn == Settled /\ ~overlapped => streaming = subscriptions

\* Every call of request comes back, with whatever outcome, although the map is
\* shared, the channel may be full and the server silent.
RequestsReturn ==
    \A r \in Requests : pc[r] = "checked" ~> ~Active(pc[r])

\* Once the last handle is gone the heartbeat stops and the writer closes the
\* socket: the heartbeat does not keep the session alive by itself.
AbandonedEnds == ~held ~> (writer = "ended" /\ heartbeat = "ended")

\* The calls whose place in the map another call took while they waited; the place
\* of a call that gave up is nobody's.
Replaced == {q \in Requests : slot[q] = Dropped /\ pc[q] # "timeout"}

\* Said of a trade's receipt: its ticket is "The order or position created or
\* acted on."  Even where no call took another's place in the map, a trade is
\* answered by whatever trade answer comes next, a late one included.
ReceiptIsOwn ==
    Replaced = {} => \A r \in Requests : pc[r] = "answered" => slot[r].of = r

=============================================================================
