------------------------ MODULE WebtermClientProofs -------------------------
(***************************************************************************)
(* Proofs about WebtermClient, for any number of calls, any commands and   *)
(* any capacity of the outbound channel.                                   *)
(***************************************************************************)
EXTENDS WebtermClient, TLAPS

------------------------------------------------------------------------------
(* The inductive invariant *)

Unregistered == {"new", "refused", "checked"}
Unsent == Unregistered \union {"registered", "failed"}

\* A request in the map is registered for its own command and has no answer.
Entries ==
    /\ \A c \in Commands :
         pending[c] # Nobody =>
             /\ command[pending[c]] = c
             /\ slot[pending[c]] = Empty
             /\ pc[pending[c]] \notin Unregistered
    /\ \A r \in Requests : pc[r] \in Unregistered => slot[r] = Empty

Asking(s) == {i \in DOMAIN s : s[i].kind = "request"}

\* The requests whose message or answer may be under way: they were sent, and
\* still wait unless their command was disturbed.
Underway ==
    {q \in Requests :
        /\ pc[q] \notin Unsent
        /\ command[q] \in Disturbed \/ (pc[q] = "waiting" /\ slot[q] = Empty)}

\* Every request is under way in one place at most.
Flight ==
    /\ \A i \in Asking(outbound) : outbound[i].of \in Underway
    /\ \A i \in Asking(toServer) : toServer[i].of \in Underway
    /\ \A i \in DOMAIN toClient :
         toClient[i].of \in Underway /\ toClient[i].cmd = command[toClient[i].of]
    /\ \A i, j \in Asking(outbound) : outbound[i].of = outbound[j].of => i = j
    /\ \A i, j \in Asking(toServer) : toServer[i].of = toServer[j].of => i = j
    /\ \A i, j \in DOMAIN toClient : toClient[i].of = toClient[j].of => i = j
    /\ \A i \in Asking(outbound), j \in Asking(toServer) : outbound[i].of # toServer[j].of
    /\ \A i \in Asking(outbound), j \in DOMAIN toClient : outbound[i].of # toClient[j].of
    /\ \A i \in Asking(toServer), j \in DOMAIN toClient : toServer[i].of # toClient[j].of

WInv == TypeOK /\ Entries /\ WaiterRegistered

------------------------------------------------------------------------------
(* Sequences *)

LEMMA TailOf ==
    ASSUME NEW S, NEW s \in Seq(S), s # <<>>
    PROVE  /\ Tail(s) \in Seq(S) /\ Len(Tail(s)) = Len(s) - 1 /\ Len(s) \in Nat \ {0}
           /\ Head(s) = s[1] /\ Head(s) \in S /\ 1 \in DOMAIN s
           /\ \A i \in DOMAIN Tail(s) :
                i + 1 \in DOMAIN s /\ Tail(s)[i] = s[i + 1] /\ i + 1 # 1
<1>1. Len(s) \in Nat \ {0} /\ 1 \in DOMAIN s /\ s[1] \in S
  OBVIOUS
<1>2. ASSUME NEW i \in DOMAIN Tail(s)
      PROVE  i + 1 \in DOMAIN s /\ Tail(s)[i] = s[i + 1] /\ i + 1 # 1
  OBVIOUS
<1> QED
  BY <1>1, <1>2

LEMMA AppendOf ==
    ASSUME NEW S, NEW s \in Seq(S), NEW e \in S
    PROVE  /\ Append(s, e) \in Seq(S) /\ Len(Append(s, e)) = Len(s) + 1
           /\ \A i \in DOMAIN Append(s, e) :
                \/ i \in DOMAIN s /\ Append(s, e)[i] = s[i]
                \/ i = Len(s) + 1 /\ i \notin DOMAIN s /\ Append(s, e)[i] = e
  OBVIOUS

LEMMA AppendWithin ==
    ASSUME NEW S, NEW s \in Seq(S), NEW e \in S, NEW n \in Nat, Len(s) < n
    PROVE  Append(s, e) \in Seq(S) /\ Len(Append(s, e)) \in 0 .. n
<1>1. Len(s) \in Nat /\ Len(Append(s, e)) = Len(s) + 1
  OBVIOUS
<1> QED
  BY <1>1

------------------------------------------------------------------------------
(* Types *)

LEMMA MessageKinds ==
    ASSUME NEW m \in OutboundMessages, m.kind = "request"
    PROVE  m \in [kind : {"request"}, of : Requests] /\ m.of \in Requests
  BY DEF OutboundMessages, Heartbeat

LEMMA ListKinds ==
    ASSUME NEW m \in OutboundMessages, m.kind = "subscribe"
    PROVE  m.all \in SUBSET Symbols
  BY DEF OutboundMessages, Heartbeat

Answers == Slots \ {Empty, Dropped}

LEMMA AnswerKinds ==
    ASSUME NEW f \in Answers
    PROVE  /\ f \in [state : {"sent"}, cmd : Commands, of : Requests]
           /\ f.state = "sent" /\ f.cmd \in Commands /\ f.of \in Requests
  BY DEF Answers, Slots

LEMMA FrameKind ==
    ASSUME TypeOK, NEW r \in Requests
    PROVE  Frame(r) \in Answers /\ Frame(r).of = r /\ Frame(r).cmd = command[r]
<1>1. command[r] \in Commands
  BY DEF TypeOK
<1>2. Frame(r) \in [state : {"sent"}, cmd : Commands, of : Requests]
  BY <1>1 DEF Frame
<1>3. Frame(r).state = "sent" /\ Frame(r).of = r /\ Frame(r).cmd = command[r]
  BY DEF Frame
<1>4. Empty.state = "empty" /\ Dropped.state = "dropped"
  BY DEF Empty, Dropped
<1>5. Frame(r) # Empty /\ Frame(r) # Dropped
  BY <1>3, <1>4
<1>6. Frame(r) \in Slots
  BY <1>2 DEF Slots
<1> QED
  BY <1>3, <1>5, <1>6 DEF Answers

LEMMA InitType == Init => TypeOK
<1> SUFFICES ASSUME Init PROVE TypeOK
  OBVIOUS
<1>1. /\ outbound \in Seq(OutboundMessages) /\ Len(outbound) \in 0 .. QueueSize
      /\ toServer \in Seq(OutboundMessages) /\ Len(toServer) \in 0 .. WireSize
      /\ toClient \in Seq(Slots \ {Empty, Dropped}) /\ Len(toClient) \in 0 .. WireSize
  BY WebtermAssumption DEF Init
<1>2. slot \in [Requests -> Slots]
  BY DEF Init, Slots
<1> QED
  BY <1>1, <1>2 DEF Init, TypeOK

LEMMA RequestType ==
    ASSUME TypeOK, NEW r \in Requests, RequestStep(r)
    PROVE  TypeOK'
<1>1. CASE Check(r)
  BY <1>1 DEF TypeOK, Check, subscribers, tasks, wire
<1>2. CASE Register(r)
  <2>1. slot' \in [Requests -> Slots]
    BY <1>2 DEF TypeOK, Register, ReplacedSlots, Slots
  <2> QED
    BY <1>2, <2>1 DEF TypeOK, Register, subscribers, tasks, wire
<1>3. CASE Send(r)
  <2>1. RequestMessage(r) \in OutboundMessages
    BY DEF RequestMessage, OutboundMessages
  <2>2. outbound' \in Seq(OutboundMessages) /\ Len(outbound') \in 0 .. QueueSize
    BY <1>3, <2>1, AppendOf, WebtermAssumption DEF TypeOK, Send, Sendable
  <2> QED
    BY <1>3, <2>2 DEF TypeOK, Send, subscribers, tasks, wire
<1>4. CASE SendFails(r)
  BY <1>4 DEF TypeOK, SendFails, subscribers, tasks, wire
<1>5. CASE Resolve(r)
  BY <1>5 DEF TypeOK, Resolve, subscribers, tasks, wire
<1>6. CASE TimeOut(r)
  BY <1>6 DEF TypeOK, TimeOut, subscribers, tasks, wire
<1> QED
  BY <1>1, <1>2, <1>3, <1>4, <1>5, <1>6 DEF RequestStep

LEMMA SubscribeType ==
    ASSUME TypeOK, NEW s \in Subscribers, SubscribeStep(s)
    PROVE  TypeOK'
<1>1. CASE StartSubscribe(s)
  BY <1>1 DEF TypeOK, StartSubscribe, callers, tasks, wire
<1>2. CASE Extend(s)
  BY <1>2 DEF TypeOK, Extend, callers, tasks, wire
<1>3. CASE SendList(s)
  <2>1. SubscribeMessage(list[s]) \in OutboundMessages
    BY DEF SubscribeMessage, OutboundMessages, TypeOK
  <2>2. outbound' \in Seq(OutboundMessages) /\ Len(outbound') \in 0 .. QueueSize
    <3>1. CASE UNCHANGED outbound
      BY <3>1 DEF TypeOK
    <3>2. CASE Sendable /\ outbound' = Append(outbound, SubscribeMessage(list[s]))
      BY <2>1, <3>2, AppendWithin, WebtermAssumption DEF TypeOK, Sendable
    <3> QED
      BY <1>3, <3>1, <3>2 DEF SendList
  <2> QED
    BY <1>3, <2>2 DEF TypeOK, SendList, callers, tasks, wire
<1> QED
  BY <1>1, <1>2, <1>3 DEF SubscribeStep

LEMMA TaskType ==
    ASSUME TypeOK, ReaderStep \/ WriterStep \/ HeartbeatStep \/ Drop
    PROVE  TypeOK'
<1>1. CASE Read
  <2>1. /\ toClient' \in Seq(Answers) /\ Len(toClient') \in 0 .. WireSize
        /\ Head(toClient) \in Answers
    BY <1>1, TailOf, WebtermAssumption DEF TypeOK, Read, Answers
  <2>2. slot' \in [Requests -> Slots] /\ pending' \in [Commands -> Requests \union {Nobody}]
    BY <1>1, <2>1 DEF TypeOK, Read, Answers
  <2> QED
    BY <1>1, <2>1, <2>2 DEF TypeOK, Read, subscribers, tasks, Answers
<1>2. CASE ReaderEnds
  BY <1>2 DEF TypeOK, ReaderEnds, callers, subscribers, wire
<1>3. CASE Clear
  <2>1. slot' \in [Requests -> Slots] /\ pending' \in [Commands -> Requests \union {Nobody}]
    BY <1>3 DEF TypeOK, Clear, Slots
  <2> QED
    BY <1>3, <2>1 DEF TypeOK, Clear, subscribers, wire
<1>4. CASE Write
  <2>1. /\ Tail(outbound) \in Seq(OutboundMessages)
        /\ Len(Tail(outbound)) \in 0 .. QueueSize
        /\ Head(outbound) \in OutboundMessages
    BY <1>4, TailOf, WebtermAssumption DEF TypeOK, Write
  <2>2. outbound' \in Seq(OutboundMessages) /\ Len(outbound') \in 0 .. QueueSize
    <3>1. <<>> \in Seq(OutboundMessages) /\ Len(<<>>) \in 0 .. QueueSize
      BY WebtermAssumption
    <3> QED
      BY <1>4, <2>1, <3>1 DEF Write
  <2>3. toServer' \in Seq(OutboundMessages) /\ Len(toServer') \in 0 .. WireSize
    <3>1. CASE UNCHANGED toServer
      BY <3>1 DEF TypeOK
    <3>2. CASE Len(toServer) < WireSize /\ toServer' = Append(toServer, Head(outbound))
      BY <2>1, <3>2, AppendWithin, WebtermAssumption DEF TypeOK
    <3> QED
      BY <1>4, <3>1, <3>2 DEF Write
  <2> QED
    BY <1>4, <2>2, <2>3 DEF TypeOK, Write, callers, subscribers, Listening
<1>5. CASE HangUp
  BY <1>5 DEF TypeOK, HangUp, callers, subscribers, wire
<1>6. CASE Wake
  BY <1>6 DEF TypeOK, Wake, callers, subscribers, wire
<1>7. CASE Beat
  <2>1. Heartbeat \in OutboundMessages
    BY DEF OutboundMessages
  <2>2. outbound' \in Seq(OutboundMessages) /\ Len(outbound') \in 0 .. QueueSize
    <3>1. CASE UNCHANGED outbound
      BY <3>1 DEF TypeOK
    <3>2. CASE Sendable /\ outbound' = Append(outbound, Heartbeat)
      BY <2>1, <3>2, AppendWithin, WebtermAssumption DEF TypeOK, Sendable
    <3> QED
      BY <1>7, <3>1, <3>2 DEF Beat
  <2> QED
    BY <1>7, <2>2 DEF TypeOK, Beat, callers, subscribers, wire
<1>8. CASE Drop
  BY <1>8 DEF TypeOK, Drop, callers, subscribers, wire
<1> QED
  BY <1>1, <1>2, <1>3, <1>4, <1>5, <1>6, <1>7, <1>8
  DEF ReaderStep, WriterStep, HeartbeatStep

LEMMA ServerType ==
    ASSUME TypeOK, Serve \/ CloseSocket
    PROVE  TypeOK'
<1>1. CASE Serve
  <2> DEFINE m == Head(toServer)
  <2>1. /\ m \in OutboundMessages
        /\ toServer' \in Seq(OutboundMessages) /\ Len(toServer') \in 0 .. WireSize
    BY <1>1, TailOf, WebtermAssumption DEF TypeOK, Serve
  <2> HIDE DEF m
  <2>2. toClient' \in Seq(Answers) /\ Len(toClient') \in 0 .. WireSize
    <3>1. CASE /\ m.kind = "request" /\ Len(toClient) < WireSize
               /\ toClient' = Append(toClient, Frame(m.of))
      <4>1. Frame(m.of) \in Answers
        BY <2>1, <3>1, MessageKinds, FrameKind
      <4> QED
        BY <3>1, <4>1, AppendOf, WebtermAssumption DEF TypeOK, Answers
    <3>2. CASE UNCHANGED toClient
      BY <3>2 DEF TypeOK, Answers
    <3> QED
      BY <1>1, <3>1, <3>2 DEF Serve, m
  <2>3. streaming' \subseteq Symbols
    BY <1>1, <2>1, ListKinds DEF TypeOK, Serve, m
  <2> QED
    BY <1>1, <2>1, <2>2, <2>3 DEF TypeOK, Serve, callers, subscribers, tasks, Answers
<1>2. CASE CloseSocket
  BY <1>2 DEF TypeOK, CloseSocket, callers, subscribers, tasks
<1> QED
  BY <1>1, <1>2

LEMMA TypeStep == TypeOK /\ [Next]_vars => TypeOK'
<1> SUFFICES ASSUME TypeOK, [Next]_vars PROVE TypeOK'
  OBVIOUS
<1>1. CASE UNCHANGED vars
  BY <1>1 DEF TypeOK, vars, callers, subscribers, tasks, wire
<1> QED
  BY <1>1, RequestType, SubscribeType, TaskType, ServerType DEF Next

\* Every variable keeps its type, the queues stay within their capacity, and the
\* closed flag says exactly that the reader has ended or is about to.
THEOREM WebtermTypes == Spec => []TypeOK
  BY InitType, TypeStep, PTL DEF Spec

------------------------------------------------------------------------------
(* The map of waiting requests *)

\* Steps that touch neither the requests nor the map.
RequestsKept == UNCHANGED callers

LEMMA EntriesType ==
    ASSUME TypeOK
    PROVE  /\ \A c \in Commands : pending[c] # Nobody => pending[c] \in Requests
           /\ \A r \in Requests : command[r] \in Commands /\ r # Nobody
  BY WebtermAssumption DEF TypeOK

LEMMA InitEntries == Init => Entries /\ WaiterRegistered
<1> SUFFICES ASSUME Init PROVE Entries /\ WaiterRegistered
  OBVIOUS
<1> QED
  BY DEF Init, Entries, WaiterRegistered, Unregistered, Waiting

LEMMA KeptEntries ==
    ASSUME WInv, RequestsKept
    PROVE  Entries' /\ WaiterRegistered'
  BY DEF WInv, RequestsKept, Entries, WaiterRegistered, Waiting, callers

\* A step of one call that registers nothing.
LEMMA CallEntries ==
    ASSUME WInv, NEW r \in Requests,
           Check(r) \/ Send(r) \/ SendFails(r) \/ Resolve(r) \/ TimeOut(r)
    PROVE  Entries' /\ WaiterRegistered'
<1>1. UNCHANGED <<command, slot, pending>>
  BY DEF Check, Send, SendFails, Resolve, TimeOut
<1>2. \A q \in Requests : q # r => pc'[q] = pc[q]
  BY DEF Check, Send, SendFails, Resolve, TimeOut, WInv, TypeOK
<1>3. /\ pc'[r] \in Unregistered => pc[r] \in Unregistered
      /\ pc[r] \in Unregistered => pc'[r] \in Unregistered
      /\ pc'[r] \in {"registered", "waiting"} => pc[r] \in {"registered", "waiting"}
  BY DEF Check, Send, SendFails, Resolve, TimeOut, WInv, TypeOK, Unregistered
<1>4. Entries'
  BY <1>1, <1>2, <1>3, EntriesType DEF WInv, Entries
<1>5. WaiterRegistered'
  BY <1>1, <1>2, <1>3 DEF WInv, WaiterRegistered, Waiting
<1> QED
  BY <1>4, <1>5

LEMMA RegisterEntries ==
    ASSUME WInv, NEW r \in Requests, Register(r)
    PROVE  Entries' /\ WaiterRegistered'
<1>1. /\ UNCHANGED command /\ command[r] \in Commands /\ r # Nobody
      /\ pending'[command[r]] = r
      /\ \A c \in Commands : c # command[r] => pending'[c] = pending[c]
      /\ pc'[r] = "registered" /\ pc[r] = "checked"
      /\ \A q \in Requests : q # r => pc'[q] = pc[q]
  BY EntriesType DEF Register, WInv, TypeOK
<1>2. \A q \in Requests :
        slot'[q] = IF q = pending[command[r]] /\ slot[q] = Empty THEN Dropped ELSE slot[q]
  BY DEF Register, ReplacedSlots
<1>3. Empty # Dropped
  BY DEF Empty, Dropped
<1>4. slot[r] = Empty /\ \A c \in Commands : pending[c] # r
  BY <1>1, EntriesType DEF WInv, Entries, Unregistered
<1>5. slot'[r] = Empty
  BY <1>1, <1>2, <1>4
<1>6. ASSUME NEW c \in Commands, pending'[c] # Nobody
      PROVE  /\ command'[pending'[c]] = c /\ slot'[pending'[c]] = Empty
             /\ pc'[pending'[c]] \notin Unregistered
  <2>1. CASE c = command[r]
    BY <1>1, <1>5, <2>1 DEF Unregistered
  <2>2. CASE c # command[r]
    <3>1. pending[c] \in Requests /\ pending[c] # r /\ command[pending[c]] = c
      BY <1>1, <1>4, <1>6, <2>2, EntriesType DEF WInv, Entries
    <3>2. pending[c] # pending[command[r]]
      BY <1>1, <2>2, <3>1, EntriesType DEF WInv, Entries
    <3> QED
      BY <1>1, <1>2, <1>6, <2>2, <3>1, <3>2 DEF WInv, Entries
  <2> QED
    BY <2>1, <2>2
<1>7. ASSUME NEW q \in Requests, pc'[q] \in Unregistered
      PROVE  slot'[q] = Empty
  <2>1. q # r /\ pc[q] \in Unregistered
    BY <1>1, <1>7 DEF Unregistered
  <2>2. q # pending[command[r]] /\ slot[q] = Empty
    BY <1>1, <2>1, EntriesType DEF WInv, Entries
  <2> QED
    BY <1>2, <2>2
<1>8. ASSUME NEW q \in Waiting', slot'[q] = Empty
      PROVE  pending'[command'[q]] = q
  <2>1. CASE q = r
    BY <1>1, <2>1
  <2>2. CASE q # r
    <3>1. q \in Waiting /\ q \in Requests /\ slot[q] = Empty /\ q # pending[command[r]]
      BY <1>1, <1>2, <1>3, <1>8, <2>2 DEF Waiting
    <3>2. pending[command[q]] = q /\ command[q] # command[r]
      BY <3>1 DEF WInv, WaiterRegistered
    <3> QED
      BY <1>1, <3>1, <3>2, EntriesType DEF WInv
  <2> QED
    BY <2>1, <2>2
<1> QED
  BY <1>6, <1>7, <1>8 DEF Entries, WaiterRegistered

LEMMA ReadEntries ==
    ASSUME WInv, Read
    PROVE  Entries' /\ WaiterRegistered'
<1> DEFINE frame == Head(toClient)
           c == frame.cmd
<1>1. frame \in Answers
  BY TailOf DEF Read, WInv, TypeOK, Answers
<1>2. c \in Commands /\ frame # Empty
  BY <1>1, AnswerKinds DEF Answers
<1>3. /\ UNCHANGED <<pc, command>>
      /\ pending'[c] = Nobody
      /\ \A d \in Commands : d # c => pending'[d] = pending[d]
      /\ \A q \in Requests : slot'[q] = IF q = pending[c] THEN frame ELSE slot[q]
  BY <1>2 DEF Read, WInv, TypeOK
<1> HIDE DEF frame, c
<1>4. ASSUME NEW d \in Commands, pending'[d] # Nobody
      PROVE  /\ command'[pending'[d]] = d /\ slot'[pending'[d]] = Empty
             /\ pc'[pending'[d]] \notin Unregistered
  <2>1. d # c /\ pending'[d] = pending[d] /\ pending[d] \in Requests
    BY <1>3, <1>4, EntriesType DEF WInv
  <2>2. pending[d] # pending[c]
    BY <1>2, <1>4, <2>1 DEF WInv, Entries
  <2> QED
    BY <1>3, <1>4, <2>1, <2>2 DEF WInv, Entries
<1>5. ASSUME NEW q \in Requests, pc'[q] \in Unregistered
      PROVE  slot'[q] = Empty
  BY <1>2, <1>3, <1>5, EntriesType DEF WInv, Entries
<1>6. ASSUME NEW q \in Waiting', slot'[q] = Empty
      PROVE  pending'[command'[q]] = q
  <2>1. q \in Waiting /\ q \in Requests /\ slot[q] = Empty /\ q # pending[c]
    BY <1>2, <1>3, <1>6 DEF Waiting
  <2>2. pending[command[q]] = q /\ command[q] # c
    BY <2>1 DEF WInv, WaiterRegistered
  <2> QED
    BY <1>3, <2>1, <2>2, EntriesType DEF WInv
<1> QED
  BY <1>4, <1>5, <1>6 DEF Entries, WaiterRegistered

LEMMA ClearEntries ==
    ASSUME WInv, Clear
    PROVE  Entries' /\ WaiterRegistered'
<1>1. /\ UNCHANGED <<pc, command>>
      /\ \A c \in Commands : pending'[c] = Nobody
      /\ \A q \in Requests :
           slot'[q] = IF \E c \in Commands : pending[c] = q THEN Dropped ELSE slot[q]
  BY DEF Clear
<1>2. Empty # Dropped
  BY DEF Empty, Dropped
<1>3. ASSUME NEW q \in Requests, pc'[q] \in Unregistered
      PROVE  slot'[q] = Empty
  BY <1>1, <1>3, EntriesType DEF WInv, Entries
<1>4. ASSUME NEW q \in Waiting', slot'[q] = Empty
      PROVE  FALSE
  <2>1. q \in Waiting /\ q \in Requests /\ slot[q] = Empty
        /\ \A c \in Commands : pending[c] # q
    BY <1>1, <1>2, <1>4 DEF Waiting
  <2> QED
    BY <2>1, EntriesType DEF WInv, WaiterRegistered
<1> QED
  BY <1>1, <1>3, <1>4 DEF Entries, WaiterRegistered

\* Steps of subscribe, the heartbeat, the writer and the server.
Elsewhere ==
    \/ \E s \in Subscribers : SubscribeStep(s)
    \/ WriterStep \/ HeartbeatStep \/ ReaderEnds \/ Drop \/ Serve \/ CloseSocket
    \/ UNCHANGED vars

LEMMA ElsewhereKept == Elsewhere => RequestsKept
  BY DEF Elsewhere, SubscribeStep, StartSubscribe, Extend, SendList, WriterStep, Write,
         HangUp, HeartbeatStep, Wake, Beat, ReaderEnds, Drop, Serve, CloseSocket, vars,
         RequestsKept

LEMMA NextCases ==
    ASSUME [Next]_vars
    PROVE  \/ \E r \in Requests :
                Check(r) \/ Send(r) \/ SendFails(r) \/ Resolve(r) \/ TimeOut(r)
           \/ \E r \in Requests : Register(r)
           \/ Read \/ Clear \/ Elsewhere
  BY DEF Next, RequestStep, ReaderStep, Elsewhere

LEMMA WInvStep == WInv /\ [Next]_vars => WInv'
<1> SUFFICES ASSUME WInv, [Next]_vars PROVE Entries' /\ WaiterRegistered'
  BY TypeStep DEF WInv
<1> QED
  BY NextCases, CallEntries, RegisterEntries, ReadEntries, ClearEntries, ElsewhereKept,
     KeptEntries

LEMMA WInvariant == Spec => []WInv
<1>1. Init => WInv
  BY InitType, InitEntries DEF WInv
<1> QED
  BY <1>1, WInvStep, PTL DEF Spec

\* For any number of callers: no request waits for a frame the reader would
\* drop.  Whoever waits, without an answer and without word that none will come,
\* is registered under its command.
THEOREM NobodyWaitsUnregistered == Spec => []WaiterRegistered
<1>1. WInv => WaiterRegistered
  BY DEF WInv
<1> QED
  BY <1>1, WInvariant, PTL

------------------------------------------------------------------------------
(* Requests under way *)

\* An undisturbed answer is the request's own, and the request had been sent.
Answered ==
    \A r \in Requests :
        slot[r].state = "sent" /\ command[r] \notin Disturbed =>
            slot[r].of = r /\ pc[r] \notin Unsent

FInv == WInv /\ Flight /\ Answered

LEMMA SlotStates ==
    ASSUME TypeOK, NEW r \in Requests
    PROVE  /\ slot[r].state = "sent" => slot[r] \notin {Empty, Dropped}
           /\ slot[r].state # "sent" => slot[r] \in {Empty, Dropped}
           /\ Empty # Dropped /\ Empty.state # "sent" /\ Dropped.state # "sent"
<1>1. Empty.state = "empty" /\ Dropped.state = "dropped"
  BY DEF Empty, Dropped
<1>2. slot[r] \in {Empty, Dropped} \/ slot[r] \in [state : {"sent"}, cmd : Commands, of : Requests]
  BY DEF TypeOK, Slots
<1>3. slot[r] \notin {Empty, Dropped} => slot[r].state = "sent"
  BY <1>2
<1> QED
  BY <1>1, <1>3

LEMMA AskingTail ==
    ASSUME NEW s \in Seq(OutboundMessages), s # <<>>
    PROVE  /\ \A i \in Asking(Tail(s)) :
                /\ i \in Nat /\ i + 1 \in Asking(s) /\ i + 1 # 1
                /\ Tail(s)[i].of = s[i + 1].of
           /\ Head(s).kind = "request" => 1 \in Asking(s) /\ Head(s).of = s[1].of
<1>1. \A i \in DOMAIN Tail(s) : i \in Nat
  OBVIOUS
<1> QED
  BY <1>1, TailOf DEF Asking

LEMMA AskingAppend ==
    ASSUME NEW s \in Seq(OutboundMessages), NEW e \in OutboundMessages
    PROVE  \A i \in Asking(Append(s, e)) :
             \/ i \in Asking(s) /\ Append(s, e)[i].of = s[i].of
             \/ i = Len(s) + 1 /\ e.kind = "request" /\ Append(s, e)[i].of = e.of
  BY AppendOf DEF Asking

LEMMA AskingOf ==
    ASSUME NEW s \in Seq(OutboundMessages)
    PROVE  \A i \in Asking(s) : s[i].of \in Requests
<1> SUFFICES ASSUME NEW i \in Asking(s) PROVE s[i].of \in Requests
  OBVIOUS
<1>1. s[i] \in OutboundMessages /\ s[i].kind = "request"
  BY DEF Asking
<1> QED
  BY <1>1, MessageKinds

LEMMA CommandKept == ASSUME [Next]_vars PROVE command' = command
  BY NextCases, ElsewhereKept
  DEF Check, Send, SendFails, Resolve, TimeOut, Register, Read, Clear, RequestsKept, callers

\* A disturbed command stays disturbed.
LEMMA DisturbedKept ==
    ASSUME WInv, [Next]_vars, NEW c \in Disturbed
    PROVE  c \in Disturbed'
<1>1. PICK q \in Requests : command[q] = c /\ (pc[q] = "timeout" \/ slot[q] = Dropped)
  BY DEF Disturbed
<1>2. command' = command
  BY CommandKept
<1>3. pc[q] = "timeout" => pc'[q] = "timeout"
  BY NextCases, ElsewhereKept
  DEF Check, Send, SendFails, Resolve, TimeOut, Register, Read, Clear, RequestsKept,
      callers, WInv, TypeOK
<1>4. slot[q] = Dropped => slot'[q] = Dropped
  <2>1. CASE Read
    <3>1. Head(toClient).cmd \in Commands
      BY <2>1, TailOf, AnswerKinds DEF Read, WInv, TypeOK, Answers
    <3>2. slot[q] = Dropped => q # pending[Head(toClient).cmd]
      BY <3>1, EntriesType, SlotStates DEF WInv, Entries
    <3> QED
      BY <2>1, <3>2 DEF Read
  <2>2. CASE ~Read
    BY <2>2, NextCases, ElsewhereKept, SlotStates
    DEF Check, Send, SendFails, Resolve, TimeOut, Register, ReplacedSlots, Clear,
        RequestsKept, callers, WInv
  <2> QED
    BY <2>1, <2>2
<1> QED
  BY <1>1, <1>2, <1>3, <1>4 DEF Disturbed

\* Outside the reader's steps, a request under way stays as it should be.
LEMMA TravelKept ==
    ASSUME WInv, [Next]_vars, ~Read, NEW q \in Underway
    PROVE  q \in Underway'
<1>1. command' = command /\ q \in Requests /\ command[q] \in Commands
  BY CommandKept DEF WInv, TypeOK, Underway
<1>2. pc'[q] \notin Unsent
  BY NextCases, ElsewhereKept
  DEF Underway, Unsent, Unregistered, Check, Send, SendFails, Resolve, TimeOut,
      Register, Clear, RequestsKept, callers, WInv, TypeOK
<1>3. CASE command[q] \in Disturbed
  BY <1>1, <1>2, <1>3, DisturbedKept DEF Underway
<1>4. CASE pc[q] = "waiting" /\ slot[q] = Empty
  <2>1. pc'[q] \in {"waiting", "timeout"}
    BY <1>1, <1>4, NextCases, ElsewhereKept
    DEF Check, Send, SendFails, Resolve, TimeOut, Register, Clear, RequestsKept,
        callers, WInv, TypeOK
  <2>2. slot'[q] \in {Empty, Dropped}
    BY <1>1, <1>4, NextCases, ElsewhereKept
    DEF Check, Send, SendFails, Resolve, TimeOut, Register, ReplacedSlots, Clear,
        RequestsKept, callers, WInv, TypeOK
  <2>3. pc'[q] = "timeout" \/ slot'[q] = Dropped => command'[q] \in Disturbed'
    BY <1>1 DEF Disturbed
  <2> QED
    BY <1>1, <1>2, <2>1, <2>2, <2>3 DEF Underway
<1> QED
  BY <1>3, <1>4 DEF Underway

LEMMA FlightTypes ==
    ASSUME TypeOK
    PROVE  /\ outbound \in Seq(OutboundMessages) /\ toServer \in Seq(OutboundMessages)
           /\ toClient \in Seq(Answers)
           /\ \A i \in Asking(outbound) : outbound[i].of \in Requests
           /\ \A i \in Asking(toServer) : toServer[i].of \in Requests
           /\ \A i \in DOMAIN toClient : toClient[i].of \in Requests
<1>1. /\ outbound \in Seq(OutboundMessages) /\ toServer \in Seq(OutboundMessages)
      /\ toClient \in Seq(Answers)
  BY DEF TypeOK, Answers
<1>2. \A i \in DOMAIN toClient : toClient[i] \in Answers
  BY <1>1
<1> QED
  BY <1>1, <1>2, AskingOf, AnswerKinds

LEMMA FlightSame ==
    ASSUME FInv, [Next]_vars, ~Read, UNCHANGED <<outbound, toServer, toClient>>
    PROVE  Flight'
<1>1. command' = command
  BY CommandKept
<1>2. /\ \A i \in Asking(outbound) : outbound[i].of \in Underway'
      /\ \A i \in Asking(toServer) : toServer[i].of \in Underway'
      /\ \A i \in DOMAIN toClient : toClient[i].of \in Underway'
  BY TravelKept, FlightTypes DEF FInv, WInv, Flight
<1> QED
  BY <1>1, <1>2 DEF FInv, Flight, Asking

\* The channel takes message e, of a request that is not under way.
LEMMA FlightAppend ==
    ASSUME FInv, [Next]_vars, ~Read, UNCHANGED <<toServer, toClient>>,
           NEW e \in OutboundMessages, outbound' = Append(outbound, e),
           e.kind = "request" => e.of \in Underway' /\ pc[e.of] \in Unsent
    PROVE  Flight'
<1> DEFINE out == Append(outbound, e)
<1>1. command' = command
  BY CommandKept
<1>2. \A i \in Asking(out) :
        \/ i \in Asking(outbound) /\ out[i].of = outbound[i].of
        \/ i = Len(outbound) + 1 /\ e.kind = "request" /\ out[i].of = e.of
  BY AskingAppend, FlightTypes DEF FInv, WInv
<1> HIDE DEF out
<1>3. /\ \A i \in Asking(outbound) : outbound[i].of \in Underway'
      /\ \A i \in Asking(toServer) : toServer[i].of \in Underway'
      /\ \A i \in DOMAIN toClient : toClient[i].of \in Underway'
  BY TravelKept, FlightTypes DEF FInv, WInv, Flight
<1>4. e.kind = "request" =>
        /\ \A i \in Asking(outbound) : outbound[i].of # e.of
        /\ \A i \in Asking(toServer) : toServer[i].of # e.of
        /\ \A i \in DOMAIN toClient : toClient[i].of # e.of
  BY DEF FInv, Flight, Underway
<1>5. outbound' = out
  BY DEF out
<1>6. \A i \in Asking(out) : out[i].of \in Underway'
  BY <1>2, <1>3
<1>7. \A i, j \in Asking(out) : out[i].of = out[j].of => i = j
  BY <1>2, <1>4 DEF FInv, Flight
<1>8. /\ \A i \in Asking(out), j \in Asking(toServer) : out[i].of # toServer[j].of
      /\ \A i \in Asking(out), j \in DOMAIN toClient : out[i].of # toClient[j].of
  BY <1>2, <1>4 DEF FInv, Flight
<1>9. /\ \A i \in DOMAIN toClient : toClient[i].cmd = command[toClient[i].of]
      /\ \A i, j \in Asking(toServer) : toServer[i].of = toServer[j].of => i = j
      /\ \A i, j \in DOMAIN toClient : toClient[i].of = toClient[j].of => i = j
      /\ \A i \in Asking(toServer), j \in DOMAIN toClient :
           toServer[i].of # toClient[j].of
  BY DEF FInv, Flight
<1>10. Asking(outbound)' = Asking(out) /\ Asking(toServer)' = Asking(toServer)
  BY <1>5 DEF Asking
<1> QED
  BY <1>1, <1>3, <1>5, <1>6, <1>7, <1>8, <1>9, <1>10 DEF Flight

LEMMA SendFlight ==
    ASSUME FInv, NEW r \in Requests, Send(r), [Next]_vars
    PROVE  Flight'
<1>1. ~Read /\ UNCHANGED <<toServer, toClient>> /\ outbound' = Append(outbound, RequestMessage(r))
  BY DEF Send, Read, wire, FInv, WInv, TypeOK
<1>2. RequestMessage(r) \in OutboundMessages /\ RequestMessage(r).of = r
  BY DEF RequestMessage, OutboundMessages
<1>3. /\ pc[r] = "registered" /\ pc'[r] = "waiting" /\ pc[r] \in Unsent /\ pc'[r] \notin Unsent
      /\ slot' = slot /\ command' = command /\ command[r] \in Commands
  BY DEF Send, FInv, WInv, TypeOK, Unsent, Unregistered
<1>4. CASE slot[r] = Empty
  BY <1>1, <1>2, <1>3, <1>4, FlightAppend DEF Underway
<1>5. CASE slot[r] # Empty
  <2>1. command[r] \in Disturbed
    <3>1. CASE slot[r] = Dropped
      BY <3>1 DEF Disturbed
    <3>2. CASE slot[r].state = "sent"
      BY <1>3, <3>2 DEF FInv, Answered
    <3> QED
      BY <1>5, <3>1, <3>2, SlotStates DEF FInv, WInv
  <2>2. command'[r] \in Disturbed'
    BY <1>3, <2>1, DisturbedKept DEF FInv
  <2> QED
    BY <1>1, <1>2, <1>3, <2>2, FlightAppend DEF Underway
<1> QED
  BY <1>4, <1>5

\* A heartbeat or a list of symbols: no request's message.
LEMMA OtherFlight ==
    ASSUME FInv, [Next]_vars, ~Read, UNCHANGED <<toServer, toClient>>,
           NEW e \in OutboundMessages, e.kind # "request",
           outbound' = Append(outbound, e)
    PROVE  Flight'
  BY FlightAppend

\* The messages still in the channel were there before, in the same order.
LEMMA WriteFlight ==
    ASSUME FInv, Write, [Next]_vars
    PROVE  Flight'
<1> DEFINE e == Head(outbound)
           rest == Tail(outbound)
           put == Append(toServer, e)
<1>1. /\ ~Read /\ outbound # <<>> /\ outbound \in Seq(OutboundMessages)
      /\ toServer \in Seq(OutboundMessages) /\ e \in OutboundMessages /\ toClient' = toClient
      /\ command' = command
  BY FlightTypes, TailOf, CommandKept DEF Write, Read, FInv, WInv, TypeOK
<1>2. /\ \A i \in Asking(rest) :
           /\ i \in Nat /\ i + 1 \in Asking(outbound) /\ i + 1 # 1
           /\ rest[i].of = outbound[i + 1].of
      /\ e.kind = "request" => 1 \in Asking(outbound) /\ e.of = outbound[1].of
  BY <1>1, AskingTail
<1>3. \A i \in Asking(put) :
        \/ i \in Asking(toServer) /\ put[i].of = toServer[i].of
        \/ i = Len(toServer) + 1 /\ e.kind = "request" /\ put[i].of = e.of
  BY <1>1, AskingAppend
<1>4. Underway \subseteq Underway'
  BY <1>1, TravelKept DEF FInv
<1>5. /\ Asking(<<>>) = {}
      /\ outbound' = rest \/ outbound' = <<>>
      /\ toServer' = toServer \/ (outbound' = rest /\ toServer' = put)
  BY DEF Write, Asking
<1> HIDE DEF e, rest, put
<1>6. /\ \A i \in Asking(rest) : rest[i].of \in Underway
      /\ \A i, j \in Asking(rest) : rest[i].of = rest[j].of => i = j
      /\ \A i \in Asking(rest), j \in Asking(toServer) : rest[i].of # toServer[j].of
      /\ \A i \in Asking(rest), j \in DOMAIN toClient : rest[i].of # toClient[j].of
      /\ e.kind = "request" => \A i \in Asking(rest) : rest[i].of # e.of
  BY <1>2 DEF FInv, Flight
<1>7. e.kind = "request" =>
        /\ e.of \in Underway
        /\ \A i \in Asking(toServer) : toServer[i].of # e.of
        /\ \A i \in DOMAIN toClient : toClient[i].of # e.of
  BY <1>2 DEF FInv, Flight
<1>8. /\ \A i \in Asking(put) : put[i].of \in Underway
      /\ \A i, j \in Asking(put) : put[i].of = put[j].of => i = j
      /\ \A i \in Asking(rest), j \in Asking(put) : rest[i].of # put[j].of
      /\ \A i \in Asking(put), j \in DOMAIN toClient : put[i].of # toClient[j].of
  BY <1>3, <1>6, <1>7 DEF FInv, Flight
<1>9. /\ Asking(outbound)' = Asking(rest) \/ Asking(outbound)' = {}
      /\ outbound' = rest \/ Asking(outbound)' = {}
      /\ toServer' = toServer => Asking(toServer)' = Asking(toServer)
      /\ toServer' = put => Asking(toServer)' = Asking(put)
      /\ outbound' = rest => Asking(outbound)' = Asking(rest)
  BY <1>5 DEF Asking
<1>10. CASE toServer' = put /\ outbound' = rest
  BY <1>1, <1>4, <1>6, <1>8, <1>9, <1>10 DEF FInv, Flight
<1>11. CASE toServer' = toServer /\ outbound' = rest
  BY <1>1, <1>4, <1>6, <1>9, <1>11 DEF FInv, Flight
<1>12. CASE toServer' = toServer /\ Asking(outbound)' = {}
  BY <1>1, <1>4, <1>9, <1>12 DEF FInv, Flight
<1> QED
  BY <1>5, <1>9, <1>10, <1>11, <1>12

LEMMA ServeFlight ==
    ASSUME FInv, Serve, [Next]_vars
    PROVE  Flight'
<1> DEFINE m == Head(toServer)
           rest == Tail(toServer)
           put == Append(toClient, Frame(m.of))
<1>1. /\ ~Read /\ toServer # <<>> /\ toServer \in Seq(OutboundMessages)
      /\ toClient \in Seq(Answers) /\ m \in OutboundMessages /\ outbound' = outbound
      /\ command' = command /\ toServer' = rest
  BY FlightTypes, TailOf, CommandKept DEF Serve, Read, FInv, WInv, TypeOK
<1>2. /\ \A i \in Asking(rest) :
           /\ i \in Nat /\ i + 1 \in Asking(toServer) /\ i + 1 # 1
           /\ rest[i].of = toServer[i + 1].of
      /\ m.kind = "request" => 1 \in Asking(toServer) /\ m.of = toServer[1].of
  BY <1>1, AskingTail
<1>3. m.kind = "request" =>
        /\ m.of \in Requests /\ Frame(m.of) \in Answers
        /\ Frame(m.of).of = m.of /\ Frame(m.of).cmd = command[m.of]
  BY <1>1, MessageKinds, FrameKind DEF FInv, WInv
<1>4. m.kind = "request" =>
        \A i \in DOMAIN put :
          \/ i \in DOMAIN toClient /\ put[i] = toClient[i]
          \/ i = Len(toClient) + 1 /\ put[i] = Frame(m.of)
  BY <1>1, <1>3, AppendOf
<1>5. Underway \subseteq Underway'
  BY <1>1, TravelKept DEF FInv
<1>6. \/ toClient' = toClient
      \/ m.kind = "request" /\ toClient' = put
  BY DEF Serve
<1> HIDE DEF m, rest, put
<1>7. /\ \A i \in Asking(rest) : rest[i].of \in Underway
      /\ \A i, j \in Asking(rest) : rest[i].of = rest[j].of => i = j
      /\ \A i \in Asking(outbound), j \in Asking(rest) : outbound[i].of # rest[j].of
      /\ \A i \in Asking(rest), j \in DOMAIN toClient : rest[i].of # toClient[j].of
      /\ m.kind = "request" => \A i \in Asking(rest) : rest[i].of # m.of
  BY <1>2 DEF FInv, Flight
<1>8. m.kind = "request" =>
        /\ m.of \in Underway
        /\ \A i \in Asking(outbound) : outbound[i].of # m.of
        /\ \A i \in DOMAIN toClient : toClient[i].of # m.of
  BY <1>2 DEF FInv, Flight
<1>9. m.kind = "request" =>
        /\ \A i \in DOMAIN put : put[i].of \in Underway /\ put[i].cmd = command[put[i].of]
        /\ \A i, j \in DOMAIN put : put[i].of = put[j].of => i = j
        /\ \A i \in Asking(outbound), j \in DOMAIN put : outbound[i].of # put[j].of
        /\ \A i \in Asking(rest), j \in DOMAIN put : rest[i].of # put[j].of
  BY <1>3, <1>4, <1>7, <1>8 DEF FInv, Flight
<1>10. Asking(outbound)' = Asking(outbound) /\ Asking(toServer)' = Asking(rest)
  BY <1>1 DEF Asking
<1>11. CASE toClient' = toClient
  BY <1>1, <1>5, <1>7, <1>10, <1>11 DEF FInv, Flight
<1>12. CASE m.kind = "request" /\ toClient' = put
  BY <1>1, <1>5, <1>7, <1>9, <1>10, <1>12 DEF FInv, Flight
<1> QED
  BY <1>6, <1>11, <1>12

\* The reader takes the answer to a request out, and completes that request or
\* one of a disturbed command; the others under way keep waiting.
LEMMA ReadFlight ==
    ASSUME FInv, Read, [Next]_vars
    PROVE  Flight' /\ Answered'
<1> DEFINE frame == Head(toClient)
           rest == Tail(toClient)
           c == frame.cmd
           wait == pending[c]
<1>1. /\ toClient \in Seq(Answers) /\ toClient # <<>> /\ frame \in Answers /\ frame = toClient[1]
      /\ 1 \in DOMAIN toClient
      /\ toClient' = rest /\ outbound' = outbound /\ toServer' = toServer
      /\ command' = command /\ pc' = pc
      /\ \A q \in Requests : slot'[q] = IF q = wait THEN frame ELSE slot[q]
  BY FlightTypes, TailOf DEF Read, FInv, WInv, TypeOK
<1>2. \A i \in DOMAIN rest :
        i + 1 \in DOMAIN toClient /\ rest[i] = toClient[i + 1] /\ i + 1 # 1 /\ i \in Nat
  <2>1. \A i \in DOMAIN rest : i \in Nat
    BY <1>1
  <2> QED
    BY <1>1, <2>1, TailOf
<1>3. /\ c \in Commands /\ frame.of \in Requests /\ frame.of \in Underway
      /\ c = command[frame.of] /\ frame.state = "sent" /\ frame # Dropped /\ frame # Empty
  BY <1>1, AnswerKinds DEF FInv, Flight, Answers
<1> HIDE DEF frame, rest, c
<1>4. wait # Nobody => wait \in Requests /\ command[wait] = c /\ slot[wait] = Empty
  BY <1>3, EntriesType DEF FInv, WInv, Entries
<1>5. \A d \in Commands : d \in Disturbed => d \in Disturbed'
  BY DisturbedKept DEF FInv
<1>6. c \notin Disturbed => wait = frame.of /\ pc[frame.of] = "waiting"
  BY <1>3 DEF Underway, FInv, WInv, WaiterRegistered, Waiting
<1>7. \A d \in Commands : d \notin Disturbed' => d \notin Disturbed
  BY <1>5
<1>8. \A q \in Requests : command[q] \in Commands /\ q # Nobody
  BY EntriesType DEF FInv, WInv
<1> HIDE DEF wait
<1>9. ASSUME NEW q \in Underway, q # frame.of
      PROVE  q \in Underway'
  <2>1. q \in Requests /\ pc'[q] \notin Unsent
    BY <1>1 DEF Underway
  <2>2. CASE command[q] \in Disturbed
    <3>1. command'[q] \in Disturbed'
      BY <1>1, <1>5, <1>8, <2>1, <2>2
    <3> QED
      BY <1>1, <2>1, <3>1 DEF Underway
  <2>3. CASE command[q] \notin Disturbed
    <3>1. pc[q] = "waiting" /\ slot[q] = Empty
      BY <2>3 DEF Underway
    <3>2. q # wait
      BY <1>4, <1>6, <1>8, <1>9, <2>1, <2>3
    <3> QED
      BY <1>1, <2>1, <3>1, <3>2 DEF Underway
  <2> QED
    BY <2>2, <2>3
<1>10. Flight'
  <2>1. /\ \A i \in DOMAIN rest :
             /\ rest[i].of \in Underway /\ rest[i].of # frame.of
             /\ rest[i].cmd = command[rest[i].of]
        /\ \A i, j \in DOMAIN rest : rest[i].of = rest[j].of => i = j
        /\ \A i \in Asking(outbound), j \in DOMAIN rest : outbound[i].of # rest[j].of
        /\ \A i \in Asking(toServer), j \in DOMAIN rest : toServer[i].of # rest[j].of
    BY <1>1, <1>2 DEF FInv, Flight
  <2>2. /\ \A i \in Asking(outbound) : outbound[i].of \in Underway /\ outbound[i].of # frame.of
        /\ \A i \in Asking(toServer) : toServer[i].of \in Underway /\ toServer[i].of # frame.of
    BY <1>1 DEF FInv, Flight
  <2>3. Asking(outbound)' = Asking(outbound) /\ Asking(toServer)' = Asking(toServer)
    BY <1>1 DEF Asking
  <2> QED
    BY <1>1, <1>9, <2>1, <2>2, <2>3 DEF FInv, Flight
<1>11. ASSUME NEW r \in Requests, slot'[r].state = "sent", command'[r] \notin Disturbed'
       PROVE  slot'[r].of = r /\ pc'[r] \notin Unsent
  <2>1. command[r] \notin Disturbed
    BY <1>1, <1>7, <1>8, <1>11
  <2>2. CASE r = wait
    <3>1. wait = frame.of /\ slot'[r] = frame
      BY <1>1, <1>4, <1>6, <1>8, <2>1, <2>2
    <3> QED
      BY <1>1, <1>3, <2>2, <3>1 DEF Underway
  <2>3. CASE r # wait
    BY <1>1, <1>11, <2>1, <2>3 DEF FInv, Answered
  <2> QED
    BY <2>2, <2>3
<1> QED
  BY <1>10, <1>11 DEF Answered

LEMMA AnsweredKept ==
    ASSUME FInv, [Next]_vars, ~Read
    PROVE  Answered'
<1> SUFFICES ASSUME NEW r \in Requests, slot'[r].state = "sent", command'[r] \notin Disturbed'
             PROVE  slot'[r].of = r /\ pc'[r] \notin Unsent
  BY DEF Answered
<1>1. command' = command /\ command[r] \in Commands
  BY CommandKept DEF FInv, WInv, TypeOK
<1>2. command[r] \notin Disturbed
  BY <1>1, DisturbedKept DEF FInv
<1>3. slot'[r] \in {slot[r], Dropped}
  BY NextCases, ElsewhereKept
  DEF Check, Send, SendFails, Resolve, TimeOut, Register, ReplacedSlots, Clear,
      RequestsKept, callers, FInv, WInv, TypeOK
<1>4. slot'[r] = slot[r]
  BY <1>3, SlotStates DEF FInv, WInv
<1>5. slot[r].of = r /\ pc[r] \notin Unsent
  BY <1>2, <1>4 DEF FInv, Answered
<1>6. pc'[r] \notin Unsent
  BY <1>5, NextCases, ElsewhereKept
  DEF Unsent, Unregistered, Check, Send, SendFails, Resolve, TimeOut,
      Register, Clear, RequestsKept, callers, FInv, WInv, TypeOK
<1> QED
  BY <1>4, <1>5, <1>6

LEMMA FlightStep ==
    ASSUME FInv, [Next]_vars
    PROVE  Flight' /\ Answered'
<1>1. CASE Read
  BY <1>1, ReadFlight
<1>2. CASE ~Read
  <2>1. Answered'
    BY <1>2, AnsweredKept
  <2>2. CASE \E r \in Requests : Send(r)
    BY <2>1, <2>2, SendFlight
  <2>3. CASE Write
    BY <2>1, <2>3, WriteFlight
  <2>4. CASE Serve
    BY <2>1, <2>4, ServeFlight
  <2>5. CASE \E s \in Subscribers : SendList(s)
    <3>1. PICK s \in Subscribers : SendList(s)
      BY <2>5
    <3>2. /\ SubscribeMessage(list[s]) \in OutboundMessages
          /\ SubscribeMessage(list[s]).kind # "request"
      BY DEF SubscribeMessage, OutboundMessages, FInv, WInv, TypeOK
    <3> QED
      BY <1>2, <2>1, <3>1, <3>2, FlightSame, OtherFlight DEF SendList, wire
  <2>6. CASE Beat
    <3>1. Heartbeat \in OutboundMessages /\ Heartbeat.kind # "request"
      BY DEF Heartbeat, OutboundMessages
    <3> QED
      BY <1>2, <2>1, <2>6, <3>1, FlightSame, OtherFlight DEF Beat, wire
  <2>7. CASE UNCHANGED <<outbound, toServer, toClient>>
    BY <1>2, <2>1, <2>7, FlightSame
  <2>8. \/ \E r \in Requests : Send(r)
        \/ Write \/ Serve \/ Beat
        \/ \E s \in Subscribers : SendList(s)
        \/ UNCHANGED <<outbound, toServer, toClient>>
    BY <1>2, NextCases
    DEF Elsewhere, Check, SendFails, Resolve, TimeOut, Register, Clear, SubscribeStep,
        StartSubscribe, Extend, WriterStep, HangUp, HeartbeatStep, Wake, ReaderEnds,
        Drop, CloseSocket, wire, vars
  <2> QED
    BY <2>2, <2>3, <2>4, <2>5, <2>6, <2>7, <2>8
<1> QED
  BY <1>1, <1>2

LEMMA InitFlight == Init => Flight /\ Answered
<1> SUFFICES ASSUME Init PROVE Flight /\ Answered
  OBVIOUS
<1>1. Asking(outbound) = {} /\ Asking(toServer) = {} /\ DOMAIN toClient = {}
  BY DEF Init, Asking
<1>2. \A r \in Requests : slot[r].state # "sent"
  BY DEF Init, Empty
<1> QED
  BY <1>1, <1>2 DEF Flight, Answered

\* For any number of callers, commands and queued messages: as long as no call of
\* a command timed out and none was replaced in the map, every request of that
\* command gets the answer to itself, although frames carry no request number.
THEOREM AnswersGoHome == Spec => []AnswersAreOwn
<1>1. Init => FInv
  BY InitType, InitEntries, InitFlight DEF FInv, WInv
<1>2. FInv /\ [Next]_vars => FInv'
  BY WInvStep, FlightStep DEF FInv
<1>3. FInv => AnswersAreOwn
  BY DEF FInv, Answered, AnswersAreOwn
<1> QED
  BY <1>1, <1>2, <1>3, PTL DEF Spec

------------------------------------------------------------------------------
(* Subscriptions made in turn *)

Silent(q) == \A i \in DOMAIN q : q[i].kind # "subscribe"

\* The last list of symbols on its way in q, if there is one, is S.
LastIs(q, S) ==
    \A i \in DOMAIN q :
        /\ q[i].kind = "subscribe"
        /\ \A j \in DOMAIN q : j > i => q[j].kind # "subscribe"
        => q[i].all = S

\* What the server will stream, once all that is under way is served, is S.
Arriving(S) ==
    /\ LastIs(outbound, S)
    /\ Silent(outbound) => LastIs(toServer, S)
    /\ Silent(outbound) /\ Silent(toServer) => streaming = S

Extended(s) == spc[s] = "extended"

Turns ==
    ~overlapped =>
        /\ \A s, t \in Subscribers : Active(spc[s]) /\ Active(spc[t]) => s = t
        /\ \A s \in Subscribers : Extended(s) => list[s] = subscriptions
        /\ socket = "open" /\ Listening /\ (\A s \in Subscribers : ~Extended(s)) =>
             Arriving(subscriptions)

LEMMA AppendLast ==
    ASSUME NEW q \in Seq(OutboundMessages), NEW m \in OutboundMessages, NEW S
    PROVE  /\ m.kind = "subscribe" =>
                /\ ~Silent(Append(q, m))
                /\ m.all = S => LastIs(Append(q, m), S)
           /\ m.kind # "subscribe" =>
                /\ Silent(Append(q, m)) => Silent(q)
                /\ LastIs(q, S) => LastIs(Append(q, m), S)
<1> DEFINE p == Append(q, m)
           n == Len(q)
<1>1. /\ n \in Nat /\ DOMAIN q = 1 .. n /\ DOMAIN p = 1 .. n + 1
      /\ \A i \in 1 .. n : p[i] = q[i]
      /\ p[n + 1] = m
  OBVIOUS
<1> HIDE DEF p, n
<1>2. /\ n + 1 \in DOMAIN p /\ DOMAIN q \subseteq DOMAIN p
      /\ \A i \in DOMAIN p : i \in DOMAIN q \/ i = n + 1
      /\ \A i \in DOMAIN q : n + 1 > i
      /\ \A i \in DOMAIN q : p[i] = q[i]
  BY <1>1
<1>3. ASSUME m.kind = "subscribe"
      PROVE  ~Silent(p) /\ (m.all = S => LastIs(p, S))
  BY <1>1, <1>2, <1>3 DEF Silent, LastIs
<1>4. ASSUME m.kind # "subscribe"
      PROVE  (Silent(p) => Silent(q)) /\ (LastIs(q, S) => LastIs(p, S))
  <2>1. Silent(p) => Silent(q)
    BY <1>2 DEF Silent
  <2>2. ASSUME LastIs(q, S), NEW i \in DOMAIN p, p[i].kind = "subscribe",
               \A j \in DOMAIN p : j > i => p[j].kind # "subscribe"
        PROVE  p[i].all = S
    <3>1. i \in DOMAIN q /\ q[i].kind = "subscribe" /\ p[i] = q[i]
      BY <1>1, <1>2, <1>4, <2>2
    <3>2. \A j \in DOMAIN q : j > i => q[j].kind # "subscribe"
      BY <1>2, <2>2
    <3> QED
      BY <2>2, <3>1, <3>2 DEF LastIs
  <2> QED
    BY <2>1, <2>2 DEF LastIs
<1> QED
  BY <1>3, <1>4 DEF p

LEMMA TailLast ==
    ASSUME NEW q \in Seq(OutboundMessages), q # <<>>, NEW S
    PROVE  /\ LastIs(q, S) => LastIs(Tail(q), S)
           /\ Head(q).kind = "subscribe" /\ Silent(Tail(q)) /\ LastIs(q, S) =>
                Head(q).all = S
           /\ Head(q).kind # "subscribe" /\ Silent(Tail(q)) => Silent(q)
<1> DEFINE r == Tail(q)
           n == Len(q)
<1>1. /\ n \in Nat \ {0} /\ DOMAIN q = 1 .. n /\ DOMAIN r = 1 .. n - 1
      /\ \A i \in 1 .. n - 1 : r[i] = q[i + 1]
      /\ Head(q) = q[1]
  BY TailOf
<1> HIDE DEF r, n
<1>2. /\ \A i \in DOMAIN r : i + 1 \in DOMAIN q /\ r[i] = q[i + 1] /\ i \in Nat
      /\ \A j \in DOMAIN q : j = 1 \/ (j > 1 /\ j - 1 \in DOMAIN r /\ r[j - 1] = q[j])
      /\ DOMAIN q \subseteq Nat /\ 1 \in DOMAIN q
  BY <1>1
<1>3. ASSUME LastIs(q, S), NEW i \in DOMAIN r, r[i].kind = "subscribe",
             \A j \in DOMAIN r : j > i => r[j].kind # "subscribe"
      PROVE  r[i].all = S
  <2>1. ASSUME NEW j \in DOMAIN q, j > i + 1 PROVE q[j].kind # "subscribe"
    <3>1. j - 1 \in DOMAIN r /\ r[j - 1] = q[j] /\ j - 1 > i
      BY <1>2, <2>1
    <3> QED
      BY <1>3, <3>1
  <2>2. i + 1 \in DOMAIN q /\ r[i] = q[i + 1]
    BY <1>2, <1>3
  <2>3. q[i + 1].kind = "subscribe"
    BY <1>3, <2>2
  <2>4. q[i + 1].all = S
    BY <1>3, <2>1, <2>2, <2>3 DEF LastIs
  <2> QED
    BY <2>2, <2>4
<1>4. ASSUME Silent(r), NEW j \in DOMAIN q, j > 1 PROVE q[j].kind # "subscribe"
  <2>1. j - 1 \in DOMAIN r /\ r[j - 1] = q[j]
    BY <1>2, <1>4
  <2>2. r[j - 1].kind # "subscribe"
    BY <1>4, <2>1 DEF Silent
  <2> QED
    BY <2>1, <2>2
<1>5. Head(q).kind = "subscribe" /\ Silent(r) /\ LastIs(q, S) => Head(q).all = S
  BY <1>1, <1>2, <1>4 DEF LastIs
<1>6. Head(q).kind # "subscribe" /\ Silent(r) => Silent(q)
  BY <1>1, <1>2, <1>4 DEF Silent
<1> QED
  BY <1>3, <1>5, <1>6 DEF r, LastIs

\* A message that is no list is put in the channel.
LEMMA AppendArriving ==
    ASSUME TypeOK, NEW S, Arriving(S), NEW m \in OutboundMessages, m.kind # "subscribe",
           outbound' = Append(outbound, m), UNCHANGED <<toServer, streaming>>
    PROVE  Arriving(S)'
<1>1. outbound \in Seq(OutboundMessages)
  BY DEF TypeOK
<1>2. LastIs(outbound', S) /\ (Silent(outbound') => Silent(outbound))
  BY <1>1, AppendLast DEF Arriving
<1> QED
  BY <1>2 DEF Arriving

LEMMA WriteArriving ==
    ASSUME TypeOK, NEW S, Arriving(S), outbound # <<>>, outbound' = Tail(outbound),
           toServer' = Append(toServer, Head(outbound)), UNCHANGED streaming
    PROVE  LastIs(outbound', S) /\ (Silent(outbound') => LastIs(toServer', S))
           /\ (Silent(outbound') /\ Silent(toServer') => streaming' = S)
<1> DEFINE m == Head(outbound)
<1>1. /\ outbound \in Seq(OutboundMessages) /\ toServer \in Seq(OutboundMessages)
      /\ m \in OutboundMessages
  BY TailOf DEF TypeOK
<1>2. LastIs(outbound', S)
  BY <1>1, TailLast DEF Arriving
<1>3. CASE m.kind = "subscribe"
  <2>1. Silent(outbound') => m.all = S
    BY <1>1, <1>3, TailLast DEF Arriving
  <2>2. ~Silent(toServer') /\ (m.all = S => LastIs(toServer', S))
    BY <1>1, <1>3, AppendLast
  <2> QED
    BY <1>2, <2>1, <2>2
<1>4. CASE m.kind # "subscribe"
  <2>1. Silent(outbound') => Silent(outbound)
    BY <1>1, <1>4, TailLast
  <2>2. /\ LastIs(toServer, S) => LastIs(toServer', S)
        /\ Silent(toServer') => Silent(toServer)
    BY <1>1, <1>4, AppendLast
  <2> QED
    BY <1>2, <2>1, <2>2 DEF Arriving
<1> QED
  BY <1>3, <1>4

LEMMA ServeArriving ==
    ASSUME TypeOK, NEW S, Arriving(S), Serve
    PROVE  Arriving(S)'
<1> DEFINE m == Head(toServer)
<1>1. /\ toServer \in Seq(OutboundMessages) /\ toServer # <<>>
      /\ toServer' = Tail(toServer) /\ outbound' = outbound
      /\ IF m.kind = "subscribe" THEN streaming' = m.all ELSE streaming' = streaming
  BY DEF TypeOK, Serve
<1>2. /\ LastIs(toServer, S) => LastIs(toServer', S)
      /\ m.kind = "subscribe" /\ Silent(toServer') /\ LastIs(toServer, S) => m.all = S
      /\ m.kind # "subscribe" /\ Silent(toServer') => Silent(toServer)
  BY <1>1, TailLast
<1> QED
  BY <1>1, <1>2 DEF Arriving

LEMMA SubscribeTurns ==
    ASSUME TypeOK, Turns, NEW s \in Subscribers, SubscribeStep(s)
    PROVE  Turns'
<1> SUFFICES ASSUME ~overlapped' PROVE Turns'
  BY DEF Turns
<1>0. /\ spc \in [Subscribers -> {"new", "started", "extended", "subscribed", "failed"}]
      /\ list \in [Subscribers -> SUBSET Symbols]
      /\ outbound \in Seq(OutboundMessages)
  BY DEF TypeOK
<1>1. CASE StartSubscribe(s)
  <2>1. /\ ~overlapped /\ \A t \in Subscribers : ~Active(spc[t])
        /\ \A t \in Subscribers : t # s => spc'[t] = spc[t]
        /\ spc'[s] \in {"subscribed", "started"}
        /\ UNCHANGED <<list, subscriptions, outbound, toServer, streaming, socket, writer>>
    BY <1>0, <1>1 DEF StartSubscribe, tasks, wire
  <2>2. /\ \A t \in Subscribers : ~Extended(t)
        /\ \A t \in Subscribers : ~Extended(t)'
    BY <2>1 DEF Extended, Active
  <2>3. \A t, u \in Subscribers : Active(spc'[t]) /\ Active(spc'[u]) => t = u
    BY <2>1
  <2> QED
    BY <2>1, <2>2, <2>3 DEF Turns, Arriving, Listening
<1>2. CASE Extend(s)
  <2>1. /\ ~overlapped /\ spc[s] = "started" /\ spc'[s] = "extended"
        /\ \A t \in Subscribers : t # s => spc'[t] = spc[t]
        /\ list'[s] = subscriptions'
    BY <1>0, <1>2 DEF Extend
  <2>2. \A t, u \in Subscribers : Active(spc[t]) /\ Active(spc[u]) => t = u
    BY <2>1 DEF Turns
  <2>3. \A t \in Subscribers : Active(spc'[t]) => t = s
    BY <2>1, <2>2 DEF Active
  <2>4. \A t \in Subscribers : spc'[t] = "extended" => t = s
    BY <2>3 DEF Active
  <2> QED
    BY <2>1, <2>3, <2>4 DEF Turns, Extended
<1>3. CASE SendList(s)
  <2>1. /\ ~overlapped /\ spc[s] = "extended" /\ spc'[s] \in {"subscribed", "failed"}
        /\ \A t \in Subscribers : t # s => spc'[t] = spc[t]
        /\ UNCHANGED <<list, subscriptions, toServer, streaming, socket, writer>>
    BY <1>0, <1>3 DEF SendList, tasks, wire
  <2>2. list[s] = subscriptions
    BY <2>1 DEF Turns, Extended
  <2>3. \A t \in Subscribers : Active(spc'[t]) => t # s /\ Active(spc[t])
    BY <2>1 DEF Active
  <2>4. \A t \in Subscribers : ~Active(spc'[t])
    BY <2>1, <2>3 DEF Turns, Active
  <2>5. Listening => outbound' = Append(outbound, SubscribeMessage(list[s]))
    BY <1>3 DEF SendList
  <2>6. /\ SubscribeMessage(list[s]) \in OutboundMessages
        /\ SubscribeMessage(list[s]).kind = "subscribe"
        /\ SubscribeMessage(list[s]).all = subscriptions
    BY <1>0, <2>2 DEF SubscribeMessage, OutboundMessages
  <2>7. Listening => ~Silent(outbound') /\ LastIs(outbound', subscriptions)
    BY <1>0, <2>5, <2>6, AppendLast
  <2>8. \A t \in Subscribers : spc'[t] # "extended"
    BY <2>4 DEF Active
  <2> QED
    BY <2>1, <2>4, <2>7, <2>8 DEF Turns, Extended, Arriving, Listening
<1> QED
  BY <1>1, <1>2, <1>3 DEF SubscribeStep

\* Steps of the queue and the server, whatever the subscribers are at.
LEMMA KeptTurns ==
    ASSUME Turns, UNCHANGED subscribers,
           socket' = "open" => socket = "open", Listening' => Listening,
           socket = "open" /\ Listening' /\ Arriving(subscriptions) =>
               Arriving(subscriptions)'
    PROVE  Turns'
  BY DEF Turns, subscribers, Extended, Active

LEMMA TurnsStep == TypeOK /\ Turns /\ [Next]_vars => Turns'
<1> SUFFICES ASSUME TypeOK, Turns, [Next]_vars PROVE Turns'
  OBVIOUS
<1>1. CASE \E s \in Subscribers : SubscribeStep(s)
  BY <1>1, SubscribeTurns
<1>2. CASE UNCHANGED <<subscribers, outbound, wire, writer>>
  BY <1>2, KeptTurns DEF wire, Listening, Arriving, subscribers
<1>3. ASSUME NEW r \in Requests, Send(r) PROVE Turns'
  <2>1. RequestMessage(r) \in OutboundMessages /\ RequestMessage(r).kind # "subscribe"
    BY DEF RequestMessage, OutboundMessages
  <2>2. Arriving(subscriptions) => Arriving(subscriptions)'
    BY <1>3, <2>1, AppendArriving DEF Send, wire, subscribers, Arriving
  <2> QED
    BY <1>3, <2>2, KeptTurns DEF Send, wire, tasks, Listening
<1>4. CASE Beat
  <2>1. Heartbeat \in OutboundMessages /\ Heartbeat.kind # "subscribe"
    BY DEF Heartbeat, OutboundMessages
  <2>2. Listening /\ Arriving(subscriptions) => Arriving(subscriptions)'
    BY <1>4, <2>1, AppendArriving DEF Beat, wire, subscribers, Arriving
  <2> QED
    BY <1>4, <2>2, KeptTurns DEF Beat, wire, Listening
<1>5. CASE Write
  <2>1. ASSUME socket = "open", Arriving(subscriptions) PROVE Arriving(subscriptions)'
    <3>1. /\ outbound # <<>> /\ outbound' = Tail(outbound)
          /\ toServer' = Append(toServer, Head(outbound))
          /\ UNCHANGED <<streaming, subscriptions>>
      BY <1>5, <2>1 DEF Write, subscribers
    <3> QED
      BY <2>1, <3>1, WriteArriving DEF Arriving
  <2> QED
    BY <1>5, <2>1, KeptTurns DEF Write, Listening
<1>6. CASE Serve
  <2>1. UNCHANGED <<subscribers, socket, writer>>
    BY <1>6 DEF Serve, tasks
  <2>2. Arriving(subscriptions) => Arriving(subscriptions)'
    BY <1>6, <2>1, ServeArriving DEF subscribers, Arriving
  <2> QED
    BY <2>1, <2>2, KeptTurns DEF Listening
<1>7. CASE HangUp
  BY <1>7, KeptTurns DEF HangUp, Listening, wire
<1>8. CASE CloseSocket
  <2>1. UNCHANGED <<subscribers, subscriptions, outbound, toServer, streaming, writer>>
        /\ socket' = "closed"
    BY <1>8 DEF CloseSocket, tasks, subscribers
  <2>2. Arriving(subscriptions) => Arriving(subscriptions)'
    BY <2>1 DEF Arriving
  <2>3. socket' # "open"
    BY <2>1
  <2> QED
    BY <2>1, <2>2, <2>3, KeptTurns DEF Listening
<1>9. ASSUME NEW r \in Requests,
             Check(r) \/ Register(r) \/ SendFails(r) \/ Resolve(r) \/ TimeOut(r)
      PROVE  Turns'
  <2>1. UNCHANGED <<subscribers, outbound, wire, tasks>>
    BY <1>9 DEF Check, Register, SendFails, Resolve, TimeOut
  <2> QED
    BY <1>2, <2>1 DEF tasks
<1>10. CASE Read \/ ReaderEnds \/ Clear \/ Wake \/ Drop \/ UNCHANGED vars
  <2>1. UNCHANGED <<subscribers, outbound, socket, toServer, streaming, writer>>
    BY <1>10 DEF Read, ReaderEnds, Clear, Wake, Drop, tasks, wire, vars
  <2> QED
    BY <2>1, KeptTurns DEF Listening, Arriving, subscribers
<1> QED
  BY <1>1, <1>3, <1>4, <1>5, <1>6, <1>7, <1>8, <1>9, <1>10
     DEF Next, RequestStep, ReaderStep, WriterStep, HeartbeatStep

\* For any number of callers: once every list of symbols is sent and served the server
\* streams all that was subscribed on the connection, if no two calls overlapped; each
\* call sends the whole set, in the order the calls were made (subscribe).
THEOREM SubscriptionsArrive == Spec => []SubscribedInTurn
<1>1. Init => Turns
  <2> SUFFICES ASSUME Init PROVE Turns
    OBVIOUS
  <2>1. /\ \A s \in Subscribers : ~Active(spc[s]) /\ ~Extended(s)
        /\ DOMAIN outbound = {} /\ DOMAIN toServer = {} /\ streaming = subscriptions
    BY DEF Init, Active, Extended
  <2> QED
    BY <2>1 DEF Turns, Arriving, LastIs, Silent
<1>2. TypeOK /\ Turns => SubscribedInTurn
  <2> SUFFICES ASSUME TypeOK, Turns, Settled, ~overlapped
               PROVE  streaming = subscriptions
    BY DEF SubscribedInTurn
  <2>1. \A s \in Subscribers : ~Extended(s)
    BY DEF Settled, Extended, Active
  <2>2. Arriving(subscriptions)
    BY <2>1 DEF Turns, Settled
  <2> QED
    BY <2>2 DEF Arriving, Silent, Settled
<1> QED
  BY <1>1, <1>2, TurnsStep, WebtermTypes, PTL DEF Spec

=============================================================================
