---------------------------- MODULE NativeClient ----------------------------
(***************************************************************************)
(* mt5-session/src/client.rs `Client` over a session that is ready: poll   *)
(* with its keepalive and its rule for silence, request, trade, subscribe, *)
(* and what apply does that can fail or send.                              *)
(*                                                                         *)
(* Everything runs on the caller's thread.  A poll is one action up to the *)
(* wait in Session::poll_message, and one for each way out of it.  Time    *)
(* passes only while that thread waits or leaves the client alone; a slice *)
(* of a call's wait is the unit, and a clock stops where it is compared.   *)
(***************************************************************************)
EXTENDS Integers, Sequences, FiniteSets

CONSTANTS Trades,           \* the request IDs of trades, positive
          SequenceMod,      \* 2^16
          Keepalive,        \* KEEPALIVE, 10 s
          ReceiveDeadline,  \* receive_deadline, 45 s
          CallDeadline,     \* 30 s
          PollTimes,        \* the timeouts the application polls with
          Gap,              \* bound: how long it leaves the client alone
          Latency,          \* the broker answers a request within this time
          Answered,         \* the commands it always answers
          Pushes,           \* bound: the kinds of messages the broker pushes
          MaxWire           \* bound: messages that are due or under way

ASSUME ClientAssumption ==
    /\ Trades \subseteq Nat \ {0} /\ SequenceMod \in Nat \ {0, 1}
    /\ {Keepalive, ReceiveDeadline, CallDeadline, Latency} \subseteq Nat \ {0}
    /\ PollTimes \subseteq Nat \ {0} /\ Gap \in Nat /\ MaxWire \in Nat
    /\ Answered \subseteq {"keepalive", "subscribe", "request"}
    /\ Pushes \subseteq {"quote", "malformed", "unquoted", "restrict", "unreadable"}

VARIABLES
    session,    \* ready, readonly (ready as well) or failed
    sequence,   \* Connection's counter
    healthy,    \* Client::healthy
    lastSend, lastReceive,  \* time since Client::last_send, last_receive
    call,       \* the call under way, with the locals of its loop
    timer,      \* time left of the wait, or until the application calls again
    told,       \* what the caller of each trade was told
    \* the connection and the broker, external
    link,       \* up, closed, or silent: gone without closing
    inbox,      \* complete messages not yet taken
    owed,       \* the requests the broker has not answered
    fate        \* where the broker is with each trade

clocks == <<lastSend, lastReceive>>
client == <<session, sequence, healthy, lastSend>>
broker == <<link, fate>>
vars == <<client, lastReceive, call, timer, told, inbox, owed, broker>>

\* `item` is the sequence or the trade the call waits for.
Locals(op, remaining, item) ==
    [op |-> op, polling |-> FALSE, remaining |-> remaining, item |-> item, ticket |-> 0]
Idle == Locals("idle", 0, 0)
Started(op, item) == Locals(op, CallDeadline, item)
InLoop == call.op \in {"request", "trade"} /\ ~call.polling

Least(a, b) == IF a < b THEN a ELSE b

Init ==
    /\ session \in {"ready", "readonly"} /\ sequence = 1 /\ healthy = TRUE
    /\ lastSend = 0 /\ lastReceive = 0
    /\ call = Idle /\ timer = Gap
    /\ told = [k \in Trades |-> "nothing"]
    /\ link = "up" /\ inbox = <<>> /\ owed = {}
    /\ fate = [k \in Trades |-> "unsent"]

------------------------------------------------------------------------------
(* Sending *)

NextSequence == IF sequence + 1 = SequenceMod THEN 1 ELSE sequence + 1

Due(cmd) == [cmd |-> cmd, seq |-> sequence, age |-> 0, own |-> TRUE]

\* The session takes the frame and the client notes the time.  The broker owes an
\* answer if it answers the command; a connection that is gone loses it.
Sent(cmd) ==
    /\ session # "failed"
    /\ sequence' = NextSequence
    /\ lastSend' = 0
    /\ owed' = IF link = "up" /\ cmd \in Answered THEN owed \union {Due(cmd)} ELSE owed
    /\ UNCHANGED session

\* A write may always fail, and fails the session.
NotSent == session' = "failed" /\ UNCHANGED <<sequence, lastSend, owed>>
NothingSent == UNCHANGED <<session, sequence, lastSend, owed>>

\* The call comes back; a trade that had begun says `outcome`.
Return(outcome) ==
    /\ call' = Idle /\ timer' = Gap
    /\ told' = [k \in Trades |->
                   IF call.op = "trade" /\ k = call.item THEN outcome ELSE told[k]]

\* poll: any error inside it leaves the client unhealthy, and ends its caller.
Fail == healthy' = FALSE /\ Return("uncertain")

\* A poll of the application comes back, another call goes round its loop.
GoOn ==
    \/ call.op = "poll" /\ Return("uncertain")
    \/ /\ call.op # "poll"
       /\ call' = [call EXCEPT !.polling = FALSE]
       /\ UNCHANGED <<timer, told>>

------------------------------------------------------------------------------
(* poll *)

\* Fault: the keepalive waits for silence.
KeepaliveOnSilence == lastReceive >= ReceiveDeadline
KeepaliveDue == lastSend >= Keepalive

\* poll up to its wait, on behalf of `caller`.
Poll(caller, t) ==
    /\ \/ /\ healthy
          /\ \/ KeepaliveDue /\ Sent("keepalive")
             \/ ~KeepaliveDue /\ NothingSent
          /\ call' = [caller EXCEPT !.polling = TRUE] /\ timer' = t
          /\ UNCHANGED <<healthy, told>>
       \/ healthy /\ KeepaliveDue /\ NotSent /\ Fail
       \/ ~healthy /\ NothingSent /\ Fail
    /\ UNCHANGED <<lastReceive, inbox, broker>>

StartPoll ==
    /\ call.op = "idle"
    /\ \E t \in PollTimes : Poll(Locals("poll", 0, 0), t)

\* The session failed before, or its connection closes after the last message.
PollFails ==
    /\ call.polling
    /\ session = "failed" \/ (link = "closed" /\ inbox = <<>>)
    /\ session' = "failed"
    /\ Fail
    /\ UNCHANGED <<sequence, clocks, inbox, owed, broker>>

PollEnds == call.polling /\ timer = 0 /\ inbox = <<>> /\ session # "failed"

\* Fault: an empty poll counts as a sign of life.
SilentForgiving ==
    /\ PollEnds
    /\ lastReceive' = 0
    /\ GoOn
    /\ UNCHANGED <<client, inbox, owed, broker>>

\* Nothing came.
Silent ==
    /\ PollEnds
    /\ \/ lastReceive >= ReceiveDeadline /\ Fail
       \/ lastReceive < ReceiveDeadline /\ GoOn /\ UNCHANGED healthy
    /\ UNCHANGED <<session, sequence, clocks, inbox, owed, broker>>

Taken == Head(inbox)
Take ==
    /\ call.polling /\ inbox # <<>> /\ session # "failed"
    /\ inbox' = Tail(inbox)
    /\ lastReceive' = 0
    /\ UNCHANGED broker

\* apply succeeds: a position in a symbol that is not subscribed subscribes it.
\* The session has narrowed the account before.
Applied ==
    /\ \/ Taken.kind = "unquoted" /\ Sent("subscribe")
       \/ /\ Taken.kind \notin {"malformed", "unquoted"}
          /\ session' = IF Taken.kind = "restrict" THEN "readonly" ELSE session
          /\ UNCHANGED <<sequence, lastSend, owed>>
    /\ UNCHANGED healthy

TakeFails ==
    /\ Take
    /\ \/ Taken.kind = "malformed" /\ NothingSent
       \/ Taken.kind = "unquoted" /\ NotSent
    /\ Fail

TakeInPoll == call.op = "poll" /\ Take /\ Applied /\ GoOn

------------------------------------------------------------------------------
(* request, subscribe and the loop of request and trade *)

\* What belongs to an earlier call.
Stale(m) == IF "own" \in DOMAIN m THEN [m EXCEPT !.own = FALSE] ELSE m

\* The numbers in flight; 2^16 of them outlast an answer.
Numbers == {d.seq : d \in owed} \union
           {inbox[i].seq : i \in {j \in DOMAIN inbox : inbox[j].kind = "answer"}}

\* Whether the client is healthy is seen by the first poll, after the send.
Request ==
    /\ call.op = "idle"
    /\ Cardinality(owed) + Len(inbox) < MaxWire /\ sequence \notin Numbers
    /\ \/ /\ session # "failed"
          /\ LET stale == {Stale(d) : d \in owed} IN
             owed' = IF link = "up" THEN stale \union {Due("request")} ELSE stale
          /\ sequence' = NextSequence
          /\ lastSend' = 0
          /\ inbox' = [i \in DOMAIN inbox |-> Stale(inbox[i])]
          /\ call' = Started("request", sequence)
          /\ UNCHANGED <<session, timer>>
       \/ NotSent /\ timer' = Gap /\ UNCHANGED <<call, inbox>>
    /\ UNCHANGED <<healthy, lastReceive, told, broker>>

\* Fault: any answer to the command.
AnswersCommand(m) == m.kind = "answer" /\ m.cmd = "request"
Answers(m) == m.kind = "answer" /\ m.cmd = "request" /\ m.seq = call.item

TakeInRequest ==
    /\ call.op = "request"
    /\ Take /\ Applied
    /\ IF Answers(Taken) THEN Return("uncertain") ELSE GoOn

\* Health is not looked at.
Subscribe ==
    /\ call.op = "idle"
    /\ Cardinality(owed) + Len(inbox) < MaxWire
    /\ Sent("subscribe") \/ NotSent
    /\ timer' = Gap
    /\ UNCHANGED <<healthy, lastReceive, call, told, inbox, broker>>

\* Fault: only a trade has a deadline.
TradeDeadline == call.op = "trade" /\ call.remaining = 0
DeadlinePassed == call.remaining = 0

Again == InLoop /\ ~DeadlinePassed /\ Poll(call, 1)

\* The client stays healthy.
Expire ==
    /\ InLoop /\ DeadlinePassed
    /\ Return("uncertain")
    /\ UNCHANGED <<client, lastReceive, inbox, owed, broker>>

------------------------------------------------------------------------------
(* trade *)

\* The client is unhealthy, the account read-only, or, in any state, the record
\* malformed or its ID not positive: nothing is sent.
RefuseTrade(k) ==
    /\ call.op = "idle" /\ told[k] = "nothing"
    /\ told' = [told EXCEPT ![k] = "refused"] /\ timer' = Gap
    /\ UNCHANGED <<client, lastReceive, call, inbox, owed, broker>>

Received(k) == link = "up" /\ fate' = [fate EXCEPT ![k] = "received"]
NotReceived == UNCHANGED fate

\* A write that fails may have reached the broker, one that does not may be lost;
\* without a signing key nothing is written, and the caller is told the same.
StartTrade(k) ==
    /\ call.op = "idle" /\ told[k] = "nothing"
    /\ healthy /\ session = "ready"
    /\ \/ /\ Sent("trade") /\ call' = Started("trade", k) /\ UNCHANGED <<told, timer>>
          /\ Received(k) \/ (link # "up" /\ NotReceived)
       \/ /\ \/ NotSent /\ (Received(k) \/ NotReceived)
             \/ NothingSent /\ NotReceived
          /\ told' = [told EXCEPT ![k] = "uncertain"]
          /\ timer' = Gap /\ UNCHANGED call
    /\ UNCHANGED <<healthy, lastReceive, inbox, link>>

\* The result records of the message taken, none if it brings none.
Records == IF Taken.kind = "results" THEN Taken.records ELSE <<>>

\* The local `ticket` before record i: the last one a record with the request's
\* ID brought, here or in an earlier message.
TicketBefore(i, t) ==
    LET named == {j \in DOMAIN Records :
                     j < i /\ Records[j].id = call.item /\ Records[j].ticket # 0} IN
    \/ named = {} /\ t = call.ticket
    \/ \E j \in named : t = Records[j].ticket /\ \A l \in named : l <= j

\* Fault: any result with a ticket goes for one that has no ID.
MineByAnyTicket(i) ==
    \/ Records[i].id = call.item
    \/ Records[i].id = 0 /\ Records[i].ticket # 0
Mine(i) ==
    \/ Records[i].id = call.item
    \/ Records[i].id = 0 /\ Records[i].ticket # 0 /\ TicketBefore(i, Records[i].ticket)
Decides(i) == Mine(i) /\ Records[i].status \in {"timeout", "final"}

\* The first record that decides; 10012 says the broker gave up waiting.  Results
\* that cannot be decoded end the call and leave the client healthy.
TakeInTrade ==
    /\ call.op = "trade"
    /\ Take /\ Applied
    /\ \/ Taken.kind = "unreadable" /\ Return("uncertain")
       \/ \E i \in DOMAIN Records :
            /\ Decides(i) /\ \A j \in DOMAIN Records : Decides(j) => i <= j
            /\ Return(IF Records[i].status = "final" THEN "confirmed" ELSE "uncertain")
       \/ /\ Taken.kind # "unreadable" /\ \A i \in DOMAIN Records : ~Decides(i)
          /\ \E t \in Trades \union {0} :
               /\ TicketBefore(Len(Records) + 1, t)
               /\ call' = [call EXCEPT !.polling = FALSE, !.ticket = t]
          /\ UNCHANGED <<timer, told>>

------------------------------------------------------------------------------
(* Time, the connection and the broker.  What a broker answers it answers     *)
(* within Latency; time passes only between two steps of the thread.          *)

Tick ==
    /\ call.op = "idle" \/ call.polling
    /\ timer > 0
    /\ \A d \in owed : d.age < Latency
    /\ timer' = timer - 1
    /\ lastSend' = Least(lastSend + 1, Keepalive)
    /\ lastReceive' = Least(lastReceive + 1, ReceiveDeadline)
    /\ call' = [call EXCEPT !.remaining = IF @ = 0 THEN 0 ELSE @ - 1]
    /\ owed' = {[d EXCEPT !.age = @ + 1] : d \in owed}
    /\ UNCHANGED <<session, sequence, healthy, told, inbox, broker>>

Answer ==
    /\ \E d \in owed :
         /\ owed' = owed \ {d}
         /\ \/ inbox' = Append(inbox, [kind |-> "answer", cmd |-> d.cmd,
                                       seq |-> d.seq, own |-> d.own])
            \/ d.cmd \notin Answered /\ UNCHANGED inbox
    /\ UNCHANGED <<client, lastReceive, call, timer, told, broker>>

Push ==
    /\ link = "up" /\ Cardinality(owed) + Len(inbox) < MaxWire
    /\ \E kind \in Pushes : inbox' = Append(inbox, [kind |-> kind])
    /\ UNCHANGED <<client, lastReceive, call, timer, told, owed, broker>>

\* Results come one to a message or two.
Report(r) ==
    LET last == Len(inbox) IN
    \/ /\ Cardinality(owed) + last < MaxWire
       /\ inbox' = Append(inbox, [kind |-> "results", records |-> <<r>>])
    \/ /\ last > 0 /\ inbox[last].kind = "results" /\ Len(inbox[last].records) < 2
       /\ inbox' = [inbox EXCEPT ![last].records = Append(@, r)]

\* A result names the trade by its request ID, or by the ticket of its order
\* alone once it was told (k stands for the ticket of trade k).  A trade that
\* timed out may still be finished.
Work(k) ==
    /\ link = "up" /\ fate[k] \in {"received", "working"}
    /\ \E status \in {"working", "timeout", "final"}, id \in {0, k}, ticket \in {0, k} :
         /\ status = "working" => fate[k] = "received"
         /\ id = 0 => fate[k] = "working" /\ ticket # 0
         /\ fate' = [fate EXCEPT ![k] = IF status = "final" THEN "finished" ELSE "working"]
         /\ Report([id |-> id, ticket |-> ticket, status |-> status])
    /\ UNCHANGED <<client, lastReceive, call, timer, told, owed, link>>

Lose ==
    /\ link = "up" /\ link' \in {"closed", "silent"}
    /\ owed' = {}
    /\ UNCHANGED <<client, lastReceive, call, timer, told, inbox, fate>>

------------------------------------------------------------------------------

StartCall ==
    \/ StartPoll \/ Request \/ Subscribe
    \/ \E k \in Trades : RefuseTrade(k) \/ StartTrade(k)
Progress ==
    \/ PollFails \/ Silent \/ TakeFails
    \/ TakeInPoll \/ TakeInRequest \/ TakeInTrade
    \/ Again \/ Expire

Next ==
    \/ StartCall \/ Progress \/ Tick
    \/ Answer \/ Push \/ Lose \/ \E k \in Trades : Work(k)

Spec == Init /\ [][Next]_vars

\* Time passes whatever else goes on, a thread that can go on does, the broker
\* pays what is due, and the application keeps polling.
FairSpec ==
    /\ Spec
    /\ SF_vars(Tick) /\ WF_vars(Progress) /\ WF_vars(Answer) /\ WF_vars(StartPoll)

------------------------------------------------------------------------------
(* Properties *)

Numbered == 1 .. SequenceMod - 1
Debts == [cmd : Answered \union {"request"}, seq : Numbered,
          age : 0 .. Latency, own : BOOLEAN]
ResultRecords == [id : Trades \union {0}, ticket : Trades \union {0},
                  status : {"working", "timeout", "final"}]
Messages ==
    [kind : {"quote", "malformed", "unquoted", "restrict", "unreadable"}] \union
    [kind : {"answer"}, cmd : Answered \union {"request"}, seq : Numbered, own : BOOLEAN]
    \union [kind : {"results"}, records : Seq(ResultRecords)]

\* The shapes of the state: every clock stays within what it is compared with,
\* and the locals of a call are those of its kind.
ClientType ==
    /\ session \in {"ready", "readonly", "failed"}
    /\ sequence \in Numbered
    /\ healthy \in BOOLEAN
    /\ lastSend \in 0 .. Keepalive /\ lastReceive \in 0 .. ReceiveDeadline
CallType ==
    /\ timer \in Nat
    /\ call \in [op : {"idle", "poll", "request", "trade"}, polling : BOOLEAN,
                 remaining : 0 .. CallDeadline, item : Nat,
                 ticket : Trades \union {0}]
    /\ call.op = "trade" => call.item \in Trades
    /\ call.op = "poll" => call.polling
    /\ call.polling => call.op # "idle"
    /\ told \in [Trades -> {"nothing", "refused", "uncertain", "confirmed"}]
BrokerType ==
    /\ link \in {"up", "closed", "silent"}
    /\ inbox \in Seq(Messages)
    /\ owed \subseteq Debts
    /\ fate \in [Trades -> {"unsent", "received", "working", "finished"}]
TypeOK == ClientType /\ CallType /\ BrokerType

Outcome == INSTANCE TradeOutcome WITH
    submitted <- {k \in Trades : fate[k] # "unsent"},
    finished <- {k \in Trades : fate[k] = "finished"}

\* A trade is refused only if it was never sent, confirmed only if the broker
\* finished that very trade, and sent at most once, through late results of
\* another trade, results without a request ID and errors at every point.
OutcomeRefined == Outcome!Spec

\* What request returns is the answer to this request, although answers to
\* requests that timed out still come.
AnswersOwn == [][TakeInRequest /\ call'.op = "idle" => Taken.own]_vars

\* "With keepalives answered, a live connection is never silent this long":
\* the rule for silence never ends a connection that is up.
LiveNotPresumedDead == [][Silent /\ link = "up" => healthy']_vars

\* A connection that vanished without closing is noticed, whatever mixture of
\* calls the application makes as long as it polls.
SilenceDetected == link = "silent" ~> ~healthy

\* Every call comes back, although other messages keep its loop going round.
CallsEnd == call.op # "idle" ~> call.op = "idle"

=============================================================================
