------------------------- MODULE NativeClientProofs -------------------------
(***************************************************************************)
(* Proofs about NativeClient: its types, that what it tells the caller of  *)
(* a trade is what TradeOutcome promises, that a request gets its own      *)
(* answer, and that a live connection is not taken for a dead one: for any *)
(* trades, any clocks and any number of result records in a message.       *)
(***************************************************************************)
EXTENDS NativeClient, TLAPS

------------------------------------------------------------------------------
(* Sequences and records *)

LEMMA TailOf ==
    ASSUME NEW S, NEW s \in Seq(S), s # <<>>
    PROVE  /\ Tail(s) \in Seq(S) /\ Head(s) \in S
           /\ Head(s) = s[1] /\ 1 \in DOMAIN s
           /\ \A i \in DOMAIN Tail(s) : i + 1 \in DOMAIN s /\ Tail(s)[i] = s[i + 1]
<1>1. Len(s) \in Nat \ {0} /\ 1 \in DOMAIN s /\ s[1] \in S
  OBVIOUS
<1>2. ASSUME NEW i \in DOMAIN Tail(s)
      PROVE  i + 1 \in DOMAIN s /\ Tail(s)[i] = s[i + 1]
  OBVIOUS
<1> QED
  BY <1>1, <1>2

LEMMA AppendOf ==
    ASSUME NEW S, NEW s \in Seq(S), NEW e \in S
    PROVE  /\ Append(s, e) \in Seq(S) /\ Len(Append(s, e)) = Len(s) + 1
           /\ \A i \in DOMAIN Append(s, e) :
                \/ i \in DOMAIN s /\ Append(s, e)[i] = s[i]
                \/ i = Len(s) + 1 /\ Append(s, e)[i] = e
  OBVIOUS

LEMMA Kinds ==
    ASSUME NEW m \in Messages
    PROVE  /\ m.kind = "results" => m \in [kind : {"results"}, records : Seq(ResultRecords)]
           /\ m.kind = "results" => m.records \in Seq(ResultRecords)
           /\ m.kind = "answer" =>
                m \in [kind : {"answer"}, cmd : Answered \union {"request"},
                       seq : Numbered, own : BOOLEAN]
           /\ m.kind \notin {"answer", "results"} =>
                m \in [kind : {"quote", "malformed", "unquoted", "restrict", "unreadable"}]
  BY DEF Messages

Outcomes == {"nothing", "refused", "uncertain", "confirmed"}

------------------------------------------------------------------------------
(* Types *)

LEMMA DueType ==
    ASSUME TypeOK, NEW cmd \in Answered \union {"request"}
    PROVE  Due(cmd) \in Debts
  BY ClientAssumption DEF TypeOK, ClientType, Due, Debts

LEMMA SentType ==
    ASSUME TypeOK, NEW cmd, Sent(cmd)
    PROVE  /\ session' = session /\ sequence' \in Numbered
           /\ lastSend' \in 0 .. Keepalive /\ owed' \subseteq Debts
<1>1. sequence' \in Numbered
  BY ClientAssumption DEF Sent, NextSequence, TypeOK, ClientType, Numbered
<1>2. owed' \subseteq Debts
  BY DueType DEF Sent, TypeOK, BrokerType
<1>3. 0 \in 0 .. Keepalive
  BY ClientAssumption
<1> QED
  BY <1>1, <1>2, <1>3 DEF Sent

LEMMA ReturnType ==
    ASSUME TypeOK, NEW outcome \in Outcomes, Return(outcome)
    PROVE  CallType'
<1>1. /\ Idle \in [op : {"idle", "poll", "request", "trade"}, polling : BOOLEAN,
                   remaining : 0 .. CallDeadline, item : Nat,
                   ticket : Trades \union {0}]
      /\ Idle.op = "idle" /\ ~Idle.polling
  BY ClientAssumption DEF Idle, Locals
<1>2. told' \in [Trades -> Outcomes]
  BY DEF TypeOK, CallType, Return, Outcomes
<1> QED
  BY <1>1, <1>2, ClientAssumption DEF CallType, Return, Outcomes

LEMMA GoOnType ==
    ASSUME TypeOK, GoOn
    PROVE  CallType'
<1>1. CASE Return("uncertain")
  BY <1>1, ReturnType DEF Outcomes
<1>2. CASE call.op # "poll" /\ call' = [call EXCEPT !.polling = FALSE] /\ UNCHANGED <<timer, told>>
  BY <1>2 DEF TypeOK, CallType
<1> QED
  BY <1>1, <1>2 DEF GoOn

Callers == [op : {"poll", "request", "trade"}, polling : BOOLEAN,
            remaining : 0 .. CallDeadline, item : Nat, ticket : Trades \union {0}]

LEMMA PollType ==
    ASSUME TypeOK, NEW caller \in Callers, caller.op = "trade" => caller.item \in Trades,
           NEW t \in Nat, Poll(caller, t)
    PROVE  TypeOK'
<1>1. ClientType' /\ owed' \subseteq Debts
  BY SentType DEF Poll, TypeOK, ClientType, BrokerType, NothingSent, NotSent, Fail
<1>2. CallType'
  <2>1. CASE call' = [caller EXCEPT !.polling = TRUE] /\ timer' = t /\ UNCHANGED told
    BY <2>1 DEF TypeOK, CallType, Callers
  <2>2. CASE Return("uncertain")
    BY <2>2, ReturnType DEF Outcomes
  <2> QED
    BY <2>1, <2>2 DEF Poll, Fail
<1> QED
  BY <1>1, <1>2 DEF Poll, TypeOK, BrokerType, broker

LEMMA TakeType ==
    ASSUME TypeOK, Take
    PROVE  /\ inbox' \in Seq(Messages) /\ Taken \in Messages
           /\ lastReceive' \in 0 .. ReceiveDeadline /\ UNCHANGED broker
  BY TailOf, ClientAssumption DEF Take, Taken, TypeOK, BrokerType

LEMMA AppliedType ==
    ASSUME TypeOK, Take, Applied
    PROVE  ClientType' /\ BrokerType'
<1>1. CASE Taken.kind = "unquoted" /\ Sent("subscribe")
  BY <1>1, SentType, TakeType DEF Applied, TypeOK, ClientType, BrokerType, broker
<1>2. CASE /\ session' = IF Taken.kind = "restrict" THEN "readonly" ELSE session
           /\ UNCHANGED <<sequence, lastSend, owed>>
  BY <1>2, TakeType DEF Applied, TypeOK, ClientType, BrokerType, broker
<1> QED
  BY <1>1, <1>2 DEF Applied

LEMMA ProgressType ==
    ASSUME TypeOK, Progress
    PROVE  TypeOK'
<1>1. CASE PollFails
  BY <1>1, ReturnType
     DEF PollFails, Fail, Outcomes, TypeOK, ClientType, BrokerType, clocks, broker
<1>2. CASE Silent
  <2>1. CallType' /\ healthy' \in BOOLEAN
    BY <1>2, ReturnType, GoOnType DEF Silent, Fail, Outcomes, TypeOK, ClientType
  <2> QED
    BY <1>2, <2>1 DEF Silent, TypeOK, ClientType, BrokerType, clocks, broker
<1>3. CASE TakeFails
  BY <1>3, ReturnType, TakeType
     DEF TakeFails, Fail, Outcomes, NothingSent, NotSent, TypeOK, ClientType, BrokerType, broker
<1>4. CASE TakeInPoll
  BY <1>4, AppliedType, GoOnType DEF TakeInPoll, TypeOK
<1>5. CASE TakeInRequest
  BY <1>5, AppliedType, GoOnType, ReturnType DEF TakeInRequest, Outcomes, TypeOK
<1>6. CASE TakeInTrade
  <2>1. CallType'
    <3>1. CASE \E i \in DOMAIN Records :
                   Return(IF Records[i].status = "final" THEN "confirmed" ELSE "uncertain")
      BY <3>1, ReturnType DEF Outcomes
    <3>2. CASE /\ \E t \in Trades \union {0} :
                      call' = [call EXCEPT !.polling = FALSE, !.ticket = t]
               /\ UNCHANGED <<timer, told>>
      BY <1>6, <3>2 DEF TakeInTrade, TypeOK, CallType
    <3>3. CASE Return("uncertain")
      BY <3>3, ReturnType DEF Outcomes
    <3> QED
      BY <1>6, <3>1, <3>2, <3>3 DEF TakeInTrade
  <2> QED
    BY <1>6, <2>1, AppliedType DEF TakeInTrade, TypeOK
<1>7. CASE Again
  <2>1. call \in Callers /\ (call.op = "trade" => call.item \in Trades)
    BY <1>7 DEF Again, InLoop, Callers, TypeOK, CallType
  <2> QED
    BY <1>7, <2>1, PollType DEF Again
<1>8. CASE Expire
  BY <1>8, ReturnType
     DEF Expire, Outcomes, TypeOK, ClientType, BrokerType, client, broker
<1> QED
  BY <1>1, <1>2, <1>3, <1>4, <1>5, <1>6, <1>7, <1>8 DEF Progress

LEMMA StaleDebt ==
    ASSUME NEW d \in Debts
    PROVE  Stale(d) \in Debts
  BY DEF Stale, Debts

LEMMA StaleMessage ==
    ASSUME NEW m \in Messages
    PROVE  /\ Stale(m) \in Messages
           /\ m.kind = "results" => Stale(m) = m
           /\ Stale(m).kind = m.kind
  BY Kinds DEF Stale, Messages

LEMMA LocalsType ==
    ASSUME NEW op \in {"poll", "request", "trade"}, NEW item \in Nat
    PROVE  /\ Started(op, item) \in Callers /\ Locals(op, 0, item) \in Callers
           /\ Started(op, item).op = op /\ Locals(op, 0, item).op = op
           /\ Started(op, item).item = item /\ ~Started(op, item).polling
           /\ Started(op, item).ticket = 0
<1>1. 0 \in 0 .. CallDeadline /\ CallDeadline \in 0 .. CallDeadline
  BY ClientAssumption
<1> QED
  BY <1>1 DEF Started, Locals, Callers

LEMMA StartType ==
    ASSUME TypeOK, StartCall
    PROVE  TypeOK'
<1>1. CASE StartPoll
  <2>1. Locals("poll", 0, 0) \in Callers /\ Locals("poll", 0, 0).op = "poll"
    BY LocalsType
  <2> QED
    BY <1>1, <2>1, PollType, ClientAssumption DEF StartPoll
<1>2. CASE Request
  <2>1. CASE session # "failed" /\ call' = Started("request", sequence)
    <3>1. owed' \subseteq Debts
      <4>1. {Stale(d) : d \in owed} \subseteq Debts /\ Due("request") \in Debts
        BY StaleDebt, DueType DEF TypeOK, BrokerType
      <4>2. call.op = "idle" /\ Started("request", sequence).op = "request"
        BY <1>2 DEF Request, Started, Idle, Locals
      <4> QED
        BY <1>2, <2>1, <4>1, <4>2 DEF Request
    <3>2. inbox' \in Seq(Messages)
      BY <1>2, <2>1, StaleMessage DEF Request, NotSent, TypeOK, BrokerType
    <3>3. sequence' \in Numbered /\ lastSend' \in 0 .. Keepalive
      BY <1>2, <2>1, ClientAssumption
         DEF Request, NotSent, NextSequence, TypeOK, ClientType, Numbered
    <3>4. CallType'
      <4>1. sequence \in Nat
        BY DEF TypeOK, ClientType, Numbered
      <4>2. /\ call' \in Callers /\ call'.op = "request" /\ ~call'.polling
            /\ call.op = "idle"
        BY <1>2, <2>1, <4>1, LocalsType DEF Request
      <4>3. told' = told /\ timer' = timer
        BY <1>2, <4>2 DEF Request
      <4> QED
        BY <4>2, <4>3 DEF Callers, TypeOK, CallType
    <3> QED
      BY <1>2, <2>1, <3>1, <3>2, <3>3, <3>4
         DEF Request, NotSent, TypeOK, ClientType, BrokerType, broker
  <2>2. CASE NotSent /\ timer' = Gap /\ UNCHANGED <<call, inbox>>
    BY <1>2, <2>2, ClientAssumption
       DEF Request, NotSent, TypeOK, ClientType, CallType, BrokerType, broker
  <2> QED
    BY <1>2, <2>1, <2>2 DEF Request
<1>3. CASE Subscribe
  BY <1>3, SentType, ClientAssumption
     DEF Subscribe, NotSent, TypeOK, ClientType, CallType, BrokerType, broker
<1>4. ASSUME NEW k \in Trades, RefuseTrade(k)
      PROVE  TypeOK'
  BY <1>4, ClientAssumption
     DEF RefuseTrade, TypeOK, ClientType, CallType, BrokerType, broker, client
<1>5. ASSUME NEW k \in Trades, StartTrade(k)
      PROVE  TypeOK'
  <2>1. ClientType' /\ owed' \subseteq Debts
    BY <1>5, SentType DEF StartTrade, NotSent, NothingSent, TypeOK, ClientType, BrokerType
  <2>2. CallType'
    <3>1. CASE call' = Started("trade", k) /\ UNCHANGED <<told, timer>>
      <4>1. call' \in Callers /\ call'.op = "trade" /\ ~call'.polling /\ call'.item = k
        BY <3>1, LocalsType, ClientAssumption
      <4> QED
        BY <3>1, <4>1 DEF Callers, TypeOK, CallType
    <3>2. CASE /\ told' = [told EXCEPT ![k] = "uncertain"]
               /\ timer' = Gap /\ UNCHANGED call
      BY <3>2, ClientAssumption DEF TypeOK, CallType
    <3> QED
      BY <1>5, <3>1, <3>2 DEF StartTrade
  <2>3. fate' \in [Trades -> {"unsent", "received", "working", "finished"}]
    BY <1>5 DEF StartTrade, Received, NotReceived, TypeOK, BrokerType
  <2> QED
    BY <1>5, <2>1, <2>2, <2>3 DEF StartTrade, TypeOK, BrokerType
<1> QED
  BY <1>1, <1>2, <1>3, <1>4, <1>5 DEF StartCall

\* A report puts a message at the end, or adds a record to the last message.
LEMMA ReportType ==
    ASSUME inbox \in Seq(Messages), NEW r \in ResultRecords, Report(r)
    PROVE  inbox' \in Seq(Messages)
<1>1. CASE inbox' = Append(inbox, [kind |-> "results", records |-> <<r>>])
  <2>1. [kind |-> "results", records |-> <<r>>] \in Messages
    BY DEF Messages
  <2> QED
    BY <1>1, <2>1, AppendOf
<1>2. CASE /\ Len(inbox) > 0 /\ inbox[Len(inbox)].kind = "results"
           /\ inbox' = [inbox EXCEPT ![Len(inbox)].records = Append(@, r)]
  <2> DEFINE m == inbox[Len(inbox)]
  <2>1. Len(inbox) \in DOMAIN inbox /\ m \in Messages
    BY <1>2
  <2>2. m \in [kind : {"results"}, records : Seq(ResultRecords)]
    BY <1>2, <2>1, Kinds
  <2>3. [m EXCEPT !.records = Append(@, r)] \in [kind : {"results"}, records : Seq(ResultRecords)]
    BY <2>2, AppendOf
  <2>4. [m EXCEPT !.records = Append(@, r)] \in Messages
    BY <2>3 DEF Messages
  <2>5. inbox' = [inbox EXCEPT ![Len(inbox)] = [m EXCEPT !.records = Append(@, r)]]
    BY <1>2, <2>1
  <2> QED
    BY <2>1, <2>4, <2>5
<1> QED
  BY <1>1, <1>2 DEF Report

LEMMA BrokerStepType ==
    ASSUME TypeOK, Tick \/ Answer \/ Push \/ Lose \/ \E k \in Trades : Work(k)
    PROVE  TypeOK'
<1>1. CASE Tick
  <2>1. /\ lastSend' \in 0 .. Keepalive /\ lastReceive' \in 0 .. ReceiveDeadline
        /\ timer' \in Nat
    BY <1>1, ClientAssumption DEF Tick, Least, TypeOK, ClientType, CallType
  <2>2. CallType'
    <3>1. (IF call.remaining = 0 THEN 0 ELSE call.remaining - 1) \in 0 .. CallDeadline
      BY ClientAssumption DEF TypeOK, CallType
    <3>2. call' = [call EXCEPT !.remaining =
                      IF call.remaining = 0 THEN 0 ELSE call.remaining - 1]
      BY <1>1 DEF Tick, TypeOK, CallType
    <3> QED
      BY <1>1, <2>1, <3>1, <3>2 DEF Tick, TypeOK, CallType
  <2>3. owed' \subseteq Debts
    BY <1>1, ClientAssumption DEF Tick, TypeOK, BrokerType, Debts
  <2> QED
    BY <1>1, <2>1, <2>2, <2>3 DEF Tick, TypeOK, ClientType, BrokerType, broker
<1>2. CASE Answer
  <2>1. PICK d \in owed :
          /\ owed' = owed \ {d}
          /\ \/ inbox' = Append(inbox, [kind |-> "answer", cmd |-> d.cmd,
                                        seq |-> d.seq, own |-> d.own])
             \/ UNCHANGED inbox
    BY <1>2 DEF Answer
  <2>2. [kind |-> "answer", cmd |-> d.cmd, seq |-> d.seq, own |-> d.own] \in Messages
    BY DEF TypeOK, BrokerType, Debts, Messages
  <2>3. inbox' \in Seq(Messages)
    BY <2>1, <2>2, AppendOf DEF TypeOK, BrokerType
  <2> QED
    BY <1>2, <2>1, <2>3 DEF Answer, TypeOK, ClientType, CallType, BrokerType, client, broker
<1>3. CASE Push
  <2>1. PICK kind \in Pushes : inbox' = Append(inbox, [kind |-> kind])
    BY <1>3 DEF Push
  <2>2. [kind |-> kind] \in Messages
    BY ClientAssumption DEF Messages
  <2>3. inbox' \in Seq(Messages)
    BY <2>1, <2>2, AppendOf DEF TypeOK, BrokerType
  <2> QED
    BY <1>3, <2>3 DEF Push, TypeOK, ClientType, CallType, BrokerType, client, broker
<1>4. CASE Lose
  BY <1>4 DEF Lose, TypeOK, ClientType, CallType, BrokerType, client, broker
<1>5. ASSUME NEW k \in Trades, Work(k)
      PROVE  TypeOK'
  <2>1. PICK r \in ResultRecords : Report(r)
    BY <1>5 DEF Work, ResultRecords
  <2>2. inbox' \in Seq(Messages)
    BY <2>1, ReportType DEF TypeOK, BrokerType
  <2>3. fate' \in [Trades -> {"unsent", "received", "working", "finished"}]
    BY <1>5 DEF Work, TypeOK, BrokerType
  <2> QED
    BY <1>5, <2>2, <2>3 DEF Work, TypeOK, ClientType, CallType, BrokerType, client
<1> QED
  BY <1>1, <1>2, <1>3, <1>4, <1>5

LEMMA NextType == TypeOK /\ [Next]_vars => TypeOK'
<1> SUFFICES ASSUME TypeOK, [Next]_vars PROVE TypeOK'
  OBVIOUS
<1>1. CASE UNCHANGED vars
  BY <1>1 DEF vars, client, broker, TypeOK, ClientType, CallType, BrokerType
<1>2. CASE Next
  BY <1>2, StartType, ProgressType, BrokerStepType DEF Next
<1> QED
  BY <1>1, <1>2

LEMMA InitType == Init => TypeOK
<1> SUFFICES ASSUME Init PROVE TypeOK
  OBVIOUS
<1>1. ClientType
  BY ClientAssumption DEF Init, ClientType, Numbered
<1>2. CallType
  BY ClientAssumption DEF Init, Idle, Locals, CallType
<1>3. BrokerType
  BY DEF Init, BrokerType
<1> QED
  BY <1>1, <1>2, <1>3 DEF TypeOK

\* The client's state keeps its shape, and its clocks their range, whatever the
\* application calls and the broker sends.
THEOREM ClientTypes == Spec => []TypeOK
<1>1. Init => TypeOK
  BY InitType
<1>2. TypeOK /\ [Next]_vars => TypeOK'
  BY NextType
<1> QED
  BY <1>1, <1>2, PTL DEF Spec

------------------------------------------------------------------------------
(* What callers are told of their trades *)

\* A result the broker sent is about the trade it names, by request ID or by the
\* ticket, and a trade it calls finished is.
Honest(r) ==
    /\ r.id = 0 => r.ticket # 0
    /\ r.id # 0 /\ r.ticket # 0 => r.ticket = r.id
    /\ r.status = "final" => fate[IF r.id # 0 THEN r.id ELSE r.ticket] = "finished"

\* A trade nobody was told of was not sent, or its call is under way; that call
\* has no ticket but its own.
Fates ==
    /\ \A k \in Trades : \/ told[k] # "nothing" \/ fate[k] = "unsent"
                         \/ call.op = "trade" /\ call.item = k
    /\ call.op = "trade" => told[call.item] = "nothing" /\ call.ticket \in {0, call.item}
Reports ==
    \A i \in DOMAIN inbox : inbox[i].kind = "results" =>
        \A j \in DOMAIN inbox[i].records : Honest(inbox[i].records[j])

TInv == TypeOK /\ Fates /\ Reports

FinishedStay == \A k \in Trades : fate[k] = "finished" => fate'[k] = "finished"

LEMMA HonestStays ==
    ASSUME FinishedStay, NEW r \in ResultRecords, Honest(r)
    PROVE  Honest(r)'
  BY DEF FinishedStay, Honest, ResultRecords

LEMMA ReportsStay ==
    ASSUME TInv, UNCHANGED inbox, FinishedStay
    PROVE  Reports'
<1> SUFFICES ASSUME NEW i \in DOMAIN inbox, inbox[i].kind = "results",
                    NEW j \in DOMAIN inbox[i].records
             PROVE  Honest(inbox[i].records[j])'
  BY DEF Reports
<1>1. PICK r \in ResultRecords : r = inbox[i].records[j]
  BY Kinds DEF TInv, TypeOK, BrokerType
<1>2. Honest(r)
  BY <1>1 DEF TInv, Reports
<1>3. Honest(r)'
  BY <1>2, HonestStays
<1> QED
  BY <1>1, <1>3 DEF Honest

\* The abstract step, or none.
OutcomeStep == [Outcome!Next]_(Outcome!vars)

LEMMA QuietStep ==
    ASSUME TInv, UNCHANGED told, UNCHANGED fate
    PROVE  OutcomeStep
  BY DEF OutcomeStep, Outcome!vars

\* A call that ends without a decision: a trade's caller is told it is uncertain.
LEMMA ReturnStep ==
    ASSUME TInv, Return("uncertain"), UNCHANGED fate
    PROVE  OutcomeStep /\ Fates'
<1>1. CASE call.op = "trade"
  <2>0. PICK k \in Trades : k = call.item
    BY <1>1 DEF TInv, TypeOK, CallType
  <2>1. k \in Trades /\ told[k] = "nothing" /\ told' = [told EXCEPT ![k] = "uncertain"]
    BY <1>1, <2>0 DEF TInv, TypeOK, CallType, Fates, Return
  <2>2. Outcome!GiveUp(k)
    BY <2>1 DEF Outcome!GiveUp
  <2>3. Fates'
    BY <1>1, <2>0, <2>1 DEF TInv, Fates, Return, Idle, Locals
  <2>4. Outcome!Next
    BY <2>1, <2>2 DEF Outcome!Next
  <2> QED
    BY <2>3, <2>4 DEF OutcomeStep
<1>2. CASE call.op # "trade"
  <2>1. told' = told
    BY <1>2 DEF TInv, TypeOK, CallType, Return
  <2>2. Fates'
    BY <1>2, <2>1 DEF TInv, Fates, Return, Idle, Locals
  <2> QED
    BY <2>1, <2>2, QuietStep
<1> QED
  BY <1>1, <1>2

LEMMA GoOnStep ==
    ASSUME TInv, GoOn, UNCHANGED fate
    PROVE  OutcomeStep /\ Fates'
<1>1. CASE Return("uncertain")
  BY <1>1, ReturnStep
<1>2. CASE call' = [call EXCEPT !.polling = FALSE] /\ UNCHANGED <<timer, told>>
  <2>1. call'.op = call.op /\ call'.item = call.item /\ call'.ticket = call.ticket
    BY <1>2 DEF TInv, TypeOK, CallType
  <2> QED
    BY <1>2, <2>1, QuietStep DEF TInv, Fates
<1> QED
  BY <1>1, <1>2 DEF GoOn

\* A message that is taken leaves the honest ones.
LEMMA TakeReports ==
    ASSUME TInv, Take
    PROVE  /\ Reports' /\ UNCHANGED fate
           /\ \A j \in DOMAIN Records : Records[j] \in ResultRecords /\ Honest(Records[j])
<1>1. /\ Taken = inbox[1] /\ 1 \in DOMAIN inbox /\ Taken \in Messages
      /\ \A i \in DOMAIN inbox' : i + 1 \in DOMAIN inbox /\ inbox'[i] = inbox[i + 1]
  BY TailOf DEF Take, Taken, TInv, TypeOK, BrokerType
<1>2. Reports' /\ UNCHANGED fate
  BY <1>1 DEF TInv, Reports, Honest, Take, broker
<1>3. ASSUME NEW j \in DOMAIN Records
      PROVE  Records[j] \in ResultRecords /\ Honest(Records[j])
  <2>1. CASE Taken.kind = "results"
    BY <1>1, <1>3, <2>1, Kinds DEF TInv, Reports, Records
  <2>2. CASE Taken.kind # "results"
    BY <1>3, <2>2 DEF Records
  <2> QED
    BY <2>1, <2>2
<1> QED
  BY <1>2, <1>3

\* The ticket a trade goes by is the one the broker gave it.
LEMMA TicketOwn ==
    ASSUME TInv, Take, call.op = "trade", NEW i, NEW t, TicketBefore(i, t)
    PROVE  t \in {0, call.item}
<1>1. call.item \in Trades /\ call.item # 0 /\ call.ticket \in {0, call.item}
  BY ClientAssumption DEF TInv, TypeOK, CallType, Fates
<1>2. ASSUME NEW j \in DOMAIN Records, Records[j].id = call.item, Records[j].ticket # 0
      PROVE  Records[j].ticket = call.item
  BY <1>1, <1>2, TakeReports DEF Honest
<1> QED
  BY <1>1, <1>2 DEF TicketBefore

LEMMA TradeStep ==
    ASSUME TInv, TakeInTrade
    PROVE  OutcomeStep /\ Fates'
<1> DEFINE k == call.item
<1>1. /\ k \in Trades /\ told[k] = "nothing" /\ fate' = fate /\ k # 0
  BY TakeReports, ClientAssumption DEF TInv, TypeOK, CallType, Fates, TakeInTrade
<1>2. CASE \E i \in DOMAIN Records : Decides(i) /\
               Return(IF Records[i].status = "final" THEN "confirmed" ELSE "uncertain")
  <2>1. PICK i \in DOMAIN Records : Decides(i) /\
               Return(IF Records[i].status = "final" THEN "confirmed" ELSE "uncertain")
    BY <1>2
  <2>2. CASE Records[i].status # "final"
    BY <1>1, <2>1, <2>2, ReturnStep
  <2>3. CASE Records[i].status = "final"
    <3>1. Records[i].id = k \/ (Records[i].id = 0 /\ Records[i].ticket = k)
      BY <2>1, TicketOwn DEF Decides, Mine, TakeInTrade
    <3>2. fate[k] = "finished"
      BY <1>1, <2>3, <3>1, TakeReports DEF Honest, TakeInTrade
    <3>3. told' = [told EXCEPT ![k] = "confirmed"]
      BY <2>1, <2>3 DEF Return, TakeInTrade, TInv, TypeOK, CallType
    <3>4. Outcome!Confirm(k)
      BY <1>1, <3>2, <3>3 DEF Outcome!Confirm
    <3>5. Fates'
      BY <1>1, <2>1, <3>3 DEF TInv, Fates, Return, Idle, Locals, TakeInTrade
    <3> QED
      BY <1>1, <3>4, <3>5 DEF OutcomeStep, Outcome!Next
  <2> QED
    BY <2>2, <2>3
<1>3. CASE /\ \E t \in Trades \union {0} :
                 /\ TicketBefore(Len(Records) + 1, t)
                 /\ call' = [call EXCEPT !.polling = FALSE, !.ticket = t]
           /\ UNCHANGED <<timer, told>>
  <2>1. PICK t \in Trades \union {0} :
                 /\ TicketBefore(Len(Records) + 1, t)
                 /\ call' = [call EXCEPT !.polling = FALSE, !.ticket = t]
    BY <1>3
  <2>2. t \in {0, k}
    BY <2>1, TicketOwn DEF TakeInTrade
  <2>3. call'.op = call.op /\ call'.item = k /\ call'.ticket = t
    BY <2>1 DEF TInv, TypeOK, CallType
  <2> QED
    BY <1>1, <1>3, <2>2, <2>3, QuietStep DEF TInv, Fates
<1>4. CASE Return("uncertain")
  BY <1>1, <1>4, ReturnStep
<1> QED
  BY <1>2, <1>3, <1>4 DEF TakeInTrade

LEMMA PollStep ==
    ASSUME TInv, NEW caller, NEW t, Poll(caller, t),
           caller.op = call.op \/ (call.op = "idle" /\ caller.op = "poll"),
           caller \in Callers, caller.item = call.item \/ call.op = "idle",
           caller.ticket = call.ticket \/ call.op = "idle"
    PROVE  OutcomeStep /\ Fates' /\ Reports'
<1>1. UNCHANGED fate /\ Reports'
  BY DEF Poll, broker, TInv, Reports, Honest
<1>2. CASE call' = [caller EXCEPT !.polling = TRUE] /\ UNCHANGED told
  <2>1. call'.op = caller.op /\ call'.item = caller.item /\ call'.ticket = caller.ticket
    BY <1>2 DEF Callers
  <2> QED
    BY <1>1, <1>2, <2>1, QuietStep DEF TInv, Fates
<1>3. CASE Return("uncertain")
  BY <1>1, <1>3, ReturnStep
<1> QED
  BY <1>1, <1>2, <1>3 DEF Poll, Fail

LEMMA InitFates == Init => TInv
<1> SUFFICES ASSUME Init PROVE TInv
  OBVIOUS
<1>1. Fates /\ Reports
  BY DEF Init, Fates, Reports, Idle, Locals
<1> QED
  BY <1>1, InitType DEF TInv

LEMMA ProgressStep ==
    ASSUME TInv, Progress
    PROVE  OutcomeStep /\ Fates' /\ Reports'
<1>1. CASE PollFails
  BY <1>1, ReturnStep DEF PollFails, Fail, broker, TInv, Reports, Honest
<1>2. CASE Silent
  BY <1>2, ReturnStep, GoOnStep DEF Silent, Fail, broker, TInv, Reports, Honest
<1>3. CASE TakeFails
  BY <1>3, ReturnStep, TakeReports DEF TakeFails, Fail
<1>4. CASE TakeInPoll
  BY <1>4, GoOnStep, TakeReports DEF TakeInPoll
<1>5. CASE TakeInRequest
  BY <1>5, GoOnStep, ReturnStep, TakeReports DEF TakeInRequest
<1>6. CASE TakeInTrade
  BY <1>6, TradeStep, TakeReports DEF TakeInTrade
<1>7. CASE Again
  <2>1. call \in Callers
    BY <1>7 DEF Again, InLoop, Callers, TInv, TypeOK, CallType
  <2> QED
    BY <1>7, <2>1, PollStep DEF Again
<1>8. CASE Expire
  BY <1>8, ReturnStep DEF Expire, broker, TInv, Reports, Honest
<1> QED
  BY <1>1, <1>2, <1>3, <1>4, <1>5, <1>6, <1>7, <1>8 DEF Progress

LEMMA StartStep ==
    ASSUME TInv, StartCall
    PROVE  OutcomeStep /\ Fates' /\ Reports'
<1>1. CASE StartPoll
  BY <1>1, LocalsType, PollStep DEF StartPoll, Callers
<1>2. CASE Request
  <2>1. UNCHANGED told /\ UNCHANGED fate /\ call.op = "idle"
    BY <1>2 DEF Request, broker
  <2>2. call' = call \/ call'.op = "request"
    BY <1>2, LocalsType DEF Request, Started, Locals
  <2>3. Fates'
    BY <2>1, <2>2 DEF TInv, Fates
  <2>4. Reports'
    BY <1>2, <2>1, StaleMessage DEF Request, TInv, TypeOK, BrokerType, Reports, Honest
  <2> QED
    BY <2>1, <2>3, <2>4, QuietStep
<1>3. CASE Subscribe
  BY <1>3, QuietStep DEF Subscribe, broker, TInv, Fates, Reports, Honest
<1>4. ASSUME NEW k \in Trades, RefuseTrade(k)
      PROVE  OutcomeStep /\ Fates' /\ Reports'
  <2>1. told[k] = "nothing" /\ fate[k] = "unsent" /\ UNCHANGED <<fate, call, inbox>>
    BY <1>4 DEF RefuseTrade, TInv, Fates, broker
  <2>2. told' = [told EXCEPT ![k] = "refused"]
    BY <1>4 DEF RefuseTrade
  <2>3. Outcome!Refuse(k)
    BY <2>1, <2>2 DEF Outcome!Refuse
  <2>4. Outcome!Next
    BY <2>3 DEF Outcome!Next
  <2>5. Fates' /\ Reports'
    BY <1>4, <2>1, <2>2 DEF RefuseTrade, TInv, TypeOK, CallType, Fates, Reports, Honest
  <2> QED
    BY <2>4, <2>5 DEF OutcomeStep
<1>5. ASSUME NEW k \in Trades, StartTrade(k)
      PROVE  OutcomeStep /\ Fates' /\ Reports'
  <2>1. /\ told[k] = "nothing" /\ fate[k] = "unsent" /\ call.op = "idle"
        /\ inbox' = inbox /\ fate' \in {fate, [fate EXCEPT ![k] = "received"]}
        /\ fate \in [Trades -> {"unsent", "received", "working", "finished"}]
        /\ told \in [Trades -> Outcomes]
    BY <1>5 DEF StartTrade, Received, NotReceived, TInv, TypeOK, CallType, BrokerType,
                Fates, Outcomes
  <2>2. Reports'
    BY <2>1, ReportsStay DEF FinishedStay
  <2>3. CASE call' = Started("trade", k) /\ UNCHANGED told
    <3>1. Fates'
      <4>1. call'.op = "trade" /\ call'.item = k /\ call'.ticket = 0
        BY <2>3 DEF Started, Locals
      <4> QED
        BY <2>1, <2>3, <4>1 DEF TInv, Fates
    <3>2. CASE fate' = fate
      BY <2>2, <2>3, <3>1, <3>2, QuietStep
    <3>3. CASE fate' = [fate EXCEPT ![k] = "received"]
      <4>1. Outcome!Submit(k)
        BY <2>1, <2>3, <3>3 DEF Outcome!Submit
      <4>2. Outcome!Next
        BY <4>1 DEF Outcome!Next
      <4> QED
        BY <2>2, <3>1, <4>2 DEF OutcomeStep
    <3> QED
      BY <2>1, <3>2, <3>3
  <2>4. CASE told' = [told EXCEPT ![k] = "uncertain"] /\ UNCHANGED call
    <3>1. Fates'
      BY <2>1, <2>4 DEF TInv, Fates
    <3>2. {j \in Trades : fate'[j] # "unsent"} \in
              {{j \in Trades : fate[j] # "unsent"}, {j \in Trades : fate[j] # "unsent"} \union {k}}
      BY <2>1
    <3>3. {j \in Trades : fate'[j] = "finished"} = {j \in Trades : fate[j] = "finished"}
      BY <2>1
    <3>4. Outcome!GiveUp(k)
      BY <2>1, <2>4, <3>2, <3>3 DEF Outcome!GiveUp
    <3>5. Outcome!Next
      BY <3>4 DEF Outcome!Next
    <3> QED
      BY <2>2, <3>1, <3>5 DEF OutcomeStep
  <2> QED
    BY <1>5, <2>3, <2>4 DEF StartTrade
<1> QED
  BY <1>1, <1>2, <1>3, <1>4, <1>5 DEF StartCall

\* What is reported about a trade the broker works on is honest.
LEMMA WorkStep ==
    ASSUME TInv, NEW k \in Trades, Work(k)
    PROVE  OutcomeStep /\ Fates' /\ Reports'
<1>1. PICK r \in ResultRecords :
        /\ Report(r)
        /\ r.id \in {0, k} /\ r.ticket \in {0, k} /\ (r.id = 0 => r.ticket # 0)
        /\ fate' = [fate EXCEPT ![k] = IF r.status = "final" THEN "finished" ELSE "working"]
  <2>1. PICK status \in {"working", "timeout", "final"}, id \in {0, k}, ticket \in {0, k} :
          /\ id = 0 => ticket # 0
          /\ fate' = [fate EXCEPT ![k] = IF status = "final" THEN "finished" ELSE "working"]
          /\ Report([id |-> id, ticket |-> ticket, status |-> status])
    BY DEF Work
  <2>2. [id |-> id, ticket |-> ticket, status |-> status] \in ResultRecords
    BY DEF ResultRecords
  <2> QED
    BY <2>1, <2>2
<1>2. /\ fate[k] \in {"received", "working"} /\ told' = told /\ call' = call
      /\ fate \in [Trades -> {"unsent", "received", "working", "finished"}]
      /\ inbox \in Seq(Messages)
  BY DEF Work, TInv, TypeOK, BrokerType
<1>3. FinishedStay /\ k # 0
  BY <1>1, <1>2, ClientAssumption DEF FinishedStay
<1>4. Honest(r)'
  BY <1>1, <1>2, <1>3 DEF Honest
<1>5. Fates'
  BY <1>1, <1>2 DEF TInv, Fates
<1>6. OutcomeStep
  <2>1. CASE r.status = "final"
    <3>1. Outcome!Finish(k)
      BY <1>1, <1>2, <2>1 DEF Outcome!Finish
    <3>2. Outcome!Next
      BY <3>1 DEF Outcome!Next
    <3> QED
      BY <3>2 DEF OutcomeStep
  <2>2. CASE r.status # "final"
    BY <1>1, <1>2, <2>2 DEF OutcomeStep, Outcome!vars
  <2> QED
    BY <2>1, <2>2
<1>7. Reports'
  <2> SUFFICES ASSUME NEW i \in DOMAIN inbox', inbox'[i].kind = "results",
                      NEW j \in DOMAIN inbox'[i].records
               PROVE  Honest(inbox[i].records[j])'
    BY DEF Reports
  <2>1. inbox'[i].records[j] = r \/ (/\ i \in DOMAIN inbox /\ inbox[i].kind = "results"
                                     /\ j \in DOMAIN inbox[i].records
                                     /\ inbox'[i].records[j] = inbox[i].records[j])
    <3>1. CASE inbox' = Append(inbox, [kind |-> "results", records |-> <<r>>])
      BY <1>2, <3>1
    <3>2. CASE /\ Len(inbox) > 0 /\ inbox[Len(inbox)].kind = "results"
               /\ inbox' = [inbox EXCEPT ![Len(inbox)].records = Append(@, r)]
      <4> DEFINE m == inbox[Len(inbox)]
      <4>1. Len(inbox) \in DOMAIN inbox /\ m \in Messages
        BY <1>2, <3>2
      <4>2. m \in [kind : {"results"}, records : Seq(ResultRecords)]
        BY <3>2, <4>1, Kinds
      <4>3. inbox' = [inbox EXCEPT ![Len(inbox)] = [m EXCEPT !.records = Append(@, r)]]
        BY <3>2, <4>1
      <4>4. CASE i = Len(inbox)
        <5>1. inbox'[i].records = Append(m.records, r)
          BY <4>1, <4>2, <4>3, <4>4
        <5>2. m.records \in Seq(ResultRecords)
          BY <4>2
        <5>3. \/ j \in DOMAIN m.records /\ Append(m.records, r)[j] = m.records[j]
              \/ Append(m.records, r)[j] = r
          BY <5>1, <5>2, AppendOf
        <5> QED
          BY <3>2, <4>1, <4>4, <5>1, <5>3
      <4>5. CASE i # Len(inbox)
        BY <4>1, <4>3, <4>5
      <4> QED
        BY <4>4, <4>5
    <3> QED
      BY <1>1, <3>1, <3>2 DEF Report
  <2>2. PICK s \in ResultRecords : s = inbox'[i].records[j] /\ Honest(s)'
    <3>1. CASE inbox'[i].records[j] = r
      BY <1>4, <3>1
    <3>2. CASE /\ i \in DOMAIN inbox /\ inbox[i].kind = "results"
               /\ j \in DOMAIN inbox[i].records
               /\ inbox'[i].records[j] = inbox[i].records[j]
      <4>1. PICK s \in ResultRecords : s = inbox[i].records[j]
        BY <1>2, <3>2, Kinds
      <4>2. Honest(s)
        BY <3>2, <4>1 DEF TInv, Reports
      <4> QED
        BY <1>3, <3>2, <4>1, <4>2, HonestStays
    <3> QED
      BY <2>1, <3>1, <3>2
  <2> QED
    BY <2>2 DEF Honest
<1> QED
  BY <1>5, <1>6, <1>7

LEMMA TradesStep ==
    ASSUME TInv, [Next]_vars
    PROVE  OutcomeStep /\ TInv'
<1>1. TypeOK'
  BY NextType DEF TInv
<1>2. CASE UNCHANGED vars
  BY <1>1, <1>2, QuietStep DEF vars, broker, TInv, Fates, Reports, Honest
<1>3. CASE StartCall
  BY <1>1, <1>3, StartStep DEF TInv
<1>4. CASE Progress
  BY <1>1, <1>4, ProgressStep DEF TInv
<1>5. CASE Tick
  <2>1. call'.op = call.op /\ call'.item = call.item /\ call'.ticket = call.ticket
    BY <1>5 DEF Tick, TInv, TypeOK, CallType
  <2> QED
    BY <1>1, <1>5, <2>1, QuietStep DEF Tick, broker, TInv, Fates, Reports, Honest
<1>6. CASE Answer \/ Push
  <2>1. UNCHANGED <<told, fate, call>>
    BY <1>6 DEF Answer, Push, broker
  <2>2. \A i \in DOMAIN inbox' :
          inbox'[i].kind = "results" => i \in DOMAIN inbox /\ inbox'[i] = inbox[i]
    <3>1. CASE UNCHANGED inbox
      BY <3>1
    <3>2. ASSUME NEW m \in Messages, inbox' = Append(inbox, m), m.kind # "results"
          PROVE  \A i \in DOMAIN inbox' :
                   inbox'[i].kind = "results" => i \in DOMAIN inbox /\ inbox'[i] = inbox[i]
      BY <3>2, AppendOf DEF TInv, TypeOK, BrokerType
    <3>3. UNCHANGED inbox \/ \E m \in Messages : inbox' = Append(inbox, m) /\ m.kind # "results"
      <4>1. CASE Answer
        <5>1. PICK d \in owed :
                \/ inbox' = Append(inbox, [kind |-> "answer", cmd |-> d.cmd,
                                          seq |-> d.seq, own |-> d.own])
                \/ UNCHANGED inbox
          BY <4>1 DEF Answer
        <5>2. [kind |-> "answer", cmd |-> d.cmd, seq |-> d.seq, own |-> d.own] \in Messages
          BY DEF TInv, TypeOK, BrokerType, Debts, Messages
        <5> QED
          BY <5>1, <5>2
      <4>2. CASE Push
        <5>1. PICK kind \in Pushes : inbox' = Append(inbox, [kind |-> kind])
          BY <4>2 DEF Push
        <5>2. [kind |-> kind] \in Messages /\ kind # "results"
          BY ClientAssumption DEF Messages
        <5> QED
          BY <5>1, <5>2
      <4> QED
        BY <1>6, <4>1, <4>2
    <3> QED
      BY <3>1, <3>2, <3>3
  <2>3. Fates' /\ Reports'
    BY <2>1, <2>2 DEF TInv, Fates, Reports, Honest
  <2> QED
    BY <1>1, <2>1, <2>3, QuietStep DEF TInv
<1>7. CASE Lose
  BY <1>1, <1>7, QuietStep DEF Lose, TInv, Fates, Reports, Honest
<1>8. CASE \E k \in Trades : Work(k)
  BY <1>1, <1>8, WorkStep DEF TInv
<1> QED
  BY <1>2, <1>3, <1>4, <1>5, <1>6, <1>7, <1>8 DEF Next

\* The client keeps the promise of TradeOutcome: no caller is told "confirmed" of
\* a trade the broker has not finished, nor "refused" of one that was sent.
THEOREM TradesKeepTheirWord == Spec => OutcomeRefined
<1>1. Init => Outcome!Init
  BY DEF Init, Outcome!Init
<1>2. Init => TInv
  BY InitFates
<1>3. TInv /\ [Next]_vars => TInv' /\ [Outcome!Next]_(Outcome!vars)
  BY TradesStep DEF OutcomeStep
<1> QED
  BY <1>1, <1>2, <1>3, PTL DEF Spec, OutcomeRefined, Outcome!Spec

------------------------------------------------------------------------------
(* Answers to requests *)

\* d or m would go for the answer to the call under way.
Asks(d) == d.cmd = "request" /\ d.seq = call.item

\* While a request waits, whatever would go for its answer is its own.
Owned ==
    call.op = "request" =>
        /\ \A d \in owed : Asks(d) => d.own
        /\ \A i \in DOMAIN inbox : inbox[i].kind = "answer" /\ Asks(inbox[i]) => inbox[i].own

AInv == TypeOK /\ Owned

LEMMA InitOwned == Init => Owned
  BY DEF Init, Idle, Locals, Owned

\* No request waits once a call has come back.
LEMMA ReturnOwned ==
    ASSUME NEW outcome, Return(outcome)
    PROVE  Owned'
  BY DEF Return, Idle, Locals, Owned

\* A call that goes on keeps what it waits for; what is sent meanwhile is its own.
LEMMA SameOwned ==
    ASSUME AInv, call'.op = call.op, call'.item = call.item,
           \A d \in owed' : d \in owed \/ d.own,
           \A i \in DOMAIN inbox' : inbox'[i].kind = "answer" =>
               \E j \in DOMAIN inbox : inbox'[i] = inbox[j]
    PROVE  Owned'
  BY DEF AInv, Owned, Asks

LEMMA SentOwn ==
    ASSUME NEW cmd, Sent(cmd)
    PROVE  \A d \in owed' : d \in owed \/ d.own
  BY DEF Sent, Due

LEMMA TakeKeeps ==
    ASSUME TypeOK, Take
    PROVE  \A i \in DOMAIN inbox' : \E j \in DOMAIN inbox : inbox'[i] = inbox[j]
  BY TailOf DEF Take, TypeOK, BrokerType

LEMMA AppliedOwn ==
    ASSUME Applied
    PROVE  \A d \in owed' : d \in owed \/ d.own
  BY SentOwn DEF Applied

LEMMA GoOnOwned ==
    ASSUME AInv, Take, Applied, GoOn
    PROVE  Owned'
<1>1. CASE Return("uncertain")
  BY <1>1, ReturnOwned
<1>2. CASE call' = [call EXCEPT !.polling = FALSE]
  <2>1. call'.op = call.op /\ call'.item = call.item
    BY <1>2 DEF AInv, TypeOK, CallType
  <2> QED
    BY <2>1, TakeKeeps, AppliedOwn, SameOwned DEF AInv
<1> QED
  BY <1>1, <1>2 DEF GoOn

LEMMA PollOwned ==
    ASSUME AInv, NEW caller \in Callers, NEW t, Poll(caller, t),
           caller.op # "request" \/ (caller.op = call.op /\ caller.item = call.item)
    PROVE  Owned'
<1>1. CASE Return("uncertain")
  BY <1>1, ReturnOwned
<1>2. CASE call' = [caller EXCEPT !.polling = TRUE] /\ (Sent("keepalive") \/ NothingSent)
  <2>1. call'.op = caller.op /\ call'.item = caller.item
    BY <1>2 DEF Callers
  <2>2. CASE caller.op # "request"
    BY <2>1, <2>2 DEF Owned
  <2>3. CASE caller.op = call.op /\ caller.item = call.item
    <3>1. \A d \in owed' : d \in owed \/ d.own
      BY <1>2, SentOwn DEF NothingSent
    <3>2. inbox' = inbox
      BY DEF Poll
    <3> QED
      BY <2>1, <2>3, <3>1, <3>2, SameOwned
  <2> QED
    BY <2>2, <2>3
<1> QED
  BY <1>1, <1>2 DEF Poll, Fail

LEMMA TradeOwned ==
    ASSUME AInv, TakeInTrade
    PROVE  Owned'
<1>1. call.op = "trade"
  BY DEF TakeInTrade
<1>2. CASE \E i \in DOMAIN Records : Decides(i) /\
               Return(IF Records[i].status = "final" THEN "confirmed" ELSE "uncertain")
  BY <1>2, ReturnOwned
<1>3. CASE /\ \E t \in Trades \union {0} :
                 /\ TicketBefore(Len(Records) + 1, t)
                 /\ call' = [call EXCEPT !.polling = FALSE, !.ticket = t]
           /\ UNCHANGED <<timer, told>>
  <2>1. call'.op = "trade"
    BY <1>1, <1>3 DEF AInv, TypeOK, CallType
  <2> QED
    BY <2>1 DEF Owned
<1>4. CASE Return("uncertain")
  BY <1>4, ReturnOwned
<1> QED
  BY <1>2, <1>3, <1>4 DEF TakeInTrade

LEMMA ProgressOwned ==
    ASSUME AInv, Progress
    PROVE  Owned'
<1>1. CASE PollFails \/ TakeFails \/ Expire
  BY <1>1, ReturnOwned DEF PollFails, TakeFails, Expire, Fail
<1>2. CASE Silent
  <2>1. CASE Return("uncertain")
    BY <2>1, ReturnOwned
  <2>2. CASE call' = [call EXCEPT !.polling = FALSE]
    <3>1. call'.op = call.op /\ call'.item = call.item
      BY <2>2 DEF AInv, TypeOK, CallType
    <3> QED
      BY <1>2, <3>1, SameOwned DEF Silent
  <2> QED
    BY <1>2, <2>1, <2>2 DEF Silent, Fail, GoOn
<1>3. CASE TakeInPoll
  BY <1>3, GoOnOwned DEF TakeInPoll
<1>4. CASE TakeInRequest
  BY <1>4, GoOnOwned, ReturnOwned DEF TakeInRequest
<1>5. CASE TakeInTrade
  BY <1>5, TradeOwned
<1>6. CASE Again
  <2>1. call \in Callers
    BY <1>6 DEF Again, InLoop, Callers, AInv, TypeOK, CallType
  <2> QED
    BY <1>6, <2>1, PollOwned DEF Again
<1> QED
  BY <1>1, <1>2, <1>3, <1>4, <1>5, <1>6 DEF Progress

\* A request that begins takes a number no answer under way or due has.
LEMMA RequestOwned ==
    ASSUME AInv, Request
    PROVE  Owned'
<1>1. call.op = "idle"
  BY DEF Request
<1>2. CASE call' = call
  BY <1>1, <1>2 DEF Owned
<1>3. CASE /\ call' = Started("request", sequence)
           /\ owed' \subseteq {Stale(d) : d \in owed} \union {Due("request")}
           /\ inbox' = [i \in DOMAIN inbox |-> Stale(inbox[i])]
  <2>1. call'.item = sequence /\ sequence \notin Numbers
    BY <1>3 DEF Started, Locals, Request
  <2>2. ASSUME NEW d \in owed', d.seq = sequence
        PROVE  d.own
    <3>1. CASE d = Due("request")
      BY <3>1 DEF Due
    <3>2. ASSUME NEW e \in owed, d = Stale(e)
          PROVE  FALSE
      <4>1. e \in Debts /\ e.seq # sequence
        BY <2>1 DEF Numbers, AInv, TypeOK, BrokerType
      <4>2. Stale(e).seq = e.seq
        BY <4>1 DEF Stale, Debts
      <4> QED
        BY <2>2, <3>2, <4>1, <4>2
    <3> QED
      BY <1>3, <3>1, <3>2
  <2>3. ASSUME NEW i \in DOMAIN inbox', inbox'[i].kind = "answer", inbox'[i].seq = sequence
        PROVE  FALSE
    <3>1. i \in DOMAIN inbox /\ inbox'[i] = Stale(inbox[i]) /\ inbox[i] \in Messages
      BY <1>3, <2>3 DEF AInv, TypeOK, BrokerType
    <3>2. inbox[i].kind = "answer"
      BY <2>3, <3>1, StaleMessage
    <3>3. inbox[i].seq # sequence
      BY <2>1, <3>1, <3>2 DEF Numbers
    <3>4. Stale(inbox[i]).seq = inbox[i].seq
      BY <3>1, <3>2, Kinds DEF Stale
    <3> QED
      BY <2>3, <3>1, <3>3, <3>4
  <2> QED
    BY <2>1, <2>2, <2>3 DEF Owned, Asks
<1> QED
  BY <1>2, <1>3 DEF Request

LEMMA StartOwned ==
    ASSUME AInv, StartCall
    PROVE  Owned'
<1>1. CASE StartPoll
  <2>1. Locals("poll", 0, 0) \in Callers /\ Locals("poll", 0, 0).op = "poll"
    BY LocalsType
  <2> QED
    BY <1>1, <2>1, PollOwned DEF StartPoll
<1>2. CASE Subscribe \/ \E k \in Trades : RefuseTrade(k)
  BY <1>2 DEF Subscribe, RefuseTrade, Owned
<1>3. ASSUME NEW k \in Trades, StartTrade(k)
      PROVE  Owned'
  BY <1>3 DEF StartTrade, Started, Locals, Owned
<1> QED
  BY <1>1, <1>2, <1>3, RequestOwned DEF StartCall

LEMMA ReportAnswersNothing ==
    ASSUME inbox \in Seq(Messages), NEW r \in ResultRecords, Report(r)
    PROVE  \A i \in DOMAIN inbox' : inbox'[i].kind = "answer" =>
               \E j \in DOMAIN inbox : inbox'[i] = inbox[j]
<1>1. CASE inbox' = Append(inbox, [kind |-> "results", records |-> <<r>>])
  <2>1. [kind |-> "results", records |-> <<r>>] \in Messages
    BY DEF Messages
  <2> QED
    BY <1>1, <2>1, AppendOf
<1>2. CASE /\ Len(inbox) > 0 /\ inbox[Len(inbox)].kind = "results"
           /\ inbox' = [inbox EXCEPT ![Len(inbox)].records = Append(@, r)]
  <2> DEFINE m == inbox[Len(inbox)]
             n == [m EXCEPT !.records = Append(@, r)]
  <2>1. Len(inbox) \in DOMAIN inbox /\ m \in Messages
    BY <1>2
  <2>2. m \in [kind : {"results"}, records : Seq(ResultRecords)]
    BY <1>2, <2>1, Kinds
  <2>3. n.kind = "results"
    BY <2>2
  <2>4. inbox' = [inbox EXCEPT ![Len(inbox)] = n]
    BY <1>2, <2>1
  <2> HIDE DEF n
  <2> QED
    BY <2>1, <2>3, <2>4
<1> QED
  BY <1>1, <1>2 DEF Report

LEMMA BrokerOwned ==
    ASSUME AInv, Tick \/ Answer \/ Push \/ Lose \/ \E k \in Trades : Work(k)
    PROVE  Owned'
<1>1. CASE Tick
  <2>1. call'.op = call.op /\ call'.item = call.item /\ inbox' = inbox
    BY <1>1 DEF Tick, AInv, TypeOK, CallType
  <2>2. \A d \in owed' : \E e \in owed : d.cmd = e.cmd /\ d.seq = e.seq /\ d.own = e.own
    BY <1>1 DEF Tick, AInv, TypeOK, BrokerType, Debts
  <2> QED
    BY <2>1, <2>2 DEF AInv, Owned, Asks
<1>2. CASE Answer
  <2>1. PICK d \in owed :
          /\ owed' = owed \ {d}
          /\ \/ inbox' = Append(inbox, [kind |-> "answer", cmd |-> d.cmd,
                                        seq |-> d.seq, own |-> d.own])
             \/ UNCHANGED inbox
    BY <1>2 DEF Answer
  <2> DEFINE m == [kind |-> "answer", cmd |-> d.cmd, seq |-> d.seq, own |-> d.own]
  <2>2. m \in Messages /\ m.cmd = d.cmd /\ m.seq = d.seq /\ m.own = d.own
    BY DEF AInv, TypeOK, BrokerType, Debts, Messages
  <2> HIDE DEF m
  <2>3. \A i \in DOMAIN inbox' : (i \in DOMAIN inbox /\ inbox'[i] = inbox[i]) \/ inbox'[i] = m
    <3>1. CASE inbox' = Append(inbox, m)
      BY <2>2, <3>1, AppendOf DEF AInv, TypeOK, BrokerType
    <3>2. CASE UNCHANGED inbox
      BY <3>2
    <3> QED
      BY <2>1, <3>1, <3>2 DEF m
  <2>4. call' = call
    BY <1>2 DEF Answer
  <2> QED
    BY <2>1, <2>2, <2>3, <2>4 DEF AInv, Owned, Asks
<1>3. CASE Push
  <2>1. PICK kind \in Pushes : inbox' = Append(inbox, [kind |-> kind])
    BY <1>3 DEF Push
  <2>2. [kind |-> kind] \in Messages /\ kind # "answer"
    BY ClientAssumption DEF Messages
  <2>3. \A i \in DOMAIN inbox' : inbox'[i].kind = "answer" =>
               \E j \in DOMAIN inbox : inbox'[i] = inbox[j]
    BY <2>1, <2>2, AppendOf DEF AInv, TypeOK, BrokerType
  <2>4. call' = call /\ owed' = owed
    BY <1>3 DEF Push
  <2> QED
    BY <2>3, <2>4, SameOwned
<1>4. CASE Lose
  BY <1>4 DEF Lose, AInv, Owned, Asks
<1>5. ASSUME NEW k \in Trades, Work(k)
      PROVE  Owned'
  <2>1. PICK r \in ResultRecords : Report(r)
    BY <1>5 DEF Work, ResultRecords
  <2>2. \A i \in DOMAIN inbox' : inbox'[i].kind = "answer" =>
               \E j \in DOMAIN inbox : inbox'[i] = inbox[j]
    BY <2>1, ReportAnswersNothing DEF AInv, TypeOK, BrokerType
  <2>3. call' = call /\ owed' = owed
    BY <1>5 DEF Work
  <2> QED
    BY <2>2, <2>3, SameOwned
<1> QED
  BY <1>1, <1>2, <1>3, <1>4, <1>5

LEMMA OwnedStep == AInv /\ [Next]_vars => AInv'
<1> SUFFICES ASSUME AInv, [Next]_vars PROVE AInv'
  OBVIOUS
<1>1. TypeOK'
  BY NextType DEF AInv
<1>2. ASSUME UNCHANGED vars PROVE Owned'
  BY <1>2 DEF vars, AInv, Owned, Asks
<1>3. ASSUME Next PROVE Owned'
  BY <1>3, ProgressOwned, StartOwned, BrokerOwned DEF Next
<1> QED
  BY <1>1, <1>2, <1>3 DEF AInv

\* What request returns is the answer to that request, although answers to requests
\* that timed out still come, and the sequence counter wraps.
THEOREM RequestsGetTheirAnswers == Spec => AnswersOwn
<1>1. Init => AInv
  BY InitType, InitOwned DEF AInv
<1>2. AInv /\ [Next]_vars => [TakeInRequest /\ call'.op = "idle" => Taken.own]_vars
  <2> SUFFICES ASSUME AInv, TakeInRequest, call'.op = "idle" PROVE Taken.own
    OBVIOUS
  <2>1. Answers(Taken)
    BY DEF TakeInRequest, GoOn, AInv, TypeOK, CallType
  <2>2. Taken = inbox[1] /\ 1 \in DOMAIN inbox
    BY TailOf DEF TakeInRequest, Take, Taken, AInv, TypeOK, BrokerType
  <2> QED
    BY <2>1, <2>2 DEF TakeInRequest, AInv, Owned, Asks, Answers
<1> QED
  BY <1>1, <1>2, OwnedStep, PTL DEF Spec, AnswersOwn

------------------------------------------------------------------------------
(* Silence *)

\* The constants of `KEEPALIVE`, `receive_deadline` and the calls' 30 s, for an application
\* that polls for at most `longest` at a time and leaves the client alone for `Gap`: a
\* keepalive that could not be sent before, and its answer, come in time.
InGoodTime(longest) ==
    /\ longest \in Nat \ {0} /\ PollTimes \subseteq 1 .. longest
    /\ {"keepalive", "subscribe"} \subseteq Answered
    /\ Keepalive < CallDeadline
    /\ 2 * Keepalive + longest + Gap + Latency <= ReceiveDeadline

\* An application that trades does not pause: a trade that is refused would begin its
\* pause anew, without a poll.
PollsBetweenTrades == Trades = {} \/ Gap = 0

\* How long nothing may have come when a call begins, and when a keepalive is sent.
AtRest(longest) == Keepalive - 1 + longest + Gap
AtKeepalive(longest) == AtRest(longest) + Keepalive

\* An answer is due.
Expected(longest) ==
    \E d \in owed : d.cmd \in Answered /\ lastReceive <= AtKeepalive(longest) + d.age

\* No poll was late for a keepalive since the last message.
RestIdle(longest) ==
    /\ lastReceive <= lastSend \/ lastSend = Keepalive
    /\ lastReceive <= AtRest(longest) - timer
RestPoll(longest) ==
    /\ lastReceive <= lastSend \/ lastSend = Keepalive
    /\ lastReceive <= Keepalive - 1 + longest - timer
\* Nothing came since the call began, or since its last keepalive was answered.
RestLoop(longest) ==
    /\ \/ lastReceive <= lastSend
       \/ lastSend = CallDeadline - call.remaining /\ lastReceive <= AtRest(longest) + lastSend
    /\ call.polling => lastSend + timer <= Keepalive
Rested(longest) ==
    /\ call.op = "idle" => RestIdle(longest)
    /\ call.op = "poll" => RestPoll(longest)
    /\ call.op \in {"request", "trade"} => RestLoop(longest)

Waits(longest) ==
    /\ call.op = "idle" => timer <= Gap
    /\ call.op = "poll" => timer <= longest
Listening == healthy /\ session # "failed" /\ link = "up" /\ inbox = <<>>

LInv(longest) ==
    /\ TypeOK /\ Waits(longest)
    /\ call.polling => healthy
    /\ Listening => Expected(longest) \/ Rested(longest)

\* The invariant with what it assumes of the constants.
LAssumed(longest) ==
    /\ InGoodTime(longest) /\ PollsBetweenTrades /\ LInv(longest)

LEMMA SentSays ==
    ASSUME TypeOK, NEW cmd, Sent(cmd)
    PROVE  /\ lastSend' = 0 /\ session' = session /\ session # "failed"
           /\ \A d \in owed : d \in owed'
           /\ link = "up" /\ cmd \in Answered =>
                \E d \in owed' : d.cmd = cmd /\ d.age = 0
<1>1. Due(cmd).cmd = cmd /\ Due(cmd).age = 0
  BY DEF Due
<1> QED
  BY <1>1 DEF Sent

\* A message that comes leaves nothing to be late.
LEMMA FreshIsRested ==
    ASSUME NEW longest, LAssumed(longest), TypeOK', lastReceive' = 0,
           \/ call'.op = "idle" /\ timer' = Gap
           \/ call'.op \in {"request", "trade"} /\ ~call'.polling
    PROVE  Rested(longest)' /\ Waits(longest)'
<1>1. lastSend' \in Nat /\ Gap \in Nat /\ Keepalive \in Nat \ {0} /\ longest \in Nat \ {0}
  BY ClientAssumption DEF TypeOK, ClientType, LAssumed, InGoodTime
<1>2. CASE call'.op = "idle" /\ timer' = Gap
  BY <1>1, <1>2 DEF Rested, RestIdle, Waits, AtRest
<1>3. CASE call'.op \in {"request", "trade"} /\ ~call'.polling
  BY <1>1, <1>3 DEF Rested, RestLoop, Waits
<1> QED
  BY <1>2, <1>3

LEMMA Back ==
    ASSUME NEW outcome, Return(outcome)
    PROVE  call'.op = "idle" /\ ~call'.polling /\ timer' = Gap
  BY DEF Return, Idle, Locals

\* An unhealthy client ends at its next poll.
LEMMA FailListens ==
    ASSUME NEW longest, TypeOK', Fail
    PROVE  LInv(longest)'
<1>1. call'.op = "idle" /\ ~call'.polling /\ timer' = Gap /\ ~healthy'
  BY Back DEF Fail
<1>2. Gap \in Nat
  BY ClientAssumption
<1> QED
  BY <1>1, <1>2 DEF LInv, Waits, Listening

LEMMA GoOnSays ==
    ASSUME TypeOK, GoOn
    PROVE  \/ call.op = "poll" /\ call'.op = "idle" /\ ~call'.polling /\ timer' = Gap
           \/ /\ call.op # "poll" /\ call'.op = call.op /\ ~call'.polling
              /\ call'.remaining = call.remaining /\ timer' = timer
  BY Back DEF GoOn, TypeOK, CallType

\* Whatever it brings, a message that is taken starts the silence anew.
LEMMA TakeListens ==
    ASSUME NEW longest, LAssumed(longest), TypeOK', Take, UNCHANGED healthy,
           \/ call'.op = "idle" /\ timer' = Gap /\ ~call'.polling
           \/ call'.op \in {"request", "trade"} /\ ~call'.polling
    PROVE  LInv(longest)'
  BY FreshIsRested DEF Take, LInv

\* A poll of `caller`, which waits or fails.
LEMMA PollListens ==
    ASSUME NEW longest, LAssumed(longest), TypeOK',
           NEW caller \in Callers, NEW t \in Nat, Poll(caller, t),
           caller.op = "poll" => t <= longest,
           caller.op \in {"request", "trade"} => t = 1,
           Listening /\ ~Expected(longest) => 
             /\ lastReceive <= AtKeepalive(longest)
             /\ caller.op = "poll" => RestIdle(longest)
             /\ caller.op \in {"request", "trade"} =>
                  \/ lastReceive <= lastSend
                  \/ /\ lastSend = CallDeadline - caller.remaining
                     /\ lastReceive <= AtRest(longest) + lastSend
    PROVE  LInv(longest)'
<1>1. CASE Fail
  BY <1>1, FailListens
<1>2. CASE /\ healthy /\ call' = [caller EXCEPT !.polling = TRUE] /\ timer' = t
           /\ UNCHANGED healthy
           /\ \/ KeepaliveDue /\ Sent("keepalive")
              \/ ~KeepaliveDue /\ NothingSent
  <2>1. call'.op = caller.op /\ call'.polling /\ call'.remaining = caller.remaining
        /\ caller.op \in {"poll", "request", "trade"}
    BY <1>2 DEF Callers
  <2>2. Waits(longest)' /\ healthy'
    BY <1>2, <2>1 DEF Waits
  <2>3. ASSUME Listening' PROVE (Expected(longest) \/ Rested(longest))'
    <3>1. Listening /\ lastReceive' = lastReceive /\ inbox' = inbox /\ link' = link
      BY <1>2, <2>3, SentSays DEF Listening, Poll, broker, LAssumed, LInv, NothingSent
    <3>2. \A d \in owed : d \in owed'
      BY <1>2, SentSays DEF LAssumed, LInv, NothingSent
    <3>3. CASE Expected(longest)
      BY <3>1, <3>2, <3>3 DEF Expected, AtKeepalive, AtRest
    <3>4. CASE ~Expected(longest) /\ KeepaliveDue /\ Sent("keepalive")
      <4>1. PICK d \in owed' : d.cmd = "keepalive" /\ d.age = 0
        BY <3>1, <3>4, SentSays DEF LAssumed, LInv, InGoodTime, Listening
      <4>2. lastReceive <= AtKeepalive(longest) /\ AtKeepalive(longest) \in Int
        BY <3>1, <3>4, ClientAssumption DEF AtKeepalive, AtRest, LAssumed, InGoodTime
      <4> QED
        BY <3>1, <4>1, <4>2 DEF Expected, AtKeepalive, AtRest, LAssumed, InGoodTime
    <3>5. CASE ~Expected(longest) /\ ~KeepaliveDue /\ NothingSent
      <4>1. lastSend' = lastSend /\ lastSend < Keepalive
        BY <3>5, ClientAssumption DEF KeepaliveDue, NothingSent, LAssumed, LInv, TypeOK, ClientType
      <4>2. /\ lastSend \in Nat /\ lastReceive \in Nat /\ Keepalive \in Nat /\ Gap \in Nat
            /\ longest \in Nat
        BY ClientAssumption DEF LAssumed, LInv, TypeOK, ClientType, InGoodTime
      <4>3. CASE caller.op = "poll"
        <5>1. lastReceive <= lastSend
          BY <3>1, <3>5, <4>1, <4>2, <4>3 DEF RestIdle
        <5> QED
          BY <1>2, <2>1, <3>1, <4>1, <4>2, <4>3, <5>1 DEF Rested, RestPoll
      <4>4. CASE caller.op \in {"request", "trade"}
        BY <1>2, <2>1, <3>1, <3>5, <4>1, <4>2, <4>4 DEF Rested, RestLoop, AtRest
      <4> QED
        BY <2>1, <4>3, <4>4
    <3> QED
      BY <1>2, <3>3, <3>4, <3>5
  <2> QED
    BY <2>2, <2>3 DEF LInv
<1> QED
  BY <1>1, <1>2 DEF Poll

\* Silence is too short for the rule, whatever the client waits for.
LEMMA SilenceIsShort ==
    ASSUME NEW longest, LAssumed(longest), Listening, PollEnds
    PROVE  lastReceive < ReceiveDeadline
<1>1. /\ lastSend \in 0 .. Keepalive /\ lastReceive \in Nat /\ Keepalive \in Nat \ {0}
      /\ Gap \in Nat /\ longest \in Nat \ {0} /\ Latency \in Nat /\ ReceiveDeadline \in Nat
      /\ 2 * Keepalive + longest + Gap + Latency <= ReceiveDeadline
    BY ClientAssumption DEF LAssumed, LInv, TypeOK, ClientType, InGoodTime
<1>2. CASE Expected(longest)
  <2>1. PICK d \in owed : d.cmd \in Answered /\ lastReceive <= AtKeepalive(longest) + d.age
    BY <1>2 DEF Expected
  <2>2. d.age \in 0 .. Latency
    BY DEF LAssumed, LInv, TypeOK, BrokerType, Debts
  <2> QED
    BY <1>1, <2>1, <2>2 DEF AtKeepalive, AtRest
<1>3. CASE Rested(longest)
  <2>1. call.op \in {"poll", "request", "trade"} /\ timer = 0
    BY DEF PollEnds, LAssumed, LInv, TypeOK, CallType
  <2>2. CASE call.op = "poll"
    BY <1>1, <1>3, <2>1, <2>2 DEF Rested, RestPoll
  <2>3. CASE call.op \in {"request", "trade"}
    BY <1>1, <1>3, <2>1, <2>3 DEF Rested, RestLoop, AtRest
  <2> QED
    BY <2>1, <2>2, <2>3
<1> QED
  BY <1>2, <1>3 DEF LAssumed, LInv

LEMMA SilentListens ==
    ASSUME NEW longest, LAssumed(longest), TypeOK', Silent
    PROVE  LInv(longest)'
<1>1. CASE Fail
  BY <1>1, FailListens
<1>2. CASE GoOn /\ UNCHANGED healthy
  <2>1. \/ call.op = "poll" /\ call'.op = "idle" /\ ~call'.polling /\ timer' = Gap
        \/ /\ call.op # "poll" /\ call'.op = call.op /\ ~call'.polling
           /\ call'.remaining = call.remaining /\ timer' = timer
    BY <1>2, GoOnSays DEF LAssumed, LInv
  <2>2. /\ lastReceive' = lastReceive /\ lastSend' = lastSend /\ owed' = owed
        /\ Listening' => Listening
        /\ call.op \in {"poll", "request", "trade"} /\ timer = 0
    BY <1>2 DEF Silent, PollEnds, Listening, clocks, broker, LAssumed, LInv, TypeOK, CallType
  <2>3. Gap \in Nat /\ Keepalive \in Nat /\ longest \in Nat
        /\ lastReceive \in Nat /\ lastSend \in Nat /\ CallDeadline \in Nat
    BY ClientAssumption DEF LAssumed, LInv, InGoodTime, TypeOK, ClientType
  <2>4. Waits(longest)'
    BY <2>1, <2>2, <2>3 DEF Waits
  <2>5. ASSUME Expected(longest) PROVE Expected(longest)'
    BY <2>2, <2>5 DEF Expected, AtKeepalive, AtRest
  <2>6. ASSUME Rested(longest) PROVE Rested(longest)'
    <3>1. CASE call.op = "poll"
      BY <2>1, <2>2, <2>3, <2>6, <3>1 DEF Rested, RestPoll, RestIdle, AtRest
    <3>2. CASE call.op \in {"request", "trade"}
      BY <2>1, <2>2, <2>3, <2>6, <3>2 DEF Rested, RestLoop, AtRest
    <3> QED
      BY <2>2, <3>1, <3>2
  <2> QED
    BY <2>1, <2>2, <2>4, <2>5, <2>6 DEF LInv, LAssumed
<1> QED
  BY <1>1, <1>2 DEF Silent

LEMMA ExpireListens ==
    ASSUME NEW longest, LAssumed(longest), TypeOK', Expire
    PROVE  LInv(longest)'
<1>1. /\ call'.op = "idle" /\ ~call'.polling /\ timer' = Gap
      /\ call.op \in {"request", "trade"} /\ call.remaining = 0
  BY Back DEF Expire, InLoop, DeadlinePassed
<1>2. /\ lastReceive' = lastReceive /\ lastSend' = lastSend /\ owed' = owed
      /\ Listening' => Listening
  BY DEF Expire, client, broker, Listening
<1>3. /\ Gap \in Nat /\ Keepalive \in Nat \ {0} /\ longest \in Nat \ {0}
      /\ lastReceive \in Nat /\ lastSend \in 0 .. Keepalive /\ CallDeadline \in Nat
      /\ Keepalive < CallDeadline
  BY ClientAssumption DEF LAssumed, LInv, InGoodTime, TypeOK, ClientType
<1>4. ASSUME Expected(longest) PROVE Expected(longest)'
  BY <1>2, <1>4 DEF Expected, AtKeepalive, AtRest
<1>5. ASSUME Rested(longest) PROVE Rested(longest)'
  BY <1>1, <1>2, <1>3, <1>5 DEF Rested, RestLoop, RestIdle, AtRest
<1> QED
  BY <1>1, <1>2, <1>4, <1>5, <1>3 DEF LInv, LAssumed, Waits

LEMMA ProgressListens ==
    ASSUME NEW longest, LAssumed(longest), Progress
    PROVE  LInv(longest)'
<1>0. TypeOK' /\ TypeOK
  BY ProgressType DEF LAssumed, LInv
<1>1. CASE PollFails \/ TakeFails
  BY <1>0, <1>1, FailListens DEF PollFails, TakeFails
<1>2. CASE TakeInPoll \/ TakeInRequest
  BY <1>0, <1>2, TakeListens, GoOnSays, Back DEF TakeInPoll, TakeInRequest, Applied
<1>3. CASE TakeInTrade
  <2>1. /\ call'.op \in {"idle", "trade"} /\ ~call'.polling
        /\ call'.op = "idle" => timer' = Gap
    <3>1. CASE \E i \in DOMAIN Records : Decides(i) /\
                 Return(IF Records[i].status = "final" THEN "confirmed" ELSE "uncertain")
      BY <3>1, Back
    <3>2. CASE \E t \in Trades \union {0} :
                 call' = [call EXCEPT !.polling = FALSE, !.ticket = t]
      BY <1>0, <1>3, <3>2 DEF TakeInTrade, TypeOK, CallType
    <3>3. CASE Return("uncertain")
      BY <3>3, Back
    <3> QED
      BY <1>3, <3>1, <3>2, <3>3 DEF TakeInTrade
  <2> QED
    BY <1>0, <1>3, <2>1, TakeListens DEF TakeInTrade, Applied
<1>4. CASE Again
  <2>1. call \in Callers /\ call.op \in {"request", "trade"} /\ ~call.polling
    BY <1>0, <1>4 DEF Again, InLoop, Callers, TypeOK, CallType
  <2>2. ASSUME Listening, ~Expected(longest)
        PROVE  /\ lastReceive <= AtKeepalive(longest)
               /\ \/ lastReceive <= lastSend
                  \/ /\ lastSend = CallDeadline - call.remaining
                     /\ lastReceive <= AtRest(longest) + lastSend
    <3>1. RestLoop(longest)
      BY <2>1, <2>2 DEF LAssumed, LInv, Rested
    <3>2. /\ lastSend \in 0 .. Keepalive /\ lastReceive \in Nat /\ Keepalive \in Nat \ {0}
          /\ Gap \in Nat /\ longest \in Nat \ {0}
      BY <1>0, ClientAssumption DEF TypeOK, ClientType, LAssumed, InGoodTime
    <3> QED
      BY <3>1, <3>2 DEF RestLoop, AtKeepalive, AtRest
  <2>3. Poll(call, 1)
    BY <1>4 DEF Again
  <2> QED
    BY <1>0, <2>1, <2>2, <2>3, PollListens
<1> QED
  BY <1>0, <1>1, <1>2, <1>3, <1>4, SilentListens, ExpireListens DEF Progress

\* A call the client refuses, or that could not be sent, begins the application's pause
\* anew; LInv survives as no application that trades pauses.
LEMMA RefusedListens ==
    ASSUME NEW longest, LAssumed(longest), TypeOK', call.op = "idle", Trades # {},
           UNCHANGED <<healthy, lastReceive, call, inbox, link>>, timer' = Gap,
           NothingSent \/ NotSent
    PROVE  LInv(longest)'
<1>1. CASE NotSent
  BY <1>1, ClientAssumption DEF NotSent, LAssumed, LInv, Waits, Listening
<1>2. CASE NothingSent
  <2>1. timer = Gap /\ timer' = timer
    BY DEF LAssumed, LInv, Waits, PollsBetweenTrades, TypeOK, CallType
  <2> QED
    BY <1>2, <2>1 DEF NothingSent, LAssumed, LInv, Waits, Listening, Expected, Rested, RestIdle,
                      RestPoll, RestLoop, AtKeepalive, AtRest
<1> QED
  BY <1>1, <1>2

\* A request or a trade that is sent begins its wait.
LEMMA BegunListens ==
    ASSUME NEW longest, LAssumed(longest), TypeOK', call.op = "idle",
           NEW op \in {"request", "trade"}, NEW item, call' = Started(op, item),
           lastSend' = 0, \A d \in owed : d.cmd \in Answered => \E e \in owed' :
                                               e.cmd = d.cmd /\ e.age = d.age,
           inbox' = <<>> => inbox = <<>>,
           UNCHANGED <<session, healthy, lastReceive, link, timer>>
    PROVE  LInv(longest)'
<1>1. call'.op = op /\ ~call'.polling /\ call'.remaining = CallDeadline
  BY DEF Started, Locals
<1>2. Listening' => Listening
  BY DEF Listening
<1>3. ASSUME Expected(longest) PROVE Expected(longest)'
  <2>1. PICK d \in owed : d.cmd \in Answered /\ lastReceive <= AtKeepalive(longest) + d.age
    BY <1>3 DEF Expected
  <2>2. PICK e \in owed' : e.cmd = d.cmd /\ e.age = d.age
    BY <2>1
  <2> QED
    BY <2>1, <2>2 DEF Expected, AtKeepalive, AtRest
<1>4. ASSUME Rested(longest) PROVE Rested(longest)'
  <2>1. lastReceive <= AtRest(longest) - timer
    BY <1>4 DEF Rested, RestIdle
  <2>2. /\ lastReceive \in Nat /\ timer \in Nat /\ CallDeadline \in Nat
        /\ AtRest(longest) \in Int
    BY ClientAssumption DEF AtRest, LAssumed, InGoodTime, LInv, TypeOK, ClientType, CallType
  <2>3. lastReceive <= AtRest(longest) + 0
    BY <2>1, <2>2
  <2> QED
    BY <1>1, <2>2, <2>3 DEF Rested, RestLoop, AtRest
<1> QED
  BY <1>1, <1>2, <1>3, <1>4 DEF LInv, LAssumed, Waits

LEMMA StartListens ==
    ASSUME NEW longest, LAssumed(longest), StartCall
    PROVE  LInv(longest)'
<1>0. TypeOK' /\ TypeOK
  BY StartType DEF LAssumed, LInv
<1>1. CASE StartPoll
  <2>1. PICK t \in PollTimes : call.op = "idle" /\ Poll(Locals("poll", 0, 0), t)
    BY <1>1 DEF StartPoll
  <2>2. Locals("poll", 0, 0) \in Callers /\ Locals("poll", 0, 0).op = "poll"
    BY LocalsType
  <2>3. t \in Nat /\ t <= longest
    BY ClientAssumption DEF LAssumed, InGoodTime
  <2>4. ASSUME Listening, ~Expected(longest)
        PROVE  lastReceive <= AtKeepalive(longest) /\ RestIdle(longest)
    <3>1. RestIdle(longest)
      BY <2>1, <2>4 DEF LAssumed, LInv, Rested
    <3>2. /\ lastReceive \in Nat /\ Keepalive \in Nat \ {0} /\ timer \in Nat
          /\ Gap \in Nat /\ longest \in Nat \ {0}
      BY <1>0, ClientAssumption DEF TypeOK, ClientType, CallType, LAssumed, InGoodTime
    <3> QED
      BY <3>1, <3>2 DEF RestIdle, AtKeepalive, AtRest
  <2> QED
    BY <1>0, <2>1, <2>2, <2>3, <2>4, PollListens
<1>2. CASE Request
  <2>1. CASE NotSent /\ timer' = Gap /\ UNCHANGED <<call, inbox>>
    BY <1>0, <1>2, <2>1, ClientAssumption DEF NotSent, Request, LAssumed, LInv, Waits, Listening
  <2>2. CASE /\ session # "failed"
             /\ LET stale == {Stale(d) : d \in owed} IN
                owed' = IF link = "up" THEN stale \union {Due("request")} ELSE stale
             /\ lastSend' = 0
             /\ inbox' = [i \in DOMAIN inbox |-> Stale(inbox[i])]
             /\ call' = Started("request", sequence)
             /\ UNCHANGED <<session, timer>>
    <3>1. ASSUME NEW d \in owed
          PROVE  Stale(d) \in owed' /\ Stale(d).cmd = d.cmd /\ Stale(d).age = d.age
      <4>1. d \in Debts
        BY <1>0 DEF TypeOK, BrokerType
      <4> QED
        BY <2>2, <4>1 DEF Stale, Debts
    <3>2. inbox' = <<>> => inbox = <<>>
      BY <1>0, <2>2 DEF TypeOK, BrokerType
    <3>3. call.op = "idle" /\ UNCHANGED <<healthy, lastReceive, link>>
      BY <1>2 DEF Request, broker
    <3> QED
      BY <1>0, <2>2, <3>1, <3>2, <3>3, BegunListens
  <2> QED
    BY <1>2, <2>1, <2>2 DEF Request
<1>3. CASE Subscribe
  <2>1. /\ call' = call /\ call.op = "idle" /\ ~call.polling /\ timer' = Gap
        /\ UNCHANGED <<healthy, lastReceive, inbox, link>>
    BY <1>0, <1>3 DEF Subscribe, broker, TypeOK, CallType
  <2>2. Waits(longest)'
    BY <2>1, ClientAssumption DEF Waits
  <2>3. ASSUME Listening' PROVE Expected(longest)'
    <3>1. Sent("subscribe") /\ Listening
      BY <1>3, <2>1, <2>3, SentSays, <1>0 DEF Subscribe, NotSent, Listening
    <3>2. PICK d \in owed' : d.cmd = "subscribe" /\ d.age = 0
      BY <1>0, <3>1, SentSays DEF LAssumed, InGoodTime, Listening
    <3>3. /\ lastReceive \in Nat /\ Keepalive \in Nat \ {0} /\ timer \in Nat
          /\ Gap \in Nat /\ longest \in Nat \ {0}
      BY <1>0, ClientAssumption DEF TypeOK, ClientType, CallType, LAssumed, InGoodTime
    <3>4. CASE Rested(longest)
      <4>1. lastReceive <= AtKeepalive(longest) + 0
        BY <2>1, <3>3, <3>4 DEF Rested, RestIdle, AtKeepalive, AtRest
      <4> QED
        BY <2>1, <3>2, <4>1 DEF Expected, LAssumed, InGoodTime, AtKeepalive, AtRest
    <3>5. CASE Expected(longest)
      <4>1. \A e \in owed : e \in owed'
        BY <1>0, <3>1, SentSays
      <4> QED
        BY <2>1, <3>5, <4>1 DEF Expected, AtKeepalive, AtRest
    <3> QED
      BY <3>1, <3>4, <3>5 DEF LAssumed, LInv
  <2> QED
    BY <1>0, <2>1, <2>2, <2>3 DEF LInv
<1>4. ASSUME NEW k \in Trades, RefuseTrade(k)
      PROVE  LInv(longest)'
  BY <1>0, <1>4, RefusedListens DEF RefuseTrade, client, broker, NothingSent
<1>5. ASSUME NEW k \in Trades, StartTrade(k)
      PROVE  LInv(longest)'
  <2>1. CASE Sent("trade") /\ call' = Started("trade", k) /\ UNCHANGED <<told, timer>>
    <3>1. lastSend' = 0 /\ session' = session /\ \A d \in owed : d \in owed'
      BY <1>0, <2>1, SentSays
    <3>2. call.op = "idle" /\ UNCHANGED <<healthy, lastReceive, link, inbox>>
      BY <1>5 DEF StartTrade
    <3> QED
      BY <1>0, <2>1, <3>1, <3>2, BegunListens
  <2>2. CASE (NotSent \/ NothingSent) /\ timer' = Gap /\ UNCHANGED call
    BY <1>0, <1>5, <2>2, RefusedListens DEF StartTrade
  <2> QED
    BY <1>5, <2>1, <2>2 DEF StartTrade
<1> QED
  BY <1>1, <1>2, <1>3, <1>4, <1>5 DEF StartCall

LEMMA TickListens ==
    ASSUME NEW longest, LAssumed(longest), TypeOK', Tick
    PROVE  LInv(longest)'
<1>1. /\ call'.op = call.op /\ call'.polling = call.polling
      /\ call'.remaining = IF call.remaining = 0 THEN 0 ELSE call.remaining - 1
      /\ Listening' => Listening
      /\ UNCHANGED healthy
      /\ timer > 0 /\ timer' = timer - 1
      /\ call.op = "idle" \/ call.polling
  BY DEF Tick, Listening, broker, LAssumed, LInv, TypeOK, CallType
<1>2. /\ lastSend' = IF lastSend < Keepalive THEN lastSend + 1 ELSE Keepalive
      /\ lastReceive' <= lastReceive + 1 /\ lastReceive' \in Nat
      /\ lastSend \in 0 .. Keepalive /\ lastReceive \in Nat /\ timer \in Nat
  BY ClientAssumption DEF Tick, Least, LAssumed, LInv, TypeOK, ClientType, CallType
<1>3. /\ Gap \in Nat /\ Keepalive \in Nat \ {0} /\ longest \in Nat \ {0}
      /\ CallDeadline \in Nat /\ Keepalive < CallDeadline
      /\ AtRest(longest) \in Nat /\ AtKeepalive(longest) \in Nat
  BY ClientAssumption DEF LAssumed, InGoodTime, AtRest, AtKeepalive
<1>4. ASSUME Expected(longest) PROVE Expected(longest)'
  <2>1. PICK d \in owed : d.cmd \in Answered /\ lastReceive <= AtKeepalive(longest) + d.age
    BY <1>4 DEF Expected
  <2>2. d \in Debts /\ d.age \in Nat
    BY DEF LAssumed, LInv, TypeOK, BrokerType, Debts
  <2> DEFINE e == [d EXCEPT !.age = @ + 1]
  <2>3. e \in owed'
    BY <2>1 DEF Tick
  <2>4. e.cmd = d.cmd /\ e.age = d.age + 1
    BY <2>2 DEF Debts
  <2> HIDE DEF e
  <2>5. lastReceive' <= AtKeepalive(longest) + e.age
    BY <1>2, <1>3, <2>1, <2>2, <2>4
  <2> QED
    BY <2>1, <2>3, <2>4, <2>5 DEF Expected, AtKeepalive, AtRest
<1>5. ASSUME Rested(longest) PROVE Rested(longest)'
  <2>1. lastReceive <= lastSend => lastReceive' <= lastSend' \/ lastSend' = Keepalive
    BY <1>2, <1>3
  <2>2. lastSend = Keepalive => lastSend' = Keepalive
    BY <1>2, <1>3
  <2>3. CASE call.op = "idle"
    <3>1. lastReceive' <= AtRest(longest) - timer'
      BY <1>1, <1>2, <1>3, <1>5, <2>3 DEF Rested, RestIdle
    <3> QED
      BY <1>1, <1>5, <2>1, <2>2, <2>3, <3>1 DEF Rested, RestIdle, AtRest
  <2>4. CASE call.op = "poll"
    <3>1. lastReceive' <= Keepalive - 1 + longest - timer'
      BY <1>1, <1>2, <1>3, <1>5, <2>4 DEF Rested, RestPoll
    <3> QED
      BY <1>1, <1>5, <2>1, <2>2, <2>4, <3>1 DEF Rested, RestPoll
  <2>5. CASE call.op \in {"request", "trade"}
    <3>1. /\ lastSend' = lastSend + 1 /\ lastSend' + timer' <= Keepalive
      BY <1>1, <1>2, <1>3, <1>5, <2>5 DEF Rested, RestLoop
    <3>2. CASE lastReceive <= lastSend
      BY <1>1, <1>2, <2>5, <3>1, <3>2 DEF Rested, RestLoop
    <3>3. CASE /\ lastSend = CallDeadline - call.remaining
               /\ lastReceive <= AtRest(longest) + lastSend
      <4>1. call.remaining \in Nat
        BY DEF LAssumed, LInv, TypeOK, CallType
      <4>2. lastSend' = CallDeadline - call'.remaining
        BY <1>1, <1>2, <1>3, <3>1, <3>3, <4>1
      <4>3. lastReceive' <= AtRest(longest) + lastSend'
        BY <1>2, <1>3, <3>1, <3>3
      <4> QED
        BY <1>1, <2>5, <3>1, <4>2, <4>3 DEF Rested, RestLoop, AtRest
    <3> QED
      BY <1>5, <2>5, <3>2, <3>3 DEF Rested, RestLoop
  <2> QED
    BY <2>3, <2>4, <2>5 DEF LAssumed, LInv, TypeOK, CallType
<1>6. Waits(longest)'
  BY <1>1, <1>2, <1>3 DEF Waits, LAssumed, LInv
<1> QED
  BY <1>1, <1>4, <1>5, <1>6 DEF LInv, LAssumed

\* The broker speaks, or the connection is lost.
LEMMA BrokerListens ==
    ASSUME NEW longest, LAssumed(longest), TypeOK',
           Answer \/ Push \/ Lose \/ \E k \in Trades : Work(k)
    PROVE  LInv(longest)'
<1>1. UNCHANGED <<healthy, session, call, timer, lastSend, lastReceive>>
  BY DEF Answer, Push, Lose, Work, client
<1>2. Waits(longest)' /\ (call'.polling => healthy')
  BY <1>1 DEF LAssumed, LInv, Waits
<1>3. ASSUME NEW m \in Messages, inbox' = Append(inbox, m) PROVE inbox' # <<>>
  BY <1>3, AppendOf DEF LAssumed, LInv, TypeOK, BrokerType
<1>4. CASE Answer
  <2>1. PICK d \in owed :
          /\ owed' = owed \ {d}
          /\ \/ inbox' = Append(inbox, [kind |-> "answer", cmd |-> d.cmd,
                                        seq |-> d.seq, own |-> d.own])
             \/ d.cmd \notin Answered /\ UNCHANGED inbox
    BY <1>4 DEF Answer
  <2>2. d \in Debts
    BY DEF LAssumed, LInv, TypeOK, BrokerType
  <2>3. [kind |-> "answer", cmd |-> d.cmd, seq |-> d.seq, own |-> d.own] \in Messages
    BY <2>2 DEF Debts, Messages
  <2>4. Listening' => d.cmd \notin Answered /\ UNCHANGED inbox
    BY <1>3, <2>1, <2>3 DEF Listening
  <2>5. ASSUME Expected(longest), Listening' PROVE Expected(longest)'
    BY <1>1, <2>1, <2>4, <2>5 DEF Expected, AtKeepalive, AtRest
  <2>6. Listening' => Listening
    BY <1>1, <1>4, <2>4 DEF Listening, Answer, broker
  <2>7. ASSUME Rested(longest) PROVE Rested(longest)'
    BY <1>1, <2>7 DEF Rested, RestIdle, RestPoll, RestLoop, AtRest
  <2> QED
    BY <1>2, <2>5, <2>6, <2>7 DEF LAssumed, LInv
<1>5. CASE Push
  <2>1. PICK kind \in Pushes : inbox' = Append(inbox, [kind |-> kind])
    BY <1>5 DEF Push
  <2>2. [kind |-> kind] \in Messages
    BY ClientAssumption DEF Messages
  <2> QED
    BY <1>2, <1>3, <2>1, <2>2 DEF LInv, Listening
<1>6. CASE Lose
  BY <1>2, <1>6 DEF Lose, LInv, Listening
<1>7. ASSUME NEW k \in Trades, Work(k) PROVE LInv(longest)'
  <2>1. PICK r : Report(r)
    BY <1>7 DEF Work
  <2>2. inbox' # <<>>
    <3>1. CASE inbox' = Append(inbox, [kind |-> "results", records |-> <<r>>])
      BY <3>1 DEF LAssumed, LInv, TypeOK, BrokerType
    <3>2. CASE Len(inbox) > 0 /\ inbox' = [inbox EXCEPT ![Len(inbox)].records = Append(@, r)]
      <4>1. DOMAIN inbox' = DOMAIN inbox /\ 1 \in DOMAIN inbox
        BY <3>2 DEF LAssumed, LInv, TypeOK, BrokerType
      <4>2. DOMAIN <<>> = {}
        OBVIOUS
      <4> QED
        BY <4>1, <4>2
    <3> QED
      BY <2>1, <3>1, <3>2 DEF Report
  <2> QED
    BY <1>2, <2>2 DEF LInv, Listening
<1> QED
  BY <1>4, <1>5, <1>6, <1>7

LEMMA ListensStep ==
    ASSUME NEW longest, LAssumed(longest), [Next]_vars
    PROVE  LInv(longest)'
<1>0. TypeOK'
  BY NextType DEF LAssumed, LInv
<1>1. ASSUME UNCHANGED vars PROVE LInv(longest)'
  <2>1. UNCHANGED <<session, healthy, lastSend, lastReceive, call, timer, inbox, owed, link>>
    BY <1>1 DEF vars, client, broker
  <2> QED
    BY <1>0, <2>1 DEF LAssumed, LInv, Waits, Listening, Expected, Rested, RestIdle, RestPoll,
                      RestLoop, AtKeepalive, AtRest
<1> QED
  BY <1>0, <1>1, ProgressListens, StartListens, TickListens, BrokerListens DEF Next

LEMMA InitListens ==
    ASSUME NEW longest, InGoodTime(longest), Init
    PROVE  LInv(longest)
<1>1. Gap \in Nat /\ Keepalive \in Nat \ {0} /\ longest \in Nat \ {0}
  BY ClientAssumption DEF InGoodTime
<1>2. call.op = "idle" /\ ~call.polling /\ timer = Gap /\ lastReceive = 0 /\ lastSend = 0
  BY DEF Init, Idle, Locals
<1> QED
  BY <1>1, <1>2, InitType DEF LInv, Waits, Rested, RestIdle, AtRest

\* With keepalives answered in time, a live connection is never taken for a dead one:
\* the rule for silence ends none that is up, whatever calls are made and whatever
\* times out, if the application polls for at most `longest` and trades poll between.
THEOREM LiveIsNotPresumedDead ==
    ASSUME NEW longest, InGoodTime(longest), PollsBetweenTrades
    PROVE  Spec => LiveNotPresumedDead
<1>1. Init => LInv(longest)
  BY InitListens
<1>2. LInv(longest) /\ [Next]_vars => LInv(longest)'
  BY ListensStep DEF LAssumed
<1>3. LInv(longest) => [Silent /\ link = "up" => healthy']_vars
  <2> SUFFICES ASSUME LInv(longest), Silent, link = "up" PROVE healthy'
    OBVIOUS
  <2>1. Listening /\ PollEnds /\ healthy
    BY DEF Silent, PollEnds, Listening, LInv
  <2>2. lastReceive < ReceiveDeadline /\ ~(lastReceive >= ReceiveDeadline)
    BY <2>1, SilenceIsShort, ClientAssumption DEF LAssumed, LInv, TypeOK, ClientType
  <2> QED
    BY <2>1, <2>2 DEF Silent
<1> QED
  BY <1>1, <1>2, <1>3, PTL DEF Spec, LiveNotPresumedDead

=============================================================================
