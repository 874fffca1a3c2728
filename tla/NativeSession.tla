--------------------------- MODULE NativeSession ----------------------------
(***************************************************************************)
(* mt5-session/src/lib.rs `Session` over connection.rs `Connection`: one   *)
(* thread drives a blocking TCP connection through authentication,         *)
(* account synchronization and the exchange of enciphered messages.  The   *)
(* far end is a broker, external, modelled as the code expects it.         *)
(*                                                                         *)
(* A blocking call is one action that sends and then waits (`op` says in   *)
(* which call), one action per frame taken, and the ways out.  The code    *)
(* moves the fields of State into locals and leaves State::Failed behind   *)
(* while it waits; here the fields stay in their variables and `state`     *)
(* says "Failed".                                                          *)
(***************************************************************************)
EXTENDS Handshake, Reassembly

CONSTANTS Login,          \* the login the caller asks for
          OtherLogin,     \* an account that is not the caller's
          SequenceMod,    \* 2^16: the width of Connection::sequence
          BrokerSequences,\* sequences the broker uses for its own messages
          Chunks,         \* the pieces of payload the broker may send
          AuthReplies,    \* authentication results the broker may answer with
          AppCommands,    \* the commands the application sends, trades aside
          MaxRequests,    \* bound: frames the client sends once synchronized
          MaxPushes,      \* bound: frames with a payload, and messages, the
                          \* broker sends after the AUTH reply
          MaxInFlight     \* bound: frames in flight when the broker adds a ping

ASSUME SessionAssumption ==
    /\ SequenceMod \in Nat /\ SequenceMod > 1
    /\ MaxRequests \in Nat /\ MaxPushes \in Nat /\ MaxInFlight \in Nat
    /\ Login # OtherLogin

VARIABLES
    \* Session, and the locals of the call in progress
    state,      \* State: "Connected", "Authenticated", "Ready" or "Failed"
    op,         \* the blocking call under way, or "idle"
    expired,    \* its deadline has passed
    hs,         \* State::Authenticated.handshake
    awaited,    \* the sequence whose reply the call waits for
    payload,    \* synchronize's payload; it is returned to the caller
    profileReadOnly,
    rx, tx, tradeKey, account, readOnly, messages,   \* State::Ready
    delivered,  \* the messages poll_message has returned
    requests,   \* how many frames were sent once synchronized
    \* Connection
    sequence,
    pending,    \* frames parsed and not yet taken
    \* the TCP connection
    toBroker, toClient, closed,
    \* the broker
    broker, sent, pushes

startup == <<hs, awaited, payload, profileReadOnly>>
ready == <<rx, tx, tradeKey, account, readOnly, messages, delivered, requests>>
session == <<state, op, expired, startup, ready, sequence, pending>>
brokerVars == <<closed, broker, sent, pushes>>
vars == <<session, toBroker, toClient, brokerVars>>

------------------------------------------------------------------------------
(* Values *)

Account(login, ro) == [kind |-> "account", login |-> login, ro |-> ro]
ChunkTypes == [kind : {"account", "data", "bad", "garbled", "none"},
               login : {Login, OtherLogin}, ro : BOOLEAN]

AuthResults ==
    [status : STRING, build : Nat, enrolled : BOOLEAN,
     tlvs : Seq([tag : Nat, value : Material])]

ASSUME ContentAssumption ==
    /\ Chunks \subseteq ChunkTypes /\ Garbled \in ChunkTypes
    /\ AuthReplies \subseteq AuthResults
    /\ BrokerSequences \subseteq Nat

NoAccount == [kind |-> "none", login |-> Login, ro |-> FALSE]
\* The content of a request plays no part.
Body == <<NoAccount>>

\* The commands a read-only session may still send.
ReadOnlyCommands == {"PING", "TRADE_HISTORY", "QUOTE_HISTORY", "SYMBOLS", "DEPTH"}
PlainCommands == ReadOnlyCommands \union {"OTHER"}

ASSUME CommandAssumption == AppCommands \subseteq PlainCommands

\* Fault: the counter saturates.
NextSequenceSaturating(s) == IF s + 1 = SequenceMod THEN s ELSE s + 1

\* wrapping_add(1).max(1)
NextSequence(s) == LET n == (s + 1) % SequenceMod IN IF n = 0 THEN 1 ELSE n

\* A request; torn when write_all failed part of the way.
Request(cmd, box, torn) ==
    [cmd |-> cmd, seq |-> sequence, box |-> box, torn |-> torn]

Reply(cmd, seq, fin, comp, body) ==
    [cmd |-> cmd, seq |-> seq, fin |-> fin, comp |-> comp, body |-> body]

Records(p) == {i \in DOMAIN p : p[i].kind = "account"}
Malformed(p) == \E i \in DOMAIN p : p[i].kind \in {"bad", "garbled"}
\* A compressed frame whose bytes do not decompress.
Undecodable(f, plain) == f.comp /\ Malformed(plain)

------------------------------------------------------------------------------
(* Steps the calls share *)

Return == op' = "idle" /\ expired' = FALSE

\* The call ends with an error and State::Failed in place.
Abort ==
    /\ state' = "Failed"
    /\ Return
    /\ UNCHANGED <<startup, ready, sequence, toBroker, brokerVars>>

\* Number a frame, send it, and wait for the answer unless the write fails.
SendAndAwait(cmd, box, call) ==
    /\ state' = "Failed"
    /\ expired' = FALSE
    /\ awaited' = sequence
    /\ sequence' = NextSequence(sequence)
    /\ \E torn \in BOOLEAN :
         /\ toBroker' = Append(toBroker, Request(cmd, box, torn))
         /\ op' = IF torn THEN "idle" ELSE call

\* pending.pop_front(), which poll_frame tries before it looks at the deadline.
Takes(call) ==
    /\ op = call
    /\ pending # <<>>
    /\ pending' = Tail(pending)
    /\ UNCHANGED toClient

frame == Head(pending)

\* Fault: the deadline is not looked at before a read.
MayReadForever == op # "idle" /\ pending = <<>>

MayRead == op # "idle" /\ pending = <<>> /\ ~expired

\* One socket read returns some of the bytes in flight.  A header with a bad
\* length is an error, and the frames parsed before it in that read are lost.
ReadSocket ==
    /\ MayRead
    /\ \E n \in 1 .. Len(toClient) :
         /\ toClient' = SubSeq(toClient, n + 1, Len(toClient))
         /\ \/ /\ \E i \in 1 .. n : toClient[i].cmd = "BAD_HEADER"
               /\ pending' = <<>>
               /\ Abort
            \/ /\ \A i \in 1 .. n : toClient[i].cmd # "BAD_HEADER"
               /\ pending' = SubSeq(toClient, 1, n)
               /\ UNCHANGED <<state, op, expired, startup, ready, sequence,
                              toBroker, brokerVars>>

\* read() returns 0 once the broker has closed and nothing is in flight.
ReadEnd ==
    /\ MayRead
    /\ closed /\ toClient = <<>>
    /\ Abort
    /\ UNCHANGED <<pending, toClient>>

\* The deadline of the call passes.
Expire ==
    /\ op # "idle" /\ ~expired
    /\ expired' = TRUE
    /\ UNCHANGED <<state, op, startup, ready, sequence, pending, toBroker, toClient,
                   brokerVars>>

\* poll_frame returned None: authentication and synchronization give up, a
\* poll puts State::Ready back with everything it had.
TimeOut ==
    /\ op # "idle" /\ pending = <<>> /\ expired
    /\ UNCHANGED <<pending, toClient>>
    /\ \/ op # "poll" /\ Abort
       \/ /\ op = "poll"
          /\ state' = "Ready"
          /\ Return
          /\ UNCHANGED <<startup, ready, sequence, toBroker, brokerVars>>

------------------------------------------------------------------------------
(* authenticate *)

\* Fault: a failed attempt may be repeated on the same connection.
AuthenticateAgain ==
    /\ op = "idle" /\ state \in {"Connected", "Failed"}
    /\ hs' = Hello(NewHandshake)
    /\ SendAndAwait("HELLO", Sealed(NoCipher, <<>>), "challenge")
    /\ UNCHANGED <<payload, profileReadOnly, ready, pending, toClient, brokerVars>>

Authenticate ==
    /\ op = "idle" /\ state = "Connected"
    /\ hs' = Hello(NewHandshake)
    /\ SendAndAwait("HELLO", Sealed(NoCipher, <<>>), "challenge")
    /\ UNCHANGED <<payload, profileReadOnly, ready, pending, toClient, brokerVars>>

StartupReply(cmd) ==
    frame.cmd = cmd /\ frame.seq = awaited /\ frame.fin /\ ~frame.comp

TakeChallenge ==
    /\ Takes("challenge")
    /\ LET accepted == /\ StartupReply("HELLO")
                       /\ OnChallenge(hs, frame.body).phase = "ChallengeReceived"
       IN  \/ ~accepted /\ Abort
           \/ /\ accepted
              /\ hs' = Auth(OnChallenge(hs, frame.body))
              /\ SendAndAwait("AUTH", Sealed(NoCipher, <<>>), "auth")
              /\ UNCHANGED <<payload, profileReadOnly, ready, brokerVars>>

\* A certificate requirement is an error here: enrollment is not implemented.
TakeAuthResult ==
    /\ Takes("auth")
    /\ LET accepted == /\ StartupReply("AUTH")
                       /\ OnAuthResult(hs, frame.body).phase = "SessionKeysReady"
       IN  \/ ~accepted /\ Abort
           \/ /\ accepted
              /\ hs' = OnAuthResult(hs, frame.body)
              /\ state' = "Authenticated"
              /\ Return
              /\ UNCHANGED <<awaited, payload, profileReadOnly, ready,
                             sequence, toBroker, brokerVars>>

------------------------------------------------------------------------------
(* synchronize *)

\* A profile of another account, or one that cannot answer the challenge, is
\* refused before anything changes.
Synchronize ==
    /\ op = "idle" /\ state = "Authenticated"
    /\ hs.result[1].enrolled
    /\ profileReadOnly' \in BOOLEAN
    /\ hs' = Sync(hs, Body)
    /\ rx' = NewCipher(hs.sessionKey)
    /\ payload' = <<>>
    /\ SendAndAwait("ACCOUNT_STATE", Sealed(hs.cipher, Body), "sync")
    /\ UNCHANGED <<tx, tradeKey, account, readOnly, messages, delivered, requests,
                   pending, toClient, brokerVars>>

\* Fault: the cipher is put back only with a complete message.
AfterFrameWhole(c, f) == IF f.fin THEN Advanced(c, f.body.plain) ELSE c

\* Deciphering moves the cipher over the whole payload of every frame.
AfterFrame(c, f) == Advanced(c, f.body.plain)

IdlePing == frame.cmd = "PING" /\ frame.body.plain = <<>>

SyncPlain == Opened(rx, frame.body)

SyncRejects ==
    \/ frame.cmd # "ACCOUNT_STATE"
    \/ frame.seq # awaited
    \/ Undecodable(frame, SyncPlain)
    \/ Len(payload) + Len(SyncPlain) > MaxMessage

\* The grammar admits exactly one account record.
Parses(p) == ~Malformed(p) /\ \E i \in Records(p) : Records(p) = {i}
TheAccount(p) == p[CHOOSE i \in Records(p) : TRUE]

TakeSyncFrame ==
    /\ Takes("sync")
    /\ \/ /\ IdlePing
          /\ UNCHANGED <<state, op, expired, startup, ready, sequence, toBroker,
                         brokerVars>>
       \/ ~IdlePing /\ SyncRejects /\ Abort
       \/ /\ ~IdlePing /\ ~SyncRejects /\ ~frame.fin
          /\ rx' = AfterFrame(rx, frame)
          /\ payload' = payload \o SyncPlain
          /\ UNCHANGED <<state, op, expired, hs, awaited, profileReadOnly, tx,
                         tradeKey, account, readOnly, messages, delivered, requests,
                         sequence, toBroker, brokerVars>>
       \/ /\ ~IdlePing /\ ~SyncRejects /\ frame.fin
          /\ LET whole == payload \o SyncPlain
                 own == Parses(whole) /\ TheAccount(whole).login = Login
             IN  \/ ~own /\ Abort
                 \/ /\ own
                    /\ payload' = whole
                    /\ state' = "Ready"
                    /\ Return
                    /\ rx' = AfterFrame(rx, frame)
                    /\ tx' = SendCipher(hs)
                    /\ hs' = TakeSendCipher(hs)
                    /\ tradeKey' = hs.tradeKey
                    /\ account' = TheAccount(whole)
                    /\ readOnly' = (TheAccount(whole).ro \/ profileReadOnly)
                    /\ messages' = NoFragments
                    /\ UNCHANGED <<awaited, profileReadOnly, delivered,
                                   requests, sequence, toBroker, brokerVars>>

------------------------------------------------------------------------------
(* send_encoded, send_trade, poll_message *)

\* Fault: the session stays in use.
AfterWriteRegardless(torn) == "Ready"

AfterWrite(torn) == IF torn THEN "Failed" ELSE "Ready"

\* A refused command changes nothing; a failed write spends the session.
Transmit(cmd, plain) ==
    /\ op = "idle" /\ state = "Ready"
    /\ requests < MaxRequests
    /\ requests' = requests + 1
    /\ sequence' = NextSequence(sequence)
    /\ tx' = Advanced(tx, plain)
    /\ \E torn \in BOOLEAN :
         /\ toBroker' = Append(toBroker, Request(cmd, Sealed(tx, plain), torn))
         /\ state' = AfterWrite(torn)
    /\ UNCHANGED <<op, expired, startup, rx, tradeKey, account, readOnly, messages,
                   delivered, pending, toClient, brokerVars>>

SendRequest ==
    \E cmd \in AppCommands :
        /\ readOnly => cmd \in ReadOnlyCommands
        /\ Transmit(cmd, IF cmd = "PING" THEN <<>> ELSE Body)

SendTrade ==
    /\ ~readOnly
    /\ tradeKey # NoKey
    /\ Transmit("TRADE_REQUEST", Body)

Poll ==
    /\ op = "idle" /\ state = "Ready"
    /\ op' = "poll"
    /\ state' = "Failed"
    /\ expired' = FALSE
    /\ UNCHANGED <<startup, ready, sequence, pending, toBroker, toClient, brokerVars>>

\* Command 55 whose first byte says 19.
IsAccountUpdate(m) ==
    m.cmd = "TRADE_UPDATE" /\ m.payload # <<>> /\ m.payload[1].kind = "account"

\* Fault: the login of an update is not compared.
Acceptable55Any(m) == ~Malformed(m.payload)

Acceptable55(m) ==
    /\ ~Malformed(m.payload)
    /\ \A i \in Records(m.payload) : m.payload[i].login = Login

LastAccount(m) ==
    m.payload[CHOOSE i \in Records(m.payload) : \A j \in Records(m.payload) : j <= i]

\* Fault: the last record decides.
LatchedLast(was, m) == LastAccount(m).ro

\* Every record of the update is looked at, and the flag is never cleared.
Latched(was, m) == was \/ \E i \in Records(m.payload) : m.payload[i].ro

PollPlain == Opened(rx, frame.body)

TakeMessageFrame ==
    /\ Takes("poll")
    /\ LET m == Completed(messages, frame, PollPlain)
           rejects == \/ Undecodable(frame, PollPlain)
                      \/ PushRejects(messages, frame, PollPlain)
                      \/ frame.fin /\ IsAccountUpdate(m) /\ ~Acceptable55(m)
       IN  \/ rejects /\ Abort
           \/ /\ ~rejects
              /\ rx' = AfterFrame(rx, frame)
              /\ messages' = Pushed(messages, frame, PollPlain)
              /\ \/ /\ ~frame.fin
                    /\ UNCHANGED <<state, op, expired, account, readOnly, delivered>>
                 \/ /\ frame.fin
                    /\ state' = "Ready"
                    /\ Return
                    /\ delivered' = Append(delivered, m)
                    /\ \/ ~IsAccountUpdate(m) /\ UNCHANGED <<account, readOnly>>
                       \/ /\ IsAccountUpdate(m)
                          /\ account' = LastAccount(m)
                          /\ readOnly' = Latched(readOnly, m)
              /\ UNCHANGED <<startup, tx, tradeKey, requests, sequence, toBroker,
                             brokerVars>>

------------------------------------------------------------------------------
(* The broker (external).  Each end of a synchronized connection keeps one   *)
(* cipher per direction, and every payload goes through it.                  *)

Consumed == state = "Failed" /\ op = "idle"

\* Nobody reads a closed connection, or writes to a session that is spent.
BrokerUp == ~closed /\ ~Consumed

BrokerStep == BrokerUp /\ UNCHANGED <<session, closed>>

Arrived(cmds) ==
    toBroker # <<>> /\ ~Head(toBroker).torn /\ Head(toBroker).cmd \in cmds

\* The broker puts one enciphered frame in flight.
Emit(cmd, seq, fin, comp, plain) ==
    toClient' = Append(toClient, Reply(cmd, seq, fin, comp, Sealed(broker.tx, plain)))

ChallengeReplies == [status : {"ok", "rejected", "malformed"}]

BrokerChallenge ==
    /\ BrokerStep
    /\ Arrived({"HELLO"})
    /\ \E reply \in ChallengeReplies, own, fin \in BOOLEAN :
         toClient' = Append(toClient,
             Reply("HELLO", IF own THEN Head(toBroker).seq ELSE 0, fin, FALSE, reply))
    /\ toBroker' = Tail(toBroker)
    /\ UNCHANGED <<broker, sent, pushes>>

BrokerAuthenticates ==
    /\ BrokerStep
    /\ Arrived({"AUTH"})
    /\ \E result \in AuthReplies, comp \in BOOLEAN :
         /\ toClient' = Append(toClient,
                Reply("AUTH", Head(toBroker).seq, TRUE, comp, result))
         /\ broker' = [broker EXCEPT !.rx = NewCipher(LastValue(result.tlvs, 7)),
                                     !.tx = NewCipher(LastValue(result.tlvs, 7))]
    /\ toBroker' = Tail(toBroker)
    /\ UNCHANGED <<sent, pushes>>

BrokerReceives ==
    /\ BrokerStep
    /\ Arrived(PlainCommands \union {"ACCOUNT_STATE", "TRADE_REQUEST"})
    /\ LET f == Head(toBroker) IN
       broker' = [broker EXCEPT
           !.rx = Advanced(@, f.box.plain),
           !.phase = IF f.cmd = "ACCOUNT_STATE" THEN "answering" ELSE @,
           !.seq = IF f.cmd = "ACCOUNT_STATE" THEN f.seq ELSE @]
    /\ toBroker' = Tail(toBroker)
    /\ UNCHANGED <<toClient, sent, pushes>>

\* The synchronization stream, one fragment at a time.
BrokerSynchronizes ==
    /\ BrokerStep
    /\ broker.phase = "answering"
    /\ pushes < MaxPushes
    /\ pushes' = pushes + 1
    /\ \E chunk \in Chunks, fin, comp \in BOOLEAN :
         /\ comp => chunk.kind = "bad"
         /\ Emit("ACCOUNT_STATE", broker.seq, fin, comp, <<chunk>>)
         /\ broker' = [broker EXCEPT !.tx = Advanced(@, <<chunk>>),
                                     !.phase = IF fin THEN "streaming" ELSE @]
    /\ UNCHANGED <<toBroker, sent>>

\* An idle ping before the stream is complete; afterwards it is a message.
BrokerPings ==
    /\ BrokerStep
    /\ broker.phase = "answering"
    /\ Len(toClient) < MaxInFlight
    /\ Emit("PING", 0, TRUE, FALSE, <<>>)
    /\ UNCHANGED <<toBroker, broker, sent, pushes>>

\* The payload of a message the broker has begun, extended with a chunk.
Extended(seq, chunk) ==
    IF seq \in DOMAIN broker.open THEN Append(broker.open[seq].payload, chunk)
                                  ELSE <<chunk>>

\* A fragment of one of the messages the broker is sending.
StreamFragment(cmd, seq, chunk, fin, comp) ==
    LET whole == [cmd |-> cmd, payload |-> Extended(seq, chunk)]
        others == DOMAIN broker.open \ {seq}
    IN
    /\ comp => chunk.kind = "bad"
    /\ cmd = "QUOTES" => chunk.kind # "account"
    /\ seq \in DOMAIN broker.open => broker.open[seq].cmd = cmd
    /\ Emit(cmd, seq, fin, comp, <<chunk>>)
    /\ \/ /\ fin
          /\ sent' = Append(sent, [cmd |-> cmd, seq |-> seq, payload |-> whole.payload])
          /\ broker' = [broker EXCEPT !.tx = Advanced(@, <<chunk>>),
                                      !.open = [s \in others |-> @[s]]]
       \/ /\ ~fin
          /\ UNCHANGED sent
          /\ broker' = [broker EXCEPT !.tx = Advanced(@, <<chunk>>),
                !.open = [s \in others \union {seq} |-> IF s = seq THEN whole ELSE @[s]]]

BrokerStreams ==
    /\ BrokerStep
    /\ broker.phase = "streaming"
    /\ pushes < MaxPushes
    /\ pushes' = pushes + 1
    /\ \E cmd \in {"TRADE_UPDATE", "QUOTES"}, seq \in BrokerSequences,
          chunk \in Chunks, fin, comp \in BOOLEAN :
         StreamFragment(cmd, seq, chunk, fin, comp)
    /\ UNCHANGED toBroker

\* A header with a bad length, or a command that changes within a message.
BrokerGarbles ==
    /\ BrokerStep
    /\ broker.phase \in {"answering", "streaming"}
    /\ pushes < MaxPushes
    /\ pushes' = pushes + 1
    /\ \/ Emit("BAD_HEADER", 0, FALSE, FALSE, <<>>)
       \/ \E seq \in DOMAIN broker.open : Emit("OTHER", seq, TRUE, FALSE, <<>>)
    /\ UNCHANGED <<toBroker, broker, sent>>

BrokerCloses ==
    /\ BrokerUp
    /\ closed' = TRUE
    /\ UNCHANGED <<session, toBroker, toClient, broker, sent, pushes>>

------------------------------------------------------------------------------
(* Specification *)

Init ==
    /\ state = "Connected" /\ op = "idle" /\ expired = FALSE
    /\ hs = NewHandshake /\ awaited = 0 /\ payload = <<>> /\ profileReadOnly = FALSE
    /\ rx = NoCipher /\ tx = NoCipher /\ tradeKey = NoKey
    /\ account = NoAccount /\ readOnly = FALSE /\ messages = NoFragments
    /\ delivered = <<>> /\ requests = 0
    /\ sequence = 1 /\ pending = <<>>
    /\ toBroker = <<>> /\ toClient = <<>> /\ closed = FALSE
    /\ broker = [phase |-> "hello", rx |-> NoCipher, tx |-> NoCipher, seq |-> 0,
                 open |-> NoFragments]
    /\ sent = <<>> /\ pushes = 0

\* What the application asks for.
Calls == Authenticate \/ Synchronize \/ SendRequest \/ SendTrade \/ Poll

\* What a blocked call does.
Progress ==
    \/ TakeChallenge \/ TakeAuthResult \/ TakeSyncFrame \/ TakeMessageFrame
    \/ ReadSocket \/ ReadEnd \/ TimeOut

Broker ==
    \/ BrokerChallenge \/ BrokerAuthenticates \/ BrokerReceives
    \/ BrokerSynchronizes \/ BrokerPings \/ BrokerStreams \/ BrokerGarbles
    \/ BrokerCloses

Next == Calls \/ Progress \/ Expire \/ Broker

Spec == Init /\ [][Next]_vars

\* The client's thread keeps running while it is blocked in a call, and the
\* clock it compares its deadline with keeps going.  Nothing is asked of the
\* broker or of the application.
FairSpec == Spec /\ WF_vars(Progress) /\ WF_vars(Expire)

=============================================================================
