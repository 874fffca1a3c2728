------------------------ MODULE NativeSessionProofs -------------------------
(***************************************************************************)
(* Proofs about NativeSession, for every key set, content, bound and width *)
(* of the sequence counter.                                                *)
(***************************************************************************)
EXTENDS NativeSessionProps, SequenceTheorems, WellFoundedInduction, TLAPS

------------------------------------------------------------------------------
(* The inductive invariant *)

\* One startup exchange: the request, or its only reply, is in flight.
Exchanging(cmd, bodies) ==
    /\ broker.phase = "hello"
    /\ \/ /\ Len(toBroker) = 1 /\ toBroker[1].cmd = cmd
          /\ pending = <<>> /\ toClient = <<>>
       \/ /\ toBroker = <<>> /\ pending = <<>>
          /\ Len(toClient) = 1 /\ toClient[1].cmd = cmd /\ toClient[1].body \in bodies
       \/ /\ toBroker = <<>> /\ toClient = <<>>
          /\ Len(pending) = 1 /\ pending[1].cmd = cmd /\ pending[1].body \in bodies

Quiet ==
    broker.phase = "hello" /\ toBroker = <<>> /\ pending = <<>> /\ toClient = <<>>

\* Everything in flight from the broker is an enciphered frame.
Enciphered ==
    /\ \A i \in 1 .. Len(pending) : pending[i].body \in Boxes
    /\ \A i \in 1 .. Len(toClient) : toClient[i].body \in Boxes

\* Which frames can be in flight at each stage of the session.
Exchange ==
    /\ state = "Connected" => Quiet
    /\ op = "challenge" => Exchanging("HELLO", ChallengeReplies)
    /\ op = "auth" => Exchanging("AUTH", AuthReplies)
    /\ state = "Authenticated" => Quiet /\ Len(hs.result) = 1
    /\ op = "sync" =>
         \/ /\ broker.phase = "hello" /\ pending = <<>> /\ toClient = <<>>
            /\ Len(toBroker) = 1 /\ toBroker[1].cmd = "ACCOUNT_STATE"
         \/ broker.phase # "hello" /\ toBroker = <<>> /\ Enciphered
    /\ op = "poll" \/ state = "Ready" =>
         /\ broker.phase # "hello" /\ Enciphered
         /\ \A i \in 1 .. Len(toBroker) : toBroker[i].cmd \in RequestCommands

IInv == TypeOK /\ Exchange

------------------------------------------------------------------------------
(* Facts about the operators *)

\* A nonempty set of positions in a sequence has a last one.
LEMMA LastPosition ==
    ASSUME NEW n \in Nat, NEW S \in SUBSET (1 .. n), S # {}
    PROVE  \E i \in S : \A j \in S : j <= i
<1> DEFINE T == {n - i : i \in S}
<1>0. \A i \in S : i \in Nat /\ n - i \in Nat
  OBVIOUS
<1>1. T \subseteq Nat /\ T # {}
  BY <1>0
<1>2. PICK x \in T : \A y \in T : ~(<<y, x>> \in OpToRel(<, Nat))
  BY <1>1, NatLessThanWellFounded, WFMin
<1>3. \A y \in T : ~(y < x)
  BY <1>1, <1>2 DEF OpToRel
<1>4. PICK i \in S : x = n - i
  OBVIOUS
<1>5. \A j \in S : n - j \in T
  OBVIOUS
<1>6. \A j \in S : j <= i
  BY <1>3, <1>4, <1>5
<1> QED
  BY <1>6

\* The value kept for a tag is one the broker sent, or none.
LEMMA LastValueType ==
    ASSUME NEW tlvs \in Seq([tag : Nat, value : Material]), NEW tag
    PROVE  LastValue(tlvs, tag) \in MaybeKey
<1> DEFINE S == Occurrences(tlvs, tag)
<1>1. CASE S = {}
  BY <1>1 DEF LastValue, MaybeKey
<1>2. CASE S # {}
  <2>1. S \in SUBSET (1 .. Len(tlvs)) /\ Len(tlvs) \in Nat
    BY DEF Occurrences
  <2>2. \E i \in S : \A j \in S : j <= i
    BY <1>2, <2>1, LastPosition
  <2>3. (CHOOSE i \in S : \A j \in S : j <= i) \in S
    BY <2>2
  <2>4. ASSUME NEW k \in S PROVE tlvs[k].value \in Material
    <3>1. k \in 1 .. Len(tlvs)
      BY <2>1
    <3>2. tlvs[k] \in [tag : Nat, value : Material]
      BY <3>1, ElementOfSeq
    <3> QED
      BY <3>2
  <2>5. LastValue(tlvs, tag) = tlvs[CHOOSE i \in S : \A j \in S : j <= i].value
    BY <1>2 DEF LastValue
  <2> HIDE DEF S
  <2> QED
    BY <2>3, <2>4, <2>5 DEF MaybeKey
<1> QED
  BY <1>1, <1>2

LEMMA AdvancedType ==
    ASSUME NEW c \in Ciphers, NEW plain \in Seq(ChunkTypes)
    PROVE  Advanced(c, plain) \in Ciphers
  BY DEF Advanced, Ciphers

LEMMA NewCipherType ==
    ASSUME NEW k \in MaybeKey
    PROVE  NewCipher(k) \in Ciphers
  BY DEF NewCipher, Ciphers, MaybeKey

LEMMA SealedType ==
    ASSUME NEW c \in Ciphers, NEW plain \in Seq(ChunkTypes)
    PROVE  Sealed(c, plain) \in Boxes
  BY DEF Sealed, Ciphers, Boxes, MaybeKey

LEMMA OpenedType ==
    ASSUME NEW c, NEW box \in Boxes
    PROVE  Opened(c, box) \in Seq(ChunkTypes)
  BY ContentAssumption DEF Opened, Boxes

LEMMA NextSequenceType ==
    ASSUME NEW s \in 1 .. SequenceMod - 1
    PROVE  NextSequence(s) \in 1 .. SequenceMod - 1
  BY SessionAssumption DEF NextSequence

LEMMA NewHandshakeType == NewHandshake \in Handshakes
<1>1. NoCipher \in Ciphers
  BY DEF NoCipher, NewCipher, Ciphers
<1>2. <<>> \in Seq(AuthReplies)
  OBVIOUS
<1> QED
  BY <1>1, <1>2 DEF NewHandshake, Handshakes, Phases, MaybeKey

LEMMA OnAuthResultType ==
    ASSUME NEW h \in Handshakes, NEW r \in AuthReplies
    PROVE  OnAuthResult(h, r) \in Handshakes
<1>1. r \in AuthResults
  BY ContentAssumption
<1>2. LastValue(r.tlvs, 7) \in MaybeKey /\ LastValue(r.tlvs, 27) \in MaybeKey
  BY <1>1, LastValueType DEF AuthResults
<1>3. NewCipher(LastValue(r.tlvs, 7)) \in Ciphers
  BY <1>2, NewCipherType
<1>5. Failed \in Handshakes
  BY NewHandshakeType DEF Failed, Handshakes, Phases
<1>6. <<r>> \in Seq(AuthReplies) /\ r.build \in Nat
  BY <1>1 DEF AuthResults
<1>7. CASE ~Acceptable(r)
  BY <1>5, <1>7 DEF OnAuthResult
<1>8. CASE Acceptable(r)
  BY <1>2, <1>3, <1>6, <1>8 DEF OnAuthResult, Handshakes, Phases
<1> QED
  BY <1>7, <1>8

LEMMA LatchedType ==
    ASSUME NEW was \in BOOLEAN, NEW m
    PROVE  Latched(was, m) \in BOOLEAN
  BY Zenon DEF Latched

\* The last account record of an update that has one is one of its records.
LEMMA LastAccountRecord ==
    ASSUME NEW m \in Messages, IsAccountUpdate(m)
    PROVE  \E i \in Records(m.payload) : LastAccount(m) = m.payload[i]
<1>1. m.payload \in Seq(ChunkTypes)
  BY DEF Messages
<1>2. DOMAIN m.payload = 1 .. Len(m.payload) /\ Len(m.payload) \in Nat
  BY <1>1
<1>3. 1 \in Records(m.payload)
  BY <1>1, <1>2 DEF IsAccountUpdate, Records
<1>4. Records(m.payload) \in SUBSET (1 .. Len(m.payload))
  BY <1>2 DEF Records
<1>5. \E i \in Records(m.payload) : \A j \in Records(m.payload) : j <= i
  BY <1>2, <1>3, <1>4, LastPosition
<1>6. (CHOOSE i \in Records(m.payload) : \A j \in Records(m.payload) : j <= i)
        \in Records(m.payload)
  BY <1>5
<1> QED
  BY <1>6 DEF LastAccount

LEMMA RecordType ==
    ASSUME NEW p \in Seq(ChunkTypes), NEW i \in Records(p)
    PROVE  p[i] \in ChunkTypes
  BY DEF Records

\* The reassembly map after a fragment, and the message a final one completes.
LEMMA PushedType ==
    ASSUME NEW f \in Replies, NEW plain \in Seq(ChunkTypes), NEW held,
           DOMAIN held \subseteq Nat, held \in [DOMAIN held -> Partial]
    PROVE  /\ DOMAIN Pushed(held, f, plain) \subseteq Nat
           /\ Pushed(held, f, plain) \in [DOMAIN Pushed(held, f, plain) -> Partial]
           /\ Completed(held, f, plain) \in Messages
<1>1. Buffered(held, f) \in Seq(ChunkTypes)
  BY DEF Buffered, Partial
<1>2. Buffered(held, f) \o plain \in Seq(ChunkTypes)
  BY <1>1
<1>3. f.seq \in Nat /\ f.cmd \in FrameCommands
  BY DEF Replies
<1>4. Completed(held, f, plain) \in Messages
  BY <1>2, <1>3 DEF Completed, Messages
<1>5. [cmd |-> f.cmd, payload |-> Buffered(held, f) \o plain] \in Partial
  BY <1>2, <1>3 DEF Partial
<1>6. CASE f.fin
  BY <1>4, <1>6 DEF Pushed
<1>7. CASE ~f.fin
  BY <1>3, <1>4, <1>5, <1>7 DEF Pushed
<1> QED
  BY <1>6, <1>7

------------------------------------------------------------------------------
(* The invariant holds initially and every step keeps it *)

LEMMA InitIInv == Init => IInv
<1> SUFFICES ASSUME Init PROVE IInv
  OBVIOUS
<1>1. NewHandshake \in Handshakes /\ NoCipher \in Ciphers
  BY DEF NewHandshake, NoCipher, NewCipher, Handshakes, Phases, Ciphers, MaybeKey
<1>2. NoAccount \in ChunkTypes
  BY DEF NoAccount, ChunkTypes
<1>3. DOMAIN NoFragments = {} /\ NoFragments \in [{} -> Partial]
  BY DEF NoFragments
<1>4. 1 \in 1 .. SequenceMod - 1 /\ 0 \in 0 .. MaxRequests /\ 0 \in 0 .. MaxPushes
  BY SessionAssumption
<1>5. NoKey \in MaybeKey
  BY DEF MaybeKey
<1>6. TypeOK
  <2>1. messages = NoFragments /\ broker.open = NoFragments
    BY DEF Init
  <2>2. DOMAIN messages \subseteq Nat /\ messages \in [DOMAIN messages -> Partial]
    BY <1>3, <2>1
  <2>3. DOMAIN broker.open \subseteq Nat /\ broker.open \in [DOMAIN broker.open -> Partial]
    BY <1>3, <2>1
  <2>4. broker \in [phase : BrokerPhases, rx : Ciphers, tx : Ciphers, seq : Nat,
                   open : {broker.open}]
    BY <1>1, <2>1 DEF Init, BrokerPhases
  <2>5. <<>> \in Seq(Replies) /\ <<>> \in Seq(Requests) /\ <<>> \in Seq(Messages)
        /\ <<>> \in Seq(ChunkTypes)
    OBVIOUS
  <2>6. /\ state = "Connected" /\ op = "idle" /\ expired = FALSE /\ closed = FALSE
        /\ hs \in Handshakes /\ awaited = 0 /\ sequence \in 1 .. SequenceMod - 1
        /\ payload \in Seq(ChunkTypes) /\ account \in ChunkTypes
        /\ readOnly = FALSE /\ profileReadOnly = FALSE
        /\ rx \in Ciphers /\ tx \in Ciphers /\ tradeKey \in MaybeKey
    BY <1>1, <1>2, <1>4, <1>5, <2>5 DEF Init
  <2>7. /\ delivered \in Seq(Messages) /\ sent \in Seq(Messages)
        /\ requests \in 0 .. MaxRequests /\ pushes \in 0 .. MaxPushes
        /\ pending \in Seq(Replies) /\ toClient \in Seq(Replies)
        /\ toBroker \in Seq(Requests)
    BY <1>4, <2>5 DEF Init
  <2> QED
    BY <2>2, <2>3, <2>4, <2>6, <2>7 DEF TypeOK
<1>7. Exchange
  BY DEF Init, Exchange, Quiet
<1> QED
  BY <1>6, <1>7 DEF IInv

LEMMA AbortIInv ==
    ASSUME IInv, Abort, pending' \in Seq(Replies), toClient' \in Seq(Replies)
    PROVE  IInv'
<1>1. TypeOK'
  BY DEF IInv, TypeOK, Abort, Return, startup, ready, brokerVars
<1>2. Exchange'
  BY DEF Abort, Return, Exchange
<1> QED
  BY <1>1, <1>2 DEF IInv

\* What a call leaves in place when it sends a frame and waits.
LEMMA SendAndAwaitType ==
    ASSUME IInv, NEW cmd \in {"HELLO", "AUTH", "ACCOUNT_STATE"}, NEW box \in Boxes,
           NEW call \in {"challenge", "auth", "sync"}, SendAndAwait(cmd, box, call)
    PROVE  /\ state' = "Failed" /\ expired' = FALSE /\ op' \in {"idle", call}
           /\ awaited' \in Nat /\ sequence' \in 1 .. SequenceMod - 1
           /\ toBroker' \in Seq(Requests)
           /\ Len(toBroker') = Len(toBroker) + 1
           /\ toBroker'[Len(toBroker')].cmd = cmd
<1>1. sequence \in 1 .. SequenceMod - 1 /\ toBroker \in Seq(Requests)
  BY DEF IInv, TypeOK
<1>2. sequence' \in 1 .. SequenceMod - 1
  BY <1>1, NextSequenceType DEF SendAndAwait
<1>3. PICK torn \in BOOLEAN :
          /\ toBroker' = Append(toBroker, Request(cmd, box, torn))
          /\ op' = IF torn THEN "idle" ELSE call
  BY DEF SendAndAwait
<1>4. Request(cmd, box, torn) \in Requests /\ Request(cmd, box, torn).cmd = cmd
  BY <1>1 DEF Request, Requests
<1>5. sequence \in Nat
  BY <1>1, SessionAssumption
<1> QED
  BY <1>1, <1>2, <1>3, <1>4, <1>5, AppendProperties DEF SendAndAwait

\* pop_front leaves a queue of replies.
LEMMA TakesType ==
    ASSUME IInv, NEW call, Takes(call)
    PROVE  /\ frame \in Replies
           /\ pending' \in Seq(Replies) /\ toClient' \in Seq(Replies)
           /\ Len(pending') = Len(pending) - 1
  BY HeadTailProperties DEF IInv, TypeOK, Takes, frame

LEMMA ReadSocketIInv == ASSUME IInv, ReadSocket PROVE IInv'
<1>1. PICK n \in 1 .. Len(toClient) :
         /\ toClient' = SubSeq(toClient, n + 1, Len(toClient))
         /\ \/ pending' = <<>> /\ Abort
            \/ /\ pending' = SubSeq(toClient, 1, n)
               /\ UNCHANGED <<state, op, expired, startup, ready, sequence,
                              toBroker, brokerVars>>
  BY DEF ReadSocket
<1>2. toClient \in Seq(Replies) /\ pending = <<>> /\ op # "idle"
  BY DEF IInv, TypeOK, ReadSocket, MayRead
<1>3. toClient' \in Seq(Replies) /\ pending' \in Seq(Replies)
  <2>1. /\ SubSeq(toClient, n + 1, Len(toClient)) \in Seq(Replies)
        /\ SubSeq(toClient, 1, n) \in Seq(Replies)
    BY <1>2, SubSeqProperties, ElementOfSeq
  <2>2. <<>> \in Seq(Replies)
    OBVIOUS
  <2> QED
    BY <1>1, <2>1, <2>2
<1>4. CASE pending' = <<>> /\ Abort
  BY <1>3, <1>4, AbortIInv
<1>5. CASE /\ pending' = SubSeq(toClient, 1, n)
           /\ UNCHANGED <<state, op, expired, startup, ready, sequence,
                          toBroker, brokerVars>>
  <2>1. TypeOK'
    BY <1>3, <1>5 DEF IInv, TypeOK, startup, ready, brokerVars
  <2>2. /\ Len(pending') = n /\ \A i \in 1 .. n : pending'[i] = toClient[i]
        /\ Len(toClient') = Len(toClient) - n
        /\ \A i \in 1 .. Len(toClient') : toClient'[i] = toClient[n + i]
    BY <1>1, <1>2, <1>5, SubSeqProperties, ElementOfSeq
  <2>3. ASSUME NEW cmd, NEW bodies, Exchanging(cmd, bodies)
        PROVE  Exchanging(cmd, bodies)'
    BY <1>2, <1>5, <2>2, <2>3 DEF Exchanging, brokerVars
  <2>4. Enciphered => Enciphered'
    <3> SUFFICES ASSUME Enciphered PROVE Enciphered'
      OBVIOUS
    <3>1. ASSUME NEW i \in 1 .. Len(toClient')
          PROVE  n + i \in 1 .. Len(toClient)
      BY <1>2, <2>2
    <3>2. \A i \in 1 .. Len(toClient') : toClient'[i].body \in Boxes
      BY <2>2, <3>1 DEF Enciphered
    <3>3. \A i \in 1 .. Len(pending') : pending'[i].body \in Boxes
      BY <1>2, <2>2 DEF Enciphered
    <3> QED
      BY <3>2, <3>3 DEF Enciphered
  <2>5. state' = "Failed"
    BY <1>2, <1>5 DEF IInv, TypeOK
  <2>6. Exchange'
    BY <1>2, <1>5, <2>2, <2>3, <2>4, <2>5 DEF IInv, Exchange, brokerVars
  <2> QED
    BY <2>1, <2>6 DEF IInv
<1> QED
  BY <1>1, <1>4, <1>5

LEMMA ReadEndIInv == ASSUME IInv, ReadEnd PROVE IInv'
  BY AbortIInv DEF ReadEnd, IInv, TypeOK

LEMMA ExpireIInv == ASSUME IInv, Expire PROVE IInv'
<1>1. TypeOK'
  BY DEF IInv, TypeOK, Expire, startup, ready, brokerVars
<1>2. Exchange'
  BY DEF IInv, Exchange, Expire, Exchanging, Quiet, Enciphered, startup, brokerVars
<1> QED
  BY <1>1, <1>2 DEF IInv

LEMMA TimeOutIInv == ASSUME IInv, TimeOut PROVE IInv'
<1>1. CASE Abort
  BY <1>1, AbortIInv DEF TimeOut, IInv, TypeOK
<1>2. CASE /\ op = "poll" /\ state' = "Ready" /\ Return
           /\ UNCHANGED <<startup, ready, sequence, toBroker, brokerVars>>
  <2>1. TypeOK'
    BY <1>2 DEF IInv, TypeOK, TimeOut, Return, startup, ready, brokerVars
  <2>2. Exchange'
    BY <1>2 DEF IInv, Exchange, TimeOut, Return, Enciphered, brokerVars
  <2> QED
    BY <2>1, <2>2 DEF IInv
<1> QED
  BY <1>1, <1>2 DEF TimeOut

LEMMA AuthenticateIInv == ASSUME IInv, Authenticate PROVE IInv'
<1>1. hs' \in Handshakes
  BY NewHandshakeType DEF Authenticate, Hello, Handshakes, Phases
<1>2. Sealed(NoCipher, <<>>) \in Boxes
  BY DEF Sealed, NoCipher, NewCipher, Boxes, MaybeKey
<1>3. /\ state' = "Failed" /\ expired' = FALSE /\ op' \in {"idle", "challenge"}
      /\ awaited' \in Nat /\ sequence' \in 1 .. SequenceMod - 1
      /\ toBroker' \in Seq(Requests)
      /\ Len(toBroker') = Len(toBroker) + 1 /\ toBroker'[Len(toBroker')].cmd = "HELLO"
  BY <1>2, SendAndAwaitType DEF Authenticate
<1>4. TypeOK'
  BY <1>1, <1>3 DEF IInv, TypeOK, Authenticate, ready, brokerVars
<1>5. Quiet
  BY DEF IInv, Exchange, Authenticate
<1>6. Len(toBroker') = 1
  BY <1>3, <1>5 DEF Quiet
<1>7. Exchange'
  BY <1>3, <1>5, <1>6 DEF Authenticate, Exchange, Exchanging, Quiet, brokerVars
<1> QED
  BY <1>4, <1>7 DEF IInv

LEMMA TakeChallengeIInv == ASSUME IInv, TakeChallenge PROVE IInv'
<1>1. /\ frame \in Replies /\ op = "challenge" /\ pending # <<>>
      /\ pending' \in Seq(Replies) /\ toClient' \in Seq(Replies)
      /\ Len(pending') = Len(pending) - 1 /\ toClient' = toClient
  BY TakesType DEF TakeChallenge, Takes
<1>2. CASE Abort
  BY <1>1, <1>2, AbortIInv
<1>3. CASE /\ hs' = Auth(OnChallenge(hs, frame.body))
           /\ OnChallenge(hs, frame.body).phase = "ChallengeReceived"
           /\ SendAndAwait("AUTH", Sealed(NoCipher, <<>>), "auth")
           /\ UNCHANGED <<payload, profileReadOnly, ready, brokerVars>>
  <2>1. hs' \in Handshakes
    BY <1>3 DEF IInv, TypeOK, Auth, OnChallenge, Failed, NewHandshake, Handshakes, Phases
  <2>2. Sealed(NoCipher, <<>>) \in Boxes
    BY DEF Sealed, NoCipher, NewCipher, Boxes, MaybeKey
  <2>3. /\ state' = "Failed" /\ expired' = FALSE /\ op' \in {"idle", "auth"}
        /\ awaited' \in Nat /\ sequence' \in 1 .. SequenceMod - 1
        /\ toBroker' \in Seq(Requests)
        /\ Len(toBroker') = Len(toBroker) + 1 /\ toBroker'[Len(toBroker')].cmd = "AUTH"
    BY <1>3, <2>2, SendAndAwaitType
  <2>4. TypeOK'
    BY <1>1, <1>3, <2>1, <2>3 DEF IInv, TypeOK, ready, brokerVars
  <2>5. Exchanging("HELLO", ChallengeReplies)
    BY <1>1 DEF IInv, Exchange
  <2>6. /\ broker'.phase = "hello" /\ toBroker = <<>> /\ toClient' = <<>>
        /\ Len(pending) = 1
    BY <1>1, <1>3, <2>5 DEF Exchanging, brokerVars
  <2>7. Len(toBroker') = 1 /\ pending' = <<>>
    BY <1>1, <2>3, <2>6
  <2>8. Exchange'
    BY <2>3, <2>6, <2>7 DEF Exchange, Exchanging
  <2> QED
    BY <2>4, <2>8 DEF IInv
<1> QED
  BY <1>2, <1>3 DEF TakeChallenge

LEMMA TakeAuthResultIInv == ASSUME IInv, TakeAuthResult PROVE IInv'
<1>1. /\ frame \in Replies /\ op = "auth" /\ pending # <<>>
      /\ pending' \in Seq(Replies) /\ toClient' \in Seq(Replies)
      /\ Len(pending') = Len(pending) - 1 /\ toClient' = toClient
  BY TakesType DEF TakeAuthResult, Takes
<1>2. CASE Abort
  BY <1>1, <1>2, AbortIInv
<1>3. CASE /\ OnAuthResult(hs, frame.body).phase = "SessionKeysReady"
           /\ hs' = OnAuthResult(hs, frame.body)
           /\ state' = "Authenticated"
           /\ Return
           /\ UNCHANGED <<awaited, payload, profileReadOnly, ready,
                          sequence, toBroker, brokerVars>>
  <2>1. Exchanging("AUTH", AuthReplies)
    BY <1>1 DEF IInv, Exchange
  <2>2. /\ broker'.phase = "hello" /\ toBroker' = <<>> /\ toClient' = <<>>
        /\ Len(pending) = 1 /\ frame.body \in AuthReplies
    BY <1>1, <1>3, <2>1 DEF Exchanging, brokerVars, frame
  <2>3. hs' \in Handshakes
    BY <1>3, <2>2, OnAuthResultType DEF IInv, TypeOK
  <2>4. TypeOK'
    BY <1>1, <1>3, <2>3 DEF IInv, TypeOK, Return, ready, brokerVars
  <2>5. pending' = <<>>
    BY <1>1, <2>2
  <2>6. Len(hs'.result) = 1
    BY <1>3 DEF OnAuthResult, Failed
  <2>7. Exchange'
    BY <1>3, <2>2, <2>5, <2>6 DEF Exchange, Quiet, Return
  <2> QED
    BY <2>4, <2>7 DEF IInv
<1> QED
  BY <1>2, <1>3 DEF TakeAuthResult

LEMMA SynchronizeIInv == ASSUME IInv, Synchronize PROVE IInv'
<1>1. Body \in Seq(ChunkTypes)
  BY DEF Body, NoAccount, ChunkTypes
<1>2. hs \in Handshakes /\ hs.cipher \in Ciphers /\ hs.sessionKey \in MaybeKey
  BY DEF IInv, TypeOK, Handshakes
<1>3. Sealed(hs.cipher, Body) \in Boxes /\ rx' \in Ciphers
  BY <1>1, <1>2, SealedType, NewCipherType DEF Synchronize
<1>4. hs' \in Handshakes
  <2>1. Advanced(hs.cipher, Body) \in Ciphers
    BY <1>1, <1>2, AdvancedType
  <2>2. hs' = [hs EXCEPT !.phase = "SyncSent", !.cipher = Advanced(hs.cipher, Body)]
    BY DEF Synchronize, Sync
  <2> QED
    BY <1>2, <2>1, <2>2 DEF Handshakes, Phases
<1>5. /\ state' = "Failed" /\ expired' = FALSE /\ op' \in {"idle", "sync"}
      /\ awaited' \in Nat /\ sequence' \in 1 .. SequenceMod - 1
      /\ toBroker' \in Seq(Requests)
      /\ Len(toBroker') = Len(toBroker) + 1
      /\ toBroker'[Len(toBroker')].cmd = "ACCOUNT_STATE"
  BY <1>3, SendAndAwaitType DEF Synchronize
<1>6. payload' \in Seq(ChunkTypes)
  BY DEF Synchronize
<1>7. TypeOK'
  BY <1>3, <1>4, <1>5, <1>6 DEF IInv, TypeOK, Synchronize, brokerVars
<1>8. Quiet
  BY DEF IInv, Exchange, Synchronize
<1>9. Len(toBroker') = 1 /\ toClient' = <<>> /\ pending' = <<>>
  BY <1>5, <1>8 DEF Quiet, Synchronize
<1>10. Exchange'
  BY <1>5, <1>8, <1>9 DEF Exchange, Quiet, Synchronize, brokerVars
<1> QED
  BY <1>7, <1>10 DEF IInv

\* After a frame of the synchronization stream is taken the rest is enciphered.
LEMMA TakesEnciphered ==
    ASSUME IInv, NEW call \in {"sync", "poll"}, Takes(call)
    PROVE  /\ frame \in Replies /\ frame.body \in Boxes
           /\ broker.phase # "hello"
           /\ op = call /\ state = "Failed"
           /\ pending' \in Seq(Replies) /\ toClient' \in Seq(Replies)
           /\ Enciphered /\ Enciphered'
           /\ call = "sync" => toBroker = <<>>
<1>1. /\ frame \in Replies /\ op = call /\ pending # <<>> /\ pending \in Seq(Replies)
      /\ pending' \in Seq(Replies) /\ toClient' \in Seq(Replies)
      /\ Len(pending') = Len(pending) - 1 /\ toClient' = toClient
      /\ state = "Failed"
      /\ pending' = Tail(pending)
  BY TakesType DEF Takes, IInv, TypeOK
<1>2. /\ broker.phase # "hello" /\ Enciphered
      /\ call = "sync" => toBroker = <<>>
  BY <1>1 DEF IInv, Exchange
<1>3. frame.body \in Boxes
  BY <1>1, <1>2 DEF Enciphered, frame
<1>4. \A i \in 1 .. Len(pending') : pending'[i] = pending[i + 1]
  BY <1>1, HeadTailProperties
<1>5. Enciphered'
  <2>1. ASSUME NEW i \in 1 .. Len(pending')
        PROVE  i + 1 \in 1 .. Len(pending)
    BY <1>1
  <2> QED
    BY <1>1, <1>2, <1>4, <2>1 DEF Enciphered
<1> QED
  BY <1>1, <1>2, <1>3, <1>5

LEMMA TakeSyncFrameIInv == ASSUME IInv, TakeSyncFrame PROVE IInv'
<1>1. /\ frame \in Replies /\ frame.body \in Boxes
      /\ broker.phase # "hello" /\ op = "sync" /\ state = "Failed"
      /\ pending' \in Seq(Replies) /\ toClient' \in Seq(Replies)
      /\ Enciphered' /\ toBroker = <<>>
  BY TakesEnciphered DEF TakeSyncFrame
<1>2. SyncPlain \in Seq(ChunkTypes) /\ payload \o SyncPlain \in Seq(ChunkTypes)
  BY <1>1, OpenedType DEF SyncPlain, IInv, TypeOK
<1>3. AfterFrame(rx, frame) \in Ciphers
  BY <1>1, AdvancedType DEF AfterFrame, Boxes, IInv, TypeOK
<1>4. CASE Abort
  BY <1>1, <1>4, AbortIInv
<1>5. CASE UNCHANGED <<state, op, expired, startup, ready, sequence, toBroker,
                       brokerVars>>
  BY <1>1, <1>5 DEF IInv, TypeOK, Exchange, startup, ready, brokerVars
<1>6. CASE /\ rx' = AfterFrame(rx, frame)
           /\ payload' = payload \o SyncPlain
           /\ UNCHANGED <<state, op, expired, hs, awaited, profileReadOnly, tx,
                          tradeKey, account, readOnly, messages, delivered, requests,
                          sequence, toBroker, brokerVars>>
  BY <1>1, <1>2, <1>3, <1>6 DEF IInv, TypeOK, Exchange, brokerVars
<1>7. ASSUME NEW whole, whole = payload \o SyncPlain,
             Parses(whole) /\ TheAccount(whole).login = Login,
             payload' = whole, state' = "Ready", Return,
             rx' = AfterFrame(rx, frame), tx' = SendCipher(hs),
             hs' = TakeSendCipher(hs), tradeKey' = hs.tradeKey,
             account' = TheAccount(whole),
             readOnly' = (TheAccount(whole).ro \/ profileReadOnly),
             messages' = NoFragments,
             UNCHANGED <<awaited, profileReadOnly, delivered,
                         requests, sequence, toBroker, brokerVars>>
      PROVE  IInv'
  <2>1. TheAccount(whole) \in ChunkTypes
    <3>1. PICK i \in Records(whole) : TRUE
      BY <1>7 DEF Parses
    <3>2. (CHOOSE k \in Records(whole) : TRUE) \in Records(whole)
      BY <3>1
    <3> QED
      BY <1>2, <1>7, <3>2, RecordType DEF TheAccount
  <2>2. readOnly' \in BOOLEAN
    BY <1>7
  <2>3. hs \in Handshakes /\ NoCipher \in Ciphers
    BY DEF IInv, TypeOK, NoCipher, NewCipher, Ciphers
  <2>4. hs' \in Handshakes /\ tx' \in Ciphers /\ tradeKey' \in MaybeKey
    BY <1>7, <2>3 DEF TakeSendCipher, SendCipher, Handshakes
  <2>5. DOMAIN messages' \subseteq Nat /\ messages' \in [DOMAIN messages' -> Partial]
    BY <1>7 DEF NoFragments
  <2>6. TypeOK'
    BY <1>1, <1>2, <1>3, <1>7, <2>1, <2>2, <2>4, <2>5
       DEF IInv, TypeOK, Return, brokerVars
  <2>7. Exchange'
    BY <1>1, <1>7 DEF Exchange, Return, brokerVars
  <2> QED
    BY <2>6, <2>7 DEF IInv
<1> QED
  BY <1>4, <1>5, <1>6, <1>7 DEF TakeSyncFrame

\* What a request leaves in place once the session is synchronized.
LEMMA TransmitIInv ==
    ASSUME IInv, NEW cmd \in RequestCommands, NEW plain \in Seq(ChunkTypes),
           Transmit(cmd, plain)
    PROVE  IInv'
<1>1. /\ sequence \in 1 .. SequenceMod - 1 /\ tx \in Ciphers
      /\ toBroker \in Seq(Requests) /\ requests \in 0 .. MaxRequests
      /\ op = "idle" /\ state = "Ready"
  BY DEF IInv, TypeOK, Transmit
<1>2. sequence' \in 1 .. SequenceMod - 1 /\ tx' \in Ciphers
  BY <1>1, NextSequenceType, AdvancedType DEF Transmit
<1>3. requests' \in 0 .. MaxRequests
  BY <1>1, SessionAssumption DEF Transmit
<1>4. PICK torn \in BOOLEAN :
        /\ toBroker' = Append(toBroker, Request(cmd, Sealed(tx, plain), torn))
        /\ state' = AfterWrite(torn)
  BY DEF Transmit
<1>5. Request(cmd, Sealed(tx, plain), torn) \in Requests
  BY <1>1, SealedType DEF Request, Requests
<1>6. /\ toBroker' \in Seq(Requests) /\ Len(toBroker') = Len(toBroker) + 1
      /\ \A i \in 1 .. Len(toBroker) : toBroker'[i] = toBroker[i]
      /\ toBroker'[Len(toBroker) + 1].cmd = cmd
  BY <1>1, <1>4, <1>5, AppendProperties DEF Request
<1>7. state' \in {"Ready", "Failed"}
  BY <1>4 DEF AfterWrite
<1>8. TypeOK'
  BY <1>1, <1>2, <1>3, <1>6, <1>7 DEF IInv, TypeOK, Transmit, startup, brokerVars
<1>9. broker.phase # "hello" /\ Enciphered
      /\ \A i \in 1 .. Len(toBroker) : toBroker[i].cmd \in RequestCommands
  BY <1>1 DEF IInv, Exchange
<1>10. \A i \in 1 .. Len(toBroker') : toBroker'[i].cmd \in RequestCommands
  BY <1>1, <1>6, <1>9
<1>11. Exchange'
  BY <1>1, <1>7, <1>9, <1>10 DEF Exchange, Enciphered, Transmit, brokerVars
<1> QED
  BY <1>8, <1>11 DEF IInv

LEMMA SendIInv == ASSUME IInv, SendRequest \/ SendTrade PROVE IInv'
<1>1. Body \in Seq(ChunkTypes) /\ <<>> \in Seq(ChunkTypes)
  BY DEF Body, NoAccount, ChunkTypes
<1>2. CASE SendRequest
  BY <1>1, <1>2, TransmitIInv, CommandAssumption DEF SendRequest, RequestCommands
<1>3. CASE SendTrade
  BY <1>1, <1>3, TransmitIInv DEF SendTrade, RequestCommands
<1> QED
  BY <1>2, <1>3

LEMMA PollIInv == ASSUME IInv, Poll PROVE IInv'
<1>1. TypeOK'
  BY DEF IInv, TypeOK, Poll, startup, ready, brokerVars
<1>2. Exchange'
  BY DEF IInv, Exchange, Poll, Enciphered, brokerVars
<1> QED
  BY <1>1, <1>2 DEF IInv

LEMMA TakeMessageFrameIInv == ASSUME IInv, TakeMessageFrame PROVE IInv'
<1>1. /\ frame \in Replies /\ frame.body \in Boxes
      /\ broker.phase # "hello" /\ op = "poll" /\ state = "Failed"
      /\ pending' \in Seq(Replies) /\ toClient' \in Seq(Replies)
      /\ Enciphered'
      /\ \A i \in 1 .. Len(toBroker) : toBroker[i].cmd \in RequestCommands
  BY TakesEnciphered DEF TakeMessageFrame, IInv, Exchange
<1> DEFINE m == Completed(messages, frame, PollPlain)
<1>2. PollPlain \in Seq(ChunkTypes)
  BY <1>1, OpenedType DEF PollPlain
<1>3. AfterFrame(rx, frame) \in Ciphers
  BY <1>1, AdvancedType DEF AfterFrame, Boxes, IInv, TypeOK
<1>4. /\ DOMAIN Pushed(messages, frame, PollPlain) \subseteq Nat
      /\ Pushed(messages, frame, PollPlain)
            \in [DOMAIN Pushed(messages, frame, PollPlain) -> Partial]
      /\ m \in Messages
  BY <1>1, <1>2, PushedType DEF IInv, TypeOK
<1>5. m.payload \in Seq(ChunkTypes)
  BY <1>4 DEF Messages
<1>6. CASE Abort
  BY <1>1, <1>6, AbortIInv
<1>7. CASE /\ ~Abort
           /\ rx' = AfterFrame(rx, frame)
           /\ messages' = Pushed(messages, frame, PollPlain)
           /\ \/ UNCHANGED <<state, op, expired, account, readOnly, delivered>>
              \/ /\ state' = "Ready"
                 /\ Return
                 /\ delivered' = Append(delivered, m)
                 /\ \/ UNCHANGED <<account, readOnly>>
                    \/ /\ IsAccountUpdate(m)
                       /\ account' = LastAccount(m)
                       /\ readOnly' = Latched(readOnly, m)
           /\ UNCHANGED <<startup, tx, tradeKey, requests, sequence, toBroker,
                          brokerVars>>
  <2>1. DOMAIN messages' \subseteq Nat /\ messages' \in [DOMAIN messages' -> Partial]
    BY <1>4, <1>7
  <2>2. account' \in ChunkTypes /\ readOnly' \in BOOLEAN
    BY <1>4, <1>5, <1>7, LastAccountRecord, RecordType, LatchedType DEF IInv, TypeOK
  <2>3. delivered' \in Seq(Messages)
    <3>1. delivered' = delivered \/ delivered' = Append(delivered, m)
      BY <1>7
    <3>2. m \in Messages /\ delivered \in Seq(Messages)
      BY <1>4 DEF IInv, TypeOK
    <3> HIDE DEF m
    <3> QED
      BY <3>1, <3>2
  <2>4. /\ state' \in {"Ready", "Failed"} /\ op' \in {"idle", "poll"}
        /\ expired' \in BOOLEAN
        /\ op' # "idle" => state' = "Failed"
        /\ op' = "poll" \/ state' = "Ready"
    BY <1>1, <1>7 DEF IInv, TypeOK, Return
  <2>5. TypeOK'
    BY <1>1, <1>3, <1>7, <2>1, <2>2, <2>3, <2>4
       DEF IInv, TypeOK, startup, brokerVars
  <2>6. Exchange'
    BY <1>1, <1>7, <2>4 DEF Exchange, brokerVars
  <2> QED
    BY <2>5, <2>6 DEF IInv
<1> QED
  BY <1>6, <1>7 DEF TakeMessageFrame

\* A step of the broker changes what is in flight and the broker's own state.
BrokerEffect ==
    /\ UNCHANGED session
    /\ toClient' \in Seq(Replies) /\ toBroker' \in Seq(Requests)
    /\ sent' \in Seq(Messages) /\ pushes' \in 0 .. MaxPushes
    /\ closed' \in BOOLEAN
    /\ broker' \in [phase : BrokerPhases, rx : Ciphers, tx : Ciphers, seq : Nat,
                    open : {broker'.open}]
    /\ DOMAIN broker'.open \subseteq Nat
    /\ broker'.open \in [DOMAIN broker'.open -> Partial]

LEMMA BrokerType == ASSUME IInv, BrokerEffect PROVE TypeOK'
  BY DEF BrokerEffect, IInv, TypeOK, session, startup, ready

LEMMA ReplyType ==
    ASSUME NEW cmd \in FrameCommands, NEW seq \in Nat, NEW fin \in BOOLEAN,
           NEW comp \in BOOLEAN, NEW body \in Boxes \union AuthReplies \union ChallengeReplies
    PROVE  /\ Reply(cmd, seq, fin, comp, body) \in Replies
           /\ Reply(cmd, seq, fin, comp, body).cmd = cmd
           /\ Reply(cmd, seq, fin, comp, body).body = body
  BY DEF Reply, Replies

\* A frame the broker emits on a synchronized session.
LEMMA EmitEnciphered ==
    ASSUME IInv, NEW cmd \in FrameCommands, NEW seq \in Nat, NEW fin \in BOOLEAN,
           NEW comp \in BOOLEAN, NEW plain \in Seq(ChunkTypes),
           Emit(cmd, seq, fin, comp, plain), UNCHANGED pending
    PROVE  toClient' \in Seq(Replies) /\ (Enciphered => Enciphered')
<1>1. broker.tx \in Ciphers /\ toClient \in Seq(Replies)
  BY DEF IInv, TypeOK
<1>2. Sealed(broker.tx, plain) \in Boxes
  BY <1>1, SealedType
<1> DEFINE f == Reply(cmd, seq, fin, comp, Sealed(broker.tx, plain))
<1>3. f \in Replies /\ f.body \in Boxes
  BY <1>2 DEF Reply, Replies
<1>4. toClient' = Append(toClient, f)
  BY DEF Emit
<1> HIDE DEF f
<1>5. /\ toClient' \in Seq(Replies) /\ Len(toClient') = Len(toClient) + 1
      /\ \A i \in 1 .. Len(toClient) : toClient'[i] = toClient[i]
      /\ toClient'[Len(toClient) + 1] = f
  BY <1>1, <1>3, <1>4, AppendProperties
<1> QED
  BY <1>1, <1>3, <1>5 DEF Enciphered

\* What the broker has received is removed from the queue.
LEMMA ArrivedType ==
    ASSUME IInv, NEW cmds, Arrived(cmds), toBroker' = Tail(toBroker)
    PROVE  /\ Head(toBroker) \in Requests /\ Head(toBroker) = toBroker[1]
           /\ Head(toBroker).cmd \in cmds /\ ~Head(toBroker).torn
           /\ toBroker' \in Seq(Requests) /\ Len(toBroker') = Len(toBroker) - 1
           /\ \A i \in 1 .. Len(toBroker') : toBroker'[i] = toBroker[i + 1]
  BY HeadTailProperties DEF IInv, TypeOK, Arrived

\* A broker that is up serves a session that is between calls, or in one.
LEMMA BrokerUpCases ==
    ASSUME IInv, BrokerUp
    PROVE  \/ state = "Connected" /\ op = "idle"
           \/ state = "Authenticated" /\ op = "idle"
           \/ state = "Ready" /\ op = "idle"
           \/ op \in {"challenge", "auth", "sync", "poll"} /\ state = "Failed"
  BY DEF IInv, TypeOK, BrokerUp, Consumed

LEMMA BrokerChallengeIInv == ASSUME IInv, BrokerChallenge PROVE IInv'
<1>1. PICK reply \in ChallengeReplies, own \in BOOLEAN, fin \in BOOLEAN :
        toClient' = Append(toClient, Reply("HELLO",
                        IF own THEN Head(toBroker).seq ELSE 0, fin, FALSE, reply))
  BY DEF BrokerChallenge
<1> DEFINE s == IF own THEN Head(toBroker).seq ELSE 0
           f == Reply("HELLO", s, fin, FALSE, reply)
<1>2. /\ Head(toBroker) \in Requests /\ Head(toBroker) = toBroker[1]
      /\ Head(toBroker).cmd = "HELLO"
      /\ toBroker' \in Seq(Requests) /\ Len(toBroker') = Len(toBroker) - 1
      /\ toBroker # <<>>
  BY ArrivedType DEF BrokerChallenge, Arrived
<1>3. f \in Replies /\ f.cmd = "HELLO" /\ f.body \in ChallengeReplies
  <2>1. s \in Nat
    BY <1>2, SessionAssumption DEF Requests
  <2> HIDE DEF s
  <2>2. reply \in Boxes \union AuthReplies \union ChallengeReplies
    OBVIOUS
  <2>3. "HELLO" \in FrameCommands
    BY DEF FrameCommands
  <2>4. f \in Replies
    BY <2>1, <2>2, <2>3 DEF Reply, Replies
  <2> QED
    BY <2>4 DEF Reply
<1>4. /\ toClient' \in Seq(Replies) /\ Len(toClient') = Len(toClient) + 1
      /\ toClient'[Len(toClient) + 1] = f
  <2>1. toClient \in Seq(Replies) /\ toClient' = Append(toClient, f)
    BY <1>1 DEF IInv, TypeOK
  <2> HIDE DEF f
  <2> QED
    BY <1>3, <2>1, AppendProperties
<1>5. BrokerEffect
  BY <1>2, <1>4 DEF BrokerChallenge, BrokerStep, BrokerEffect, IInv, TypeOK
<1>6. Exchanging("HELLO", ChallengeReplies) => Exchanging("HELLO", ChallengeReplies)'
  <2> SUFFICES ASSUME Exchanging("HELLO", ChallengeReplies)
               PROVE  Exchanging("HELLO", ChallengeReplies)'
    OBVIOUS
  <2>1. /\ broker.phase = "hello"
        /\ pending = <<>> /\ toClient = <<>> /\ Len(toBroker) = 1
    BY <1>2 DEF Exchanging
  <2>2. broker' = broker /\ pending' = pending
    BY DEF BrokerChallenge, BrokerStep, session
  <2> HIDE DEF f
  <2>3. Len(toClient') = 1 /\ toClient'[1] = f
    BY <1>4, <2>1
  <2>4. toBroker' = <<>>
    BY <1>2, <2>1
  <2> QED
    BY <1>3, <2>1, <2>2, <2>3, <2>4 DEF Exchanging
<1>7. Exchange'
  <2>1. op = "challenge" /\ state = "Failed"
    <3>1. toBroker[1].cmd = "HELLO" /\ toBroker # <<>> /\ Len(toBroker) >= 1
      BY <1>2 DEF IInv, TypeOK
    <3>2. BrokerUp
      BY DEF BrokerChallenge, BrokerStep
    <3> QED
      BY <3>1, <3>2, BrokerUpCases
         DEF IInv, Exchange, Exchanging, Quiet, RequestCommands, PlainCommands,
             ReadOnlyCommands
  <2> QED
    BY <1>6, <2>1 DEF IInv, Exchange, BrokerChallenge, BrokerStep, session
<1> QED
  BY <1>5, <1>7, BrokerType DEF IInv

LEMMA BrokerAuthenticatesIInv == ASSUME IInv, BrokerAuthenticates PROVE IInv'
<1>1. PICK result \in AuthReplies, comp \in BOOLEAN :
        /\ toClient' = Append(toClient,
               Reply("AUTH", Head(toBroker).seq, TRUE, comp, result))
        /\ broker' = [broker EXCEPT !.rx = NewCipher(LastValue(result.tlvs, 7)),
                                    !.tx = NewCipher(LastValue(result.tlvs, 7))]
  BY DEF BrokerAuthenticates
<1> DEFINE s == Head(toBroker).seq
           f == Reply("AUTH", s, TRUE, comp, result)
<1>2. /\ Head(toBroker) \in Requests /\ Head(toBroker) = toBroker[1]
      /\ Head(toBroker).cmd = "AUTH"
      /\ toBroker' \in Seq(Requests) /\ Len(toBroker') = Len(toBroker) - 1
      /\ toBroker # <<>>
  BY ArrivedType DEF BrokerAuthenticates, Arrived
<1>3. f \in Replies /\ f.cmd = "AUTH" /\ f.body \in AuthReplies
  <2>1. s \in Nat
    BY <1>2, SessionAssumption DEF Requests
  <2> HIDE DEF s
  <2>2. result \in Boxes \union AuthReplies \union ChallengeReplies
    OBVIOUS
  <2>3. "AUTH" \in FrameCommands
    BY DEF FrameCommands
  <2>4. f \in Replies
    BY <2>1, <2>2, <2>3 DEF Reply, Replies
  <2> QED
    BY <2>4 DEF Reply
<1>4. /\ toClient' \in Seq(Replies) /\ Len(toClient') = Len(toClient) + 1
      /\ toClient'[Len(toClient) + 1] = f
  <2>1. toClient \in Seq(Replies) /\ toClient' = Append(toClient, f)
    BY <1>1 DEF IInv, TypeOK
  <2> HIDE DEF f
  <2> QED
    BY <1>3, <2>1, AppendProperties
<1>5. BrokerEffect
  <2>1. NewCipher(LastValue(result.tlvs, 7)) \in Ciphers
    BY ContentAssumption, LastValueType, NewCipherType DEF AuthResults
  <2> QED
    BY <1>1, <1>2, <1>4, <2>1
       DEF BrokerAuthenticates, BrokerStep, BrokerEffect, IInv, TypeOK
<1>6. Exchanging("AUTH", AuthReplies) => Exchanging("AUTH", AuthReplies)'
  <2> SUFFICES ASSUME Exchanging("AUTH", AuthReplies)
               PROVE  Exchanging("AUTH", AuthReplies)'
    OBVIOUS
  <2>1. /\ broker.phase = "hello"
        /\ pending = <<>> /\ toClient = <<>> /\ Len(toBroker) = 1
    BY <1>2 DEF Exchanging
  <2>2. broker'.phase = broker.phase /\ pending' = pending
    BY <1>1 DEF BrokerAuthenticates, BrokerStep, session, IInv, TypeOK
  <2> HIDE DEF f
  <2>3. Len(toClient') = 1 /\ toClient'[1] = f
    BY <1>4, <2>1
  <2>4. toBroker' = <<>>
    BY <1>2, <2>1
  <2> QED
    BY <1>3, <2>1, <2>2, <2>3, <2>4 DEF Exchanging
<1>7. Exchange'
  <2>1. op = "auth" /\ state = "Failed"
    <3>1. toBroker[1].cmd = "AUTH" /\ toBroker # <<>> /\ Len(toBroker) >= 1
      BY <1>2 DEF IInv, TypeOK
    <3>2. BrokerUp
      BY DEF BrokerAuthenticates, BrokerStep
    <3> QED
      BY <3>1, <3>2, BrokerUpCases
         DEF IInv, Exchange, Exchanging, Quiet, RequestCommands, PlainCommands,
             ReadOnlyCommands
  <2> QED
    BY <1>6, <2>1 DEF IInv, Exchange, BrokerAuthenticates, BrokerStep, session
<1> QED
  BY <1>5, <1>7, BrokerType DEF IInv

LEMMA BrokerReceivesIInv == ASSUME IInv, BrokerReceives PROVE IInv'
<1> DEFINE f == Head(toBroker)
           SyncCmd == f.cmd = "ACCOUNT_STATE"
<1>1. /\ f \in Requests /\ f = toBroker[1]
      /\ f.cmd \in PlainCommands \union {"ACCOUNT_STATE", "TRADE_REQUEST"}
      /\ toBroker' \in Seq(Requests) /\ Len(toBroker') = Len(toBroker) - 1
      /\ \A i \in 1 .. Len(toBroker') : toBroker'[i] = toBroker[i + 1]
      /\ toBroker # <<>> /\ toBroker \in Seq(Requests)
  BY ArrivedType DEF BrokerReceives, Arrived, IInv, TypeOK
<1>2. broker' = [broker EXCEPT
           !.rx = Advanced(broker.rx, f.box.plain),
           !.phase = IF SyncCmd THEN "answering" ELSE broker.phase,
           !.seq = IF SyncCmd THEN f.seq ELSE broker.seq]
  BY DEF BrokerReceives
<1>3. Advanced(broker.rx, f.box.plain) \in Ciphers /\ f.seq \in Nat
  <2>1. f.box.plain \in Seq(ChunkTypes) /\ f.seq \in Nat
    BY <1>1, SessionAssumption DEF Requests, Boxes
  <2>2. broker.rx \in Ciphers
    BY DEF IInv, TypeOK
  <2> HIDE DEF f
  <2> QED
    BY <2>1, <2>2, AdvancedType
<1>4. BrokerEffect
  <2> HIDE DEF f
  <2> QED
    BY <1>1, <1>2, <1>3
       DEF BrokerReceives, BrokerStep, BrokerEffect, IInv, TypeOK, BrokerPhases
<1>5. Enciphered => Enciphered'
  BY DEF Enciphered, BrokerReceives, BrokerStep, session
<1>6. toBroker[1].cmd \notin {"HELLO", "AUTH"} /\ Len(toBroker) >= 1
  BY <1>1 DEF PlainCommands, ReadOnlyCommands
<1>7. \/ op = "sync" /\ state = "Failed"
      \/ op = "poll" \/ state = "Ready"
  BY <1>6, BrokerUpCases
     DEF BrokerReceives, BrokerStep, IInv, Exchange, Exchanging, Quiet
<1>8. CASE op = "sync"
  <2>1. /\ broker.phase = "hello" /\ pending = <<>> /\ toClient = <<>>
        /\ Len(toBroker) = 1 /\ toBroker[1].cmd = "ACCOUNT_STATE"
    BY <1>6, <1>8 DEF IInv, Exchange
  <2>2. broker'.phase = "answering" /\ toBroker' = <<>>
    BY <1>1, <1>2, <2>1 DEF IInv, TypeOK
  <2>3. Enciphered
    BY <2>1 DEF Enciphered
  <2>4. op' = "sync" /\ state' = "Failed"
    BY <1>8 DEF IInv, TypeOK, BrokerReceives, BrokerStep, session
  <2>5. Exchange'
    BY <1>5, <2>2, <2>3, <2>4 DEF Exchange
  <2> QED
    BY <1>4, <2>5, BrokerType DEF IInv
<1>9. CASE op = "poll" \/ state = "Ready"
  <2>1. /\ broker.phase # "hello" /\ Enciphered
        /\ \A i \in 1 .. Len(toBroker) : toBroker[i].cmd \in RequestCommands
    BY <1>9 DEF IInv, Exchange
  <2>2. broker'.phase # "hello"
    BY <1>2, <2>1 DEF IInv, TypeOK
  <2>3. \A i \in 1 .. Len(toBroker') : toBroker'[i].cmd \in RequestCommands
    <3>1. ASSUME NEW i \in 1 .. Len(toBroker') PROVE i + 1 \in 1 .. Len(toBroker)
      BY <1>1
    <3> QED
      BY <1>1, <2>1, <3>1
  <2>4. Exchange'
    BY <1>5, <1>9, <2>1, <2>2, <2>3
       DEF Exchange, IInv, TypeOK, BrokerReceives, BrokerStep, session
  <2> QED
    BY <1>4, <2>4, BrokerType DEF IInv
<1> QED
  BY <1>7, <1>8, <1>9

\* A frame emitted once the synchronization request has arrived.
LEMMA StreamExchange ==
    ASSUME IInv, BrokerUp, UNCHANGED <<session, toBroker>>,
           broker.phase # "hello", broker'.phase # "hello",
           Enciphered => Enciphered'
    PROVE  Exchange'
<1>1. \/ op = "sync" /\ state = "Failed" /\ toBroker = <<>> /\ Enciphered
      \/ /\ op = "poll" \/ state = "Ready"
         /\ Enciphered /\ \A i \in 1 .. Len(toBroker) : toBroker[i].cmd \in RequestCommands
  BY BrokerUpCases DEF IInv, Exchange, Exchanging, Quiet
<1> QED
  BY <1>1 DEF Exchange, session, IInv, TypeOK

LEMMA PushCounted ==
    ASSUME pushes \in 0 .. MaxPushes, pushes < MaxPushes, pushes' = pushes + 1
    PROVE  pushes' \in 0 .. MaxPushes
BY SessionAssumption

LEMMA BrokerSynchronizesIInv == ASSUME IInv, BrokerSynchronizes PROVE IInv'
<1>1. PICK chunk \in Chunks, fin \in BOOLEAN, comp \in BOOLEAN :
        /\ Emit("ACCOUNT_STATE", broker.seq, fin, comp, <<chunk>>)
        /\ broker' = [broker EXCEPT !.tx = Advanced(broker.tx, <<chunk>>),
                                    !.phase = IF fin THEN "streaming" ELSE broker.phase]
  BY DEF BrokerSynchronizes
<1>2. <<chunk>> \in Seq(ChunkTypes) /\ broker.seq \in Nat /\ broker.tx \in Ciphers
  BY ContentAssumption DEF IInv, TypeOK
<1>3. toClient' \in Seq(Replies) /\ (Enciphered => Enciphered')
  <2>1. Emit("ACCOUNT_STATE", broker.seq, fin, comp, <<chunk>>) /\ UNCHANGED pending
    BY <1>1 DEF BrokerSynchronizes, BrokerStep, session
  <2>2. "ACCOUNT_STATE" \in FrameCommands
    BY DEF FrameCommands
  <2> QED
    BY <1>2, <2>1, <2>2, EmitEnciphered
<1>4. Advanced(broker.tx, <<chunk>>) \in Ciphers
  BY <1>2, AdvancedType
<1>5. pushes' \in 0 .. MaxPushes
  <2>1. pushes \in 0 .. MaxPushes  BY DEF IInv, TypeOK
  <2> QED  BY <2>1, PushCounted DEF BrokerSynchronizes
<1>6. BrokerEffect
  BY <1>1, <1>3, <1>4, <1>5
     DEF BrokerSynchronizes, BrokerStep, BrokerEffect, IInv, TypeOK, BrokerPhases
<1>7. broker.phase # "hello" /\ broker'.phase # "hello"
  BY <1>1 DEF BrokerSynchronizes, IInv, TypeOK
<1>8. Exchange'
  BY <1>3, <1>7, StreamExchange DEF BrokerSynchronizes, BrokerStep
<1> QED
  BY <1>6, <1>8, BrokerType DEF IInv

LEMMA BrokerPingsIInv == ASSUME IInv, BrokerPings PROVE IInv'
<1>1. <<>> \in Seq(ChunkTypes)
  OBVIOUS
<1>2. toClient' \in Seq(Replies) /\ (Enciphered => Enciphered')
  BY <1>1, EmitEnciphered DEF BrokerPings, BrokerStep, session, FrameCommands
<1>3. BrokerEffect
  BY <1>2 DEF BrokerPings, BrokerStep, BrokerEffect, IInv, TypeOK
<1>4. Exchange'
  BY <1>2, StreamExchange DEF BrokerPings, BrokerStep
<1> QED
  BY <1>3, <1>4, BrokerType DEF IInv

LEMMA BrokerStreamsIInv == ASSUME IInv, BrokerStreams PROVE IInv'
<1>0. PICK cmd \in {"TRADE_UPDATE", "QUOTES"}, seq \in BrokerSequences,
           chunk \in Chunks, fin \in BOOLEAN, comp \in BOOLEAN :
         StreamFragment(cmd, seq, chunk, fin, comp)
  BY DEF BrokerStreams
<1> DEFINE part == [cmd |-> cmd, payload |-> Extended(seq, chunk)]
           others == DOMAIN broker.open \ {seq}
<1>1. /\ Emit(cmd, seq, fin, comp, <<chunk>>)
      /\ \/ /\ sent' = Append(sent, [cmd |-> cmd, seq |-> seq,
                                     payload |-> Extended(seq, chunk)])
            /\ broker' = [broker EXCEPT !.tx = Advanced(broker.tx, <<chunk>>),
                  !.open = [s \in others |-> broker.open[s]]]
         \/ /\ UNCHANGED sent
            /\ broker' = [broker EXCEPT !.tx = Advanced(broker.tx, <<chunk>>),
                  !.open = [s \in others \union {seq} |->
                               IF s = seq THEN part ELSE broker.open[s]]]
  BY <1>0 DEF StreamFragment
<1>2. /\ <<chunk>> \in Seq(ChunkTypes) /\ seq \in Nat /\ broker.tx \in Ciphers
      /\ cmd \in FrameCommands /\ chunk \in ChunkTypes
  BY ContentAssumption DEF IInv, TypeOK, FrameCommands
<1>3. toClient' \in Seq(Replies) /\ (Enciphered => Enciphered')
  <2>1. Emit(cmd, seq, fin, comp, <<chunk>>) /\ UNCHANGED pending
    BY <1>1 DEF BrokerStreams, BrokerStep, session
  <2> QED
    BY <1>2, <2>1, EmitEnciphered
<1>4. Advanced(broker.tx, <<chunk>>) \in Ciphers
  BY <1>2, AdvancedType
<1>5. Extended(seq, chunk) \in Seq(ChunkTypes)
  BY <1>2 DEF Extended, IInv, TypeOK, Partial
<1>6. /\ part \in Partial
      /\ [cmd |-> cmd, seq |-> seq, payload |-> Extended(seq, chunk)] \in Messages
  BY <1>2, <1>5 DEF Partial, Messages
<1>7. pushes' \in 0 .. MaxPushes
  <2>1. pushes \in 0 .. MaxPushes  BY DEF IInv, TypeOK
  <2> QED  BY <2>1, PushCounted DEF BrokerStreams
<1>8. sent' \in Seq(Messages)
  <2>1. sent \in Seq(Messages)
    BY DEF IInv, TypeOK
  <2> QED
    BY <1>1, <1>6, <2>1
<1>9. DOMAIN broker'.open \subseteq Nat /\ broker'.open \in [DOMAIN broker'.open -> Partial]
  <2>1. /\ DOMAIN broker.open \subseteq Nat
        /\ \A s \in DOMAIN broker.open : broker.open[s] \in Partial
    BY DEF IInv, TypeOK
  <2>2. \/ broker'.open = [s \in others |-> broker.open[s]]
        \/ broker'.open = [s \in others \union {seq} |->
                              IF s = seq THEN part ELSE broker.open[s]]
    BY <1>1 DEF IInv, TypeOK
  <2> QED
    BY <1>2, <1>6, <2>1, <2>2
<1>10. broker' \in [phase : BrokerPhases, rx : Ciphers, tx : Ciphers, seq : Nat,
                    open : {broker'.open}]
       /\ broker'.phase = broker.phase
  BY <1>1, <1>4 DEF IInv, TypeOK
<1>11. BrokerEffect
  BY <1>3, <1>7, <1>8, <1>9, <1>10 DEF BrokerStreams, BrokerStep, BrokerEffect, IInv, TypeOK
<1>12. Exchange'
  BY <1>3, <1>10, StreamExchange DEF BrokerStreams, BrokerStep
<1> QED
  BY <1>11, <1>12, BrokerType DEF IInv

LEMMA BrokerGarblesIInv == ASSUME IInv, BrokerGarbles PROVE IInv'
<1>1. PICK cmd \in {"BAD_HEADER", "OTHER"}, seq \in Nat, fin \in BOOLEAN :
        Emit(cmd, seq, fin, FALSE, <<>>)
  BY DEF BrokerGarbles, IInv, TypeOK
<1>2. <<>> \in Seq(ChunkTypes) /\ cmd \in FrameCommands
  BY DEF FrameCommands
<1>3. toClient' \in Seq(Replies) /\ (Enciphered => Enciphered')
  BY <1>1, <1>2, EmitEnciphered DEF BrokerGarbles, BrokerStep, session
<1>4. pushes' \in 0 .. MaxPushes
  <2>1. pushes \in 0 .. MaxPushes  BY DEF IInv, TypeOK
  <2> QED  BY <2>1, PushCounted DEF BrokerGarbles
<1>5. BrokerEffect
  BY <1>3, <1>4 DEF BrokerGarbles, BrokerStep, BrokerEffect, IInv, TypeOK
<1>6. Exchange'
  BY <1>3, StreamExchange DEF BrokerGarbles, BrokerStep
<1> QED
  BY <1>5, <1>6, BrokerType DEF IInv

LEMMA BrokerClosesIInv == ASSUME IInv, BrokerCloses PROVE IInv'
<1>1. TypeOK'
  BY BrokerType DEF BrokerEffect, BrokerCloses, IInv, TypeOK
<1>2. Exchange'
  BY DEF IInv, Exchange, Exchanging, Quiet, Enciphered, BrokerCloses, session, startup
<1> QED
  BY <1>1, <1>2 DEF IInv

LEMMA StutterIInv == ASSUME IInv, UNCHANGED vars PROVE IInv'
<1>1. TypeOK'
  BY DEF IInv, TypeOK, vars, session, startup, ready, brokerVars
<1>2. Exchange'
  BY DEF IInv, Exchange, Exchanging, Quiet, Enciphered, vars, session, startup,
         brokerVars
<1> QED
  BY <1>1, <1>2 DEF IInv

LEMMA NextIInv == IInv /\ [Next]_vars => IInv'
<1> SUFFICES ASSUME IInv, [Next]_vars PROVE IInv'
  OBVIOUS
<1>1. CASE Calls
  BY <1>1, AuthenticateIInv, SynchronizeIInv, SendIInv, PollIInv DEF Calls
<1>2. CASE Progress
  BY <1>2, TakeChallengeIInv, TakeAuthResultIInv, TakeSyncFrameIInv,
     TakeMessageFrameIInv, ReadSocketIInv, ReadEndIInv, TimeOutIInv DEF Progress
<1>3. CASE Expire
  BY <1>3, ExpireIInv
<1>4. CASE Broker
  BY <1>4, BrokerChallengeIInv, BrokerAuthenticatesIInv, BrokerReceivesIInv,
     BrokerSynchronizesIInv, BrokerPingsIInv, BrokerStreamsIInv,
     BrokerGarblesIInv, BrokerClosesIInv DEF Broker
<1>5. CASE UNCHANGED vars
  BY <1>5, StutterIInv
<1> QED
  BY <1>1, <1>2, <1>3, <1>4, <1>5 DEF Next

THEOREM Inductive == Spec => []IInv
  BY InitIInv, NextIInv, PTL DEF Spec

\* Every variable of the session, the connection and the broker keeps its type:
\* in particular the sequence counter never leaves 1 .. 2^16 - 1, a blocked call
\* always has State::Failed in place, and the bounds on requests hold.
THEOREM TypeCorrect == Spec => []TypeOK
<1>1. IInv => TypeOK
  BY DEF IInv
<1> QED
  BY <1>1, Inductive, PTL


------------------------------------------------------------------------------
(* A consumed session *)

LEMMA ConsumedStep ==
    ASSUME Consumed, [Next]_vars
    PROVE  UNCHANGED <<session, toBroker, toClient>>
<1>1. CASE Calls
  BY <1>1 DEF Calls, Consumed, Authenticate, Synchronize, SendRequest, SendTrade,
              Transmit, Poll
<1>2. CASE Progress
  BY <1>2 DEF Progress, Consumed, TakeChallenge, TakeAuthResult, TakeSyncFrame,
              TakeMessageFrame, Takes, ReadSocket, ReadEnd, MayRead, TimeOut
<1>3. CASE Expire
  BY <1>3 DEF Expire, Consumed
<1>4. CASE Broker
  BY <1>4 DEF Broker, BrokerChallenge, BrokerAuthenticates, BrokerReceives,
              BrokerSynchronizes, BrokerPings, BrokerStreams, BrokerGarbles,
              BrokerCloses, BrokerStep, BrokerUp
<1>5. CASE UNCHANGED vars
  BY <1>5 DEF vars
<1> QED
  BY <1>1, <1>2, <1>3, <1>4, <1>5 DEF Next

\* A consumed session is never used again: it sends, reads and returns nothing.
THEOREM SpentForGood == Spec => ConsumedForGood
<1>1. [Next]_vars => [Consumed => UNCHANGED <<session, toBroker, toClient>>]_vars
  BY ConsumedStep
<1> QED
  BY <1>1, PTL DEF Spec, ConsumedForGood

------------------------------------------------------------------------------
(* Torn frames *)

\* A frame written in part is the last one, and it consumed the session.
TornIsLast ==
    \A i \in 1 .. Len(toBroker) :
        toBroker[i].torn => Consumed /\ i = Len(toBroker)

\* A frame appended by a session that is not consumed.
LEMMA AppendTorn ==
    ASSUME IInv, TornIsLast, ~Consumed, NEW cmd, NEW box, NEW torn \in BOOLEAN,
           toBroker' = Append(toBroker, Request(cmd, box, torn)),
           torn => Consumed'
    PROVE  TornIsLast'
<1>1. toBroker \in Seq(Requests)
  BY DEF IInv, TypeOK
<1>2. \A i \in 1 .. Len(toBroker) : ~toBroker[i].torn
  BY DEF TornIsLast
<1> DEFINE f == Request(cmd, box, torn)
<1>3. f.torn = torn
  BY DEF Request
<1> HIDE DEF f
<1>4. /\ Len(toBroker') = Len(toBroker) + 1 /\ Len(toBroker) \in Nat
      /\ \A i \in 1 .. Len(toBroker) : toBroker'[i] = toBroker[i]
      /\ toBroker'[Len(toBroker) + 1] = f
  BY <1>1 DEF f
<1> QED
  BY <1>2, <1>3, <1>4 DEF TornIsLast

\* A queue that only loses its head, while the session stays as it was.
LEMMA TailTorn ==
    ASSUME IInv, TornIsLast, ~Consumed, toBroker' = Tail(toBroker), toBroker # <<>>
    PROVE  TornIsLast'
<1>1. toBroker \in Seq(Requests)
  BY DEF IInv, TypeOK
<1>2. \A i \in 1 .. Len(toBroker) : ~toBroker[i].torn
  BY DEF TornIsLast
<1>3. /\ Len(toBroker') = Len(toBroker) - 1
      /\ \A i \in 1 .. Len(toBroker') : toBroker'[i] = toBroker[i + 1]
      /\ Len(toBroker) \in Nat
  BY <1>1, HeadTailProperties
<1>4. ASSUME NEW i \in 1 .. Len(toBroker') PROVE i + 1 \in 1 .. Len(toBroker)
  BY <1>3
<1> QED
  BY <1>2, <1>3, <1>4 DEF TornIsLast

LEMMA KeptTorn ==
    ASSUME IInv, TornIsLast, ~Consumed, UNCHANGED toBroker
    PROVE  TornIsLast'
  BY DEF TornIsLast

LEMMA SendAndAwaitTorn ==
    ASSUME IInv, TornIsLast, ~Consumed, NEW cmd, NEW box, NEW call,
           SendAndAwait(cmd, box, call)
    PROVE  TornIsLast'
<1>1. PICK torn \in BOOLEAN :
        /\ toBroker' = Append(toBroker, Request(cmd, box, torn))
        /\ op' = IF torn THEN "idle" ELSE call
  BY DEF SendAndAwait
<1>2. torn => Consumed'
  BY <1>1 DEF SendAndAwait, Consumed
<1> QED
  BY <1>1, <1>2, AppendTorn

LEMMA TransmitTorn ==
    ASSUME IInv, TornIsLast, NEW cmd, NEW plain, Transmit(cmd, plain)
    PROVE  TornIsLast'
<1>1. PICK torn \in BOOLEAN :
        /\ toBroker' = Append(toBroker, Request(cmd, Sealed(tx, plain), torn))
        /\ state' = AfterWrite(torn)
  BY DEF Transmit
<1>2. ~Consumed /\ (torn => Consumed')
  BY <1>1 DEF Transmit, Consumed, AfterWrite
<1> QED
  BY <1>1, <1>2, AppendTorn

LEMMA TornStep == IInv /\ TornIsLast /\ [Next]_vars => TornIsLast'
<1> SUFFICES ASSUME IInv, TornIsLast, [Next]_vars PROVE TornIsLast'
  OBVIOUS
<1>1. CASE Consumed
  BY <1>1, ConsumedStep DEF TornIsLast, Consumed, session
<1>2. CASE UNCHANGED vars
  BY <1>2 DEF vars, session, TornIsLast, Consumed
<1>3. CASE ~Consumed /\ Calls
  BY <1>3, SendAndAwaitTorn, TransmitTorn, KeptTorn
     DEF Calls, Authenticate, Synchronize, SendRequest, SendTrade, Poll
<1>4. CASE ~Consumed /\ TakeChallenge
  BY <1>4, SendAndAwaitTorn, KeptTorn DEF TakeChallenge, Abort
<1>5. CASE ~Consumed /\ (Progress \/ Expire) /\ ~TakeChallenge
  BY <1>5, KeptTorn
     DEF Progress, TakeAuthResult, TakeSyncFrame, TakeMessageFrame, ReadSocket,
         ReadEnd, TimeOut, Abort, Expire
<1>6. CASE ~Consumed /\ Broker
  BY <1>6, KeptTorn, TailTorn
     DEF Broker, BrokerChallenge, BrokerAuthenticates, BrokerReceives, Arrived,
         BrokerSynchronizes, BrokerPings, BrokerStreams, BrokerGarbles, BrokerCloses
<1> QED
  BY <1>1, <1>2, <1>3, <1>4, <1>5, <1>6 DEF Next

\* No byte is ever written after a frame of which only a part was written.
THEOREM NothingFollowsATornWrite == Spec => []NothingAfterTornWrite
<1>1. Init => TornIsLast
  BY DEF Init, TornIsLast
<1>2. TornIsLast => NothingAfterTornWrite
  BY DEF TornIsLast, NothingAfterTornWrite
<1> QED
  BY <1>1, <1>2, TornStep, Inductive, PTL DEF Spec

------------------------------------------------------------------------------
(* The account a session speaks for, and what it may send *)

InUse == op = "poll" \/ state = "Ready"
Starting ==
    state \in {"Connected", "Authenticated"} \/ op \in {"challenge", "auth", "sync"}

\* Every account record of an update names the requested login.
OwnRecords(m) ==
    IsAccountUpdate(m) => \A i \in Records(m.payload) : m.payload[i].login = Login

\* Some record of an update forbids mutations.
ForbiddenBy(m) == IsAccountUpdate(m) /\ \E i \in Records(m.payload) : m.payload[i].ro

\* Nothing is delivered before the session is synchronized; from then on the
\* flag holds whatever any accepted record said, and the account is the caller's.
AccountInv ==
    /\ Starting => delivered = <<>>
    /\ InUse => /\ ToldReadOnly => readOnly
                /\ account.login = Login
                /\ \A k \in DOMAIN delivered : OwnRecords(delivered[k])

LEMMA ToldReadOnlyDef ==
    ToldReadOnly <=> \/ profileReadOnly
                     \/ \E i \in Records(payload) : payload[i].ro
                     \/ \E k \in DOMAIN delivered : ForbiddenBy(delivered[k])
  BY DEF ToldReadOnly, ForbiddenBy

LEMMA AccountKept ==
    ASSUME AccountInv, Starting' => Starting, InUse' => InUse,
           UNCHANGED <<profileReadOnly, payload, delivered, account, readOnly>>
    PROVE  AccountInv'
<1>1. ToldReadOnly' <=> ToldReadOnly
  BY ToldReadOnlyDef, Zenon DEF ToldReadOnly
<1> QED
  BY <1>1 DEF AccountInv

LEMMA AccountCalls == ASSUME IInv, AccountInv, Calls PROVE AccountInv'
<1>1. CASE Authenticate
  BY <1>1, AccountKept DEF Authenticate, SendAndAwait, ready, InUse, Starting
<1>2. CASE Synchronize
  BY <1>2 DEF Synchronize, SendAndAwait, AccountInv, InUse, Starting
<1>3. ASSUME NEW cmd, NEW plain, Transmit(cmd, plain) PROVE AccountInv'
  BY <1>3, AccountKept DEF Transmit, AfterWrite, startup, InUse, Starting
<1>4. CASE Poll
  BY <1>4, AccountKept DEF Poll, startup, ready, InUse, Starting
<1> QED
  BY <1>1, <1>2, <1>3, <1>4 DEF Calls, SendRequest, SendTrade

LEMMA AccountAbort == ASSUME AccountInv, Abort PROVE AccountInv'
  BY DEF Abort, Return, AccountInv, InUse, Starting

LEMMA AccountSynchronized == ASSUME IInv, AccountInv, TakeSyncFrame PROVE AccountInv'
<1>1. op = "sync" /\ state = "Failed" /\ delivered = <<>>
  BY DEF TakeSyncFrame, Takes, AccountInv, Starting, IInv, TypeOK
<1>2. CASE Abort
  BY <1>2, AccountAbort
<1>3. CASE UNCHANGED <<state, op, delivered>>
  BY <1>1, <1>3 DEF AccountInv, InUse, Starting
<1>4. ASSUME NEW whole, whole = payload \o SyncPlain,
             Parses(whole) /\ TheAccount(whole).login = Login,
             payload' = whole, state' = "Ready", Return,
             account' = TheAccount(whole),
             readOnly' = (TheAccount(whole).ro \/ profileReadOnly),
             UNCHANGED <<profileReadOnly, delivered>>
      PROVE  AccountInv'
  <2>1. PICK i \in Records(whole) : Records(whole) = {i}
    BY <1>4 DEF Parses
  <2>2. (CHOOSE k \in Records(whole) : TRUE) = i
    BY <2>1
  <2>3. TheAccount(whole) = whole[i]
    BY <2>2 DEF TheAccount
  <2>4. (\E k \in Records(whole) : whole[k].ro) <=> whole[i].ro
    BY <2>1
  <2>5. delivered' = <<>>
    BY <1>1, <1>4
  <2>6. ToldReadOnly' => profileReadOnly' \/ \E k \in Records(payload') : payload'[k].ro
    BY <2>5 DEF ToldReadOnly
  <2>7. ToldReadOnly' => readOnly'
    BY <1>4, <2>3, <2>4, <2>6
  <2>8. ~Starting'
    BY <1>4 DEF Starting, Return
  <2> QED
    BY <1>4, <2>5, <2>7, <2>8 DEF AccountInv
<1> QED
  BY <1>2, <1>3, <1>4 DEF TakeSyncFrame, startup, ready

LEMMA AccountUpdated == ASSUME IInv, AccountInv, TakeMessageFrame PROVE AccountInv'
<1> DEFINE m == Completed(messages, frame, PollPlain)
<1>1. op = "poll" /\ state = "Failed" /\ InUse /\ delivered \in Seq(Messages)
  BY DEF TakeMessageFrame, Takes, InUse, IInv, TypeOK
<1>2. CASE Abort
  BY <1>2, AccountAbort
<1>3. CASE UNCHANGED <<profileReadOnly, payload, state, op, account, readOnly, delivered>>
  BY <1>3, AccountKept DEF InUse, Starting
<1>4. CASE /\ UNCHANGED <<profileReadOnly, payload>>
           /\ state' = "Ready" /\ Return
           /\ IsAccountUpdate(m) => Acceptable55(m)
           /\ delivered' = Append(delivered, m)
           /\ \/ ~IsAccountUpdate(m) /\ UNCHANGED <<account, readOnly>>
              \/ /\ IsAccountUpdate(m)
                 /\ account' = LastAccount(m)
                 /\ readOnly' = Latched(readOnly, m)
  <2>1. m \in Messages
    BY TakesEnciphered, OpenedType, PushedType
       DEF TakeMessageFrame, PollPlain, IInv, TypeOK
  <2>2. OwnRecords(m)
    BY <1>4 DEF OwnRecords, Acceptable55
  <2>3. ForbiddenBy(m) => readOnly'
    BY <1>4 DEF ForbiddenBy, Latched
  <2>4. readOnly => readOnly'
    BY <1>4 DEF Latched
  <2>5. account'.login = Login
    BY <1>1, <1>4, <2>1, <2>2, LastAccountRecord DEF OwnRecords, AccountInv
  <2> HIDE DEF m
  <2>6. /\ DOMAIN delivered' = DOMAIN delivered \union {Len(delivered) + 1}
        /\ \A k \in DOMAIN delivered : delivered'[k] = delivered[k]
        /\ delivered'[Len(delivered) + 1] = m
    BY <1>1, <1>4, <2>1
  <2>7. \A k \in DOMAIN delivered' : OwnRecords(delivered'[k])
    BY <1>1, <2>2, <2>6 DEF AccountInv
  <2>8. ToldReadOnly' => readOnly'
    <3>1. ToldReadOnly' <=> \/ profileReadOnly'
                            \/ \E i \in Records(payload') : payload'[i].ro
                            \/ \E k \in DOMAIN delivered' : ForbiddenBy(delivered'[k])
      BY DEF ToldReadOnly, ForbiddenBy
    <3>2. ToldReadOnly => readOnly
      BY <1>1 DEF AccountInv
    <3> QED
      BY <1>4, <2>3, <2>4, <2>6, <3>1, <3>2, ToldReadOnlyDef
  <2>9. ~Starting'
    BY <1>4 DEF Starting, Return
  <2> QED
    BY <2>5, <2>7, <2>8, <2>9 DEF AccountInv
<1> QED
  BY <1>2, <1>3, <1>4 DEF TakeMessageFrame, startup

LEMMA AccountStep == IInv /\ AccountInv /\ [Next]_vars => AccountInv'
<1> SUFFICES ASSUME IInv, AccountInv, [Next]_vars PROVE AccountInv'
  OBVIOUS
<1>1. CASE Calls
  BY <1>1, AccountCalls
<1>2. CASE TakeChallenge
  <2>1. CASE Abort
    BY <2>1, AccountAbort
  <2>2. CASE ~Abort
    BY <1>2, <2>2, AccountKept
       DEF TakeChallenge, Takes, SendAndAwait, ready, InUse, Starting
  <2> QED
    BY <2>1, <2>2
<1>3. CASE TakeAuthResult
  <2>1. CASE Abort
    BY <2>1, AccountAbort
  <2>2. CASE ~Abort
    BY <1>3, <2>2, AccountKept
       DEF TakeAuthResult, Takes, Return, ready, InUse, Starting
  <2> QED
    BY <2>1, <2>2
<1>4. CASE TakeSyncFrame
  BY <1>4, AccountSynchronized
<1>5. CASE TakeMessageFrame
  BY <1>5, AccountUpdated
<1>6. CASE ReadSocket \/ ReadEnd
  <2>1. CASE Abort
    BY <2>1, AccountAbort
  <2>2. CASE ~Abort
    BY <1>6, <2>2, AccountKept
       DEF ReadSocket, ReadEnd, startup, ready, InUse, Starting
  <2> QED
    BY <2>1, <2>2
<1>7. CASE TimeOut
  <2>1. CASE Abort
    BY <2>1, AccountAbort
  <2>2. CASE ~Abort
    BY <1>7, <2>2, AccountKept DEF TimeOut, Return, startup, ready, InUse, Starting
  <2> QED
    BY <2>1, <2>2
<1>8. CASE Expire
  BY <1>8, AccountKept DEF Expire, startup, ready, InUse, Starting
<1>9. CASE Broker
  BY <1>9, AccountKept
     DEF Broker, BrokerChallenge, BrokerAuthenticates, BrokerReceives,
         BrokerSynchronizes, BrokerPings, BrokerStreams, BrokerGarbles,
         BrokerCloses, BrokerStep, session, startup, ready, InUse, Starting
<1>10. CASE UNCHANGED vars
  BY <1>10, AccountKept DEF vars, session, startup, ready, InUse, Starting
<1> QED
  BY <1>1, <1>2, <1>3, <1>4, <1>5, <1>6, <1>7, <1>8, <1>9, <1>10
     DEF Next, Progress

LEMMA AccountInvariant == Spec => []AccountInv
<1>1. Init => AccountInv
  BY DEF Init, AccountInv, InUse
<1> QED
  BY <1>1, AccountStep, Inductive, PTL DEF Spec

\* A synchronized session speaks for the requested login, and no message it
\* returned carries another account.
THEOREM OnlyItsOwnAccount == Spec => []OwnAccountOnly
<1>1. AccountInv => OwnAccountOnly
  BY DEF AccountInv, InUse, OwnRecords, OwnAccountOnly
<1> QED
  BY <1>1, AccountInvariant, PTL

\* After any account record said read-only, no mutating frame is written.
THEOREM ReadOnlyIsForGood == Spec => NoMutationOnceReadOnly
<1> DEFINE A == ToldReadOnly /\ state = "Ready" /\ Len(toBroker') > Len(toBroker)
                  => toBroker'[Len(toBroker')].cmd \in ReadOnlyCommands
<1>1. IInv /\ AccountInv /\ [Next]_vars => A
  <2> SUFFICES ASSUME IInv, AccountInv, [Next]_vars, ToldReadOnly, state = "Ready",
                      Len(toBroker') > Len(toBroker)
               PROVE  toBroker'[Len(toBroker')].cmd \in ReadOnlyCommands
    OBVIOUS
  <2>1. readOnly /\ op = "idle" /\ toBroker \in Seq(Requests) /\ Len(toBroker) \in Nat
    BY DEF AccountInv, InUse, IInv, TypeOK
  <2>2. ASSUME NEW cmd \in ReadOnlyCommands, NEW plain, Transmit(cmd, plain)
        PROVE  toBroker'[Len(toBroker')].cmd \in ReadOnlyCommands
    <3>1. PICK torn \in BOOLEAN :
            toBroker' = Append(toBroker, Request(cmd, Sealed(tx, plain), torn))
      BY <2>2 DEF Transmit
    <3> QED
      BY <2>1, <3>1 DEF Request
  <2>3. CASE SendRequest
    BY <2>1, <2>2, <2>3 DEF SendRequest
  <2>4. CASE Broker
    <3>1. toBroker' = toBroker \/ (toBroker # <<>> /\ toBroker' = Tail(toBroker))
      BY <2>4 DEF Broker, BrokerChallenge, BrokerAuthenticates, BrokerReceives, Arrived,
              BrokerSynchronizes, BrokerPings, BrokerStreams, BrokerGarbles, BrokerCloses
    <3> QED
      BY <2>1, <3>1
  <2>5. CASE ~SendRequest /\ ~Broker
    BY <2>1, <2>5
       DEF Next, Calls, Authenticate, Synchronize, SendTrade, Poll, Progress,
           TakeChallenge, TakeAuthResult, TakeSyncFrame, TakeMessageFrame, Takes,
           ReadSocket, ReadEnd, MayRead, TimeOut, Expire, vars
  <2> QED
    BY <2>3, <2>4, <2>5
<1>2. IInv /\ AccountInv /\ [Next]_vars => [A]_vars
  BY <1>1
<1>3. [][Next]_vars /\ []IInv /\ []AccountInv => [][A]_vars
  BY <1>2, PTL
<1> QED
  BY <1>3, AccountInvariant, Inductive, PTL DEF Spec, NoMutationOnceReadOnly

------------------------------------------------------------------------------
(* The numbers of the requests in flight *)

\* t is the number that follows s after d steps, with d short of a full round.
Follows(t, s, d) == t = s + d \/ t = s + d - (SequenceMod - 1)

\* Requests in flight are numbered without a gap, up to the next number to use.
Numbered ==
    /\ \A i, j \in 1 .. Len(toBroker) :
         i < j /\ j - i < SequenceMod - 1 =>
             Follows(toBroker[j].seq, toBroker[i].seq, j - i)
    /\ \A i \in 1 .. Len(toBroker) :
         Len(toBroker) + 1 - i < SequenceMod - 1 =>
             Follows(sequence, toBroker[i].seq, Len(toBroker) + 1 - i)

\* One step of the counter: the next number, or 1 again after 2^16 - 1.
LEMMA NextSequenceIs ==
    ASSUME NEW s \in 1 .. SequenceMod - 1
    PROVE  NextSequence(s) = IF s = SequenceMod - 1 THEN 1 ELSE s + 1
<1>1. CASE s = SequenceMod - 1
  <2>1. (s + 1) % SequenceMod = 0
    BY <1>1, SessionAssumption
  <2> QED
    BY <1>1, <2>1 DEF NextSequence
<1>2. CASE s # SequenceMod - 1
  <2>1. (s + 1) % SequenceMod = s + 1
    BY <1>2, SessionAssumption
  <2> QED
    BY <1>2, <2>1 DEF NextSequence
<1> QED
  BY <1>1, <1>2

LEMMA NumberInRange ==
    ASSUME IInv, NEW i \in 1 .. Len(toBroker)
    PROVE  toBroker[i].seq \in 1 .. SequenceMod - 1
<1>1. toBroker \in Seq(Requests)
  BY DEF IInv, TypeOK
<1>2. toBroker[i] \in Requests
  BY <1>1, ElementOfSeq
<1> QED
  BY <1>2 DEF Requests

LEMMA FollowsNext ==
    ASSUME NEW t \in 1 .. SequenceMod - 1, NEW s \in 1 .. SequenceMod - 1,
           NEW d \in Nat, Follows(t, s, d), d + 1 < SequenceMod - 1
    PROVE  Follows(NextSequence(t), s, d + 1)
  BY NextSequenceIs, SessionAssumption DEF Follows

\* The number in use goes to the new frame, and the counter moves on.
LEMMA AppendNumbered ==
    ASSUME IInv, Numbered, NEW cmd, NEW box, NEW torn,
           toBroker' = Append(toBroker, Request(cmd, box, torn)),
           sequence' = NextSequence(sequence)
    PROVE  Numbered'
<1>1. toBroker \in Seq(Requests) /\ sequence \in 1 .. SequenceMod - 1
  BY DEF IInv, TypeOK
<1> DEFINE f == Request(cmd, box, torn)
           n == Len(toBroker)
<1>2. f.seq = sequence
  BY DEF Request
<1> HIDE DEF f
<1>3. /\ n \in Nat /\ Len(toBroker') = n + 1
      /\ \A i \in 1 .. n : toBroker'[i] = toBroker[i]
      /\ toBroker'[n + 1] = f
  BY <1>1 DEF f
<1>4. \A i \in 1 .. n : toBroker[i].seq \in 1 .. SequenceMod - 1
  BY NumberInRange
<1>5. SequenceMod \in Nat
  BY SessionAssumption
<1> HIDE DEF n
<1>6. ASSUME NEW i \in 1 .. n + 1, NEW j \in 1 .. n + 1, i < j, j - i < SequenceMod - 1
      PROVE  Follows(toBroker'[j].seq, toBroker'[i].seq, j - i)
  <2>1. CASE j \in 1 .. n
    <3>1. i \in 1 .. n
      BY <1>3, <1>6, <2>1
    <3> QED
      BY <1>3, <1>6, <2>1, <3>1 DEF Numbered, n
  <2>2. CASE j = n + 1
    <3>1. i \in 1 .. n /\ n + 1 - i < SequenceMod - 1
      BY <1>3, <1>6, <2>2
    <3>2. Follows(sequence, toBroker[i].seq, n + 1 - i)
      BY <3>1 DEF Numbered, n
    <3> QED
      BY <1>2, <1>3, <2>2, <3>1, <3>2
  <2> QED
    BY <1>3, <2>1, <2>2
<1>7. ASSUME NEW i \in 1 .. n + 1, n + 2 - i < SequenceMod - 1
      PROVE  Follows(sequence', toBroker'[i].seq, n + 2 - i)
  <2>1. CASE i \in 1 .. n
    <3>1. n + 1 - i \in Nat /\ (n + 1 - i) + 1 < SequenceMod - 1
          /\ (n + 1 - i) + 1 = n + 2 - i /\ n + 1 - i < SequenceMod - 1
      BY <1>3, <1>5, <1>7, <2>1
    <3>2. Follows(sequence, toBroker[i].seq, n + 1 - i)
      BY <2>1, <3>1 DEF Numbered, n
    <3>3. Follows(NextSequence(sequence), toBroker[i].seq, (n + 1 - i) + 1)
      BY <1>1, <1>4, <2>1, <3>1, <3>2, FollowsNext
    <3> QED
      BY <1>3, <2>1, <3>1, <3>3
  <2>2. CASE i = n + 1
    <3>1. NextSequence(sequence) = IF sequence = SequenceMod - 1 THEN 1 ELSE sequence + 1
      BY <1>1, NextSequenceIs
    <3>2. n + 2 - i = 1
      BY <1>3, <2>2
    <3>3. toBroker'[i].seq = sequence
      BY <1>2, <1>3, <2>2
    <3>4. Follows(sequence', sequence, 1)
      BY <1>1, <1>5, <3>1 DEF Follows
    <3> QED
      BY <3>2, <3>3, <3>4
  <2> QED
    BY <1>3, <2>1, <2>2
<1>8. Len(toBroker') + 1 = n + 2 /\ Len(toBroker') = n + 1
  BY <1>3
<1>9. \A i, j \in 1 .. Len(toBroker') :
        i < j /\ j - i < SequenceMod - 1 =>
            Follows(toBroker'[j].seq, toBroker'[i].seq, j - i)
  BY <1>6, <1>8
<1>10. \A i \in 1 .. Len(toBroker') :
         Len(toBroker') + 1 - i < SequenceMod - 1 =>
             Follows(sequence', toBroker'[i].seq, Len(toBroker') + 1 - i)
  <2> SUFFICES ASSUME NEW i \in 1 .. Len(toBroker'),
                      Len(toBroker') + 1 - i < SequenceMod - 1
               PROVE  Follows(sequence', toBroker'[i].seq, Len(toBroker') + 1 - i)
    OBVIOUS
  <2>1. i \in 1 .. n + 1 /\ Len(toBroker') + 1 - i = n + 2 - i
    BY <1>3, <1>8
  <2> QED
    BY <1>7, <2>1
<1> QED
  BY <1>9, <1>10 DEF Numbered, Follows

LEMMA TailNumbered ==
    ASSUME IInv, Numbered, toBroker' = Tail(toBroker), toBroker # <<>>,
           UNCHANGED sequence
    PROVE  Numbered'
<1>1. toBroker \in Seq(Requests)
  BY DEF IInv, TypeOK
<1> DEFINE n == Len(toBroker)
<1>2. /\ Len(toBroker') = n - 1 /\ n \in Nat /\ n > 0
      /\ \A i \in 1 .. Len(toBroker') : toBroker'[i] = toBroker[i + 1]
  BY <1>1, HeadTailProperties
<1> HIDE DEF n
<1>3. ASSUME NEW i \in 1 .. n - 1, NEW j \in 1 .. n - 1, i < j, j - i < SequenceMod - 1
      PROVE  Follows(toBroker'[j].seq, toBroker'[i].seq, j - i)
  <2>1. /\ i + 1 \in 1 .. n /\ j + 1 \in 1 .. n /\ i + 1 < j + 1
        /\ (j + 1) - (i + 1) = j - i
    BY <1>2, <1>3
  <2>2. Follows(toBroker[j + 1].seq, toBroker[i + 1].seq, (j + 1) - (i + 1))
    BY <1>3, <2>1 DEF Numbered, n
  <2> QED
    BY <1>2, <1>3, <2>1, <2>2
<1>4. ASSUME NEW i \in 1 .. n - 1, n - i < SequenceMod - 1
      PROVE  Follows(sequence, toBroker'[i].seq, n - i)
  <2>1. i + 1 \in 1 .. n /\ n + 1 - (i + 1) = n - i
    BY <1>2, <1>4
  <2>2. Follows(sequence, toBroker[i + 1].seq, n + 1 - (i + 1))
    BY <1>4, <2>1 DEF Numbered, n
  <2> QED
    BY <1>2, <1>4, <2>1, <2>2
<1>5. Len(toBroker') + 1 = n
  BY <1>2
<1> QED
  BY <1>2, <1>3, <1>4, <1>5 DEF Numbered

LEMMA KeptNumbered == ASSUME Numbered, UNCHANGED <<sequence, toBroker>> PROVE Numbered'
  BY DEF Numbered

LEMMA SentNumbered ==
    ASSUME IInv, Numbered, NEW cmd, NEW box, NEW plain, NEW call,
           SendAndAwait(cmd, box, call) \/ Transmit(cmd, plain)
    PROVE  Numbered'
<1>1. CASE SendAndAwait(cmd, box, call)
  <2>1. PICK torn \in BOOLEAN : toBroker' = Append(toBroker, Request(cmd, box, torn))
    BY <1>1 DEF SendAndAwait
  <2> QED
    BY <1>1, <2>1, AppendNumbered DEF SendAndAwait
<1>2. CASE Transmit(cmd, plain)
  <2>1. PICK torn \in BOOLEAN :
          toBroker' = Append(toBroker, Request(cmd, Sealed(tx, plain), torn))
    BY <1>2 DEF Transmit
  <2> QED
    BY <1>2, <2>1, AppendNumbered DEF Transmit
<1> QED
  BY <1>1, <1>2

LEMMA NumberedStep == IInv /\ Numbered /\ [Next]_vars => Numbered'
<1> SUFFICES ASSUME IInv, Numbered, [Next]_vars PROVE Numbered'
  OBVIOUS
<1>1. CASE UNCHANGED vars
  BY <1>1, KeptNumbered DEF vars, session
<1>2. CASE Calls
  BY <1>2, SentNumbered, KeptNumbered
     DEF Calls, Authenticate, Synchronize, SendRequest, SendTrade, Poll
<1>3. CASE TakeChallenge
  BY <1>3, SentNumbered, KeptNumbered DEF TakeChallenge, Abort
<1>4. CASE (Progress \/ Expire) /\ ~TakeChallenge
  BY <1>4, KeptNumbered
     DEF Progress, TakeAuthResult, TakeSyncFrame, TakeMessageFrame, ReadSocket,
         ReadEnd, TimeOut, Abort, Expire
<1>5. CASE Broker
  BY <1>5, KeptNumbered, TailNumbered
     DEF Broker, BrokerStep, session, BrokerChallenge, BrokerAuthenticates,
         BrokerReceives, Arrived, BrokerSynchronizes, BrokerPings, BrokerStreams,
         BrokerGarbles, BrokerCloses
<1> QED
  BY <1>1, <1>2, <1>3, <1>4, <1>5 DEF Next

\* No two requests in flight carry the same number, and none carries zero, as long
\* as fewer than 2^16 - 1 are in flight, however often the counter has wrapped.
THEOREM RequestsAreDistinct == Spec => []RequestsDistinct
<1>1. Init => Numbered
  BY DEF Init, Numbered
<1>2. IInv /\ Numbered => RequestsDistinct
  <2> SUFFICES ASSUME IInv, Numbered PROVE RequestsDistinct
    OBVIOUS
  <2>1. \A i \in 1 .. Len(toBroker) : toBroker[i].seq \in 1 .. SequenceMod - 1
    BY NumberInRange
  <2>2. ASSUME NEW i \in 1 .. Len(toBroker), NEW j \in 1 .. Len(toBroker),
               i < j, j - i < SequenceMod - 1
        PROVE  toBroker[i].seq # toBroker[j].seq
    <3>1. Follows(toBroker[j].seq, toBroker[i].seq, j - i)
      BY <2>2 DEF Numbered
    <3>2. toBroker \in Seq(Requests)
      BY DEF IInv, TypeOK
    <3>3. Len(toBroker) \in Nat
      BY <3>2
    <3> QED
      BY <2>1, <2>2, <3>1, <3>3, SessionAssumption DEF Follows
  <2> QED
    BY <2>1, <2>2, SessionAssumption DEF RequestsDistinct
<1> QED
  BY <1>1, <1>2, NumberedStep, Inductive, PTL DEF Spec

=============================================================================
