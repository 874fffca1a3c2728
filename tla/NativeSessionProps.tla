------------------------- MODULE NativeSessionProps -------------------------
(***************************************************************************)
(* What makes a native session correct.                                    *)
(***************************************************************************)
EXTENDS NativeSession

MaybeKey == Material \union {NoKey}
Boxes == [key : MaybeKey, at : Nat, plain : Seq(ChunkTypes)]
Handshakes ==
    [phase : Phases, challenge : BOOLEAN, build : Nat, sessionKey : MaybeKey,
     tradeKey : MaybeKey, cipher : Ciphers, result : Seq(AuthReplies)]
RequestCommands == PlainCommands \union {"TRADE_REQUEST"}
Requests ==
    [cmd : RequestCommands \union {"HELLO", "AUTH", "ACCOUNT_STATE"},
     seq : 1 .. SequenceMod - 1, box : Boxes, torn : BOOLEAN]
FrameCommands ==
    {"HELLO", "AUTH", "ACCOUNT_STATE", "PING", "TRADE_UPDATE", "QUOTES",
     "BAD_HEADER", "OTHER"}
Replies ==
    [cmd : FrameCommands, seq : Nat, fin : BOOLEAN, comp : BOOLEAN,
     body : Boxes \union AuthReplies \union ChallengeReplies]
Partial == [cmd : FrameCommands, payload : Seq(ChunkTypes)]
Messages == [cmd : FrameCommands, seq : Nat, payload : Seq(ChunkTypes)]
BrokerPhases == {"hello", "answering", "streaming"}

\* The shapes of the session's, the connection's and the broker's state.  A
\* blocked call has State::Failed in place.
TypeOK ==
    /\ state \in {"Connected", "Authenticated", "Ready", "Failed"}
    /\ op \in {"idle", "challenge", "auth", "sync", "poll"}
    /\ op # "idle" => state = "Failed"
    /\ expired \in BOOLEAN /\ closed \in BOOLEAN
    /\ hs \in Handshakes
    /\ awaited \in Nat /\ sequence \in 1 .. SequenceMod - 1
    /\ payload \in Seq(ChunkTypes) /\ account \in ChunkTypes
    /\ readOnly \in BOOLEAN /\ profileReadOnly \in BOOLEAN
    /\ rx \in Ciphers /\ tx \in Ciphers /\ tradeKey \in MaybeKey
    /\ DOMAIN messages \subseteq Nat /\ messages \in [DOMAIN messages -> Partial]
    /\ delivered \in Seq(Messages) /\ sent \in Seq(Messages)
    /\ requests \in 0 .. MaxRequests /\ pushes \in 0 .. MaxPushes
    /\ pending \in Seq(Replies) /\ toClient \in Seq(Replies)
    /\ toBroker \in Seq(Requests)
    /\ broker \in [phase : BrokerPhases, rx : Ciphers, tx : Ciphers, seq : Nat,
                    open : {broker.open}]
    /\ DOMAIN broker.open \subseteq Nat /\ broker.open \in [DOMAIN broker.open -> Partial]

\* Consecutive enciphered payloads: they start where cipher c stands and end
\* where cipher d stands, with no gap and no overlap.
Chained(c, boxes, d) ==
    IF boxes = <<>> THEN c = d
    ELSE /\ InStep(c, boxes[1])
         /\ \A i \in 1 .. Len(boxes) - 1 :
              InStep(Advanced([key |-> boxes[i].key, pos |-> boxes[i].at], boxes[i].plain),
                     boxes[i + 1])
         /\ d = LET last == boxes[Len(boxes)] IN
                Advanced([key |-> last.key, pos |-> last.at], last.plain)

Boxed(frames) == [i \in DOMAIN frames |-> frames[i].body]
Requested(frames) == [i \in DOMAIN frames |-> frames[i].box]

\* While a session is in use, everything in flight from the broker deciphers:
\* the receive cipher stands where the first unread payload was enciphered, and
\* the broker's stands where the last one ended, across idle polls, partial
\* messages, skipped pings and frames that were read but not taken.
InboundInStep ==
    op \in {"sync", "poll"} \/ state = "Ready" =>
        Chained(rx, Boxed(pending \o toClient), broker.tx)

\* The same for what the session sends, from the synchronization request on,
\* although the transmit cipher moves from the handshake to the session.
OutboundInStep ==
    /\ op = "poll" \/ state = "Ready" => Chained(broker.rx, Requested(toBroker), tx)
    /\ op = "sync" \/ state = "Authenticated" =>
           Chained(broker.rx, Requested(toBroker), hs.cipher)

\* Neither side ever deciphers with another key, or at another position, than the
\* other enciphered with.
CiphersInStep == InboundInStep /\ OutboundInStep

\* Bytes never follow a frame that was written only in part: the broker would
\* read them as the rest of it.
NothingAfterTornWrite ==
    \A i \in 1 .. Len(toBroker) : toBroker[i].torn => i = Len(toBroker)

\* The sequence numbers of requests in flight differ from each other as long
\* as fewer than 2^16 - 1 of them are, and none is zero, so that an answer
\* identifies its request.
RequestsDistinct ==
    /\ \A i \in 1 .. Len(toBroker) : toBroker[i].seq # 0
    /\ \A i, j \in 1 .. Len(toBroker) :
         i < j /\ j - i < SequenceMod - 1 => toBroker[i].seq # toBroker[j].seq

\* Some account record the session accepted, or the profile, forbids mutations.
ToldReadOnly ==
    \/ profileReadOnly
    \/ \E i \in Records(payload) : payload[i].ro
    \/ \E k \in DOMAIN delivered :
         /\ IsAccountUpdate(delivered[k])
         /\ \E i \in Records(delivered[k].payload) : delivered[k].payload[i].ro

\* Once any account record said read-only, no later record, poll or request
\* gets a mutating frame written, not even in part.
NoMutationOnceReadOnly ==
    [][ToldReadOnly /\ state = "Ready" /\ Len(toBroker') > Len(toBroker)
        => toBroker'[Len(toBroker')].cmd \in ReadOnlyCommands]_vars

\* A synchronized session speaks for the requested login only, and no message
\* it returned carries another account.
OwnAccountOnly ==
    state = "Ready" =>
        /\ account.login = Login
        /\ \A k \in DOMAIN delivered :
             IsAccountUpdate(delivered[k]) =>
                 \A i \in Records(delivered[k].payload) :
                     delivered[k].payload[i].login = Login

\* A consumed session is never used again: it sends, reads and returns nothing.
ConsumedForGood ==
    [][Consumed => UNCHANGED <<session, toBroker, toClient>>]_vars

\* Complete messages reach the application whole, once and in order.
Channel == INSTANCE MessageChannel WITH up <- ~Consumed
ChannelRefined == Channel!Spec

\* Every blocking call returns, even against a broker that only sends pings.
CallsReturn == op # "idle" ~> op = "idle"

=============================================================================
