----------------------------- MODULE Handshake ------------------------------
(***************************************************************************)
(* mt5-native/src/handshake.rs: the ordered driver of authentication and   *)
(* of the outgoing synchronization request.  A handshake is a record; each *)
(* operator is the record after one successful method.  A method called    *)
(* out of phase returns an error and changes nothing (`expect`), so the    *)
(* phase is the guard of whoever applies the operator.                     *)
(***************************************************************************)
EXTENDS Cipher

Phases == {"Init", "HelloSent", "ChallengeReceived", "AuthSent",
           "CertificateRequired", "SessionKeysReady", "SyncSent", "Failed"}

\* Option fields: FALSE, 0, NoKey, NoCipher and <<>> stand for None.
NewHandshake ==
    [phase |-> "Init", challenge |-> FALSE, build |-> 0, sessionKey |-> NoKey,
     tradeKey |-> NoKey, cipher |-> NoCipher, result |-> <<>>]

\* `fail`: every secret and every result of the exchange is dropped.
Failed == [NewHandshake EXCEPT !.phase = "Failed"]

Hello(h) == [h EXCEPT !.phase = "HelloSent"]

\* A reply's status is "ok", "rejected" (nonzero) or "malformed".
OnChallenge(h, reply) ==
    IF reply.status = "ok"
    THEN [h EXCEPT !.phase = "ChallengeReceived", !.challenge = TRUE]
    ELSE Failed

Auth(h) == [h EXCEPT !.phase = "AuthSent"]

\* The occurrences of a tag among the ordered TLVs of an authentication result.
Occurrences(tlvs, tag) == {i \in DOMAIN tlvs : tlvs[i].tag = tag}

LastValue(tlvs, tag) ==
    IF Occurrences(tlvs, tag) = {} THEN NoKey
    ELSE tlvs[CHOOSE i \in Occurrences(tlvs, tag) :
                  \A j \in Occurrences(tlvs, tag) : j <= i].value

\* Later tags replace earlier ones, but an empty TLV 7 anywhere is an error.
Acceptable(result) ==
    /\ result.status \in {"ok", "cert"}
    /\ result.build > 0
    /\ Occurrences(result.tlvs, 7) # {}
    /\ \A i \in Occurrences(result.tlvs, 7) : result.tlvs[i].value # EmptyMaterial

OnAuthResult(h, result) ==
    IF Acceptable(result)
    THEN [h EXCEPT
            !.phase = IF result.status = "cert" THEN "CertificateRequired"
                                                ELSE "SessionKeysReady",
            !.build = result.build,
            !.sessionKey = LastValue(result.tlvs, 7),
            !.tradeKey = LastValue(result.tlvs, 27),
            !.cipher = NewCipher(LastValue(result.tlvs, 7)),
            !.result = <<result>>]
    ELSE Failed

\* Both requests go out on the one transmit cipher, whose position they advance.
CertificateContinuation(h, body) ==
    [h EXCEPT !.phase = "SessionKeysReady", !.cipher = Advanced(@, body)]

Sync(h, body) ==
    [h EXCEPT !.phase = "SyncSent", !.cipher = Advanced(@, body)]

\* Fault: the session starts a cipher of its own.
SendCipherFresh(h) == NewCipher(h.sessionKey)

\* `take_send_cipher` moves the transmit cipher out, at the position it has.
SendCipher(h) == h.cipher
TakeSendCipher(h) == [h EXCEPT !.cipher = NoCipher]

=============================================================================
