-------------------------- MODULE MCNativeSession ---------------------------
(* Small instances of NativeSession for TLC. *)
EXTENDS NativeSessionProps

CONSTANTS k1, empty

MCMaterial == {k1, empty}
MCGarbled == [kind |-> "garbled", login |-> Login, ro |-> FALSE]
Data(i) == [kind |-> "data", login |-> Login, ro |-> i]

Result(status, build, enrolled, tlvs) ==
    [status |-> status, build |-> build, enrolled |-> enrolled, tlvs |-> tlvs]
Tlv(tag, value) == [tag |-> tag, value |-> value]

\* Accepted with and without a trade key, and each way of being refused.
MCAuthReplies ==
    {Result("ok", 1, TRUE, <<Tlv(7, k1), Tlv(27, k1)>>),
     Result("ok", 1, TRUE, <<Tlv(7, k1)>>),
     Result("ok", 1, FALSE, <<Tlv(7, k1)>>),
     Result("ok", 0, TRUE, <<Tlv(7, k1)>>),
     Result("ok", 1, TRUE, <<Tlv(7, empty), Tlv(7, k1)>>),
     Result("cert", 1, TRUE, <<Tlv(7, k1)>>),
     Result("rejected", 1, TRUE, <<Tlv(7, k1)>>)}
OneAuthReply == {Result("ok", 1, TRUE, <<Tlv(7, k1), Tlv(27, k1)>>)}

Bad == [kind |-> "bad", login |-> Login, ro |-> FALSE]
\* Every account record, and a payload that does not parse.
AccountContent ==
    {Account(Login, FALSE), Account(Login, TRUE), Account(OtherLogin, FALSE), Bad}
\* Two payloads that can be told apart, and the account a session needs.
MessageContent == {Account(Login, FALSE), Data(FALSE), Data(TRUE)}
PlainContent == {Account(Login, FALSE), Bad}

=============================================================================
