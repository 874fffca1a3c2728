----------------------------- MODULE Reassembly -----------------------------
(***************************************************************************)
(* mt5-native/src/reassembly.rs: fragments of one message share a sequence *)
(* number, and the message is complete on the FINAL frame.  `pending` maps *)
(* the sequences in progress to the command and the payload so far.        *)
(***************************************************************************)
EXTENDS Naturals, Sequences, FiniteSets

CONSTANTS MaxMessage,   \* max_message, in chunks
          MaxPending    \* max_pending

ASSUME ReassemblyAssumption == MaxMessage \in Nat /\ MaxPending \in Nat

NoFragments == [s \in {} |-> [cmd |-> "", payload |-> <<>>]]

Buffered(pending, frame) ==
    IF frame.seq \in DOMAIN pending THEN pending[frame.seq].payload ELSE <<>>

\* The conditions under which `push` returns an error, before any change.
PushRejects(pending, frame, plain) ==
    \/ /\ frame.seq \in DOMAIN pending
       /\ pending[frame.seq].cmd # frame.cmd
    \/ Len(Buffered(pending, frame)) + Len(plain) > MaxMessage
    \/ /\ frame.seq \notin DOMAIN pending
       /\ ~frame.fin
       /\ Cardinality(DOMAIN pending) >= MaxPending

Completed(pending, frame, plain) ==
    [cmd |-> frame.cmd, seq |-> frame.seq,
     payload |-> Buffered(pending, frame) \o plain]

\* Fault: a complete message leaves its entry behind.
PushedKept(pending, frame, plain) ==
    [s \in DOMAIN pending \union {frame.seq} |->
        IF s = frame.seq
        THEN [cmd |-> frame.cmd, payload |-> Buffered(pending, frame) \o plain]
        ELSE pending[s]]

\* The map after an accepted fragment: a final one frees its entry.
Pushed(pending, frame, plain) ==
    IF frame.fin
    THEN [s \in DOMAIN pending \ {frame.seq} |-> pending[s]]
    ELSE [s \in DOMAIN pending \union {frame.seq} |->
             IF s = frame.seq
             THEN [cmd |-> frame.cmd,
                   payload |-> Buffered(pending, frame) \o plain]
             ELSE pending[s]]

=============================================================================
