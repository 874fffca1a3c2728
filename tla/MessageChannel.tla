--------------------------- MODULE MessageChannel ---------------------------
(***************************************************************************)
(* What a native session promises the layer above it: the messages the     *)
(* broker completes are handed over whole, each once and in order, until   *)
(* the session is consumed; nothing is handed over afterwards.             *)
(***************************************************************************)
EXTENDS Naturals, Sequences

VARIABLES sent,       \* messages the broker has completed
          delivered,  \* messages handed to the application
          up          \* the session has not been consumed

vars == <<sent, delivered, up>>

Init == sent = <<>> /\ delivered = <<>> /\ up = TRUE

Complete ==
    /\ Len(sent') = Len(sent) + 1
    /\ SubSeq(sent', 1, Len(sent)) = sent
    /\ UNCHANGED <<delivered, up>>

Deliver ==
    /\ up
    /\ Len(delivered) < Len(sent)
    /\ delivered' = Append(delivered, sent[Len(delivered) + 1])
    /\ UNCHANGED <<sent, up>>

Consume == up /\ up' = FALSE /\ UNCHANGED <<sent, delivered>>

Next == Complete \/ Deliver \/ Consume

Spec == Init /\ [][Next]_vars

=============================================================================
