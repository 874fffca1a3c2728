---------------------------- MODULE TradeOutcome ----------------------------
(***************************************************************************)
(* What Client::trade promises: "Once transmission starts, any failure is  *)
(* uncertain.  The client never retries a trade."  A trade is submitted at *)
(* most once, the broker finishes only what was submitted, and the caller  *)
(* is told once: refused when nothing was submitted, confirmed when the    *)
(* broker finished it, uncertain at any time.                              *)
(***************************************************************************)
CONSTANT Trades

VARIABLES submitted, finished,  \* sets of trades
          told                  \* what the caller of trade was told
vars == <<submitted, finished, told>>

Init ==
    /\ submitted = {} /\ finished = {}
    /\ told = [k \in Trades |-> "nothing"]

Submit(k) ==
    /\ told[k] = "nothing" /\ k \notin submitted
    /\ submitted' = submitted \union {k}
    /\ UNCHANGED <<finished, told>>

Finish(k) ==
    /\ k \in submitted \ finished
    /\ finished' = finished \union {k}
    /\ UNCHANGED <<submitted, told>>

Refuse(k) ==
    /\ told[k] = "nothing" /\ k \notin submitted
    /\ told' = [told EXCEPT ![k] = "refused"]
    /\ UNCHANGED <<submitted, finished>>

Confirm(k) ==
    /\ told[k] = "nothing" /\ k \in finished
    /\ told' = [told EXCEPT ![k] = "confirmed"]
    /\ UNCHANGED <<submitted, finished>>

\* A transmission that fails may have reached the broker.
GiveUp(k) ==
    /\ told[k] = "nothing"
    /\ told' = [told EXCEPT ![k] = "uncertain"]
    /\ submitted' \in {submitted, submitted \union {k}}
    /\ UNCHANGED finished

Next == \E k \in Trades :
            Submit(k) \/ Finish(k) \/ Refuse(k) \/ Confirm(k) \/ GiveUp(k)

Spec == Init /\ [][Next]_vars

=============================================================================
