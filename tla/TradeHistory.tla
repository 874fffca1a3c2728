---------------------------- MODULE TradeHistory ----------------------------
(***************************************************************************)
(* mt5-session/src/client/history.rs `deals` and `orders`, and the answer   *)
(* they read (mt5-native/src/trade_history.rs): buckets of records, where a *)
(* later bucket may take records of an earlier one back and replace them.   *)
(* A record is a ticket, its time and a version.                            *)
(***************************************************************************)
EXTENDS Integers, Sequences, SequencesExt, FiniteSets

CONSTANTS Tickets, Times,
          Windows,          \* the ranges asked for, <<from, to>>
          MaxBuckets        \* bound: of an answer

ASSUME TradeHistoryAssumption ==
    /\ Tickets \subseteq Nat /\ IsFiniteSet(Tickets) /\ Times \subseteq Int
    /\ Windows \subseteq Int \X Int /\ MaxBuckets \in Nat

VARIABLES kind,             \* "orders" or "deals"
          buckets,          \* of the answer
          kept,             \* the records the broker has
          reported          \* what the client returned

ledger == <<kind, buckets, kept, reported>>

Replaced == 0               \* a bucket's action: with tickets to take back
Unchanged == 1              \* nothing follows
Records == 2                 \* records
Elsewhere == 4              \* nothing follows, for orders only

Unanswered == [ok |-> TRUE, records |-> <<>>, window |-> <<0, 0>>]

LedgerInit ==
    kind \in {"orders", "deals"} /\ buckets = <<>> /\ kept = {} /\ reported = Unanswered

TicketsOf(records) == {r.ticket : r \in records}

\* The records without those of some tickets, and with some others.
Changed(records, gone, added) ==
    {r \in records : r.ticket \notin gone \cup TicketsOf(added)} \cup added

\* The broker: external.  What follows a bucket's action is what the action says.
Bare(action) == action = Unchanged \/ (kind = "orders" /\ action = Elsewhere)

AddBucket(action, gone, added) ==
    /\ Len(buckets) < MaxBuckets /\ reported = Unanswered
    /\ gone # {} => action = Replaced
    /\ Bare(action) => added = {}
    /\ buckets' = Append(buckets, [action |-> action, bare |-> Bare(action),
                                   gone |-> gone, added |-> added])
    /\ kept' = Changed(kept, gone, added)
    /\ UNCHANGED <<kind, reported>>

------------------------------------------------------------------------------
(* The client *)

\* Whether nothing is read after an action.
Skipped(action) == action = Unchanged \/ (kind = "orders" /\ action = Elsewhere)

\* Fault: the tickets are taken back last.
AddedFirst(records, bucket) ==
    {r \in Changed(records, {}, bucket.added) : r.ticket \notin bucket.gone}
\* One bucket.
Applied(records, bucket) ==
    {r \in records : r.ticket \notin bucket.gone
                     /\ r.ticket \notin TicketsOf(bucket.added)} \cup bucket.added

\* decode_trade_history: what follows an action is read as the action says, or is refused.
DecodedTrades ==
    [ok |-> \A i \in DOMAIN buckets : buckets[i].bare = Skipped(buckets[i].action),
     records |-> FoldLeft(Applied, {}, buckets)]

\* sort_by_key: as many records come before each as its place says.
Before(a, b) == a.time < b.time \/ (a.time = b.time /\ a.ticket < b.ticket)
Sorted(records) ==
    [n \in 1 .. Cardinality(records) |->
       CHOOSE r \in records : Cardinality({q \in records : Before(q, r)}) = n - 1]

\* deals, orders: those of the range by time and ticket.
AskTrades(from, to) ==
    /\ reported = Unanswered
    /\ reported' =
         [ok |-> from >= to \/ DecodedTrades.ok,
          records |-> IF from >= to \/ ~DecodedTrades.ok THEN <<>>
                      ELSE Sorted({r \in DecodedTrades.records : r.time >= from /\ r.time < to}),
          window |-> <<from, to>>]
    /\ UNCHANGED <<kind, buckets, kept>>

LedgerNext ==
    \/ \E action \in {Replaced, Unchanged, Records, Elsewhere}, gone \in SUBSET Tickets :
       \E tickets \in SUBSET Tickets : \E time \in [tickets -> Times] :
         AddBucket(action, gone, {[ticket |-> t, time |-> time[t], version |-> Len(buckets)]
                                    : t \in tickets})
    \/ \E window \in Windows : AskTrades(window[1], window[2])

LedgerSpec == LedgerInit /\ [][LedgerNext]_ledger

------------------------------------------------------------------------------
(* Properties *)

\* However the broker has corrected its history from bucket to bucket, the client returns
\* each record it keeps in the range once, as it is now, in order, and no other.
TradesComplete ==
    reported # Unanswered =>
      /\ reported.ok
      /\ ToSet(reported.records)
           = {r \in kept : r.time >= reported.window[1] /\ r.time < reported.window[2]}
      /\ \A i, j \in DOMAIN reported.records :
           i < j => LET a == reported.records[i]
                        b == reported.records[j]
                    IN a.ticket # b.ticket /\ a.time <= b.time

=============================================================================
