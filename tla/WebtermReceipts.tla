-------------------------- MODULE WebtermReceipts ---------------------------
(***************************************************************************)
(* mt5-webterm/src/session.rs `Session::send`: how a trade is sent and how *)
(* its receipt comes by a ticket.  When the answer carries ticket 0, a new *)
(* order or position is identified by difference: the tickets of the       *)
(* account after the answer without those before the request.  The account *)
(* is read with two requests, orders before positions, each of which may   *)
(* fail and is then ignored, while the account changes.                    *)
(*                                                                         *)
(* Tickets count up.  An accepted entry gets the next one and shows in the *)
(* account a moment later.                                                 *)
(***************************************************************************)
EXTENDS Naturals, FiniteSets, FiniteSetsExt

CONSTANTS Senders,      \* the calls of `send`
          Looks,        \* how often the account is looked at after an answer, 3
          MaxTickets    \* bound: tickets ever made

ASSUME ReceiptsAssumption == Looks \in Nat \ {0} /\ MaxTickets \in Nat \ {0}

VARIABLES
    \* a call: where it is, the ticket it is about (0: an entry), the tickets
    \* before, those of the look under way, how many looks it took, its receipt
    at, target, before, seen, looks, receipt,
    \* the account, external: what is listed, the last ticket made, those not
    \* listed yet, and the requests with the ticket an entry was given
    orders, positions, made, hidden, request, own,
    \* ghosts: the tickets listed when the call began; a list was not read before, or
    \* in this look; the tickets listed ever since the look began
    known, partial, missed, steady

call == <<at, target, before, seen, looks, receipt>>
account == <<orders, positions, made, hidden>>
server == <<request, own>>
ghosts == <<known, partial, missed, steady>>
vars == <<call, account, server, ghosts>>

Tickets == 1 .. MaxTickets
Held == orders \union positions
Entry(p) == target[p] = 0

Init ==
    /\ at = [p \in Senders |-> "idle"]
    /\ target = [p \in Senders |-> 0]
    /\ before = [p \in Senders |-> {}] /\ seen = [p \in Senders |-> {}]
    /\ looks = [p \in Senders |-> 0] /\ receipt = [p \in Senders |-> 0]
    /\ made = 1 /\ orders \in SUBSET {1} /\ positions = {1} \ orders /\ hidden = {}
    /\ request = [p \in Senders |-> "none"] /\ own = [p \in Senders |-> 0]
    /\ known = [p \in Senders |-> {}]
    /\ partial = [p \in Senders |-> FALSE] /\ missed = [p \in Senders |-> FALSE]
    /\ steady = [p \in Senders |-> {}]

------------------------------------------------------------------------------
(* live_tickets, and what is made of it *)

\* Begins to read the account at the given place.
LookAt(p, place) ==
    /\ at' = [at EXCEPT ![p] = place]
    /\ seen' = [seen EXCEPT ![p] = {}]
    /\ missed' = [missed EXCEPT ![p] = FALSE]
    /\ steady' = [steady EXCEPT ![p] = Held]

\* Fault: positions before orders.
PositionsFirst == <<positions, orders>>
Lists == <<orders, positions>>

\* A list that cannot be read adds nothing.
Adds(p, i, ok) ==
    /\ seen' = [seen EXCEPT ![p] = IF ok THEN @ \union Lists[i] ELSE @]
    /\ missed' = [missed EXCEPT ![p] = @ \/ ~ok]

ReadOrders(p, ok) ==
    /\ at[p] \in {"before", "after"}
    /\ Adds(p, 1, ok)
    /\ at' = [at EXCEPT ![p] = IF @ = "before" THEN "before2" ELSE "after2"]
    /\ UNCHANGED <<target, before, looks, receipt, account, server, known, partial, steady>>

ReadPositions(p, ok) ==
    /\ at[p] \in {"before2", "after2"}
    /\ Adds(p, 2, ok)
    /\ at' = [at EXCEPT ![p] = IF @ = "before2" THEN "sending" ELSE "comparing"]
    /\ before' = IF at[p] = "before2" THEN [before EXCEPT ![p] = seen'[p]] ELSE before
    /\ partial' = IF at[p] = "before2" THEN [partial EXCEPT ![p] = missed'[p]] ELSE partial
    /\ UNCHANGED <<target, looks, receipt, account, server, known, steady>>

------------------------------------------------------------------------------
(* send *)

\* Market and Pending: the quote they wait for changes nothing here.
StartEntry(p) ==
    /\ at[p] = "idle"
    /\ LookAt(p, "before")
    /\ known' = [known EXCEPT ![p] = Held]
    /\ UNCHANGED <<target, before, looks, receipt, account, server, partial>>

\* The others look their ticket up first, in the list where it belongs.
StartAbout(p, t, ok) ==
    /\ at[p] = "idle"
    /\ at' = [at EXCEPT ![p] = IF ok /\ t \in Held THEN "sending" ELSE "failed"]
    /\ target' = [target EXCEPT ![p] = t]
    /\ UNCHANGED <<before, seen, looks, receipt, account, server, ghosts>>

Send(p) ==
    /\ at[p] = "sending"
    /\ at' = [at EXCEPT ![p] = "sent"]
    /\ request' = [request EXCEPT ![p] = "sent"]
    /\ UNCHANGED <<target, before, seen, looks, receipt, account, own, ghosts>>

\* Rejected, no answer within 20 s, or no connection: the server may have it yet.
SendFails(p) ==
    /\ at[p] = "sent"
    /\ at' = [at EXCEPT ![p] = "failed"]
    /\ UNCHANGED <<target, before, seen, looks, receipt, account, server, ghosts>>

Named(p, t) ==
    /\ at' = [at EXCEPT ![p] = "done"]
    /\ receipt' = [receipt EXCEPT ![p] = t]

\* The answer carries the ticket, or 0.
Accepted(p, told) ==
    /\ at[p] = "sent"
    /\ request[p] \in {"accepted", "carried out"}
    /\ IF Entry(p) /\ told = 0
       THEN LookAt(p, "after") /\ UNCHANGED receipt
       ELSE Named(p, told) /\ UNCHANGED <<seen, missed, steady>>
    /\ UNCHANGED <<target, before, looks, account, server, known, partial>>

New(p) == seen[p] \ before[p]

\* Fault: of several new tickets none is taken.
NewestIfAlone(p) == IF Cardinality(New(p)) = 1 THEN Max(New(p)) ELSE 0
Newest(p) == IF New(p) = {} THEN 0 ELSE Max(New(p))

Again(p) == Newest(p) = 0 /\ looks[p] + 1 < Looks

\* Looks again, 0.3 s later, as long as there is nothing new.
Compare(p) ==
    /\ at[p] = "comparing"
    /\ IF Again(p)
       THEN /\ LookAt(p, "after")
            /\ looks' = [looks EXCEPT ![p] = @ + 1]
            /\ UNCHANGED receipt
       ELSE /\ Named(p, Newest(p))
            /\ UNCHANGED <<looks, seen, missed, steady>>
    /\ UNCHANGED <<target, before, account, server, known, partial>>

------------------------------------------------------------------------------
(* The server, external, and whoever else trades on the account *)

\* What is no longer listed has not been there ever since.
Listed(o, q) ==
    /\ orders' = o /\ positions' = q
    /\ steady' = [p \in Senders |-> steady[p] \intersect (o \union q)]

Make ==
    /\ made < MaxTickets
    /\ made' = made + 1
    /\ hidden' = hidden \union {made'}

Appear(t) ==
    /\ hidden' = hidden \ {t}
    /\ \/ Listed(orders \union {t}, positions)
       \/ Listed(orders, positions \union {t})

Accept(p) ==
    /\ request[p] = "sent"
    /\ request' = [request EXCEPT ![p] = "accepted"]
    /\ IF Entry(p) THEN Make /\ own' = [own EXCEPT ![p] = made']
                   ELSE UNCHANGED <<made, hidden, own>>
    /\ UNCHANGED <<call, orders, positions, ghosts>>

\* What another request was about goes, or is modified and stays.
Takes(p) ==
    /\ request[p] = "accepted" /\ ~Entry(p)
    /\ request' = [request EXCEPT ![p] = "carried out"]
    /\ \/ Listed(orders \ {target[p]}, positions \ {target[p]})
       \/ Listed(orders, positions)
    /\ UNCHANGED <<call, made, hidden, own, known, partial, missed>>

\* Another terminal, or another call of send.
Outside ==
    /\ Make
    /\ UNCHANGED <<call, orders, positions, server, ghosts>>

Show(t) ==
    /\ t \in hidden
    /\ Appear(t)
    /\ UNCHANGED <<call, made, server, known, partial, missed>>

\* An order that is filled becomes the position of the same ticket.
Fill(t) ==
    /\ t \in orders
    /\ Listed(orders \ {t}, positions \union {t})
    /\ UNCHANGED <<call, made, hidden, server, known, partial, missed>>

Gone(t) ==
    /\ t \in Held
    /\ Listed(orders \ {t}, positions \ {t})
    /\ UNCHANGED <<call, made, hidden, server, known, partial, missed>>

------------------------------------------------------------------------------
Read(p) == \E ok \in BOOLEAN : ReadOrders(p, ok) \/ ReadPositions(p, ok)

Next ==
    \/ \E p \in Senders :
         \/ StartEntry(p) \/ (\E t \in Tickets, ok \in BOOLEAN : StartAbout(p, t, ok))
         \/ Read(p) \/ Send(p) \/ SendFails(p) \/ Compare(p)
         \/ \E told \in {0, own[p]} : Accepted(p, told)
         \/ Accept(p) \/ Takes(p)
    \/ Outside
    \/ \E t \in Tickets : Show(t) \/ Fill(t) \/ Gone(t)

Spec == Init /\ [][Next]_vars

------------------------------------------------------------------------------
(* Properties *)

Places == {"idle", "before", "before2", "sending", "sent", "after", "after2", "comparing",
           "done", "failed"}

\* The shapes of the state.  An order and a position never share a ticket, and
\* no ticket is listed that was not made.
TypeOK ==
    /\ made \in 0 .. MaxTickets
    /\ Held \subseteq 1 .. made /\ hidden \subseteq 1 .. made
    /\ orders \intersect positions = {} /\ hidden \intersect Held = {}
    /\ at \in [Senders -> Places]
    /\ target \in [Senders -> 0 .. MaxTickets] /\ known \in [Senders -> SUBSET (1 .. made)]
    /\ before \in [Senders -> SUBSET (1 .. made)] /\ seen \in [Senders -> SUBSET (1 .. made)]
    /\ steady \in [Senders -> SUBSET Held]
    /\ looks \in [Senders -> 0 .. Looks - 1]
    /\ receipt \in [Senders -> 0 .. made] /\ own \in [Senders -> 0 .. made]
    /\ request \in [Senders -> {"none", "sent", "accepted", "carried out"}]
    /\ partial \in [Senders -> BOOLEAN] /\ missed \in [Senders -> BOOLEAN]

\* No receipt of an entry names a ticket listed before the call, if both lists could
\* be read then, although orders turn into positions between the two reads: a host
\* would manage an old position as the new one.
ReceiptIsNew ==
    \A p \in Senders :
        at[p] = "done" /\ Entry(p) /\ ~partial[p] => receipt[p] \notin known[p]

\* An entry that was in the account all through the last look, as an order or a
\* position or first one and then the other, is not reported without a ticket, if
\* both lists could be read.
EntryIsFound ==
    \A p \in Senders :
        /\ at[p] = "done" /\ Entry(p) /\ receipt[p] = 0 /\ ~missed[p]
        => own[p] \notin steady[p]

=============================================================================
