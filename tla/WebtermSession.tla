--------------------------- MODULE WebtermSession ---------------------------
(***************************************************************************)
(* mt5-webterm/src/session.rs `Session`: one account, any number of        *)
(* callers, and tick streams that follow the session from one connection   *)
(* to the next.  The lock on `live` is held while a connection is dialled; *)
(* the other holders do not wait for anything, and an action of theirs     *)
(* only needs the lock to be free.  Every `.await` on the network lies     *)
(* between two actions.                                                    *)
(*                                                                         *)
(* A connection is the number of the dial that made it.  Of the client     *)
(* behind it (WebtermClient) this module keeps whether it has closed, how  *)
(* long ago it was dialled, the symbols it lists, its subscriptions and    *)
(* what it streams once all that was sent to it has been read.             *)
(***************************************************************************)
EXTENDS Naturals, Sequences, FiniteSets

CONSTANTS Callers,      \* the tasks of the host that call the session
          Streams,      \* the tasks that hold a stream made by `ticks`
          Allowed,      \* the calls each caller makes
          Wanted,       \* the symbols of each stream
          Symbols,
          Asks,         \* the symbols a caller names by itself
          Lists,        \* the symbol lists a connection may come up with
          Free,         \* nobody holds the lock on `live`
          Backoff,      \* RECONNECT_BACKOFF, in units of time
          MaxAge,       \* SESSION_MAX_AGE
          MaxDials      \* bound: connections the broker ever grants

Kinds == {"snapshot", "resubscribe", "query", "send"}
Tasks == Callers \union Streams

ASSUME WebtermSessionAssumption ==
    /\ Callers \intersect Streams = {} /\ Free \notin Tasks
    /\ Allowed \in [Callers -> SUBSET Kinds]
    /\ Wanted \in [Streams -> SUBSET Symbols]
    /\ Asks \in [Callers -> SUBSET Symbols]
    /\ Lists \in SUBSET SUBSET Symbols
    /\ Backoff \in Seq(Nat) /\ Backoff # <<>>
    /\ \A i \in DOMAIN Backoff : Backoff[i] <= Backoff[Len(Backoff)]
    /\ MaxAge \in Nat \ {0} /\ MaxDials \in Nat

VARIABLES
    \* Live: the connection or 0, how many there were, what is noted as subscribed
    client, generation, subscribed,
    lock,           \* who holds the lock on Live
    failures, wait, \* Session::backoff: failed dials, time until the next is allowed
    interest,       \* Session::interest
    \* a task: where it is, its call, the names it asks for, its handle, the
    \* names still to be subscribed, the list it is about to send for them, the
    \* generation its stream last followed
    at, what, names, on, fresh, list, noted,
    \* the connections: Client::symbols and Client::subscriptions, and external to
    \* both the socket and the server; age[generation] is what opened_at tells
    listed, subscriptions, state, streams, age,
    quiet,          \* ghost: time since the broker refused a login, if it did last
    crossed,        \* ghost: a redial came between a subscription and its note
    overtaken       \* ghost: a list was sent on the connection after a longer one,
                    \* and the whole list not since

live == <<client, generation, subscribed, lock>>
backoff == <<failures, wait, quiet>>
tasks == <<at, what, names, on, fresh, list, noted>>
clients == <<listed, subscriptions>>
connections == <<clients, state, streams, age, overtaken>>
vars == <<live, backoff, interest, tasks, connections, crossed>>

Dials == 1 .. MaxDials
Longest == Backoff[Len(Backoff)]
Least(x, y) == IF x < y THEN x ELSE y

\* The last entry stands for all further failures, which are not told apart.
Fails(n) == Least(n + 1, Len(Backoff))
\* Fault: every failure is followed by the first pause.
FirstPause(n) == Backoff[1]
Pause(n) == Backoff[n]

Dead == client # 0 /\ state[client] = "closed"
Up == client # 0 /\ state[client] = "open"

Init ==
    /\ client = 0 /\ generation = 0 /\ subscribed = {} /\ lock = Free
    /\ failures = 0 /\ wait = 0 /\ interest = {}
    /\ at = [t \in Tasks |-> "idle"]
    /\ what = [t \in Tasks |-> "none"]
    /\ names = [t \in Tasks |-> {}]
    /\ on = [t \in Tasks |-> 0]
    /\ fresh = [t \in Tasks |-> {}]
    /\ list = [t \in Tasks |-> {}]
    /\ noted = [s \in Streams |-> 0]
    /\ listed = [d \in Dials |-> {}]
    /\ subscriptions = [d \in Dials |-> {}]
    /\ state = [d \in Dials |-> "none"]
    /\ streams = [d \in Dials |-> {}]
    /\ overtaken = [d \in Dials |-> FALSE]
    /\ age = [d \in Dials |-> 0]
    /\ quiet = Longest /\ crossed = FALSE

------------------------------------------------------------------------------
(* A call begins and ends *)

Begin(t, kind, asked) ==
    /\ at[t] = "idle"
    /\ at' = [at EXCEPT ![t] = "calling"]
    /\ what' = [what EXCEPT ![t] = kind]
    /\ names' = [names EXCEPT ![t] = asked]
    /\ UNCHANGED <<live, backoff, interest, on, fresh, list, noted, connections, crossed>>

StartSnapshot(t) == "snapshot" \in Allowed[t] /\ Begin(t, "snapshot", {})
StartQuery(t) == "query" \in Allowed[t] /\ Begin(t, "query", {})
StartResubscribe(t) ==
    "resubscribe" \in Allowed[t] /\ \E s \in Asks[t] : Begin(t, "resubscribe", {s})
StartSend(t) ==
    "send" \in Allowed[t] /\ \E s \in Asks[t] : Begin(t, "send", {s})
StartTicks(s) == Begin(s, "ticks", Wanted[s])

\* What the task holds no longer matters once the call is over.
Leave(t, place) ==
    /\ at' = [at EXCEPT ![t] = place]
    /\ what' = [what EXCEPT ![t] = "none"]
    /\ names' = [names EXCEPT ![t] = {}]
    /\ on' = [on EXCEPT ![t] = 0]
    /\ fresh' = [fresh EXCEPT ![t] = {}]
    /\ list' = [list EXCEPT ![t] = {}]

Return(t) == Leave(t, "idle")

------------------------------------------------------------------------------
(* client and reconnect *)

\* Where a call goes on once `client` has returned a handle.
Onwards(t) ==
    IF what[t] = "send" THEN "subscribing"
    ELSE IF what[t] # "snapshot" THEN "ensuring"
    ELSE IF at[t] \in {"calling", "dialling"} THEN "ageing"
    ELSE "reading"

\* A query (history, history_latest, deals, timezone_shift_seconds, and send for
\* what needs no price) makes its requests and leaves nothing behind.  A send that
\* needs a price subscribes its symbol, noted or not.
Obtain(t, c) ==
    IF what[t] = "query" THEN Return(t)
    ELSE /\ at' = [at EXCEPT ![t] = Onwards(t)]
         /\ on' = [on EXCEPT ![t] = c]
         /\ fresh' = [fresh EXCEPT ![t] = IF what[t] = "send" THEN names[t] ELSE @]
         /\ UNCHANGED <<what, names, list>>

Calling(t) == at[t] \in {"calling", "again"} /\ lock = Free

\* Fault: the note outlives the connection.
ForgetClient ==
    /\ client' = 0
    /\ crossed' = FALSE
    /\ UNCHANGED subscribed

\* What was noted of a connection goes with it.
Forget ==
    /\ client' = 0
    /\ subscribed' = {}
    /\ crossed' = FALSE

\* A connection that has closed is dropped, whether or not a dial may follow.
DropDead == IF Dead THEN Forget ELSE UNCHANGED <<client, subscribed, crossed>>

Reuse(t) ==
    /\ Calling(t)
    /\ Up
    /\ Obtain(t, client)
    /\ UNCHANGED <<live, backoff, interest, noted, connections, crossed>>

Unavailable(t) ==
    /\ Calling(t)
    /\ ~Up /\ wait > 0
    /\ DropDead
    /\ Return(t)
    /\ UNCHANGED <<generation, lock, backoff, interest, noted, connections>>

Dial(t) ==
    /\ Calling(t)
    /\ ~Up /\ wait = 0
    /\ DropDead
    /\ lock' = t
    /\ at' = [at EXCEPT ![t] = IF at[t] = "again" THEN "redialling" ELSE "dialling"]
    /\ UNCHANGED <<generation, backoff, interest, what, names, on, fresh, list, noted, connections>>

\* With the symbol list the broker sends; a client whose request for it failed
\* is connected all the same, and lists nothing.
Connected(t) ==
    /\ lock = t
    /\ generation < MaxDials
    /\ generation' = generation + 1
    /\ client' = generation'
    /\ failures' = 0 /\ wait' = 0 /\ quiet' = Longest
    /\ lock' = Free
    /\ Obtain(t, generation')
    /\ state' = [state EXCEPT ![generation'] = "open"]
    /\ \E symbols \in Lists : listed' = [listed EXCEPT ![generation'] = symbols]
    /\ UNCHANGED <<subscribed, interest, noted, subscriptions, streams, age, overtaken, crossed>>

DialFails(t) ==
    /\ lock = t
    /\ failures' = Fails(failures)
    /\ wait' = Pause(failures')
    /\ quiet' = 0
    /\ lock' = Free
    /\ Return(t)
    /\ UNCHANGED <<client, generation, subscribed, interest, noted, connections, crossed>>

\* Fault: off by one, and out of the reach of `age`.
Overdue == age[generation] > MaxAge
Stale == age[generation] >= MaxAge

\* A snapshot takes the age of the session's connection, not of its handle.
Judge(t) ==
    /\ at[t] = "ageing"
    /\ at' = [at EXCEPT ![t] = IF Stale THEN "resetting" ELSE "reading"]
    /\ UNCHANGED <<live, backoff, interest, what, names, on, fresh, list, noted, connections, crossed>>

\* reconnect, up to its call of `client`.
Reset(t) ==
    /\ at[t] = "resetting"
    /\ lock = Free
    /\ Forget
    /\ at' = [at EXCEPT ![t] = "again"]
    /\ on' = [on EXCEPT ![t] = 0]
    /\ UNCHANGED <<generation, lock, backoff, interest, what, names, fresh, list, noted, connections>>

------------------------------------------------------------------------------
(* ensure_subscribed: three steps, and the lock is free between them *)

\* What the account holds decides with `interest` what a snapshot subscribes.
\* load_specs adds conversion pairs to them, which `held` stands for as well.
ReadBook(t, held) ==
    /\ at[t] = "reading"
    /\ state[on[t]] = "open"
    /\ at' = [at EXCEPT ![t] = "ensuring"]
    /\ names' = [names EXCEPT ![t] = held \union interest]
    /\ UNCHANGED <<live, backoff, interest, what, on, fresh, list, noted, connections, crossed>>

\* A request fails, at once on a closed client or after its timeout.
ReadFails(t) ==
    /\ at[t] = "reading"
    /\ Return(t)
    /\ UNCHANGED <<live, backoff, interest, noted, connections, crossed>>

New(t) == names[t] \ subscribed

\* A snapshot waits a moment for first quotes, which changes nothing.
Ensured(t) ==
    IF t \in Callers THEN Return(t)
    ELSE /\ at' = [at EXCEPT ![t] = "ensured"]
         /\ fresh' = [fresh EXCEPT ![t] = {}]
         /\ list' = [list EXCEPT ![t] = {}]
         /\ UNCHANGED <<what, names, on>>

\* What a host streams or asks for again becomes an interest just before.
Ensure(t) ==
    /\ at[t] = "ensuring"
    /\ lock = Free
    /\ interest' = interest \union (IF what[t] = "snapshot" THEN {} ELSE names[t])
    /\ IF New(t) = {} THEN Ensured(t)
       ELSE /\ fresh' = [fresh EXCEPT ![t] = New(t)]
            /\ at' = [at EXCEPT ![t] = "subscribing"]
            /\ UNCHANGED <<what, names, on, list>>
    /\ UNCHANGED <<live, backoff, noted, connections, crossed>>

\* Client::subscribe on a handle, whatever the session has done since.  The names
\* it lists join its subscriptions under their lock, and the list is copied; of a
\* closed client only the outcome matters.
Ids(t) == fresh[t] \intersect listed[on[t]]

Extend(t, place) ==
    /\ Ids(t) # {} /\ state[on[t]] = "open"
    /\ subscriptions' = [subscriptions EXCEPT ![on[t]] = @ \union Ids(t)]
    /\ list' = [list EXCEPT ![t] = subscriptions'[on[t]]]
    /\ at' = [at EXCEPT ![t] = place]
    /\ UNCHANGED <<live, backoff, interest, what, names, on, fresh, noted,
                   listed, state, streams, age, overtaken, crossed>>

\* Of names the connection does not list nothing is sent, and all is well; so it is
\* when the channel of a closed client still takes the request.
NothingSent(t) == Ids(t) = {} \/ state[on[t]] = "closed"
Refused(t) == Ids(t) # {} /\ state[on[t]] = "closed"

\* The copy is sent after the lock was released: another call may have sent a
\* longer one meanwhile.  The server streams what the last list names.
Put(c, all) ==
    IF state[c] = "open"
    THEN /\ streams' = [streams EXCEPT ![c] = all]
         /\ overtaken' = [overtaken EXCEPT ![c] =
               \/ ~ streams[c] \subseteq all
               \/ @ /\ all # subscriptions[c]]
    ELSE UNCHANGED <<streams, overtaken>>

\* What follows the subscription: its note, but for a send.
Subscribed(t) ==
    IF what[t] = "send" THEN Return(t)
    ELSE /\ at' = [at EXCEPT ![t] = "noting"]
         /\ list' = [list EXCEPT ![t] = {}]
         /\ UNCHANGED <<what, names, on, fresh>>

ExtendFresh(t) == at[t] = "subscribing" /\ Extend(t, "sending")

SkipFresh(t) ==
    /\ at[t] = "subscribing"
    /\ NothingSent(t)
    /\ Subscribed(t)
    /\ UNCHANGED <<live, backoff, interest, noted, connections, crossed>>

Subscribe(t) ==
    /\ at[t] = "sending"
    /\ Put(on[t], list[t])
    /\ Subscribed(t)
    /\ UNCHANGED <<live, backoff, interest, noted, clients, state, age, crossed>>

SubscribeFails(t) ==
    /\ at[t] \in {"subscribing", "sending"}
    /\ Refused(t)
    /\ Ensured(t)
    /\ UNCHANGED <<live, backoff, interest, noted, connections, crossed>>

\* Extends the note of the session, whose connection may be another by now.
Note(t) ==
    /\ subscribed' = subscribed \union fresh[t]
    /\ crossed' = (crossed \/ on[t] # client)

NoteEnsured(t) ==
    /\ at[t] = "noting"
    /\ lock = Free
    /\ Note(t)
    /\ Ensured(t)
    /\ UNCHANGED <<client, generation, lock, backoff, interest, noted, connections>>

------------------------------------------------------------------------------
(* ticks, once subscribed, and the loop of its stream *)

\* The generation is read after the subscription; the handle was taken before.
StartStream(s) ==
    /\ at[s] = "ensured"
    /\ lock = Free
    /\ noted' = [noted EXCEPT ![s] = generation]
    /\ crossed' = (crossed \/ on[s] # generation)
    /\ Leave(s, "polling")
    /\ UNCHANGED <<live, backoff, interest, connections>>

\* Fault: compared the wrong way round.
MovedBack(s) == generation < noted[s]
Moved(s) == generation # noted[s]

\* A look that finds the same generation, or a closed client, changes nothing.
Look(s) ==
    /\ at[s] = "polling"
    /\ lock = Free
    /\ Up /\ Moved(s)
    /\ on' = [on EXCEPT ![s] = client]
    /\ at' = [at EXCEPT ![s] = "following"]
    /\ UNCHANGED <<live, backoff, interest, what, names, fresh, list, noted, connections, crossed>>

\* Fault: subscriptions are taken to outlive the connection.
NoneMissing(s) == {}
Missing(s) == Wanted[s] \ subscribed

\* With nothing missing the generation is followed as it stands.
Follow(s) ==
    /\ at[s] = "following"
    /\ lock = Free
    /\ IF Missing(s) # {}
       THEN /\ fresh' = [fresh EXCEPT ![s] = Missing(s)]
            /\ at' = [at EXCEPT ![s] = "resubscribing"]
            /\ UNCHANGED <<what, names, on, list, noted>>
       ELSE /\ noted' = [noted EXCEPT ![s] = on[s]]
            /\ Leave(s, "polling")
    /\ UNCHANGED <<live, backoff, interest, connections, crossed>>

ExtendMissing(s) == at[s] = "resubscribing" /\ Extend(s, "resending")

SkipMissing(s) ==
    /\ at[s] = "resubscribing"
    /\ NothingSent(s)
    /\ at' = [at EXCEPT ![s] = "rejoining"]
    /\ UNCHANGED <<live, backoff, interest, what, names, on, fresh, list, noted, connections, crossed>>

Resubscribe(s) ==
    /\ at[s] = "resending"
    /\ Put(on[s], list[s])
    /\ at' = [at EXCEPT ![s] = "rejoining"]
    /\ list' = [list EXCEPT ![s] = {}]
    /\ UNCHANGED <<live, backoff, interest, what, names, on, fresh, noted, clients, state, age, crossed>>

ResubscribeFails(s) ==
    /\ at[s] \in {"resubscribing", "resending"}
    /\ Refused(s)
    /\ Leave(s, "polling")
    /\ UNCHANGED <<live, backoff, interest, noted, connections, crossed>>

Rejoin(s) ==
    /\ at[s] = "rejoining"
    /\ lock = Free
    /\ Note(s)
    /\ noted' = [noted EXCEPT ![s] = on[s]]
    /\ Leave(s, "polling")
    /\ UNCHANGED <<client, generation, lock, backoff, interest, connections>>

------------------------------------------------------------------------------
(* The network and the clock *)

Close(d) ==
    /\ state[d] = "open"
    /\ state' = [state EXCEPT ![d] = "closed"]
    /\ streams' = [streams EXCEPT ![d] = {}]
    /\ subscriptions' = [subscriptions EXCEPT ![d] = {}]
    /\ overtaken' = [overtaken EXCEPT ![d] = FALSE]
    /\ UNCHANGED <<live, backoff, interest, tasks, listed, age, crossed>>

Tick ==
    /\ wait' = IF wait > 0 THEN wait - 1 ELSE 0
    /\ quiet' = Least(quiet + 1, Longest)
    /\ age' = [d \in Dials |-> IF state[d] = "none" THEN 0 ELSE Least(age[d] + 1, MaxAge)]
    /\ UNCHANGED <<live, failures, interest, tasks, clients, state, streams, overtaken, crossed>>

------------------------------------------------------------------------------
Start(t) == StartSnapshot(t) \/ StartQuery(t) \/ StartResubscribe(t) \/ StartSend(t)

Connect(t) == Reuse(t) \/ Unavailable(t) \/ Dial(t) \/ Connected(t) \/ DialFails(t)

Work(t) ==
    \/ Connect(t)
    \/ Judge(t) \/ Reset(t) \/ ReadFails(t)
    \/ \E held \in SUBSET Symbols : ReadBook(t, held)
    \/ Ensure(t) \/ ExtendFresh(t) \/ SkipFresh(t)
    \/ Subscribe(t) \/ SubscribeFails(t) \/ NoteEnsured(t)

StreamStep(s) ==
    \/ StartStream(s) \/ Look(s) \/ Follow(s) \/ ExtendMissing(s) \/ SkipMissing(s)
    \/ Resubscribe(s) \/ ResubscribeFails(s) \/ Rejoin(s)

Next ==
    \/ \E t \in Callers : Start(t)
    \/ \E s \in Streams : StartTicks(s) \/ StreamStep(s)
    \/ \E t \in Tasks : Work(t)
    \/ \E d \in Dials : Close(d)
    \/ Tick

Spec == Init /\ [][Next]_vars

\* A task that can run does, and the lock is handed out in the order it was
\* asked for (tokio's mutex is fair).  A dial ends, one way or the other.
FairSpec ==
    /\ Spec
    /\ \A t \in Tasks : SF_vars(Work(t))
    /\ \A s \in Streams : SF_vars(StreamStep(s))

------------------------------------------------------------------------------
(* Properties *)

Places == {"idle", "calling", "again", "dialling", "redialling", "ageing", "resetting",
           "reading", "ensuring", "subscribing", "sending", "noting", "ensured",
           "polling", "following", "resubscribing", "resending", "rejoining"}

\* The shapes of the shared state.  The session's connection is the last one
\* dialled; the lock is held by a task that dials, if at all, and then there is none.
TypeOK ==
    /\ generation \in 0 .. MaxDials /\ client \in {0, generation}
    /\ subscribed \subseteq Symbols /\ interest \subseteq Symbols
    /\ lock \in Tasks \union {Free}
    /\ \A t \in Tasks : at[t] \in {"dialling", "redialling"} <=> lock = t
    /\ lock # Free => client = 0
    /\ failures \in 0 .. Len(Backoff) /\ wait \in Nat
    /\ at \in [Tasks -> Places]
    /\ what \in [Tasks -> Kinds \union {"none", "ticks"}]
    /\ names \in [Tasks -> SUBSET Symbols] /\ fresh \in [Tasks -> SUBSET Symbols]
    /\ list \in [Tasks -> SUBSET Symbols]
    /\ on \in [Tasks -> 0 .. generation] /\ noted \in [Streams -> 0 .. generation]
    /\ state \in [Dials -> {"none", "open", "closed"}]
    /\ \A d \in Dials : state[d] = "none" <=> d > generation
    /\ listed \in [Dials -> SUBSET Symbols] /\ subscriptions \in [Dials -> SUBSET Symbols]
    /\ streams \in [Dials -> SUBSET Symbols]
    /\ age \in [Dials -> 0 .. MaxAge]
    /\ quiet \in 0 .. Longest /\ crossed \in BOOLEAN /\ overtaken \in [Dials -> BOOLEAN]

\* The session's connection is open, no redial came between a subscription and its
\* note, and no list was sent on it after a longer one.
Undisturbed == Up /\ ~crossed /\ ~overtaken[client]

\* What is noted as subscribed is streamed by the session's connection, as far as
\* the connection lists it and while nothing disturbed it: a symbol that is noted
\* and not streamed is never asked for again.
NoteIsTrue == Undisturbed => subscribed \intersect listed[client] \subseteq streams[client]

\* A stream that has come up with the session hears all its symbols that the
\* connection lists, under the same condition.
StreamsHear ==
    \A s \in Streams :
        at[s] = "polling" /\ noted[s] = generation /\ Undisturbed
            => Wanted[s] \intersect listed[client] \subseteq streams[client]

\* A snapshot reads from a connection that was young enough when it looked, or
\* that has closed and answers nothing: a session trusted for too long reports an
\* empty account.
SnapshotTrusted ==
    [][\A t \in Callers :
         at[t] = "ageing" /\ at'[t] = "reading" =>
             age[on[t]] < MaxAge \/ state[on[t]] = "closed"]_vars

\* Whoever asks for the session, the broker is left alone after a refused login,
\* the longer the more often it refused in a row.
BackoffKept ==
    [][\A t \in Tasks :
         lock # t /\ lock' = t =>
             failures = 0 \/ quiet >= Backoff[failures]]_vars

\* A stream follows the session: however many redials it sleeps through, it comes
\* to hear its symbols on the connection of the day, those that one lists, unless
\* it closes, a redial crossed a subscription, or lists were sent out of order.
Following == {"polling", "following", "resubscribing", "resending", "rejoining"}
StreamsFollow ==
    \A s \in Streams :
        at[s] \in Following ~>
            \/ ~Undisturbed
            \/ Wanted[s] \intersect listed[client] \subseteq streams[client]

\* Said of what is noted: "Symbols subscribed on the current client."  Even of
\* symbols the client lists, and with no list out of order, that is not always so.
NotedOnClient ==
    Up /\ ~overtaken[client] =>
        subscribed \intersect listed[client] \subseteq streams[client]

=============================================================================
