----------------------- MODULE WebtermSessionProofs ------------------------
(***************************************************************************)
(* Proofs about WebtermSession, for any callers, streams and symbols, any  *)
(* table of pauses that does not fall below its entries at the end, and    *)
(* any number of connections.                                              *)
(***************************************************************************)
EXTENDS WebtermSession, TLAPS

------------------------------------------------------------------------------
(* TypeOK, in six parts *)

Dialling == {"dialling", "redialling"}

Calls == at \in [Tasks -> Places] /\ what \in [Tasks -> Kinds \union {"none", "ticks"}]

Names ==
    /\ names \in [Tasks -> SUBSET Symbols] /\ fresh \in [Tasks -> SUBSET Symbols]
    /\ list \in [Tasks -> SUBSET Symbols]

Handles == on \in [Tasks -> 0 .. generation] /\ noted \in [Streams -> 0 .. generation]

Locking ==
    /\ lock \in Tasks \union {Free}
    /\ \A t \in Tasks : at[t] \in Dialling <=> lock = t
    /\ lock # Free => client = 0

Shared ==
    /\ generation \in 0 .. MaxDials /\ client \in {0, generation}
    /\ subscribed \subseteq Symbols /\ interest \subseteq Symbols
    /\ failures \in 0 .. Len(Backoff) /\ wait \in Nat
    /\ quiet \in 0 .. Longest /\ crossed \in BOOLEAN

Net ==
    /\ state \in [Dials -> {"none", "open", "closed"}]
    /\ \A d \in Dials : state[d] = "none" <=> d > generation
    /\ listed \in [Dials -> SUBSET Symbols] /\ subscriptions \in [Dials -> SUBSET Symbols]
    /\ streams \in [Dials -> SUBSET Symbols] /\ overtaken \in [Dials -> BOOLEAN]
    /\ age \in [Dials -> 0 .. MaxAge]

LEMMA Parts == TypeOK <=> Calls /\ Names /\ Handles /\ Locking /\ Shared /\ Net
  BY DEF TypeOK, Calls, Names, Handles, Locking, Shared, Net, Dialling

LEMMA NextParts == TypeOK' <=> Calls' /\ Names' /\ Handles' /\ Locking' /\ Shared' /\ Net'
  BY DEF TypeOK, Calls, Names, Handles, Locking, Shared, Net, Dialling

LEMMA ConstantsFit ==
    /\ Callers \subseteq Tasks /\ Streams \subseteq Tasks /\ Free \notin Tasks
    /\ Len(Backoff) \in Nat \ {0} /\ DOMAIN Backoff = 1 .. Len(Backoff)
    /\ Longest \in Nat
    /\ \A n \in 1 .. Len(Backoff) : Backoff[n] \in Nat /\ Backoff[n] <= Longest
    /\ MaxAge \in Nat \ {0} /\ MaxDials \in Nat
    /\ \A s \in Streams : Wanted[s] \in SUBSET Symbols
    /\ \A t \in Callers : Asks[t] \in SUBSET Symbols
    /\ \A symbols \in Lists : symbols \in SUBSET Symbols
    /\ \A t \in Callers : t \notin Streams
  BY WebtermSessionAssumption DEF WebtermSessionAssumption, Tasks, Longest

LEMMA InitType == Init => TypeOK
<1> SUFFICES ASSUME Init PROVE TypeOK
  OBVIOUS
<1> USE DEF Init
<1>1. Calls /\ Names
  BY DEF Calls, Names, Places, Kinds
<1>5. Handles
  <2>1. 0 \in 0 .. 0
    OBVIOUS
  <2> QED
    BY <2>1 DEF Handles
<1>2. Locking
  BY ConstantsFit DEF Locking, Dialling
<1>3. Shared
  <2>1. 0 \in 0 .. MaxDials /\ 0 \in 0 .. Len(Backoff) /\ Longest \in 0 .. Longest
    BY ConstantsFit
  <2> QED
    BY <2>1 DEF Shared
<1>4. Net
  BY ConstantsFit DEF Net, Dials
<1> QED
  BY <1>1, <1>2, <1>3, <1>4, <1>5, Parts

LEMMA Numbers ==
    ASSUME Shared
    PROVE  /\ generation \in Nat /\ 0 \in 0 .. generation /\ client \in 0 .. generation
           /\ generation \in 0 .. generation
           /\ generation' = generation + 1 => /\ 0 .. generation \subseteq 0 .. generation'
                                              /\ generation' \in 0 .. generation'
                                              /\ 0 \in 0 .. generation'
<1>1. MaxDials \in Nat /\ generation \in 0 .. MaxDials /\ client \in {0, generation}
  BY ConstantsFit DEF Shared
<1> QED
  BY <1>1

\* The session's connection is open or has closed.
LEMMA Standing ==
    ASSUME Shared, Net
    PROVE  /\ client = 0 \/ (client = generation /\ client \in Dials /\ (Up \/ Dead))
           /\ ~(Up /\ Dead)
<1>1. client \in {0, generation} /\ generation \in 0 .. MaxDials /\ MaxDials \in Nat
  BY ConstantsFit DEF Shared
<1>2. client # 0 => client = generation /\ client \in Dials /\ ~(client > generation)
  BY <1>1 DEF Dials
<1>3. client # 0 => state[client] \in {"open", "closed"}
  BY <1>2 DEF Net
<1> QED
  BY <1>2, <1>3 DEF Up, Dead

LEMMA Dropped ==
    ASSUME Shared, Net, ~Up, DropDead
    PROVE  client' = 0 /\ (UNCHANGED <<client, subscribed, crossed>> \/ Forget)
BY Standing DEF DropDead, Forget

\* A task that has come past `client` has a handle.
WithHandle == {"ageing", "resetting", "reading", "ensuring", "subscribing", "sending",
               "noting", "ensured", "following", "resubscribing", "resending", "rejoining"}
Held == \A t \in Tasks : at[t] \in WithHandle => on[t] # 0

LEMMA HandleDial ==
    ASSUME Handles, Shared, NEW t \in Tasks, on[t] # 0
    PROVE  on[t] \in Dials /\ on[t] \in 1 .. generation
<1>1. on[t] \in 0 .. generation /\ generation \in 0 .. MaxDials /\ MaxDials \in Nat
  BY ConstantsFit DEF Handles, Shared
<1> QED
  BY <1>1 DEF Dials

LEMMA CallsStep ==
    ASSUME Calls, Names, Handles, Locking, Shared, Net, [Next]_vars
    PROVE  Calls'
<1>1. ASSUME NEW t \in Callers, StartSnapshot(t) PROVE Calls'
  BY <1>1
  DEF StartSnapshot, Begin, live, backoff, connections, clients, Calls, Places, Kinds
<1>2. ASSUME NEW t \in Callers, StartQuery(t) PROVE Calls'
  BY <1>2
  DEF StartQuery, Begin, live, backoff, connections, clients, Calls, Places, Kinds
<1>3. ASSUME NEW t \in Callers, StartResubscribe(t) PROVE Calls'
  BY <1>3
  DEF StartResubscribe, Begin, live, backoff, connections, clients, Calls, Places,
      Kinds
<1>4. ASSUME NEW t \in Callers, StartSend(t) PROVE Calls'
  BY <1>4
  DEF StartSend, Begin, live, backoff, connections, clients, Calls, Places, Kinds
<1>5. ASSUME NEW s \in Streams, StartTicks(s) PROVE Calls'
  BY <1>5
  DEF StartTicks, Begin, live, backoff, connections, clients, Calls, Places, Kinds
<1>6. ASSUME NEW t \in Tasks, Reuse(t) PROVE Calls'
  BY <1>6
  DEF Reuse, Calling, Up, Obtain, live, backoff, connections, clients, Return,
      Onwards, Leave, Calls, Places, Kinds
<1>7. ASSUME NEW t \in Tasks, Unavailable(t) PROVE Calls'
  BY <1>7
  DEF Unavailable, Calling, Up, DropDead, Return, backoff, connections, clients, Dead,
      Forget, Leave, Calls, Places, Kinds
<1>8. ASSUME NEW t \in Tasks, Dial(t) PROVE Calls'
  BY <1>8
  DEF Dial, Calling, Up, DropDead, backoff, connections, clients, Dead, Forget, Calls,
      Places, Kinds
<1>9. ASSUME NEW t \in Tasks, Connected(t) PROVE Calls'
  BY <1>9
  DEF Connected, Longest, Obtain, Return, Onwards, Leave, Calls, Places, Kinds
<1>10. ASSUME NEW t \in Tasks, DialFails(t) PROVE Calls'
  BY <1>10
  DEF DialFails, Fails, Pause, Return, connections, clients, Least, Leave, Calls,
      Places, Kinds
<1>11. ASSUME NEW t \in Tasks, Judge(t) PROVE Calls'
  BY <1>11
  DEF Judge, Stale, live, backoff, connections, clients, Calls, Places, Kinds
<1>12. ASSUME NEW t \in Tasks, Reset(t) PROVE Calls'
  BY <1>12
  DEF Reset, Forget, backoff, connections, clients, Calls, Places, Kinds
<1>13. ASSUME NEW t \in Tasks, ReadFails(t) PROVE Calls'
  BY <1>13
  DEF ReadFails, Return, live, backoff, connections, clients, Leave, Calls, Places,
      Kinds
<1>14. ASSUME NEW t \in Tasks, NEW held \in SUBSET Symbols, ReadBook(t, held) PROVE Calls'
  BY <1>14
  DEF ReadBook, live, backoff, connections, clients, Calls, Places, Kinds
<1>15. ASSUME NEW t \in Tasks, Ensure(t) PROVE Calls'
  BY <1>15
  DEF Ensure, New, Ensured, live, backoff, connections, clients, Return, Leave, Calls,
      Places, Kinds
<1>16. ASSUME NEW t \in Tasks, ExtendFresh(t) PROVE Calls'
  BY <1>16
  DEF ExtendFresh, Extend, live, backoff, Calls, Places, Kinds
<1>17. ASSUME NEW t \in Tasks, SkipFresh(t) PROVE Calls'
  BY <1>17
  DEF SkipFresh, Subscribed, live, backoff, connections, clients, Return, Leave,
      Calls, Places, Kinds
<1>18. ASSUME NEW t \in Tasks, Subscribe(t) PROVE Calls'
  BY <1>18
  DEF Subscribe, Put, Subscribed, Return, Leave, live, backoff, clients, Calls,
      Places, Kinds
<1>19. ASSUME NEW t \in Tasks, SubscribeFails(t) PROVE Calls'
  BY <1>19
  DEF SubscribeFails, Ensured, live, backoff, connections, clients, Return, Leave,
      Calls, Places, Kinds
<1>20. ASSUME NEW t \in Tasks, NoteEnsured(t) PROVE Calls'
  BY <1>20
  DEF NoteEnsured, Note, Ensured, backoff, connections, clients, Return, Leave, Calls,
      Places, Kinds
<1>21. ASSUME NEW s \in Streams, StartStream(s) PROVE Calls'
  BY <1>21
  DEF StartStream, Leave, live, backoff, connections, clients, Calls, Places, Kinds
<1>22. ASSUME NEW s \in Streams, Look(s) PROVE Calls'
  BY <1>22
  DEF Look, Up, Moved, live, backoff, connections, clients, Calls, Places, Kinds
<1>23. ASSUME NEW s \in Streams, Follow(s) PROVE Calls'
  BY <1>23
  DEF Follow, Missing, Leave, live, backoff, connections, clients, Calls, Places,
      Kinds
<1>24. ASSUME NEW s \in Streams, ExtendMissing(s) PROVE Calls'
  BY <1>24
  DEF ExtendMissing, Extend, live, backoff, Calls, Places, Kinds
<1>25. ASSUME NEW s \in Streams, SkipMissing(s) PROVE Calls'
  BY <1>25
  DEF SkipMissing, live, backoff, connections, clients, Calls, Places, Kinds
<1>26. ASSUME NEW s \in Streams, Resubscribe(s) PROVE Calls'
  BY <1>26
  DEF Resubscribe, Put, live, backoff, clients, Calls, Places, Kinds
<1>27. ASSUME NEW s \in Streams, ResubscribeFails(s) PROVE Calls'
  BY <1>27
  DEF ResubscribeFails, Leave, live, backoff, connections, clients, Calls, Places,
      Kinds
<1>28. ASSUME NEW s \in Streams, Rejoin(s) PROVE Calls'
  BY <1>28
  DEF Rejoin, Note, Leave, backoff, connections, clients, Calls, Places, Kinds
<1>29. ASSUME NEW d \in Dials, Close(d) PROVE Calls'
  BY <1>29
  DEF Close, live, backoff, tasks, Calls, Places, Kinds
<1>30. CASE Tick
  BY <1>30
  DEF Tick, Least, Longest, Dials, live, tasks, clients, Calls, Places, Kinds
<1>31. CASE UNCHANGED vars
  BY <1>31
  DEF vars, live, backoff, tasks, connections, clients, Calls, Places, Kinds
<1> QED
  BY <1>1, <1>2, <1>3, <1>4, <1>5, <1>6, <1>7, <1>8, <1>9, <1>10, <1>11, <1>12, <1>13,
      <1>14, <1>15, <1>16, <1>17, <1>18, <1>19, <1>20, <1>21, <1>22, <1>23, <1>24,
      <1>25, <1>26, <1>27, <1>28, <1>29, <1>30, <1>31
  DEF Next, Start, Work, Connect, StreamStep

LEMMA NamesStep ==
    ASSUME Calls, Names, Handles, Locking, Shared, Net, Held, [Next]_vars
    PROVE  Names'
<1>1. ASSUME NEW t \in Callers, StartSnapshot(t) PROVE Names'
  BY <1>1
  DEF StartSnapshot, Begin, live, backoff, connections, clients, Names
<1>2. ASSUME NEW t \in Callers, StartQuery(t) PROVE Names'
  BY <1>2
  DEF StartQuery, Begin, live, backoff, connections, clients, Names
<1>3. ASSUME NEW t \in Callers, StartResubscribe(t) PROVE Names'
  <2>1. PICK x \in Asks[t] : Begin(t, "resubscribe", {x})
    BY <1>3 DEF StartResubscribe
  <2> QED
    BY <2>1, ConstantsFit DEF Begin, Names
<1>4. ASSUME NEW t \in Callers, StartSend(t) PROVE Names'
  <2>1. PICK x \in Asks[t] : Begin(t, "send", {x})
    BY <1>4 DEF StartSend
  <2> QED
    BY <2>1, ConstantsFit DEF Begin, Names
<1>5. ASSUME NEW s \in Streams, StartTicks(s) PROVE Names'
  BY <1>5, ConstantsFit DEF StartTicks, Begin, Names
<1>6. ASSUME NEW t \in Tasks, Reuse(t) PROVE Names'
  BY <1>6
  DEF Reuse, Calling, Up, Obtain, live, backoff, connections, clients, Return,
      Onwards, Leave, Names
<1>7. ASSUME NEW t \in Tasks, Unavailable(t) PROVE Names'
  BY <1>7
  DEF Unavailable, Calling, Up, DropDead, Return, backoff, connections, clients, Dead,
      Forget, Leave, Names
<1>8. ASSUME NEW t \in Tasks, Dial(t) PROVE Names'
  BY <1>8
  DEF Dial, Calling, Up, DropDead, backoff, connections, clients, Dead, Forget, Names
<1>9. ASSUME NEW t \in Tasks, Connected(t) PROVE Names'
  BY <1>9
  DEF Connected, Longest, Obtain, Return, Onwards, Leave, Names
<1>10. ASSUME NEW t \in Tasks, DialFails(t) PROVE Names'
  BY <1>10
  DEF DialFails, Fails, Pause, Return, connections, clients, Least, Leave, Names
<1>11. ASSUME NEW t \in Tasks, Judge(t) PROVE Names'
  BY <1>11
  DEF Judge, Stale, live, backoff, connections, clients, Names
<1>12. ASSUME NEW t \in Tasks, Reset(t) PROVE Names'
  BY <1>12
  DEF Reset, Forget, backoff, connections, clients, Names
<1>13. ASSUME NEW t \in Tasks, ReadFails(t) PROVE Names'
  BY <1>13
  DEF ReadFails, Return, live, backoff, connections, clients, Leave, Names
<1>14. ASSUME NEW t \in Tasks, NEW held \in SUBSET Symbols, ReadBook(t, held) PROVE Names'
  <2>1. held \union interest \in SUBSET Symbols
    BY DEF Shared
  <2> QED
    BY <1>14, <2>1 DEF ReadBook, Names
<1>15. ASSUME NEW t \in Tasks, Ensure(t) PROVE Names'
  BY <1>15
  DEF Ensure, New, Ensured, live, backoff, connections, clients, Return, Leave, Names
<1>16. ASSUME NEW t \in Tasks, ExtendFresh(t) PROVE Names'
  <2>1. on[t] \in Dials /\ subscriptions[on[t]] \in SUBSET Symbols /\ Ids(t) \in SUBSET Symbols
    BY <1>16, HandleDial, ConstantsFit DEF ExtendFresh, Held, WithHandle, Net, Names, Ids
  <2>2. list' = [list EXCEPT ![t] = subscriptions[on[t]] \union Ids(t)] /\ UNCHANGED <<names, fresh>>
    BY <1>16, <2>1 DEF ExtendFresh, Extend, Net
  <2> QED
    BY <2>1, <2>2 DEF Names
<1>17. ASSUME NEW t \in Tasks, SkipFresh(t) PROVE Names'
  BY <1>17
  DEF SkipFresh, Subscribed, live, backoff, connections, clients, Return, Leave, Names
<1>18. ASSUME NEW t \in Tasks, Subscribe(t) PROVE Names'
  BY <1>18
  DEF Subscribe, Put, Subscribed, Return, Leave, live, backoff, clients, Names
<1>19. ASSUME NEW t \in Tasks, SubscribeFails(t) PROVE Names'
  BY <1>19
  DEF SubscribeFails, Ensured, live, backoff, connections, clients, Return, Leave,
      Names
<1>20. ASSUME NEW t \in Tasks, NoteEnsured(t) PROVE Names'
  BY <1>20
  DEF NoteEnsured, Note, Ensured, backoff, connections, clients, Return, Leave, Names
<1>21. ASSUME NEW s \in Streams, StartStream(s) PROVE Names'
  BY <1>21
  DEF StartStream, Leave, live, backoff, connections, clients, Names
<1>22. ASSUME NEW s \in Streams, Look(s) PROVE Names'
  BY <1>22
  DEF Look, Up, Moved, live, backoff, connections, clients, Names
<1>23. ASSUME NEW s \in Streams, Follow(s) PROVE Names'
  <2>1. Missing(s) \in SUBSET Symbols
    BY ConstantsFit DEF Missing
  <2> QED
    BY <1>23, <2>1, ConstantsFit DEF Follow, Leave, Names
<1>24. ASSUME NEW s \in Streams, ExtendMissing(s) PROVE Names'
  <2>1. on[s] \in Dials /\ subscriptions[on[s]] \in SUBSET Symbols /\ Ids(s) \in SUBSET Symbols
    BY <1>24, HandleDial, ConstantsFit DEF ExtendMissing, Held, WithHandle, Net, Names, Ids
  <2>2. list' = [list EXCEPT ![s] = subscriptions[on[s]] \union Ids(s)] /\ UNCHANGED <<names, fresh>>
    BY <1>24, <2>1 DEF ExtendMissing, Extend, Net
  <2> QED
    BY <2>1, <2>2 DEF Names
<1>25. ASSUME NEW s \in Streams, SkipMissing(s) PROVE Names'
  BY <1>25
  DEF SkipMissing, live, backoff, connections, clients, Names
<1>26. ASSUME NEW s \in Streams, Resubscribe(s) PROVE Names'
  BY <1>26
  DEF Resubscribe, Put, live, backoff, clients, Names
<1>27. ASSUME NEW s \in Streams, ResubscribeFails(s) PROVE Names'
  BY <1>27
  DEF ResubscribeFails, Leave, live, backoff, connections, clients, Names
<1>28. ASSUME NEW s \in Streams, Rejoin(s) PROVE Names'
  BY <1>28
  DEF Rejoin, Note, Leave, backoff, connections, clients, Names
<1>29. ASSUME NEW d \in Dials, Close(d) PROVE Names'
  BY <1>29
  DEF Close, live, backoff, tasks, Names
<1>30. CASE Tick
  BY <1>30
  DEF Tick, Least, Longest, Dials, live, tasks, clients, Names
<1>31. CASE UNCHANGED vars
  BY <1>31
  DEF vars, live, backoff, tasks, connections, clients, Names
<1> QED
  BY <1>1, <1>2, <1>3, <1>4, <1>5, <1>6, <1>7, <1>8, <1>9, <1>10, <1>11, <1>12, <1>13,
      <1>14, <1>15, <1>16, <1>17, <1>18, <1>19, <1>20, <1>21, <1>22, <1>23, <1>24,
      <1>25, <1>26, <1>27, <1>28, <1>29, <1>30, <1>31
  DEF Next, Start, Work, Connect, StreamStep

LEMMA HandlesStep ==
    ASSUME Calls, Names, Handles, Locking, Shared, Net, [Next]_vars
    PROVE  Handles'
<1>1. ASSUME NEW t \in Callers, StartSnapshot(t) PROVE Handles'
  BY <1>1, Numbers
  DEF StartSnapshot, Begin, live, backoff, connections, clients, Handles
<1>2. ASSUME NEW t \in Callers, StartQuery(t) PROVE Handles'
  BY <1>2, Numbers
  DEF StartQuery, Begin, live, backoff, connections, clients, Handles
<1>3. ASSUME NEW t \in Callers, StartResubscribe(t) PROVE Handles'
  BY <1>3, Numbers
  DEF StartResubscribe, Begin, live, backoff, connections, clients, Handles
<1>4. ASSUME NEW t \in Callers, StartSend(t) PROVE Handles'
  BY <1>4, Numbers
  DEF StartSend, Begin, live, backoff, connections, clients, Handles
<1>5. ASSUME NEW s \in Streams, StartTicks(s) PROVE Handles'
  BY <1>5, Numbers
  DEF StartTicks, Begin, live, backoff, connections, clients, Handles
<1>6. ASSUME NEW t \in Tasks, Reuse(t) PROVE Handles'
  BY <1>6, Numbers
  DEF Reuse, Calling, Up, Obtain, live, backoff, connections, clients, Return,
      Onwards, Leave, Handles
<1>7. ASSUME NEW t \in Tasks, Unavailable(t) PROVE Handles'
  BY <1>7, Numbers
  DEF Unavailable, Calling, Up, DropDead, Return, backoff, connections, clients, Dead,
      Forget, Leave, Handles
<1>8. ASSUME NEW t \in Tasks, Dial(t) PROVE Handles'
  BY <1>8, Numbers
  DEF Dial, Calling, Up, DropDead, backoff, connections, clients, Dead, Forget,
      Handles
<1>9. ASSUME NEW t \in Tasks, Connected(t) PROVE Handles'
  BY <1>9, Numbers
  DEF Connected, Longest, Obtain, Return, Onwards, Leave, Handles
<1>10. ASSUME NEW t \in Tasks, DialFails(t) PROVE Handles'
  BY <1>10, Numbers
  DEF DialFails, Fails, Pause, Return, connections, clients, Least, Leave, Handles
<1>11. ASSUME NEW t \in Tasks, Judge(t) PROVE Handles'
  BY <1>11, Numbers
  DEF Judge, Stale, live, backoff, connections, clients, Handles
<1>12. ASSUME NEW t \in Tasks, Reset(t) PROVE Handles'
  BY <1>12, Numbers
  DEF Reset, Forget, backoff, connections, clients, Handles
<1>13. ASSUME NEW t \in Tasks, ReadFails(t) PROVE Handles'
  BY <1>13, Numbers
  DEF ReadFails, Return, live, backoff, connections, clients, Leave, Handles
<1>14. ASSUME NEW t \in Tasks, NEW held \in SUBSET Symbols, ReadBook(t, held) PROVE Handles'
  BY <1>14, Numbers
  DEF ReadBook, live, backoff, connections, clients, Handles
<1>15. ASSUME NEW t \in Tasks, Ensure(t) PROVE Handles'
  BY <1>15, Numbers
  DEF Ensure, New, Ensured, live, backoff, connections, clients, Return, Leave,
      Handles
<1>16. ASSUME NEW t \in Tasks, ExtendFresh(t) PROVE Handles'
  BY <1>16, Numbers
  DEF ExtendFresh, Extend, live, backoff, Handles
<1>17. ASSUME NEW t \in Tasks, SkipFresh(t) PROVE Handles'
  BY <1>17, Numbers
  DEF SkipFresh, Subscribed, live, backoff, connections, clients, Return, Leave,
      Handles
<1>18. ASSUME NEW t \in Tasks, Subscribe(t) PROVE Handles'
  BY <1>18, Numbers
  DEF Subscribe, Put, Subscribed, Return, Leave, live, backoff, clients, Handles
<1>19. ASSUME NEW t \in Tasks, SubscribeFails(t) PROVE Handles'
  BY <1>19, Numbers
  DEF SubscribeFails, Ensured, live, backoff, connections, clients, Return, Leave,
      Handles
<1>20. ASSUME NEW t \in Tasks, NoteEnsured(t) PROVE Handles'
  BY <1>20, Numbers
  DEF NoteEnsured, Note, Ensured, backoff, connections, clients, Return, Leave,
      Handles
<1>21. ASSUME NEW s \in Streams, StartStream(s) PROVE Handles'
  BY <1>21, Numbers
  DEF StartStream, Leave, live, backoff, connections, clients, Handles
<1>22. ASSUME NEW s \in Streams, Look(s) PROVE Handles'
  BY <1>22, Numbers
  DEF Look, Up, Moved, live, backoff, connections, clients, Handles
<1>23. ASSUME NEW s \in Streams, Follow(s) PROVE Handles'
  <2>1. UNCHANGED generation /\ (UNCHANGED on \/ on' = [on EXCEPT ![s] = 0])
    BY <1>23 DEF Follow, Leave, live
  <2>2. on[s] \in 0 .. generation
    BY ConstantsFit DEF Handles
  <2>3. UNCHANGED noted \/ noted' = [noted EXCEPT ![s] = on[s]]
    BY <1>23 DEF Follow
  <2> QED
    BY <2>1, <2>2, <2>3, Numbers DEF Handles
<1>24. ASSUME NEW s \in Streams, ExtendMissing(s) PROVE Handles'
  BY <1>24, Numbers
  DEF ExtendMissing, Extend, live, backoff, Handles
<1>25. ASSUME NEW s \in Streams, SkipMissing(s) PROVE Handles'
  BY <1>25, Numbers
  DEF SkipMissing, live, backoff, connections, clients, Handles
<1>26. ASSUME NEW s \in Streams, Resubscribe(s) PROVE Handles'
  BY <1>26, Numbers
  DEF Resubscribe, Put, live, backoff, clients, Handles
<1>27. ASSUME NEW s \in Streams, ResubscribeFails(s) PROVE Handles'
  BY <1>27, Numbers
  DEF ResubscribeFails, Leave, live, backoff, connections, clients, Handles
<1>28. ASSUME NEW s \in Streams, Rejoin(s) PROVE Handles'
  <2>1. UNCHANGED generation /\ on' = [on EXCEPT ![s] = 0]
    BY <1>28 DEF Rejoin, Leave
  <2>2. on[s] \in 0 .. generation
    BY ConstantsFit DEF Handles
  <2>3. noted' = [noted EXCEPT ![s] = on[s]]
    BY <1>28 DEF Rejoin
  <2> QED
    BY <2>1, <2>2, <2>3, Numbers DEF Handles
<1>29. ASSUME NEW d \in Dials, Close(d) PROVE Handles'
  BY <1>29, Numbers
  DEF Close, live, backoff, tasks, Handles
<1>30. CASE Tick
  BY <1>30, Numbers
  DEF Tick, Least, Longest, Dials, live, tasks, clients, Handles
<1>31. CASE UNCHANGED vars
  BY <1>31, Numbers
  DEF vars, live, backoff, tasks, connections, clients, Handles
<1> QED
  BY <1>1, <1>2, <1>3, <1>4, <1>5, <1>6, <1>7, <1>8, <1>9, <1>10, <1>11, <1>12, <1>13,
      <1>14, <1>15, <1>16, <1>17, <1>18, <1>19, <1>20, <1>21, <1>22, <1>23, <1>24,
      <1>25, <1>26, <1>27, <1>28, <1>29, <1>30, <1>31
  DEF Next, Start, Work, Connect, StreamStep

LEMMA LockingStep ==
    ASSUME Calls, Names, Handles, Locking, Shared, Net, [Next]_vars
    PROVE  Locking'
<1>1. ASSUME NEW t \in Callers, StartSnapshot(t) PROVE Locking'
  BY <1>1, ConstantsFit
  DEF StartSnapshot, Begin, live, backoff, connections, clients, Locking, Dialling,
      Calls
<1>2. ASSUME NEW t \in Callers, StartQuery(t) PROVE Locking'
  BY <1>2, ConstantsFit
  DEF StartQuery, Begin, live, backoff, connections, clients, Locking, Dialling, Calls
<1>3. ASSUME NEW t \in Callers, StartResubscribe(t) PROVE Locking'
  BY <1>3, ConstantsFit
  DEF StartResubscribe, Begin, live, backoff, connections, clients, Locking, Dialling,
      Calls
<1>4. ASSUME NEW t \in Callers, StartSend(t) PROVE Locking'
  BY <1>4, ConstantsFit
  DEF StartSend, Begin, live, backoff, connections, clients, Locking, Dialling, Calls
<1>5. ASSUME NEW s \in Streams, StartTicks(s) PROVE Locking'
  BY <1>5, ConstantsFit
  DEF StartTicks, Begin, live, backoff, connections, clients, Locking, Dialling, Calls
<1>6. ASSUME NEW t \in Tasks, Reuse(t) PROVE Locking'
  BY <1>6, ConstantsFit
  DEF Reuse, Calling, Up, Obtain, live, backoff, connections, clients, Return,
      Onwards, Leave, Locking, Dialling, Calls
<1>7. ASSUME NEW t \in Tasks, Unavailable(t) PROVE Locking'
  BY <1>7, ConstantsFit
  DEF Unavailable, Calling, Up, DropDead, Return, backoff, connections, clients, Dead,
      Forget, Leave, Locking, Dialling, Calls
<1>8. ASSUME NEW t \in Tasks, Dial(t) PROVE Locking'
  <2>1. lock = Free /\ lock' = t /\ client' = 0
    BY <1>8, Dropped DEF Dial, Calling
  <2>2. \A u \in Tasks : at[u] \notin Dialling
    BY <2>1, ConstantsFit DEF Locking
  <2>3. at'[t] \in Dialling /\ \A u \in Tasks \ {t} : at'[u] = at[u]
    BY <1>8 DEF Dial, Calls, Dialling
  <2> QED
    BY <2>1, <2>2, <2>3 DEF Locking
<1>9. ASSUME NEW t \in Tasks, Connected(t) PROVE Locking'
  BY <1>9, ConstantsFit
  DEF Connected, Longest, Obtain, Return, Onwards, Leave, Locking, Dialling, Calls
<1>10. ASSUME NEW t \in Tasks, DialFails(t) PROVE Locking'
  BY <1>10, ConstantsFit
  DEF DialFails, Fails, Pause, Return, connections, clients, Least, Leave, Locking,
      Dialling, Calls
<1>11. ASSUME NEW t \in Tasks, Judge(t) PROVE Locking'
  BY <1>11, ConstantsFit
  DEF Judge, Stale, live, backoff, connections, clients, Locking, Dialling, Calls
<1>12. ASSUME NEW t \in Tasks, Reset(t) PROVE Locking'
  BY <1>12, ConstantsFit
  DEF Reset, Forget, backoff, connections, clients, Locking, Dialling, Calls
<1>13. ASSUME NEW t \in Tasks, ReadFails(t) PROVE Locking'
  BY <1>13, ConstantsFit
  DEF ReadFails, Return, live, backoff, connections, clients, Leave, Locking,
      Dialling, Calls
<1>14. ASSUME NEW t \in Tasks, NEW held \in SUBSET Symbols, ReadBook(t, held) PROVE Locking'
  BY <1>14, ConstantsFit
  DEF ReadBook, live, backoff, connections, clients, Locking, Dialling, Calls
<1>15. ASSUME NEW t \in Tasks, Ensure(t) PROVE Locking'
  BY <1>15, ConstantsFit
  DEF Ensure, New, Ensured, live, backoff, connections, clients, Return, Leave,
      Locking, Dialling, Calls
<1>16. ASSUME NEW t \in Tasks, ExtendFresh(t) PROVE Locking'
  BY <1>16, ConstantsFit
  DEF ExtendFresh, Extend, live, backoff, Locking, Dialling, Calls
<1>17. ASSUME NEW t \in Tasks, SkipFresh(t) PROVE Locking'
  BY <1>17, ConstantsFit
  DEF SkipFresh, Subscribed, live, backoff, connections, clients, Return, Leave,
      Locking, Dialling, Calls
<1>18. ASSUME NEW t \in Tasks, Subscribe(t) PROVE Locking'
  BY <1>18, ConstantsFit
  DEF Subscribe, Put, Subscribed, Return, Leave, live, backoff, clients, Locking,
      Dialling, Calls
<1>19. ASSUME NEW t \in Tasks, SubscribeFails(t) PROVE Locking'
  BY <1>19, ConstantsFit
  DEF SubscribeFails, Ensured, live, backoff, connections, clients, Return, Leave,
      Locking, Dialling, Calls
<1>20. ASSUME NEW t \in Tasks, NoteEnsured(t) PROVE Locking'
  BY <1>20, ConstantsFit
  DEF NoteEnsured, Note, Ensured, backoff, connections, clients, Return, Leave,
      Locking, Dialling, Calls
<1>21. ASSUME NEW s \in Streams, StartStream(s) PROVE Locking'
  BY <1>21, ConstantsFit
  DEF StartStream, Leave, live, backoff, connections, clients, Locking, Dialling,
      Calls
<1>22. ASSUME NEW s \in Streams, Look(s) PROVE Locking'
  BY <1>22, ConstantsFit
  DEF Look, Up, Moved, live, backoff, connections, clients, Locking, Dialling, Calls
<1>23. ASSUME NEW s \in Streams, Follow(s) PROVE Locking'
  BY <1>23, ConstantsFit
  DEF Follow, Missing, Leave, live, backoff, connections, clients, Locking, Dialling,
      Calls
<1>24. ASSUME NEW s \in Streams, ExtendMissing(s) PROVE Locking'
  BY <1>24, ConstantsFit
  DEF ExtendMissing, Extend, live, backoff, Locking, Dialling, Calls
<1>25. ASSUME NEW s \in Streams, SkipMissing(s) PROVE Locking'
  BY <1>25, ConstantsFit
  DEF SkipMissing, live, backoff, connections, clients, Locking, Dialling, Calls
<1>26. ASSUME NEW s \in Streams, Resubscribe(s) PROVE Locking'
  BY <1>26, ConstantsFit
  DEF Resubscribe, Put, live, backoff, clients, Locking, Dialling, Calls
<1>27. ASSUME NEW s \in Streams, ResubscribeFails(s) PROVE Locking'
  BY <1>27, ConstantsFit
  DEF ResubscribeFails, Leave, live, backoff, connections, clients, Locking, Dialling,
      Calls
<1>28. ASSUME NEW s \in Streams, Rejoin(s) PROVE Locking'
  BY <1>28, ConstantsFit
  DEF Rejoin, Note, Leave, backoff, connections, clients, Locking, Dialling, Calls
<1>29. ASSUME NEW d \in Dials, Close(d) PROVE Locking'
  BY <1>29, ConstantsFit
  DEF Close, live, backoff, tasks, Locking, Dialling, Calls
<1>30. CASE Tick
  BY <1>30, ConstantsFit
  DEF Tick, Least, Longest, Dials, live, tasks, clients, Locking, Dialling, Calls
<1>31. CASE UNCHANGED vars
  BY <1>31, ConstantsFit
  DEF vars, live, backoff, tasks, connections, clients, Locking, Dialling, Calls
<1> QED
  BY <1>1, <1>2, <1>3, <1>4, <1>5, <1>6, <1>7, <1>8, <1>9, <1>10, <1>11, <1>12, <1>13,
      <1>14, <1>15, <1>16, <1>17, <1>18, <1>19, <1>20, <1>21, <1>22, <1>23, <1>24,
      <1>25, <1>26, <1>27, <1>28, <1>29, <1>30, <1>31
  DEF Next, Start, Work, Connect, StreamStep

LEMMA SharedStep ==
    ASSUME Calls, Names, Handles, Locking, Shared, Net, [Next]_vars
    PROVE  Shared'
<1>1. ASSUME NEW t \in Callers, StartSnapshot(t) PROVE Shared'
  BY <1>1, ConstantsFit, Numbers
  DEF StartSnapshot, Begin, live, backoff, connections, clients, Shared
<1>2. ASSUME NEW t \in Callers, StartQuery(t) PROVE Shared'
  BY <1>2, ConstantsFit, Numbers
  DEF StartQuery, Begin, live, backoff, connections, clients, Shared
<1>3. ASSUME NEW t \in Callers, StartResubscribe(t) PROVE Shared'
  BY <1>3, ConstantsFit, Numbers
  DEF StartResubscribe, Begin, live, backoff, connections, clients, Shared
<1>4. ASSUME NEW t \in Callers, StartSend(t) PROVE Shared'
  BY <1>4, ConstantsFit, Numbers
  DEF StartSend, Begin, live, backoff, connections, clients, Shared
<1>5. ASSUME NEW s \in Streams, StartTicks(s) PROVE Shared'
  BY <1>5, ConstantsFit, Numbers
  DEF StartTicks, Begin, live, backoff, connections, clients, Shared
<1>6. ASSUME NEW t \in Tasks, Reuse(t) PROVE Shared'
  BY <1>6, ConstantsFit, Numbers
  DEF Reuse, Calling, Up, Obtain, live, backoff, connections, clients, Return,
      Onwards, Leave, Shared
<1>7. ASSUME NEW t \in Tasks, Unavailable(t) PROVE Shared'
  BY <1>7, ConstantsFit, Numbers
  DEF Unavailable, Calling, Up, DropDead, Return, backoff, connections, clients, Dead,
      Forget, Leave, Shared
<1>8. ASSUME NEW t \in Tasks, Dial(t) PROVE Shared'
  BY <1>8, ConstantsFit, Numbers
  DEF Dial, Calling, Up, DropDead, backoff, connections, clients, Dead, Forget, Shared
<1>9. ASSUME NEW t \in Tasks, Connected(t) PROVE Shared'
  BY <1>9, ConstantsFit, Numbers
  DEF Connected, Longest, Obtain, Return, Onwards, Leave, Shared
<1>10. ASSUME NEW t \in Tasks, DialFails(t) PROVE Shared'
  BY <1>10, ConstantsFit, Numbers
  DEF DialFails, Fails, Pause, Return, connections, clients, Least, Leave, Shared
<1>11. ASSUME NEW t \in Tasks, Judge(t) PROVE Shared'
  BY <1>11, ConstantsFit, Numbers
  DEF Judge, Stale, live, backoff, connections, clients, Shared
<1>12. ASSUME NEW t \in Tasks, Reset(t) PROVE Shared'
  BY <1>12, ConstantsFit, Numbers
  DEF Reset, Forget, backoff, connections, clients, Shared
<1>13. ASSUME NEW t \in Tasks, ReadFails(t) PROVE Shared'
  BY <1>13, ConstantsFit, Numbers
  DEF ReadFails, Return, live, backoff, connections, clients, Leave, Shared
<1>14. ASSUME NEW t \in Tasks, NEW held \in SUBSET Symbols, ReadBook(t, held) PROVE Shared'
  BY <1>14, ConstantsFit, Numbers
  DEF ReadBook, live, backoff, connections, clients, Shared
<1>15. ASSUME NEW t \in Tasks, Ensure(t) PROVE Shared'
  <2>1. names[t] \in SUBSET Symbols
    BY DEF Names
  <2> QED
    BY <1>15, <2>1 DEF Ensure, live, backoff, Shared
<1>16. ASSUME NEW t \in Tasks, ExtendFresh(t) PROVE Shared'
  BY <1>16, ConstantsFit, Numbers
  DEF ExtendFresh, Extend, live, backoff, Shared
<1>17. ASSUME NEW t \in Tasks, SkipFresh(t) PROVE Shared'
  BY <1>17, ConstantsFit, Numbers
  DEF SkipFresh, Subscribed, live, backoff, connections, clients, Return, Leave,
      Shared
<1>18. ASSUME NEW t \in Tasks, Subscribe(t) PROVE Shared'
  BY <1>18, ConstantsFit, Numbers
  DEF Subscribe, Put, Subscribed, Return, Leave, live, backoff, clients, Shared
<1>19. ASSUME NEW t \in Tasks, SubscribeFails(t) PROVE Shared'
  BY <1>19, ConstantsFit, Numbers
  DEF SubscribeFails, Ensured, live, backoff, connections, clients, Return, Leave,
      Shared
<1>20. ASSUME NEW t \in Tasks, NoteEnsured(t) PROVE Shared'
  <2>1. fresh[t] \in SUBSET Symbols
    BY DEF Names
  <2>2. crossed' \in BOOLEAN
    BY <1>20 DEF NoteEnsured, Note
  <2> QED
    BY <1>20, <2>1, <2>2 DEF NoteEnsured, Note, backoff, Shared
<1>21. ASSUME NEW s \in Streams, StartStream(s) PROVE Shared'
  BY <1>21, ConstantsFit, Numbers
  DEF StartStream, Leave, live, backoff, connections, clients, Shared
<1>22. ASSUME NEW s \in Streams, Look(s) PROVE Shared'
  BY <1>22, ConstantsFit, Numbers
  DEF Look, Up, Moved, live, backoff, connections, clients, Shared
<1>23. ASSUME NEW s \in Streams, Follow(s) PROVE Shared'
  BY <1>23, ConstantsFit, Numbers
  DEF Follow, Missing, Leave, live, backoff, connections, clients, Shared
<1>24. ASSUME NEW s \in Streams, ExtendMissing(s) PROVE Shared'
  BY <1>24, ConstantsFit, Numbers
  DEF ExtendMissing, Extend, live, backoff, Shared
<1>25. ASSUME NEW s \in Streams, SkipMissing(s) PROVE Shared'
  BY <1>25, ConstantsFit, Numbers
  DEF SkipMissing, live, backoff, connections, clients, Shared
<1>26. ASSUME NEW s \in Streams, Resubscribe(s) PROVE Shared'
  BY <1>26, ConstantsFit, Numbers
  DEF Resubscribe, Put, live, backoff, clients, Shared
<1>27. ASSUME NEW s \in Streams, ResubscribeFails(s) PROVE Shared'
  BY <1>27, ConstantsFit, Numbers
  DEF ResubscribeFails, Leave, live, backoff, connections, clients, Shared
<1>28. ASSUME NEW s \in Streams, Rejoin(s) PROVE Shared'
  <2>1. fresh[s] \in SUBSET Symbols
    BY ConstantsFit DEF Names
  <2>2. crossed' \in BOOLEAN
    BY <1>28 DEF Rejoin, Note
  <2> QED
    BY <1>28, <2>1, <2>2 DEF Rejoin, Note, backoff, Shared
<1>29. ASSUME NEW d \in Dials, Close(d) PROVE Shared'
  BY <1>29, ConstantsFit, Numbers
  DEF Close, live, backoff, tasks, Shared
<1>30. CASE Tick
  BY <1>30, ConstantsFit, Numbers
  DEF Tick, Least, Longest, Dials, live, tasks, clients, Shared
<1>31. CASE UNCHANGED vars
  BY <1>31, ConstantsFit, Numbers
  DEF vars, live, backoff, tasks, connections, clients, Shared
<1> QED
  BY <1>1, <1>2, <1>3, <1>4, <1>5, <1>6, <1>7, <1>8, <1>9, <1>10, <1>11, <1>12, <1>13,
      <1>14, <1>15, <1>16, <1>17, <1>18, <1>19, <1>20, <1>21, <1>22, <1>23, <1>24,
      <1>25, <1>26, <1>27, <1>28, <1>29, <1>30, <1>31
  DEF Next, Start, Work, Connect, StreamStep

LEMMA PutTyped ==
    ASSUME Net, NEW c, NEW all \in SUBSET Symbols, Put(c, all)
    PROVE  streams' \in [Dials -> SUBSET Symbols] /\ overtaken' \in [Dials -> BOOLEAN]
<1>1. CASE state[c] = "open"
  <2>1. streams' = [streams EXCEPT ![c] = all]
    BY <1>1 DEF Put
  <2>2. PICK flag \in BOOLEAN : overtaken' = [overtaken EXCEPT ![c] = flag]
    BY <1>1 DEF Put
  <2> QED
    BY <2>1, <2>2 DEF Net
<1>2. CASE state[c] # "open"
  BY <1>2 DEF Put, Net
<1> QED
  BY <1>1, <1>2

LEMMA NetTyped ==
    ASSUME Calls, Names, Handles, Locking, Shared, Net, [Next]_vars
    PROVE  Net'
<1>1. ASSUME NEW t \in Callers, StartSnapshot(t) PROVE Net'
  BY <1>1, ConstantsFit, Numbers
  DEF StartSnapshot, Begin, live, backoff, connections, clients, Net
<1>2. ASSUME NEW t \in Callers, StartQuery(t) PROVE Net'
  BY <1>2, ConstantsFit, Numbers
  DEF StartQuery, Begin, live, backoff, connections, clients, Net
<1>3. ASSUME NEW t \in Callers, StartResubscribe(t) PROVE Net'
  BY <1>3, ConstantsFit, Numbers
  DEF StartResubscribe, Begin, live, backoff, connections, clients, Net
<1>4. ASSUME NEW t \in Callers, StartSend(t) PROVE Net'
  BY <1>4, ConstantsFit, Numbers
  DEF StartSend, Begin, live, backoff, connections, clients, Net
<1>5. ASSUME NEW s \in Streams, StartTicks(s) PROVE Net'
  BY <1>5, ConstantsFit, Numbers
  DEF StartTicks, Begin, live, backoff, connections, clients, Net
<1>6. ASSUME NEW t \in Tasks, Reuse(t) PROVE Net'
  BY <1>6, ConstantsFit, Numbers
  DEF Reuse, Calling, Up, Obtain, live, backoff, connections, clients, Return,
      Onwards, Leave, Net
<1>7. ASSUME NEW t \in Tasks, Unavailable(t) PROVE Net'
  BY <1>7, ConstantsFit, Numbers
  DEF Unavailable, Calling, Up, DropDead, Return, backoff, connections, clients, Dead,
      Forget, Leave, Net
<1>8. ASSUME NEW t \in Tasks, Dial(t) PROVE Net'
  BY <1>8, ConstantsFit, Numbers
  DEF Dial, Calling, Up, DropDead, backoff, connections, clients, Dead, Forget, Net
<1>9. ASSUME NEW t \in Tasks, Connected(t) PROVE Net'
  <2>1. generation' = generation + 1 /\ state' = [state EXCEPT ![generation'] = "open"]
    BY <1>9 DEF Connected
  <2>2. \A d \in Dials : d # generation' => (d > generation' <=> d > generation)
    BY <2>1, Numbers DEF Dials
  <2>3. \A d \in Dials : state'[d] = "none" <=> d > generation'
    BY <2>1, <2>2, Numbers DEF Net
  <2>4. state' \in [Dials -> {"none", "open", "closed"}]
    BY <2>1 DEF Net
  <2>5. listed' \in [Dials -> SUBSET Symbols]
    <3>1. PICK symbols \in Lists : listed' = [listed EXCEPT ![generation'] = symbols]
      BY <1>9 DEF Connected
    <3> QED
      BY <3>1, ConstantsFit DEF Net
  <2> QED
    BY <1>9, <2>3, <2>4, <2>5 DEF Connected, Net
<1>10. ASSUME NEW t \in Tasks, DialFails(t) PROVE Net'
  BY <1>10, ConstantsFit, Numbers
  DEF DialFails, Fails, Pause, Return, connections, clients, Least, Leave, Net
<1>11. ASSUME NEW t \in Tasks, Judge(t) PROVE Net'
  BY <1>11, ConstantsFit, Numbers
  DEF Judge, Stale, live, backoff, connections, clients, Net
<1>12. ASSUME NEW t \in Tasks, Reset(t) PROVE Net'
  BY <1>12, ConstantsFit, Numbers
  DEF Reset, Forget, backoff, connections, clients, Net
<1>13. ASSUME NEW t \in Tasks, ReadFails(t) PROVE Net'
  BY <1>13, ConstantsFit, Numbers
  DEF ReadFails, Return, live, backoff, connections, clients, Leave, Net
<1>14. ASSUME NEW t \in Tasks, NEW held \in SUBSET Symbols, ReadBook(t, held) PROVE Net'
  BY <1>14, ConstantsFit, Numbers
  DEF ReadBook, live, backoff, connections, clients, Net
<1>15. ASSUME NEW t \in Tasks, Ensure(t) PROVE Net'
  BY <1>15, ConstantsFit, Numbers
  DEF Ensure, New, Ensured, live, backoff, connections, clients, Return, Leave, Net
<1>16. ASSUME NEW t \in Tasks, ExtendFresh(t) PROVE Net'
  <2>1. Ids(t) \in SUBSET Symbols
    BY ConstantsFit DEF Names, Ids
  <2>2. subscriptions' = [subscriptions EXCEPT ![on[t]] = subscriptions[on[t]] \union Ids(t)]
    BY <1>16 DEF ExtendFresh, Extend
  <2>3. subscriptions' \in [Dials -> SUBSET Symbols]
    BY <2>1, <2>2 DEF Net
  <2> QED
    BY <1>16, <2>3 DEF ExtendFresh, Extend, live, Net
<1>17. ASSUME NEW t \in Tasks, SkipFresh(t) PROVE Net'
  BY <1>17, ConstantsFit, Numbers
  DEF SkipFresh, Subscribed, live, backoff, connections, clients, Return, Leave, Net
<1>18. ASSUME NEW t \in Tasks, Subscribe(t) PROVE Net'
  <2>1. list[t] \in SUBSET Symbols
    BY ConstantsFit DEF Names
  <2>2. Put(on[t], list[t])
    BY <1>18 DEF Subscribe
  <2> QED
    BY <1>18, <2>1, <2>2, PutTyped DEF Subscribe, live, clients, Net
<1>19. ASSUME NEW t \in Tasks, SubscribeFails(t) PROVE Net'
  BY <1>19, ConstantsFit, Numbers
  DEF SubscribeFails, Ensured, live, backoff, connections, clients, Return, Leave, Net
<1>20. ASSUME NEW t \in Tasks, NoteEnsured(t) PROVE Net'
  BY <1>20, ConstantsFit, Numbers
  DEF NoteEnsured, Note, Ensured, backoff, connections, clients, Return, Leave, Net
<1>21. ASSUME NEW s \in Streams, StartStream(s) PROVE Net'
  BY <1>21, ConstantsFit, Numbers
  DEF StartStream, Leave, live, backoff, connections, clients, Net
<1>22. ASSUME NEW s \in Streams, Look(s) PROVE Net'
  BY <1>22, ConstantsFit, Numbers
  DEF Look, Up, Moved, live, backoff, connections, clients, Net
<1>23. ASSUME NEW s \in Streams, Follow(s) PROVE Net'
  BY <1>23, ConstantsFit, Numbers
  DEF Follow, Missing, Leave, live, backoff, connections, clients, Net
<1>24. ASSUME NEW s \in Streams, ExtendMissing(s) PROVE Net'
  <2>1. Ids(s) \in SUBSET Symbols
    BY ConstantsFit DEF Names, Ids
  <2>2. subscriptions' = [subscriptions EXCEPT ![on[s]] = subscriptions[on[s]] \union Ids(s)]
    BY <1>24 DEF ExtendMissing, Extend
  <2>3. subscriptions' \in [Dials -> SUBSET Symbols]
    BY <2>1, <2>2 DEF Net
  <2> QED
    BY <1>24, <2>3 DEF ExtendMissing, Extend, live, Net
<1>25. ASSUME NEW s \in Streams, SkipMissing(s) PROVE Net'
  BY <1>25, ConstantsFit, Numbers
  DEF SkipMissing, live, backoff, connections, clients, Net
<1>26. ASSUME NEW s \in Streams, Resubscribe(s) PROVE Net'
  <2>1. list[s] \in SUBSET Symbols
    BY ConstantsFit DEF Names
  <2>2. Put(on[s], list[s])
    BY <1>26 DEF Resubscribe
  <2> QED
    BY <1>26, <2>1, <2>2, PutTyped DEF Resubscribe, live, clients, Net
<1>27. ASSUME NEW s \in Streams, ResubscribeFails(s) PROVE Net'
  BY <1>27, ConstantsFit, Numbers
  DEF ResubscribeFails, Leave, live, backoff, connections, clients, Net
<1>28. ASSUME NEW s \in Streams, Rejoin(s) PROVE Net'
  BY <1>28, ConstantsFit, Numbers
  DEF Rejoin, Note, Leave, backoff, connections, clients, Net
<1>29. ASSUME NEW d \in Dials, Close(d) PROVE Net'
  BY <1>29, ConstantsFit, Numbers
  DEF Close, live, backoff, tasks, Net
<1>30. CASE Tick
  BY <1>30, ConstantsFit, Numbers
  DEF Tick, Least, Longest, Dials, live, tasks, clients, Net
<1>31. CASE UNCHANGED vars
  BY <1>31, ConstantsFit, Numbers
  DEF vars, live, backoff, tasks, connections, clients, Net
<1> QED
  BY <1>1, <1>2, <1>3, <1>4, <1>5, <1>6, <1>7, <1>8, <1>9, <1>10, <1>11, <1>12, <1>13,
      <1>14, <1>15, <1>16, <1>17, <1>18, <1>19, <1>20, <1>21, <1>22, <1>23, <1>24,
      <1>25, <1>26, <1>27, <1>28, <1>29, <1>30, <1>31
  DEF Next, Start, Work, Connect, StreamStep

------------------------------------------------------------------------------
(* What is noted of the connection *)

\* A copy on its way to the server has the symbols it is sent for, and is one of
\* what the client has subscribed.
Copied ==
    \A t \in Tasks :
        at[t] \in {"sending", "resending"} /\ state[on[t]] = "open"
            => Ids(t) \subseteq list[t] /\ list[t] \subseteq subscriptions[on[t]]

\* What is about to be noted was subscribed on the handle, as far as that lists it,
\* and streams there while that is open and no list was overtaken.
Asked ==
    \A t \in Tasks :
        at[t] \in {"noting", "rejoining"} /\ state[on[t]] = "open"
            => /\ Ids(t) \subseteq subscriptions[on[t]]
               /\ overtaken[on[t]] \/ Ids(t) \subseteq streams[on[t]]

\* Without a connection nothing is noted, unless a redial was crossed.
Clean == client = 0 /\ ~crossed => subscribed = {}

\* What is noted the client has subscribed, as far as it lists it.
Known == Up /\ ~crossed => subscribed \intersect listed[client] \subseteq subscriptions[client]

LEMMA Redialled ==
    ASSUME Locking, Shared, Net, NEW t \in Tasks, Connected(t)
    PROVE  /\ client = 0 /\ generation' = generation + 1 /\ client' = generation'
           /\ client' # 0 /\ client' \in Dials /\ client' \notin 0 .. generation
           /\ \A d \in 1 .. generation : state'[d] = state[d]
           /\ \A d \in 1 .. generation : listed'[d] = listed[d]
           /\ UNCHANGED <<subscriptions, streams, overtaken, subscribed, crossed>>
<1>1. /\ lock = t /\ generation < MaxDials /\ generation' = generation + 1
      /\ client' = generation' /\ state' = [state EXCEPT ![generation'] = "open"]
      /\ \E symbols \in Lists : listed' = [listed EXCEPT ![generation'] = symbols]
      /\ UNCHANGED <<subscriptions, streams, overtaken, subscribed, crossed>>
  BY DEF Connected
<1>2. client = 0
  BY <1>1, ConstantsFit DEF Locking
<1>3. generation \in Nat /\ MaxDials \in Nat
  BY Numbers, ConstantsFit
<1>4. client' # 0 /\ client' \in Dials /\ client' \notin 0 .. generation
  BY <1>1, <1>3 DEF Dials
<1>5. \A d \in 1 .. generation : state'[d] = state[d] /\ listed'[d] = listed[d]
  <2>1. \A d \in 1 .. generation : d \in Dials /\ d # generation'
    BY <1>1, <1>3 DEF Dials, Shared
  <2>2. PICK symbols \in Lists : listed' = [listed EXCEPT ![generation'] = symbols]
    BY <1>1
  <2> QED
    BY <1>1, <2>1, <2>2 DEF Net
<1> QED
  BY <1>1, <1>2, <1>4, <1>5

\* What a list that is sent does to a connection: it streams what it did and more,
\* or all that is subscribed, or the list was overtaken.
Grows(c) ==
    \/ streams[c] \subseteq streams'[c] /\ (overtaken[c] => overtaken'[c])
    \/ streams'[c] = subscriptions'[c]
    \/ overtaken'[c]

LEMMA PutGrows ==
    ASSUME Net, NEW c, NEW all, Put(c, all), UNCHANGED subscriptions, NEW d \in Dials
    PROVE  /\ Grows(d)
           /\ d = c /\ state[c] = "open" => streams'[c] = all
<1>1. CASE state[c] = "open" /\ d = c
  <2>1. streams'[c] = all
    BY <1>1 DEF Put, Net
  <2>2. overtaken'[c] = (~ streams[c] \subseteq all \/ (overtaken[c] /\ all # subscriptions[c]))
    BY <1>1 DEF Put, Net
  <2> QED
    BY <1>1, <2>1, <2>2 DEF Grows
<1>2. CASE state[c] = "open" /\ d # c
  <2>1. streams'[d] = streams[d] /\ overtaken'[d] = overtaken[d]
    BY <1>2 DEF Put, Net
  <2> QED
    BY <1>2, <2>1 DEF Grows
<1>3. CASE state[c] # "open"
  BY <1>3 DEF Put, Grows
<1> QED
  BY <1>1, <1>2, <1>3

LEMMA Obtained ==
    ASSUME Calls, Names, Handles, NEW t \in Tasks, NEW c, Obtain(t, c)
    PROVE  /\ \A u \in Tasks \ {t} : /\ at'[u] = at[u] /\ what'[u] = what[u] /\ on'[u] = on[u]
                                    /\ names'[u] = names[u] /\ fresh'[u] = fresh[u]
                                    /\ list'[u] = list[u]
           /\ \/ at'[t] = "idle" /\ what'[t] = "none"
              \/ /\ on'[t] = c /\ what'[t] = what[t] /\ names'[t] = names[t]
                 /\ \/ at'[t] = "ensuring" /\ what[t] # "send"
                    \/ at'[t] = "subscribing" /\ what[t] = "send"
                    \/ at'[t] = "ageing" /\ what[t] = "snapshot"
                    \/ at'[t] = "reading" /\ what[t] = "snapshot"
<1>1. CASE what[t] = "query"
  BY <1>1 DEF Obtain, Return, Leave, Calls, Names, Handles
<1>2. CASE what[t] # "query"
  <2>1. /\ at' = [at EXCEPT ![t] = Onwards(t)] /\ on' = [on EXCEPT ![t] = c]
        /\ UNCHANGED <<what, names, list>>
    BY <1>2 DEF Obtain
  <2>3. \A u \in Tasks \ {t} : fresh'[u] = fresh[u]
    BY <1>2 DEF Obtain, Names
  <2>2. \/ Onwards(t) = "ensuring" /\ what[t] # "send"
        \/ Onwards(t) = "subscribing" /\ what[t] = "send"
        \/ Onwards(t) \in {"ageing", "reading"} /\ what[t] = "snapshot"
    <3>1. CASE what[t] = "snapshot" /\ at[t] \in {"calling", "dialling"}
      BY <3>1 DEF Onwards
    <3>2. CASE what[t] = "snapshot" /\ at[t] \notin {"calling", "dialling"}
      BY <3>2 DEF Onwards
    <3>3. CASE what[t] = "send"
      BY <3>3 DEF Onwards
    <3>4. CASE what[t] \notin {"snapshot", "send"}
      BY <3>4 DEF Onwards
    <3> QED
      BY <3>1, <3>2, <3>3, <3>4
  <2> QED
    BY <2>1, <2>2, <2>3 DEF Calls, Handles
<1> QED
  BY <1>1, <1>2

------------------------------------------------------------------------------
(* What a step does to the session and its connections, and to a task *)

\* The session's connection stays, with what was noted of it or more; it is
\* forgotten, or dialled anew.
SessionStep ==
    \/ UNCHANGED <<client, generation, subscribed>> /\ (crossed => crossed')
    \/ /\ Forget /\ UNCHANGED generation
       /\ client = 0 \/ Dead \/ \E t \in Tasks : at[t] = "resetting"
    \/ /\ client = 0 /\ generation' = generation + 1 /\ client' = generation'
       /\ UNCHANGED <<subscribed, crossed>>
    \/ \E t \in Tasks : /\ at[t] \in {"noting", "rejoining"} /\ Note(t)
                       /\ UNCHANGED <<client, generation>>

\* A connection keeps its list and its subscriptions, and streams what it did, all
\* that is subscribed, or what an overtaken list left; or it has closed for good.
NetStep ==
    \A c \in 1 .. generation :
        /\ state'[c] = "open" => /\ state[c] = "open" /\ listed'[c] = listed[c]
                                /\ subscriptions[c] \subseteq subscriptions'[c]
                                /\ Grows(c)
        /\ state[c] = "closed" => state'[c] = "closed"

\* A task that stays where it is keeps what it holds.
Still(u) ==
    at'[u] = at[u] =>
        /\ what'[u] = what[u] /\ names'[u] = names[u] /\ on'[u] = on[u] /\ fresh'[u] = fresh[u]
        /\ list'[u] = list[u]
        /\ u \in Streams => noted'[u] = noted[u]

\* A task comes to a place by a step of its own.
Comes(u) ==
    at'[u] # at[u] =>
        /\ at'[u] = "calling" => \E kind \in Kinds \union {"ticks"}, asked \in SUBSET Symbols :
                                   /\ Begin(u, kind, asked)
                                   /\ u \in Streams => kind = "ticks" /\ asked = Wanted[u]
                                   /\ kind = "snapshot" =>
                                        u \in Callers /\ "snapshot" \in Allowed[u]
        /\ at'[u] # "calling" => what'[u] \in {what[u], "none"}
        /\ at'[u] \in Dialling => Dial(u)
        /\ at'[u] = "again" => Reset(u)
        /\ at'[u] \in {"ensuring", "ageing", "reading"} =>
               \/ Reuse(u) \/ Connected(u) \/ Judge(u)
               \/ \E held \in SUBSET Symbols : ReadBook(u, held)
        /\ at'[u] = "resetting" => Judge(u)
        /\ at'[u] = "subscribing" =>
               Ensure(u) \/ (what[u] = "send" /\ (Reuse(u) \/ Connected(u)))
        /\ at'[u] = "sending" => ExtendFresh(u)
        /\ at'[u] = "noting" => SkipFresh(u) \/ Subscribe(u)
        /\ at'[u] = "ensured" => Ensure(u) \/ SubscribeFails(u) \/ NoteEnsured(u)
        /\ at'[u] = "following" => Look(u)
        /\ at'[u] = "resubscribing" => Follow(u)
        /\ at'[u] = "resending" => ExtendMissing(u)
        /\ at'[u] = "rejoining" => SkipMissing(u) \/ Resubscribe(u)
        /\ at'[u] = "polling" => StartStream(u) \/ Follow(u) \/ ResubscribeFails(u) \/ Rejoin(u)

LEMMA SessionSteps ==
    ASSUME Calls, Names, Handles, Locking, Shared, Net, [Next]_vars
    PROVE  SessionStep
<1>1. ASSUME NEW t \in Callers, StartSnapshot(t) PROVE SessionStep
  BY <1>1, ConstantsFit
  DEF StartSnapshot, Begin, live, backoff, connections, clients, SessionStep, Forget
<1>2. ASSUME NEW t \in Callers, StartQuery(t) PROVE SessionStep
  BY <1>2, ConstantsFit
  DEF StartQuery, Begin, live, backoff, connections, clients, SessionStep, Forget
<1>3. ASSUME NEW t \in Callers, StartResubscribe(t) PROVE SessionStep
  BY <1>3, ConstantsFit
  DEF StartResubscribe, Begin, live, backoff, connections, clients, SessionStep,
      Forget
<1>4. ASSUME NEW t \in Callers, StartSend(t) PROVE SessionStep
  BY <1>4, ConstantsFit
  DEF StartSend, Begin, live, backoff, connections, clients, SessionStep, Forget
<1>5. ASSUME NEW s \in Streams, StartTicks(s) PROVE SessionStep
  BY <1>5, ConstantsFit
  DEF StartTicks, Begin, live, backoff, connections, clients, SessionStep, Forget
<1>6. ASSUME NEW t \in Tasks, Reuse(t) PROVE SessionStep
  BY <1>6, ConstantsFit
  DEF Reuse, Calling, Up, Obtain, live, backoff, connections, clients, Return,
      Onwards, Leave, SessionStep, Forget
<1>7. ASSUME NEW t \in Tasks, Unavailable(t) PROVE SessionStep
  BY <1>7, ConstantsFit
  DEF Unavailable, Calling, Up, DropDead, Return, backoff, connections, clients, Dead,
      Forget, Leave, SessionStep
<1>8. ASSUME NEW t \in Tasks, Dial(t) PROVE SessionStep
  BY <1>8, ConstantsFit
  DEF Dial, Calling, Up, DropDead, backoff, connections, clients, Dead, Forget,
      SessionStep
<1>9. ASSUME NEW t \in Tasks, Connected(t) PROVE SessionStep
  BY <1>9, Redialled DEF SessionStep
<1>10. ASSUME NEW t \in Tasks, DialFails(t) PROVE SessionStep
  BY <1>10, ConstantsFit
  DEF DialFails, Fails, Pause, Return, connections, clients, Least, Leave,
      SessionStep, Forget
<1>11. ASSUME NEW t \in Tasks, Judge(t) PROVE SessionStep
  BY <1>11, ConstantsFit
  DEF Judge, Stale, live, backoff, connections, clients, SessionStep, Forget
<1>12. ASSUME NEW t \in Tasks, Reset(t) PROVE SessionStep
  BY <1>12, ConstantsFit
  DEF Reset, Forget, backoff, connections, clients, SessionStep
<1>13. ASSUME NEW t \in Tasks, ReadFails(t) PROVE SessionStep
  BY <1>13, ConstantsFit
  DEF ReadFails, Return, live, backoff, connections, clients, Leave, SessionStep,
      Forget
<1>14. ASSUME NEW t \in Tasks, NEW held \in SUBSET Symbols, ReadBook(t, held) PROVE SessionStep
  BY <1>14, ConstantsFit
  DEF ReadBook, live, backoff, connections, clients, SessionStep, Forget
<1>15. ASSUME NEW t \in Tasks, Ensure(t) PROVE SessionStep
  BY <1>15, ConstantsFit
  DEF Ensure, New, Ensured, live, backoff, connections, clients, Return, Leave,
      SessionStep, Forget
<1>16. ASSUME NEW t \in Tasks, ExtendFresh(t) PROVE SessionStep
  BY <1>16, ConstantsFit
  DEF ExtendFresh, Extend, live, backoff, SessionStep, Forget
<1>17. ASSUME NEW t \in Tasks, SkipFresh(t) PROVE SessionStep
  BY <1>17, ConstantsFit
  DEF SkipFresh, Subscribed, live, backoff, connections, clients, Return, Leave,
      SessionStep, Forget
<1>18. ASSUME NEW t \in Tasks, Subscribe(t) PROVE SessionStep
  BY <1>18, ConstantsFit
  DEF Subscribe, Put, Subscribed, Return, Leave, live, backoff, clients, SessionStep,
      Forget
<1>19. ASSUME NEW t \in Tasks, SubscribeFails(t) PROVE SessionStep
  BY <1>19, ConstantsFit
  DEF SubscribeFails, Ensured, live, backoff, connections, clients, Return, Leave,
      SessionStep, Forget
<1>20. ASSUME NEW t \in Tasks, NoteEnsured(t) PROVE SessionStep
  BY <1>20, ConstantsFit
  DEF NoteEnsured, Note, Ensured, backoff, connections, clients, Return, Leave,
      SessionStep, Forget
<1>21. ASSUME NEW s \in Streams, StartStream(s) PROVE SessionStep
  BY <1>21, ConstantsFit
  DEF StartStream, Leave, live, backoff, connections, clients, SessionStep, Forget
<1>22. ASSUME NEW s \in Streams, Look(s) PROVE SessionStep
  BY <1>22, ConstantsFit
  DEF Look, Up, Moved, live, backoff, connections, clients, SessionStep, Forget
<1>23. ASSUME NEW s \in Streams, Follow(s) PROVE SessionStep
  BY <1>23, ConstantsFit
  DEF Follow, Missing, Leave, live, backoff, connections, clients, SessionStep, Forget
<1>24. ASSUME NEW s \in Streams, ExtendMissing(s) PROVE SessionStep
  BY <1>24, ConstantsFit
  DEF ExtendMissing, Extend, live, backoff, SessionStep, Forget
<1>25. ASSUME NEW s \in Streams, SkipMissing(s) PROVE SessionStep
  BY <1>25, ConstantsFit
  DEF SkipMissing, live, backoff, connections, clients, SessionStep, Forget
<1>26. ASSUME NEW s \in Streams, Resubscribe(s) PROVE SessionStep
  BY <1>26, ConstantsFit
  DEF Resubscribe, Put, live, backoff, clients, SessionStep, Forget
<1>27. ASSUME NEW s \in Streams, ResubscribeFails(s) PROVE SessionStep
  BY <1>27, ConstantsFit
  DEF ResubscribeFails, Leave, live, backoff, connections, clients, SessionStep,
      Forget
<1>28. ASSUME NEW s \in Streams, Rejoin(s) PROVE SessionStep
  BY <1>28, ConstantsFit
  DEF Rejoin, Note, Leave, backoff, connections, clients, SessionStep, Forget
<1>29. ASSUME NEW d \in Dials, Close(d) PROVE SessionStep
  BY <1>29, ConstantsFit
  DEF Close, live, backoff, tasks, SessionStep, Forget
<1>30. CASE Tick
  BY <1>30, ConstantsFit
  DEF Tick, Least, Longest, Dials, live, tasks, clients, SessionStep, Forget
<1>31. CASE UNCHANGED vars
  BY <1>31, ConstantsFit
  DEF vars, live, backoff, tasks, connections, clients, SessionStep, Forget
<1> QED
  BY <1>1, <1>2, <1>3, <1>4, <1>5, <1>6, <1>7, <1>8, <1>9, <1>10, <1>11, <1>12, <1>13,
      <1>14, <1>15, <1>16, <1>17, <1>18, <1>19, <1>20, <1>21, <1>22, <1>23, <1>24,
      <1>25, <1>26, <1>27, <1>28, <1>29, <1>30, <1>31
  DEF Next, Start, Work, Connect, StreamStep

LEMMA NetSteps ==
    ASSUME Calls, Names, Handles, Locking, Shared, Net, [Next]_vars
    PROVE  NetStep
<1>1. ASSUME NEW t \in Callers, StartSnapshot(t) PROVE NetStep
  BY <1>1, ConstantsFit, Numbers
  DEF StartSnapshot, Begin, live, backoff, connections, clients, NetStep, Grows, Net, Dials
<1>2. ASSUME NEW t \in Callers, StartQuery(t) PROVE NetStep
  BY <1>2, ConstantsFit, Numbers
  DEF StartQuery, Begin, live, backoff, connections, clients, NetStep, Grows, Net, Dials
<1>3. ASSUME NEW t \in Callers, StartResubscribe(t) PROVE NetStep
  BY <1>3, ConstantsFit, Numbers
  DEF StartResubscribe, Begin, live, backoff, connections, clients, NetStep, Grows, Net,
      Dials
<1>4. ASSUME NEW t \in Callers, StartSend(t) PROVE NetStep
  BY <1>4, ConstantsFit, Numbers
  DEF StartSend, Begin, live, backoff, connections, clients, NetStep, Grows, Net, Dials
<1>5. ASSUME NEW s \in Streams, StartTicks(s) PROVE NetStep
  BY <1>5, ConstantsFit, Numbers
  DEF StartTicks, Begin, live, backoff, connections, clients, NetStep, Grows, Net, Dials
<1>6. ASSUME NEW t \in Tasks, Reuse(t) PROVE NetStep
  BY <1>6, ConstantsFit, Numbers
  DEF Reuse, Calling, Up, Obtain, live, backoff, connections, clients, Return,
      Onwards, Leave, NetStep, Grows, Net, Dials
<1>7. ASSUME NEW t \in Tasks, Unavailable(t) PROVE NetStep
  BY <1>7, ConstantsFit, Numbers
  DEF Unavailable, Calling, Up, DropDead, Return, backoff, connections, clients, Dead,
      Forget, Leave, NetStep, Grows, Net, Dials
<1>8. ASSUME NEW t \in Tasks, Dial(t) PROVE NetStep
  BY <1>8, ConstantsFit, Numbers
  DEF Dial, Calling, Up, DropDead, backoff, connections, clients, Dead, Forget,
      NetStep, Grows, Net, Dials
<1>9. ASSUME NEW t \in Tasks, Connected(t) PROVE NetStep
  BY <1>9, Redialled DEF NetStep, Grows
<1>10. ASSUME NEW t \in Tasks, DialFails(t) PROVE NetStep
  BY <1>10, ConstantsFit, Numbers
  DEF DialFails, Fails, Pause, Return, connections, clients, Least, Leave, NetStep,
      Grows, Net, Dials
<1>11. ASSUME NEW t \in Tasks, Judge(t) PROVE NetStep
  BY <1>11, ConstantsFit, Numbers
  DEF Judge, Stale, live, backoff, connections, clients, NetStep, Grows, Net, Dials
<1>12. ASSUME NEW t \in Tasks, Reset(t) PROVE NetStep
  BY <1>12, ConstantsFit, Numbers
  DEF Reset, Forget, backoff, connections, clients, NetStep, Grows, Net, Dials
<1>13. ASSUME NEW t \in Tasks, ReadFails(t) PROVE NetStep
  BY <1>13, ConstantsFit, Numbers
  DEF ReadFails, Return, live, backoff, connections, clients, Leave, NetStep, Grows, Net,
      Dials
<1>14. ASSUME NEW t \in Tasks, NEW held \in SUBSET Symbols, ReadBook(t, held) PROVE NetStep
  BY <1>14, ConstantsFit, Numbers
  DEF ReadBook, live, backoff, connections, clients, NetStep, Grows, Net, Dials
<1>15. ASSUME NEW t \in Tasks, Ensure(t) PROVE NetStep
  BY <1>15, ConstantsFit, Numbers
  DEF Ensure, New, Ensured, live, backoff, connections, clients, Return, Leave,
      NetStep, Grows, Net, Dials
<1>16. ASSUME NEW t \in Tasks, ExtendFresh(t) PROVE NetStep
  <2>1. /\ subscriptions' = [subscriptions EXCEPT ![on[t]] = subscriptions[on[t]] \union Ids(t)]
        /\ UNCHANGED <<listed, state, streams, overtaken>>
    BY <1>16 DEF ExtendFresh, Extend
  <2>2. \A c \in 1 .. generation : c \in Dials
    BY ConstantsFit DEF Shared, Dials
  <2>3. \A c \in Dials : subscriptions[c] \subseteq subscriptions'[c]
    BY <2>1 DEF Net
  <2> QED
    BY <2>1, <2>2, <2>3 DEF NetStep, Grows
<1>17. ASSUME NEW t \in Tasks, SkipFresh(t) PROVE NetStep
  BY <1>17, ConstantsFit, Numbers
  DEF SkipFresh, Subscribed, live, backoff, connections, clients, Return, Leave,
      NetStep, Grows, Net, Dials
<1>18. ASSUME NEW t \in Tasks, Subscribe(t) PROVE NetStep
  <2>1. Put(on[t], list[t]) /\ UNCHANGED <<state, clients>>
    BY <1>18 DEF Subscribe
  <2>2. \A c \in 1 .. generation : c \in Dials
    BY ConstantsFit DEF Shared, Dials
  <2>3. \A c \in Dials : Grows(c)
    BY <2>1, PutGrows DEF clients
  <2> QED
    BY <2>1, <2>2, <2>3 DEF NetStep, clients
<1>19. ASSUME NEW t \in Tasks, SubscribeFails(t) PROVE NetStep
  BY <1>19, ConstantsFit, Numbers
  DEF SubscribeFails, Ensured, live, backoff, connections, clients, Return, Leave,
      NetStep, Grows, Net, Dials
<1>20. ASSUME NEW t \in Tasks, NoteEnsured(t) PROVE NetStep
  BY <1>20, ConstantsFit, Numbers
  DEF NoteEnsured, Note, Ensured, backoff, connections, clients, Return, Leave,
      NetStep, Grows, Net, Dials
<1>21. ASSUME NEW s \in Streams, StartStream(s) PROVE NetStep
  BY <1>21, ConstantsFit, Numbers
  DEF StartStream, Leave, live, backoff, connections, clients, NetStep, Grows, Net, Dials
<1>22. ASSUME NEW s \in Streams, Look(s) PROVE NetStep
  BY <1>22, ConstantsFit, Numbers
  DEF Look, Up, Moved, live, backoff, connections, clients, NetStep, Grows, Net, Dials
<1>23. ASSUME NEW s \in Streams, Follow(s) PROVE NetStep
  BY <1>23, ConstantsFit, Numbers
  DEF Follow, Missing, Leave, live, backoff, connections, clients, NetStep, Grows, Net, Dials
<1>24. ASSUME NEW s \in Streams, ExtendMissing(s) PROVE NetStep
  <2>1. /\ subscriptions' = [subscriptions EXCEPT ![on[s]] = subscriptions[on[s]] \union Ids(s)]
        /\ UNCHANGED <<listed, state, streams, overtaken>>
    BY <1>24 DEF ExtendMissing, Extend
  <2>2. \A c \in 1 .. generation : c \in Dials
    BY ConstantsFit DEF Shared, Dials
  <2>3. \A c \in Dials : subscriptions[c] \subseteq subscriptions'[c]
    BY <2>1 DEF Net
  <2> QED
    BY <2>1, <2>2, <2>3 DEF NetStep, Grows
<1>25. ASSUME NEW s \in Streams, SkipMissing(s) PROVE NetStep
  BY <1>25, ConstantsFit, Numbers
  DEF SkipMissing, live, backoff, connections, clients, NetStep, Grows, Net, Dials
<1>26. ASSUME NEW s \in Streams, Resubscribe(s) PROVE NetStep
  <2>1. Put(on[s], list[s]) /\ UNCHANGED <<state, clients>>
    BY <1>26 DEF Resubscribe
  <2>2. \A c \in 1 .. generation : c \in Dials
    BY ConstantsFit DEF Shared, Dials
  <2>3. \A c \in Dials : Grows(c)
    BY <2>1, PutGrows DEF clients
  <2> QED
    BY <2>1, <2>2, <2>3 DEF NetStep, clients
<1>27. ASSUME NEW s \in Streams, ResubscribeFails(s) PROVE NetStep
  BY <1>27, ConstantsFit, Numbers
  DEF ResubscribeFails, Leave, live, backoff, connections, clients, NetStep, Grows, Net,
      Dials
<1>28. ASSUME NEW s \in Streams, Rejoin(s) PROVE NetStep
  BY <1>28, ConstantsFit, Numbers
  DEF Rejoin, Note, Leave, backoff, connections, clients, NetStep, Grows, Net, Dials
<1>29. ASSUME NEW d \in Dials, Close(d) PROVE NetStep
  BY <1>29, ConstantsFit, Numbers
  DEF Close, live, backoff, tasks, NetStep, Grows, Net, Dials
<1>30. CASE Tick
  BY <1>30, ConstantsFit, Numbers
  DEF Tick, Least, Longest, Dials, live, tasks, clients, NetStep, Grows, Net
<1>31. CASE UNCHANGED vars
  BY <1>31, ConstantsFit, Numbers
  DEF vars, live, backoff, tasks, connections, clients, NetStep, Grows, Net, Dials
<1> QED
  BY <1>1, <1>2, <1>3, <1>4, <1>5, <1>6, <1>7, <1>8, <1>9, <1>10, <1>11, <1>12, <1>13,
      <1>14, <1>15, <1>16, <1>17, <1>18, <1>19, <1>20, <1>21, <1>22, <1>23, <1>24,
      <1>25, <1>26, <1>27, <1>28, <1>29, <1>30, <1>31
  DEF Next, Start, Work, Connect, StreamStep

LEMMA StaysStill ==
    ASSUME Calls, Names, Handles, Locking, Shared, Net, [Next]_vars, NEW u \in Tasks
    PROVE  Still(u)
<1>1. ASSUME NEW t \in Callers, StartSnapshot(t) PROVE Still(u)
  BY <1>1, ConstantsFit
  DEF StartSnapshot, Begin, live, backoff, connections, clients, Still, Calls, Names,
      Handles
<1>2. ASSUME NEW t \in Callers, StartQuery(t) PROVE Still(u)
  BY <1>2, ConstantsFit
  DEF StartQuery, Begin, live, backoff, connections, clients, Still, Calls, Names,
      Handles
<1>3. ASSUME NEW t \in Callers, StartResubscribe(t) PROVE Still(u)
  BY <1>3, ConstantsFit
  DEF StartResubscribe, Begin, live, backoff, connections, clients, Still, Calls,
      Names, Handles
<1>4. ASSUME NEW t \in Callers, StartSend(t) PROVE Still(u)
  BY <1>4, ConstantsFit
  DEF StartSend, Begin, live, backoff, connections, clients, Still, Calls, Names,
      Handles
<1>5. ASSUME NEW s \in Streams, StartTicks(s) PROVE Still(u)
  BY <1>5, ConstantsFit
  DEF StartTicks, Begin, live, backoff, connections, clients, Still, Calls, Names,
      Handles
<1>6. ASSUME NEW t \in Tasks, Reuse(t) PROVE Still(u)
  BY <1>6, ConstantsFit
  DEF Reuse, Calling, Up, Obtain, live, backoff, connections, clients, Return,
      Onwards, Leave, Still, Calls, Names, Handles
<1>7. ASSUME NEW t \in Tasks, Unavailable(t) PROVE Still(u)
  BY <1>7, ConstantsFit
  DEF Unavailable, Calling, Up, DropDead, Return, backoff, connections, clients, Dead,
      Forget, Leave, Still, Calls, Names, Handles
<1>8. ASSUME NEW t \in Tasks, Dial(t) PROVE Still(u)
  BY <1>8, ConstantsFit
  DEF Dial, Calling, Up, DropDead, backoff, connections, clients, Dead, Forget, Still,
      Calls, Names, Handles
<1>9. ASSUME NEW t \in Tasks, Connected(t) PROVE Still(u)
  <2>1. Obtain(t, generation') /\ at[t] \in Dialling /\ UNCHANGED noted
    BY <1>9 DEF Connected, Locking
  <2>2. at'[t] # at[t]
    BY <2>1, Obtained DEF Dialling
  <2> QED
    BY <2>1, <2>2, Obtained DEF Still
<1>10. ASSUME NEW t \in Tasks, DialFails(t) PROVE Still(u)
  <2>1. Leave(t, "idle") /\ at[t] \in Dialling /\ UNCHANGED noted
    BY <1>10 DEF DialFails, Return, Locking
  <2> QED
    BY <2>1 DEF Leave, Dialling, Still, Calls, Names, Handles
<1>11. ASSUME NEW t \in Tasks, Judge(t) PROVE Still(u)
  BY <1>11, ConstantsFit
  DEF Judge, Stale, live, backoff, connections, clients, Still, Calls, Names, Handles
<1>12. ASSUME NEW t \in Tasks, Reset(t) PROVE Still(u)
  BY <1>12, ConstantsFit
  DEF Reset, Forget, backoff, connections, clients, Still, Calls, Names, Handles
<1>13. ASSUME NEW t \in Tasks, ReadFails(t) PROVE Still(u)
  BY <1>13, ConstantsFit
  DEF ReadFails, Return, live, backoff, connections, clients, Leave, Still, Calls,
      Names, Handles
<1>14. ASSUME NEW t \in Tasks, NEW held \in SUBSET Symbols, ReadBook(t, held) PROVE Still(u)
  BY <1>14, ConstantsFit
  DEF ReadBook, live, backoff, connections, clients, Still, Calls, Names, Handles
<1>15. ASSUME NEW t \in Tasks, Ensure(t) PROVE Still(u)
  BY <1>15, ConstantsFit
  DEF Ensure, New, Ensured, live, backoff, connections, clients, Return, Leave, Still,
      Calls, Names, Handles
<1>16. ASSUME NEW t \in Tasks, ExtendFresh(t) PROVE Still(u)
  BY <1>16, ConstantsFit
  DEF ExtendFresh, Extend, live, backoff, Still, Calls, Names, Handles
<1>17. ASSUME NEW t \in Tasks, SkipFresh(t) PROVE Still(u)
  BY <1>17, ConstantsFit
  DEF SkipFresh, Subscribed, live, backoff, connections, clients, Return, Leave,
      Still, Calls, Names, Handles
<1>18. ASSUME NEW t \in Tasks, Subscribe(t) PROVE Still(u)
  BY <1>18, ConstantsFit
  DEF Subscribe, Put, Subscribed, Return, Leave, live, backoff, clients, Still, Calls,
      Names, Handles
<1>19. ASSUME NEW t \in Tasks, SubscribeFails(t) PROVE Still(u)
  BY <1>19, ConstantsFit
  DEF SubscribeFails, Ensured, live, backoff, connections, clients, Return, Leave,
      Still, Calls, Names, Handles
<1>20. ASSUME NEW t \in Tasks, NoteEnsured(t) PROVE Still(u)
  BY <1>20, ConstantsFit
  DEF NoteEnsured, Note, Ensured, backoff, connections, clients, Return, Leave, Still,
      Calls, Names, Handles
<1>21. ASSUME NEW s \in Streams, StartStream(s) PROVE Still(u)
  BY <1>21, ConstantsFit
  DEF StartStream, Leave, live, backoff, connections, clients, Still, Calls, Names,
      Handles
<1>22. ASSUME NEW s \in Streams, Look(s) PROVE Still(u)
  BY <1>22, ConstantsFit
  DEF Look, Up, Moved, live, backoff, connections, clients, Still, Calls, Names,
      Handles
<1>23. ASSUME NEW s \in Streams, Follow(s) PROVE Still(u)
  BY <1>23, ConstantsFit
  DEF Follow, Missing, Leave, live, backoff, connections, clients, Still, Calls,
      Names, Handles
<1>24. ASSUME NEW s \in Streams, ExtendMissing(s) PROVE Still(u)
  BY <1>24, ConstantsFit
  DEF ExtendMissing, Extend, live, backoff, Still, Calls, Names, Handles
<1>25. ASSUME NEW s \in Streams, SkipMissing(s) PROVE Still(u)
  BY <1>25, ConstantsFit
  DEF SkipMissing, live, backoff, connections, clients, Still, Calls, Names, Handles
<1>26. ASSUME NEW s \in Streams, Resubscribe(s) PROVE Still(u)
  BY <1>26, ConstantsFit
  DEF Resubscribe, Put, live, backoff, clients, Still, Calls, Names, Handles
<1>27. ASSUME NEW s \in Streams, ResubscribeFails(s) PROVE Still(u)
  BY <1>27, ConstantsFit
  DEF ResubscribeFails, Leave, live, backoff, connections, clients, Still, Calls,
      Names, Handles
<1>28. ASSUME NEW s \in Streams, Rejoin(s) PROVE Still(u)
  BY <1>28, ConstantsFit
  DEF Rejoin, Note, Leave, backoff, connections, clients, Still, Calls, Names, Handles
<1>29. ASSUME NEW d \in Dials, Close(d) PROVE Still(u)
  BY <1>29, ConstantsFit
  DEF Close, live, backoff, tasks, Still, Calls, Names, Handles
<1>30. CASE Tick
  BY <1>30, ConstantsFit
  DEF Tick, Least, Longest, Dials, live, tasks, clients, Still, Calls, Names, Handles
<1>31. CASE UNCHANGED vars
  BY <1>31, ConstantsFit
  DEF vars, live, backoff, tasks, connections, clients, Still, Calls, Names, Handles
<1> QED
  BY <1>1, <1>2, <1>3, <1>4, <1>5, <1>6, <1>7, <1>8, <1>9, <1>10, <1>11, <1>12, <1>13,
      <1>14, <1>15, <1>16, <1>17, <1>18, <1>19, <1>20, <1>21, <1>22, <1>23, <1>24,
      <1>25, <1>26, <1>27, <1>28, <1>29, <1>30, <1>31
  DEF Next, Start, Work, Connect, StreamStep

LEMMA ComesByItself ==
    ASSUME Calls, Names, Handles, Locking, Shared, Net, [Next]_vars, NEW u \in Tasks
    PROVE  Comes(u)
<1>1. ASSUME NEW t \in Callers, StartSnapshot(t) PROVE Comes(u)
  <2>1. Begin(t, "snapshot", {}) /\ "snapshot" \in Allowed[t]
    BY <1>1 DEF StartSnapshot
  <2>2. at'[t] = "calling" /\ \A v \in Tasks \ {t} : at'[v] = at[v]
    BY <2>1, ConstantsFit DEF Begin, Calls
  <2> QED
    BY <2>1, <2>2, ConstantsFit DEF Comes, Kinds, Dialling
<1>2. ASSUME NEW t \in Callers, StartQuery(t) PROVE Comes(u)
  <2>1. Begin(t, "query", {})
    BY <1>2 DEF StartQuery
  <2>2. at'[t] = "calling" /\ \A v \in Tasks \ {t} : at'[v] = at[v]
    BY <2>1, ConstantsFit DEF Begin, Calls
  <2> QED
    BY <2>1, <2>2, ConstantsFit DEF Comes, Kinds, Dialling
<1>3. ASSUME NEW t \in Callers, StartResubscribe(t) PROVE Comes(u)
  <2>1. PICK x \in Asks[t] : Begin(t, "resubscribe", {x})
    BY <1>3 DEF StartResubscribe
  <2>2. at'[t] = "calling" /\ \A v \in Tasks \ {t} : at'[v] = at[v]
    BY <2>1, ConstantsFit DEF Begin, Calls
  <2> QED
    BY <2>1, <2>2, ConstantsFit DEF Comes, Kinds, Dialling
<1>4. ASSUME NEW t \in Callers, StartSend(t) PROVE Comes(u)
  <2>1. PICK x \in Asks[t] : Begin(t, "send", {x})
    BY <1>4 DEF StartSend
  <2>2. at'[t] = "calling" /\ \A v \in Tasks \ {t} : at'[v] = at[v]
    BY <2>1, ConstantsFit DEF Begin, Calls
  <2> QED
    BY <2>1, <2>2, ConstantsFit DEF Comes, Kinds, Dialling
<1>5. ASSUME NEW s \in Streams, StartTicks(s) PROVE Comes(u)
  <2>1. Begin(s, "ticks", Wanted[s]) /\ s \notin Callers
    BY <1>5, ConstantsFit DEF StartTicks
  <2>2. at'[s] = "calling" /\ \A v \in Tasks \ {s} : at'[v] = at[v]
    BY <2>1, ConstantsFit DEF Begin, Calls
  <2> QED
    BY <2>1, <2>2, ConstantsFit DEF Comes, Kinds, Dialling
<1>6. ASSUME NEW t \in Tasks, Reuse(t) PROVE Comes(u)
  <2>1. Obtain(t, client)
    BY <1>6 DEF Reuse
  <2>2. /\ \A v \in Tasks \ {t} : at'[v] = at[v]
        /\ \/ at'[t] = "idle" /\ what'[t] = "none"
           \/ what'[t] = what[t] /\ at'[t] = "subscribing" /\ what[t] = "send"
           \/ what'[t] = what[t] /\ at'[t] \in {"ensuring", "ageing", "reading"}
    BY <2>1, Obtained
  <2> QED
    BY <1>6, <2>2 DEF Comes, Dialling
<1>7. ASSUME NEW t \in Tasks, Unavailable(t) PROVE Comes(u)
  BY <1>7, ConstantsFit
  DEF Unavailable, Calling, Up, DropDead, Return, backoff, connections, clients, Dead,
      Forget, Leave, Comes, Calls, Dialling
<1>8. ASSUME NEW t \in Tasks, Dial(t) PROVE Comes(u)
  BY <1>8, ConstantsFit
  DEF Dial, Calling, Up, DropDead, backoff, connections, clients, Dead, Forget, Comes,
      Calls, Dialling
<1>9. ASSUME NEW t \in Tasks, Connected(t) PROVE Comes(u)
  <2>1. Obtain(t, generation')
    BY <1>9 DEF Connected
  <2>2. /\ \A v \in Tasks \ {t} : at'[v] = at[v]
        /\ \/ at'[t] = "idle" /\ what'[t] = "none"
           \/ what'[t] = what[t] /\ at'[t] = "subscribing" /\ what[t] = "send"
           \/ what'[t] = what[t] /\ at'[t] \in {"ensuring", "ageing", "reading"}
    BY <2>1, Obtained
  <2> QED
    BY <1>9, <2>2 DEF Comes, Dialling
<1>10. ASSUME NEW t \in Tasks, DialFails(t) PROVE Comes(u)
  BY <1>10, ConstantsFit
  DEF DialFails, Fails, Pause, Return, connections, clients, Least, Leave, Comes,
      Calls, Dialling
<1>11. ASSUME NEW t \in Tasks, Judge(t) PROVE Comes(u)
  BY <1>11, ConstantsFit
  DEF Judge, Stale, live, backoff, connections, clients, Comes, Calls, Dialling
<1>12. ASSUME NEW t \in Tasks, Reset(t) PROVE Comes(u)
  BY <1>12, ConstantsFit
  DEF Reset, Forget, backoff, connections, clients, Comes, Calls, Dialling
<1>13. ASSUME NEW t \in Tasks, ReadFails(t) PROVE Comes(u)
  BY <1>13, ConstantsFit
  DEF ReadFails, Return, live, backoff, connections, clients, Leave, Comes, Calls,
      Dialling
<1>14. ASSUME NEW t \in Tasks, NEW held \in SUBSET Symbols, ReadBook(t, held) PROVE Comes(u)
  BY <1>14, ConstantsFit
  DEF ReadBook, live, backoff, connections, clients, Comes, Calls, Dialling
<1>15. ASSUME NEW t \in Tasks, Ensure(t) PROVE Comes(u)
  BY <1>15, ConstantsFit
  DEF Ensure, New, Ensured, live, backoff, connections, clients, Return, Leave, Comes,
      Calls, Dialling
<1>16. ASSUME NEW t \in Tasks, ExtendFresh(t) PROVE Comes(u)
  BY <1>16, ConstantsFit
  DEF ExtendFresh, Extend, live, backoff, Comes, Calls, Dialling
<1>17. ASSUME NEW t \in Tasks, SkipFresh(t) PROVE Comes(u)
  BY <1>17, ConstantsFit
  DEF SkipFresh, Subscribed, live, backoff, connections, clients, Return, Leave,
      Comes, Calls, Dialling
<1>18. ASSUME NEW t \in Tasks, Subscribe(t) PROVE Comes(u)
  BY <1>18, ConstantsFit
  DEF Subscribe, Put, Subscribed, Return, Leave, live, backoff, clients, Comes, Calls,
      Dialling
<1>19. ASSUME NEW t \in Tasks, SubscribeFails(t) PROVE Comes(u)
  BY <1>19, ConstantsFit
  DEF SubscribeFails, Ensured, live, backoff, connections, clients, Return, Leave,
      Comes, Calls, Dialling
<1>20. ASSUME NEW t \in Tasks, NoteEnsured(t) PROVE Comes(u)
  BY <1>20, ConstantsFit
  DEF NoteEnsured, Note, Ensured, backoff, connections, clients, Return, Leave, Comes,
      Calls, Dialling
<1>21. ASSUME NEW s \in Streams, StartStream(s) PROVE Comes(u)
  BY <1>21, ConstantsFit
  DEF StartStream, Leave, live, backoff, connections, clients, Comes, Calls, Dialling
<1>22. ASSUME NEW s \in Streams, Look(s) PROVE Comes(u)
  BY <1>22, ConstantsFit
  DEF Look, Up, Moved, live, backoff, connections, clients, Comes, Calls, Dialling
<1>23. ASSUME NEW s \in Streams, Follow(s) PROVE Comes(u)
  BY <1>23, ConstantsFit
  DEF Follow, Missing, Leave, live, backoff, connections, clients, Comes, Calls,
      Dialling
<1>24. ASSUME NEW s \in Streams, ExtendMissing(s) PROVE Comes(u)
  BY <1>24, ConstantsFit
  DEF ExtendMissing, Extend, live, backoff, Comes, Calls, Dialling
<1>25. ASSUME NEW s \in Streams, SkipMissing(s) PROVE Comes(u)
  BY <1>25, ConstantsFit
  DEF SkipMissing, live, backoff, connections, clients, Comes, Calls, Dialling
<1>26. ASSUME NEW s \in Streams, Resubscribe(s) PROVE Comes(u)
  BY <1>26, ConstantsFit
  DEF Resubscribe, Put, live, backoff, clients, Comes, Calls, Dialling
<1>27. ASSUME NEW s \in Streams, ResubscribeFails(s) PROVE Comes(u)
  BY <1>27, ConstantsFit
  DEF ResubscribeFails, Leave, live, backoff, connections, clients, Comes, Calls,
      Dialling
<1>28. ASSUME NEW s \in Streams, Rejoin(s) PROVE Comes(u)
  BY <1>28, ConstantsFit
  DEF Rejoin, Note, Leave, backoff, connections, clients, Comes, Calls, Dialling
<1>29. ASSUME NEW d \in Dials, Close(d) PROVE Comes(u)
  BY <1>29, ConstantsFit
  DEF Close, live, backoff, tasks, Comes, Calls, Dialling
<1>30. CASE Tick
  BY <1>30, ConstantsFit
  DEF Tick, Least, Longest, Dials, live, tasks, clients, Comes, Calls, Dialling
<1>31. CASE UNCHANGED vars
  BY <1>31, ConstantsFit
  DEF vars, live, backoff, tasks, connections, clients, Comes, Calls, Dialling
<1> QED
  BY <1>1, <1>2, <1>3, <1>4, <1>5, <1>6, <1>7, <1>8, <1>9, <1>10, <1>11, <1>12, <1>13,
      <1>14, <1>15, <1>16, <1>17, <1>18, <1>19, <1>20, <1>21, <1>22, <1>23, <1>24,
      <1>25, <1>26, <1>27, <1>28, <1>29, <1>30, <1>31
  DEF Next, Start, Work, Connect, StreamStep

------------------------------------------------------------------------------
(* What is noted is streamed *)

\* A connection that is the session's after a step was so before, and what was
\* noted and subscribed still is.
LEMMA StandsOn ==
    ASSUME Calls, Names, Handles, Locking, Shared, Net, [Next]_vars,
           NEW c \in 1 .. generation, Up', c = client', ~crossed'
    PROVE  /\ Up /\ c = client /\ ~crossed /\ state'[c] = "open"
           /\ subscribed \subseteq subscribed' /\ listed'[c] = listed[c]
           /\ subscriptions[c] \subseteq subscriptions'[c] /\ Grows(c)
<1>1. generation \in Nat /\ c # 0 /\ c # generation + 1
  BY Numbers
<1>2. client = c /\ ~crossed /\ subscribed \subseteq subscribed'
  BY <1>1, SessionSteps DEF SessionStep, Forget, Note
<1>3. /\ state[c] = "open" /\ state'[c] = "open" /\ listed'[c] = listed[c]
      /\ subscriptions[c] \subseteq subscriptions'[c] /\ Grows(c)
  BY NetSteps DEF NetStep, Up
<1> QED
  BY <1>1, <1>2, <1>3 DEF Up

LEMMA HeldStep ==
    ASSUME Calls, Names, Handles, Locking, Shared, Net, Held, [Next]_vars
    PROVE  Held'
<1> SUFFICES ASSUME NEW u \in Tasks, at'[u] \in WithHandle PROVE on'[u] # 0
  BY DEF Held
<1>1. CASE at'[u] = at[u]
  BY <1>1, StaysStill DEF Still, Held
<1>6. Reuse(u) \/ Connected(u) => at'[u] = "idle" \/ on'[u] # 0
  <2>1. Reuse(u) => at'[u] = "idle" \/ on'[u] # 0
    BY Obtained DEF Reuse, Up
  <2>2. Connected(u) => at'[u] = "idle" \/ on'[u] # 0
    <3> SUFFICES ASSUME Connected(u) PROVE at'[u] = "idle" \/ on'[u] # 0
      OBVIOUS
    <3>1. Obtain(u, generation') /\ generation' # 0
      BY Redialled DEF Connected
    <3> QED
      BY <3>1, Obtained
  <2> QED
    BY <2>1, <2>2
<1>2. CASE at'[u] # at[u] /\ at'[u] \in {"ensuring", "ageing", "reading"}
  <2>1. Judge(u) \/ (\E held \in SUBSET Symbols : ReadBook(u, held)) => on'[u] # 0
    BY DEF Judge, ReadBook, Held, WithHandle
  <2> QED
    BY <1>2, <1>6, <2>1, ComesByItself DEF Comes
<1>3. CASE at'[u] # at[u] /\ at'[u] = "following"
  <2>1. Look(u)
    BY <1>3, ComesByItself DEF Comes
  <2> QED
    BY <2>1 DEF Look, Up, Handles
<1>4. CASE at'[u] # at[u] /\ at'[u] \in {"resetting", "resubscribing"}
  <2>1. at[u] \in WithHandle /\ on'[u] = on[u]
    BY <1>4, ComesByItself DEF Comes, Judge, Follow, Leave, WithHandle, Calls
  <2> QED
    BY <2>1 DEF Held
<1>7. CASE at'[u] # at[u] /\ at'[u] \in {"sending", "noting", "resending", "rejoining"}
  <2>1. at[u] \in WithHandle /\ on'[u] = on[u]
    BY <1>7, ComesByItself
    DEF Comes, ExtendFresh, SkipFresh, Subscribe, Subscribed, Return, Leave, ExtendMissing,
        Extend, SkipMissing, Resubscribe, WithHandle, Calls
  <2> QED
    BY <2>1 DEF Held
<1>8. CASE at'[u] # at[u] /\ at'[u] = "subscribing"
  <2>1. Ensure(u) => at[u] \in WithHandle /\ on'[u] = on[u]
    BY <1>8 DEF Ensure, Ensured, Return, Leave, WithHandle, Calls
  <2> QED
    BY <1>6, <1>8, <2>1, ComesByItself DEF Comes, Held
<1>5. CASE at'[u] # at[u] /\ at'[u] = "ensured"
  <2>1. at[u] \in WithHandle
    BY <1>5, ComesByItself DEF Comes, Ensure, SubscribeFails, NoteEnsured, WithHandle
  <2>2. Ensured(u) => on'[u] = on[u]
    BY <1>5 DEF Ensured, Return, Leave, Calls
  <2>3. Ensured(u)
    BY <1>5, ComesByItself DEF Comes, Ensure, SubscribeFails, NoteEnsured, Calls
  <2> QED
    BY <2>1, <2>2, <2>3 DEF Held
<1> QED
  BY <1>1, <1>2, <1>3, <1>4, <1>5, <1>7, <1>8 DEF WithHandle

LEMMA NextType == TypeOK /\ Held /\ [Next]_vars => TypeOK' /\ Held'
BY Parts, NextParts, CallsStep, NamesStep, HandlesStep, LockingStep, SharedStep, NetTyped,
   HeldStep

\* The shapes of the state of a session (WebtermSession, TypeOK).
THEOREM SessionTypes == Spec => []TypeOK
<1>1. Init => Held
  BY DEF Init, Held, WithHandle
<1> QED
  BY <1>1, InitType, NextType, PTL DEF Spec

LEMMA CopiedStep ==
    ASSUME Calls, Names, Handles, Locking, Shared, Net, Held, Copied, [Next]_vars
    PROVE  Copied'
<1> SUFFICES ASSUME NEW u \in Tasks, at'[u] \in {"sending", "resending"},
                    state'[on'[u]] = "open"
             PROVE  Ids(u)' \subseteq list'[u] /\ list'[u] \subseteq subscriptions'[on'[u]]
  BY DEF Copied
<1>1. CASE at'[u] = at[u]
  <2>1. on'[u] = on[u] /\ fresh'[u] = fresh[u] /\ list'[u] = list[u] /\ on[u] # 0
    BY <1>1, StaysStill DEF Still, Held, WithHandle
  <2>2. /\ state[on[u]] = "open" /\ listed'[on[u]] = listed[on[u]]
        /\ subscriptions[on[u]] \subseteq subscriptions'[on[u]]
    BY <2>1, HandleDial, NetSteps DEF NetStep
  <2> QED
    BY <1>1, <2>1, <2>2 DEF Copied, Ids
<1>2. CASE at'[u] # at[u]
  <2>1. /\ subscriptions' = [subscriptions EXCEPT ![on[u]] = @ \union Ids(u)]
        /\ list' = [list EXCEPT ![u] = subscriptions'[on[u]]]
        /\ UNCHANGED <<on, fresh, listed>> /\ at[u] \in WithHandle
    BY <1>2, ComesByItself DEF Comes, ExtendFresh, ExtendMissing, Extend, WithHandle
  <2>2. on[u] \in Dials
    BY <2>1, HandleDial DEF Held
  <2>3. subscriptions'[on[u]] = subscriptions[on[u]] \union Ids(u)
    BY <2>1, <2>2 DEF Net
  <2>4. list'[u] = subscriptions'[on[u]]
    BY <2>1 DEF Names
  <2> QED
    BY <2>1, <2>3, <2>4 DEF Ids
<1> QED
  BY <1>1, <1>2

LEMMA AskedStep ==
    ASSUME Calls, Names, Handles, Locking, Shared, Net, Held, Copied, Asked, [Next]_vars
    PROVE  Asked'
<1> SUFFICES ASSUME NEW u \in Tasks, at'[u] \in {"noting", "rejoining"},
                    state'[on'[u]] = "open"
             PROVE  /\ Ids(u)' \subseteq subscriptions'[on'[u]]
                    /\ overtaken'[on'[u]] \/ Ids(u)' \subseteq streams'[on'[u]]
  BY DEF Asked
<1>1. CASE at'[u] = at[u]
  <2>1. on'[u] = on[u] /\ fresh'[u] = fresh[u] /\ on[u] # 0
    BY <1>1, StaysStill DEF Still, Held, WithHandle
  <2>2. /\ state[on[u]] = "open" /\ listed'[on[u]] = listed[on[u]]
        /\ subscriptions[on[u]] \subseteq subscriptions'[on[u]] /\ Grows(on[u])
    BY <2>1, HandleDial, NetSteps DEF NetStep
  <2>3. /\ Ids(u) \subseteq subscriptions[on[u]]
        /\ overtaken[on[u]] \/ Ids(u) \subseteq streams[on[u]]
    BY <1>1, <2>2 DEF Asked
  <2>4. Ids(u)' = Ids(u)
    BY <2>1, <2>2 DEF Ids
  <2> QED
    BY <2>1, <2>2, <2>3, <2>4 DEF Grows
<1>2. CASE at'[u] # at[u]
  <2>1. /\ UNCHANGED <<on, fresh, clients, state>> /\ at[u] \in WithHandle
        /\ \/ NothingSent(u)
           \/ at[u] \in {"sending", "resending"} /\ Put(on[u], list[u])
    BY <1>2, ComesByItself
    DEF Comes, SkipFresh, Subscribe, Subscribed, Return, Leave, SkipMissing, Resubscribe,
        connections, clients, WithHandle, Calls
  <2>2. on[u] \in Dials
    BY <2>1, HandleDial DEF Held
  <2>3. Ids(u)' = Ids(u) /\ state[on[u]] = "open"
    BY <2>1 DEF Ids, clients
  <2>4. CASE NothingSent(u)
    BY <2>1, <2>3, <2>4 DEF NothingSent
  <2>5. CASE at[u] \in {"sending", "resending"} /\ Put(on[u], list[u])
    <3>1. streams'[on[u]] = list[u]
      BY <2>1, <2>2, <2>3, <2>5, PutGrows DEF clients
    <3> QED
      BY <2>1, <2>3, <2>5, <3>1 DEF Copied, clients
  <2> QED
    BY <2>1, <2>4, <2>5
<1> QED
  BY <1>1, <1>2

LEMMA NoteStep ==
    ASSUME Calls, Names, Handles, Locking, Shared, Net, Held, Asked, Clean, Known, NoteIsTrue,
           [Next]_vars
    PROVE  Clean' /\ Known' /\ NoteIsTrue'
<1>1. client = 0 \/ client \in 1 .. generation
  BY Standing, Numbers
<1>6. Up' /\ client' = client =>
        /\ Up /\ listed'[client] = listed[client]
        /\ subscriptions[client] \subseteq subscriptions'[client] /\ Grows(client)
  BY <1>1, NetSteps DEF NetStep, Up
<1>2. CASE UNCHANGED <<client, generation, subscribed>> /\ (crossed => crossed')
  <2>1. Clean'
    BY <1>2 DEF Clean
  <2>2. Known'
    BY <1>2, <1>6 DEF Known
  <2>3. NoteIsTrue'
    BY <1>2, <1>6, <2>2 DEF Known, NoteIsTrue, Undisturbed, Grows
  <2> QED
    BY <2>1, <2>2, <2>3
<1>3. CASE Forget
  BY <1>3 DEF Forget, Clean, Known, NoteIsTrue, Undisturbed, Up
<1>4. CASE /\ client = 0 /\ generation' = generation + 1 /\ client' = generation'
           /\ UNCHANGED <<subscribed, crossed>>
  BY <1>4, Numbers DEF Clean, Known, NoteIsTrue, Undisturbed
<1>5. ASSUME NEW t \in Tasks, at[t] \in {"noting", "rejoining"}, Note(t),
             UNCHANGED <<client, generation>>
      PROVE  Clean' /\ Known' /\ NoteIsTrue'
  <2>1. on[t] # 0
    BY <1>5 DEF Held, WithHandle
  <2>2. subscribed' = subscribed \union fresh[t] /\ (~crossed' => ~crossed /\ on[t] = client)
    BY <1>5 DEF Note
  <2>3. Up /\ on[t] = client =>
          /\ fresh[t] \intersect listed[client] \subseteq subscriptions[client]
          /\ overtaken[client] \/ fresh[t] \intersect listed[client] \subseteq streams[client]
    BY <1>5 DEF Asked, Ids, Up
  <2>4. Clean'
    BY <1>5, <2>1, <2>2 DEF Clean
  <2>5. Known'
    BY <1>5, <1>6, <2>2, <2>3 DEF Known
  <2>6. NoteIsTrue'
    BY <1>5, <1>6, <2>2, <2>3, <2>5 DEF Known, NoteIsTrue, Undisturbed, Grows
  <2> QED
    BY <2>4, <2>5, <2>6
<1> QED
  BY <1>2, <1>3, <1>4, <1>5, SessionSteps DEF SessionStep

------------------------------------------------------------------------------
(* What a stream hears *)

\* A stream is made by one call, which asks for what it wants.
StreamCalls ==
    \A s \in Streams :
        /\ at[s] \notin {"again", "redialling", "ageing", "resetting", "reading"}
        /\ at[s] \in {"calling", "dialling", "ensuring", "subscribing", "sending", "noting",
                      "ensured"} => what[s] = "ticks" /\ names[s] = Wanted[s]

\* A stream that follows a redial has not noted it yet.
Behind ==
    \A s \in Streams :
        at[s] \in {"following", "resubscribing", "resending", "rejoining"}
            => noted[s] < generation

\* What is noted and what a stream is about to subscribe are all it wants.
Awaiting ==
    \A s \in Streams :
        /\ at[s] \in {"subscribing", "sending", "noting", "resubscribing", "resending",
                      "rejoining"}
        /\ Up /\ on[s] = client /\ ~crossed
        => Wanted[s] \subseteq subscribed \union fresh[s]

\* Before it is told of the generation, and from then on, all that the stream wants
\* is noted.
Noted ==
    \A s \in Streams :
        /\ \/ at[s] = "ensured" /\ on[s] = client
           \/ at[s] = "polling" /\ noted[s] = generation
        /\ Up /\ ~crossed
        => Wanted[s] \subseteq subscribed

LEMMA StreamCallsStep ==
    ASSUME Calls, Names, Handles, Locking, Shared, Net, StreamCalls, [Next]_vars
    PROVE  StreamCalls'
<1> SUFFICES ASSUME NEW u \in Streams
             PROVE  /\ at'[u] \notin {"again", "redialling", "ageing", "resetting", "reading"}
                    /\ at'[u] \in {"calling", "dialling", "ensuring", "subscribing", "sending",
                                  "noting", "ensured"} =>
                         what'[u] = "ticks" /\ names'[u] = Wanted[u]
  BY DEF StreamCalls
<1>0. u \in Tasks /\ u \notin Callers
  BY ConstantsFit
<1>1. CASE at'[u] = at[u]
  BY <1>0, <1>1, StaysStill DEF Still, StreamCalls
<1>2. CASE at'[u] # at[u]
  <2>1. Comes(u)
    BY <1>0, ComesByItself
  <2>2. at'[u] = "calling" => what'[u] = "ticks" /\ names'[u] = Wanted[u]
    BY <1>0, <1>2, <2>1 DEF Comes, Begin, Calls, Names
  <2>3. at'[u] \in Dialling => at'[u] = "dialling" /\ what'[u] = "ticks" /\ names'[u] = Wanted[u]
    BY <1>0, <1>2, <2>1 DEF Comes, Dial, Calling, StreamCalls, Calls
  <2>4. at'[u] # "again" /\ at'[u] # "resetting"
    BY <1>0, <1>2, <2>1 DEF Comes, Reset, Judge, StreamCalls
  <2>5. Reuse(u) \/ Connected(u) => what[u] = "ticks" /\ names[u] = Wanted[u]
    BY <1>0 DEF Reuse, Calling, Connected, Locking, Dialling, StreamCalls
  <2>6. at'[u] \in {"ensuring", "ageing", "reading"} =>
            at'[u] = "ensuring" /\ what'[u] = "ticks" /\ names'[u] = Wanted[u]
    <3> SUFFICES ASSUME at'[u] \in {"ensuring", "ageing", "reading"}
                 PROVE  at'[u] = "ensuring" /\ what'[u] = "ticks" /\ names'[u] = Wanted[u]
      OBVIOUS
    <3>1. Reuse(u) \/ Connected(u)
      BY <1>2, <2>1 DEF Comes, Judge, ReadBook, StreamCalls
    <3>2. Obtain(u, client) \/ Obtain(u, generation')
      BY <3>1 DEF Reuse, Connected
    <3> QED
      BY <1>0, <2>5, <3>1, <3>2, Obtained
  <2>7. at'[u] = "subscribing" => what'[u] = "ticks" /\ names'[u] = Wanted[u]
    BY <1>0, <1>2, <2>1, <2>5 DEF Comes, Ensure, Ensured, StreamCalls
  <2>8. at'[u] \in {"sending", "noting"} => what'[u] = "ticks" /\ names'[u] = Wanted[u]
    BY <1>0, <1>2, <2>1
    DEF Comes, ExtendFresh, Extend, SkipFresh, Subscribe, Subscribed, StreamCalls
  <2>9. at'[u] = "ensured" => what'[u] = "ticks" /\ names'[u] = Wanted[u]
    BY <1>0, <1>2, <2>1
    DEF Comes, Ensure, SubscribeFails, NoteEnsured, Ensured, StreamCalls
  <2> QED
    BY <2>2, <2>3, <2>4, <2>6, <2>7, <2>8, <2>9 DEF Dialling
<1> QED
  BY <1>1, <1>2

LEMMA BehindStep ==
    ASSUME Calls, Names, Handles, Locking, Shared, Net, Behind, [Next]_vars
    PROVE  Behind'
<1> SUFFICES ASSUME NEW u \in Streams,
                    at'[u] \in {"following", "resubscribing", "resending", "rejoining"}
             PROVE  noted'[u] < generation'
  BY DEF Behind
<1>1. u \in Tasks /\ noted[u] \in 0 .. generation /\ generation \in Nat
  BY ConstantsFit, Numbers DEF Handles
<1>2. generation' = generation \/ generation' = generation + 1
  BY SessionSteps DEF SessionStep
<1>3. CASE at'[u] = at[u]
  BY <1>1, <1>2, <1>3, StaysStill DEF Still, Behind
<1>4. CASE at'[u] # at[u]
  <2>1. noted'[u] = noted[u] /\ generation' = generation
    BY <1>1, <1>4, ComesByItself
    DEF Comes, Look, Follow, ExtendMissing, Extend, SkipMissing, Resubscribe, Leave, Calls, live
  <2>2. at[u] \in {"following", "resubscribing", "resending"} \/ noted[u] # generation
    BY <1>1, <1>4, ComesByItself
    DEF Comes, Look, Moved, Follow, ExtendMissing, SkipMissing, Resubscribe
  <2> QED
    BY <1>1, <2>1, <2>2 DEF Behind
<1> QED
  BY <1>3, <1>4

LEMMA AwaitingStep ==
    ASSUME Calls, Names, Handles, Locking, Shared, Net, Held, Held', StreamCalls, Awaiting,
           [Next]_vars
    PROVE  Awaiting'
<1> DEFINE Here == {"subscribing", "sending", "noting", "resubscribing", "resending",
                    "rejoining"}
<1> SUFFICES ASSUME NEW u \in Streams, Up', on'[u] = client', ~crossed', at'[u] \in Here
             PROVE  Wanted[u] \subseteq subscribed' \union fresh'[u]
  BY DEF Awaiting
<1>0. u \in Tasks
  BY ConstantsFit
<1>6. CASE at'[u] # at[u] /\ (Reuse(u) \/ Connected(u))
  <2>1. what[u] = "ticks"
    BY <1>0, <1>6 DEF Reuse, Calling, Connected, Locking, Dialling, StreamCalls
  <2>2. Obtain(u, client) \/ Obtain(u, generation')
    BY <1>6 DEF Reuse, Connected
  <2> QED
    BY <1>0, <1>6, <2>1, <2>2, Obtained
<1>7. CASE at'[u] = at[u] \/ ~(Reuse(u) \/ Connected(u))
  <2>1. on'[u] = on[u]
    BY <1>0, <1>7, StaysStill, ComesByItself
    DEF Still, Comes, Ensure, Ensured, Return, Leave, ExtendFresh, Extend, SkipFresh,
        Subscribe, Subscribed, Follow, ExtendMissing, SkipMissing, Resubscribe, Calls
  <2>2. Up /\ on[u] = client /\ ~crossed /\ subscribed \subseteq subscribed'
    <3>1. on[u] \in 1 .. generation
      BY <1>0, <2>1, HandleDial DEF Held, WithHandle
    <3> QED
      BY <2>1, <3>1, StandsOn
  <2>3. CASE at'[u] = at[u] \/ at'[u] \in {"sending", "noting", "resending", "rejoining"}
    <3>1. at[u] \in Here /\ fresh'[u] = fresh[u]
      BY <1>0, <2>3, StaysStill, ComesByItself
      DEF Still, Comes, ExtendFresh, Extend, SkipFresh, Subscribe, Subscribed, Return, Leave,
          ExtendMissing, SkipMissing, Resubscribe, Calls
    <3> QED
      BY <2>2, <3>1 DEF Awaiting
  <2>4. CASE at'[u] # at[u] /\ at'[u] = "subscribing"
    <3>1. Ensure(u)
      BY <1>0, <1>7, <2>4, ComesByItself DEF Comes
    <3>2. names[u] = Wanted[u] /\ fresh'[u] = names[u] \ subscribed
      BY <1>0, <2>4, <3>1 DEF Ensure, New, Ensured, Return, Leave, StreamCalls, Calls, Names
    <3> QED
      BY <2>2, <3>2
  <2>5. CASE at'[u] # at[u] /\ at'[u] = "resubscribing"
    <3>1. Follow(u)
      BY <1>0, <2>5, ComesByItself DEF Comes
    <3>2. fresh'[u] = Wanted[u] \ subscribed
      BY <1>0, <2>5, <3>1 DEF Follow, Missing, Leave, Calls, Names
    <3> QED
      BY <2>2, <3>2
  <2> QED
    BY <2>3, <2>4, <2>5
<1> QED
  BY <1>6, <1>7

LEMMA NotedStep ==
    ASSUME Calls, Names, Handles, Locking, Shared, Net, Shared', Held, Held', StreamCalls,
           Awaiting, Behind, Noted, [Next]_vars
    PROVE  Noted'
<1> SUFFICES ASSUME NEW u \in Streams, Up', ~crossed',
                    \/ at'[u] = "ensured" /\ on'[u] = client'
                    \/ at'[u] = "polling" /\ noted'[u] = generation'
             PROVE  Wanted[u] \subseteq subscribed'
  BY DEF Noted
<1>0. /\ u \in Tasks /\ u \notin Callers /\ noted[u] \in 0 .. generation
      /\ on[u] \in 0 .. generation /\ generation \in Nat
  BY ConstantsFit, Numbers DEF Handles
<1>1. client' = generation' /\ (generation' = generation \/ generation' = generation + 1)
  <2>1. client' \in {0, generation'} /\ client' # 0
    BY DEF Shared, Up
  <2>2. generation' = generation \/ generation' = generation + 1
    BY SessionSteps DEF SessionStep
  <2> QED
    BY <2>1, <2>2
<1>2. generation' = generation =>
        Up /\ client = generation /\ ~crossed /\ subscribed \subseteq subscribed'
  <2> SUFFICES ASSUME generation' = generation
               PROVE  Up /\ client = generation /\ ~crossed /\ subscribed \subseteq subscribed'
    OBVIOUS
  <2>1. generation \in 1 .. generation
    BY <1>0, <1>1 DEF Up
  <2> QED
    BY <1>1, <2>1, StandsOn
<1>3. CASE at'[u] = at[u]
  <2>1. noted'[u] = noted[u] /\ on'[u] = on[u]
    BY <1>0, <1>3, StaysStill DEF Still
  <2>2. generation' = generation
    BY <1>0, <1>1, <2>1
  <2> QED
    BY <1>1, <1>2, <1>3, <2>1, <2>2 DEF Noted
<1>4. CASE at'[u] # at[u] /\ at'[u] = "ensured"
  <2>1. Ensure(u) \/ SubscribeFails(u) \/ NoteEnsured(u)
    BY <1>0, <1>4, ComesByItself DEF Comes
  <2>2. on'[u] = on[u] /\ generation' = generation /\ on[u] = client
    BY <1>0, <1>1, <1>2, <1>4, <2>1
    DEF Ensure, SubscribeFails, NoteEnsured, Ensured, live
  <2>3. CASE Ensure(u)
    <3>1. names[u] = Wanted[u] /\ names[u] \subseteq subscribed
      BY <1>0, <1>4, <2>3 DEF Ensure, New, StreamCalls, Calls
    <3> QED
      BY <1>2, <2>2, <3>1
  <2>4. CASE SubscribeFails(u)
    BY <1>2, <2>2, <2>4 DEF SubscribeFails, Refused, Up
  <2>5. CASE NoteEnsured(u)
    <3>1. Wanted[u] \subseteq subscribed \union fresh[u]
      BY <1>2, <2>2, <2>5 DEF NoteEnsured, Awaiting
    <3> QED
      BY <2>5, <3>1 DEF NoteEnsured, Note
  <2> QED
    BY <2>1, <2>3, <2>4, <2>5
<1>5. CASE at'[u] # at[u] /\ at'[u] = "polling"
  <2>1. StartStream(u) \/ Follow(u) \/ ResubscribeFails(u) \/ Rejoin(u)
    BY <1>0, <1>5, ComesByItself DEF Comes
  <2>2. CASE StartStream(u)
    <3>1. at[u] = "ensured" /\ on[u] = generation /\ generation' = generation
      BY <2>2 DEF StartStream, live
    <3> QED
      BY <1>2, <3>1 DEF Noted
  <2>3. CASE Follow(u)
    <3>1. Wanted[u] \subseteq subscribed /\ generation' = generation
      BY <1>0, <1>5, <2>3 DEF Follow, Missing, Calls, live
    <3> QED
      BY <1>2, <3>1
  <2>4. CASE ResubscribeFails(u)
    <3>1. /\ noted'[u] = noted[u] /\ generation' = generation
          /\ at[u] \in {"resubscribing", "resending"}
      BY <2>4 DEF ResubscribeFails, live
    <3> QED
      BY <1>0, <1>5, <3>1 DEF Behind
  <2>5. CASE Rejoin(u)
    <3>1. /\ at[u] = "rejoining" /\ on[u] = client /\ generation' = generation
          /\ subscribed' = subscribed \union fresh[u]
      BY <2>5 DEF Rejoin, Note
    <3> QED
      BY <1>2, <3>1 DEF Awaiting
  <2> QED
    BY <2>1, <2>2, <2>3, <2>4, <2>5
<1> QED
  BY <1>3, <1>4, <1>5

LEMMA NotedIsHeard ==
    ASSUME NoteIsTrue, Noted
    PROVE  StreamsHear
BY DEF NoteIsTrue, Noted, StreamsHear, Undisturbed

------------------------------------------------------------------------------
(* The snapshots of one task, and the pauses *)

OneTakesSnapshots ==
    \A t, u \in Callers : "snapshot" \in Allowed[t] \intersect Allowed[u] => t = u

\* Only a snapshot looks at the age of the session.
SnapshotPlaces ==
    \A t \in Tasks :
        /\ what[t] = "snapshot" => t \in Callers /\ "snapshot" \in Allowed[t]
        /\ at[t] \in {"ageing", "resetting"} => what[t] = "snapshot"

\* Its handle is the session's connection, or one that has closed.
Young == \A t \in Tasks : at[t] = "ageing" => on[t] = client \/ state[on[t]] = "closed"

\* What is left of the pause makes up what the broker was left alone too little.
Spaced == failures > 0 => quiet + wait >= Backoff[failures]

LEMMA SnapshotPlacesStep ==
    ASSUME Calls, Names, Handles, Locking, Shared, Net, SnapshotPlaces, [Next]_vars
    PROVE  SnapshotPlaces'
<1> SUFFICES ASSUME NEW u \in Tasks
             PROVE  /\ what'[u] = "snapshot" => u \in Callers /\ "snapshot" \in Allowed[u]
                    /\ at'[u] \in {"ageing", "resetting"} => what'[u] = "snapshot"
  BY DEF SnapshotPlaces
<1>1. CASE at'[u] = at[u]
  BY <1>1, StaysStill DEF Still, SnapshotPlaces
<1>2. CASE at'[u] # at[u] /\ at'[u] \in {"ageing", "resetting"}
  <2>1. Reuse(u) \/ Connected(u) => what'[u] = what[u] /\ what[u] = "snapshot"
    <3> SUFFICES ASSUME Obtain(u, client) \/ Obtain(u, generation')
                 PROVE  what'[u] = what[u] /\ what[u] = "snapshot"
      BY DEF Reuse, Connected
    <3> QED
      BY <1>2, Obtained
  <2>2. Judge(u) => what'[u] = what[u] /\ what[u] = "snapshot"
    BY DEF Judge, SnapshotPlaces
  <2>3. Reuse(u) \/ Connected(u) \/ Judge(u)
    BY <1>2, ComesByItself DEF Comes, ReadBook, Calls
  <2> QED
    BY <2>1, <2>2, <2>3 DEF SnapshotPlaces
<1>3. CASE at'[u] # at[u] /\ at'[u] \notin {"ageing", "resetting"}
  <2>1. at'[u] = "calling" /\ what'[u] = "snapshot" => u \in Callers /\ "snapshot" \in Allowed[u]
    BY <1>3, ComesByItself DEF Comes, Begin, Calls
  <2>2. at'[u] # "calling" => what'[u] \in {what[u], "none"}
    BY <1>3, ComesByItself DEF Comes
  <2> QED
    BY <1>3, <2>1, <2>2 DEF SnapshotPlaces
<1> QED
  BY <1>1, <1>2, <1>3

LEMMA YoungStep ==
    ASSUME OneTakesSnapshots, Calls, Names, Handles, Locking, Shared, Net, Held,
           SnapshotPlaces, Young, [Next]_vars
    PROVE  Young'
<1> SUFFICES ASSUME NEW u \in Tasks, at'[u] = "ageing"
             PROVE  on'[u] = client' \/ state'[on'[u]] = "closed"
  BY DEF Young
<1>1. CASE at'[u] = at[u]
  <2>1. on'[u] = on[u] /\ on[u] \in 1 .. generation
    BY <1>1, StaysStill, HandleDial DEF Still, Held, WithHandle
  <2>2. state[on[u]] = "closed" => state'[on[u]] = "closed"
    BY <2>1, NetSteps DEF NetStep
  <2>3. on[u] = client => client' = client \/ Dead
    <3>1. \A t \in Tasks : at[t] = "resetting" => FALSE
      BY <1>1 DEF SnapshotPlaces, OneTakesSnapshots
    <3>2. on[u] # 0
      BY <2>1
    <3> QED
      BY <3>1, <3>2, SessionSteps DEF SessionStep
  <2>4. on[u] = client \/ state[on[u]] = "closed"
    BY <1>1 DEF Young
  <2> QED
    BY <2>1, <2>2, <2>3, <2>4 DEF Dead
<1>2. CASE at'[u] # at[u]
  <2>1. Reuse(u) \/ Connected(u)
    BY <1>2, ComesByItself DEF Comes, Judge, ReadBook, Calls
  <2>2. Obtain(u, client')
    BY <2>1 DEF Reuse, Connected, live
  <2> QED
    BY <2>2, Obtained
<1> QED
  BY <1>1, <1>2

LEMMA JudgedOnly ==
    ASSUME Calls, Names, Handles, Locking, Shared, Net, NEW u \in Tasks, at[u] = "ageing",
           at'[u] = "reading", [Next]_vars
    PROVE  Judge(u)
<1>1. Reuse(u) \/ Connected(u) \/ Judge(u) \/ \E held \in SUBSET Symbols : ReadBook(u, held)
  BY ComesByItself DEF Comes
<1> QED
  BY <1>1 DEF Reuse, Calling, Connected, Locking, Dialling, ReadBook

LEMMA SpacedStep ==
    ASSUME Calls, Names, Handles, Locking, Shared, Net, Spaced, [Next]_vars
    PROVE  Spaced'
<1>1. ASSUME NEW t \in Callers, StartSnapshot(t) PROVE Spaced'
  BY <1>1, ConstantsFit
  DEF StartSnapshot, Begin, live, backoff, connections, clients, Spaced, Shared
<1>2. ASSUME NEW t \in Callers, StartQuery(t) PROVE Spaced'
  BY <1>2, ConstantsFit
  DEF StartQuery, Begin, live, backoff, connections, clients, Spaced, Shared
<1>3. ASSUME NEW t \in Callers, StartResubscribe(t) PROVE Spaced'
  BY <1>3, ConstantsFit
  DEF StartResubscribe, Begin, live, backoff, connections, clients, Spaced, Shared
<1>4. ASSUME NEW t \in Callers, StartSend(t) PROVE Spaced'
  BY <1>4, ConstantsFit
  DEF StartSend, Begin, live, backoff, connections, clients, Spaced, Shared
<1>5. ASSUME NEW s \in Streams, StartTicks(s) PROVE Spaced'
  BY <1>5, ConstantsFit
  DEF StartTicks, Begin, live, backoff, connections, clients, Spaced, Shared
<1>6. ASSUME NEW t \in Tasks, Reuse(t) PROVE Spaced'
  BY <1>6, ConstantsFit
  DEF Reuse, Calling, Up, Obtain, live, backoff, connections, clients, Return,
      Onwards, Leave, Spaced, Shared
<1>7. ASSUME NEW t \in Tasks, Unavailable(t) PROVE Spaced'
  BY <1>7, ConstantsFit
  DEF Unavailable, Calling, Up, DropDead, Return, backoff, connections, clients, Dead,
      Forget, Leave, Spaced, Shared
<1>8. ASSUME NEW t \in Tasks, Dial(t) PROVE Spaced'
  BY <1>8, ConstantsFit
  DEF Dial, Calling, Up, DropDead, backoff, connections, clients, Dead, Forget,
      Spaced, Shared
<1>9. ASSUME NEW t \in Tasks, Connected(t) PROVE Spaced'
  BY <1>9, ConstantsFit
  DEF Connected, Longest, Obtain, Return, Onwards, Leave, Spaced, Shared
<1>10. ASSUME NEW t \in Tasks, DialFails(t) PROVE Spaced'
  BY <1>10, ConstantsFit
  DEF DialFails, Fails, Pause, Return, connections, clients, Least, Leave, Spaced,
      Shared
<1>11. ASSUME NEW t \in Tasks, Judge(t) PROVE Spaced'
  BY <1>11, ConstantsFit
  DEF Judge, Stale, live, backoff, connections, clients, Spaced, Shared
<1>12. ASSUME NEW t \in Tasks, Reset(t) PROVE Spaced'
  BY <1>12, ConstantsFit
  DEF Reset, Forget, backoff, connections, clients, Spaced, Shared
<1>13. ASSUME NEW t \in Tasks, ReadFails(t) PROVE Spaced'
  BY <1>13, ConstantsFit
  DEF ReadFails, Return, live, backoff, connections, clients, Leave, Spaced, Shared
<1>14. ASSUME NEW t \in Tasks, NEW held \in SUBSET Symbols, ReadBook(t, held) PROVE Spaced'
  BY <1>14, ConstantsFit
  DEF ReadBook, live, backoff, connections, clients, Spaced, Shared
<1>15. ASSUME NEW t \in Tasks, Ensure(t) PROVE Spaced'
  BY <1>15, ConstantsFit
  DEF Ensure, New, Ensured, live, backoff, connections, clients, Return, Leave,
      Spaced, Shared
<1>16. ASSUME NEW t \in Tasks, ExtendFresh(t) PROVE Spaced'
  BY <1>16, ConstantsFit
  DEF ExtendFresh, Extend, live, backoff, Spaced, Shared
<1>17. ASSUME NEW t \in Tasks, SkipFresh(t) PROVE Spaced'
  BY <1>17, ConstantsFit
  DEF SkipFresh, Subscribed, live, backoff, connections, clients, Return, Leave,
      Spaced, Shared
<1>18. ASSUME NEW t \in Tasks, Subscribe(t) PROVE Spaced'
  BY <1>18, ConstantsFit
  DEF Subscribe, Put, Subscribed, Return, Leave, live, backoff, clients, Spaced,
      Shared
<1>19. ASSUME NEW t \in Tasks, SubscribeFails(t) PROVE Spaced'
  BY <1>19, ConstantsFit
  DEF SubscribeFails, Ensured, live, backoff, connections, clients, Return, Leave,
      Spaced, Shared
<1>20. ASSUME NEW t \in Tasks, NoteEnsured(t) PROVE Spaced'
  BY <1>20, ConstantsFit
  DEF NoteEnsured, Note, Ensured, backoff, connections, clients, Return, Leave,
      Spaced, Shared
<1>21. ASSUME NEW s \in Streams, StartStream(s) PROVE Spaced'
  BY <1>21, ConstantsFit
  DEF StartStream, Leave, live, backoff, connections, clients, Spaced, Shared
<1>22. ASSUME NEW s \in Streams, Look(s) PROVE Spaced'
  BY <1>22, ConstantsFit
  DEF Look, Up, Moved, live, backoff, connections, clients, Spaced, Shared
<1>23. ASSUME NEW s \in Streams, Follow(s) PROVE Spaced'
  BY <1>23, ConstantsFit
  DEF Follow, Missing, Leave, live, backoff, connections, clients, Spaced, Shared
<1>24. ASSUME NEW s \in Streams, ExtendMissing(s) PROVE Spaced'
  BY <1>24, ConstantsFit
  DEF ExtendMissing, Extend, live, backoff, Spaced, Shared
<1>25. ASSUME NEW s \in Streams, SkipMissing(s) PROVE Spaced'
  BY <1>25, ConstantsFit
  DEF SkipMissing, live, backoff, connections, clients, Spaced, Shared
<1>26. ASSUME NEW s \in Streams, Resubscribe(s) PROVE Spaced'
  BY <1>26, ConstantsFit
  DEF Resubscribe, Put, live, backoff, clients, Spaced, Shared
<1>27. ASSUME NEW s \in Streams, ResubscribeFails(s) PROVE Spaced'
  BY <1>27, ConstantsFit
  DEF ResubscribeFails, Leave, live, backoff, connections, clients, Spaced, Shared
<1>28. ASSUME NEW s \in Streams, Rejoin(s) PROVE Spaced'
  BY <1>28, ConstantsFit
  DEF Rejoin, Note, Leave, backoff, connections, clients, Spaced, Shared
<1>29. ASSUME NEW d \in Dials, Close(d) PROVE Spaced'
  BY <1>29, ConstantsFit
  DEF Close, live, backoff, tasks, Spaced, Shared
<1>30. CASE Tick
  BY <1>30, ConstantsFit
  DEF Tick, Least, Longest, Dials, live, tasks, clients, Spaced, Shared
<1>31. CASE UNCHANGED vars
  BY <1>31, ConstantsFit
  DEF vars, live, backoff, tasks, connections, clients, Spaced, Shared
<1> QED
  BY <1>1, <1>2, <1>3, <1>4, <1>5, <1>6, <1>7, <1>8, <1>9, <1>10, <1>11, <1>12, <1>13,
      <1>14, <1>15, <1>16, <1>17, <1>18, <1>19, <1>20, <1>21, <1>22, <1>23, <1>24,
      <1>25, <1>26, <1>27, <1>28, <1>29, <1>30, <1>31
  DEF Next, Start, Work, Connect, StreamStep

------------------------------------------------------------------------------
(* The theorems *)

IInv ==
    /\ TypeOK
    /\ Held /\ Copied /\ Asked /\ Clean /\ Known /\ NoteIsTrue
    /\ StreamCalls /\ Behind /\ Awaiting /\ Noted
    /\ Spaced

LEMMA InitInv == Init => IInv
<1> SUFFICES ASSUME Init PROVE IInv
  OBVIOUS
<1>1. TypeOK /\ Streams \subseteq Tasks
  BY InitType, ConstantsFit
<1>2. /\ \A t \in Tasks : at[t] = "idle"
      /\ client = 0 /\ subscribed = {} /\ failures = 0
  BY DEF Init
<1>3. Held /\ Copied /\ Asked /\ Clean /\ Known /\ NoteIsTrue
  BY <1>2 DEF Held, WithHandle, Copied, Asked, Clean, Known, NoteIsTrue, Undisturbed, Up
<1>4. StreamCalls /\ Behind /\ Awaiting /\ Noted
  BY <1>1, <1>2 DEF StreamCalls, Behind, Awaiting, Noted
<1> QED
  BY <1>1, <1>2, <1>3, <1>4 DEF IInv, Spaced

LEMMA NextInv == IInv /\ [Next]_vars => IInv'
<1> SUFFICES ASSUME IInv, [Next]_vars PROVE IInv'
  OBVIOUS
<1>1. /\ TypeOK' /\ Held' /\ Calls /\ Names /\ Handles /\ Locking /\ Shared /\ Net
      /\ Shared'
  BY NextType, Parts, NextParts DEF IInv
<1>2. Copied' /\ Asked'
  BY <1>1, CopiedStep, AskedStep DEF IInv
<1>3. Clean' /\ Known' /\ NoteIsTrue'
  BY <1>1, NoteStep DEF IInv
<1>4. StreamCalls' /\ Behind' /\ Awaiting'
  BY <1>1, StreamCallsStep, BehindStep, AwaitingStep DEF IInv
<1>5. Noted'
  BY <1>1, NotedStep DEF IInv
<1>6. Spaced'
  BY <1>1, SpacedStep DEF IInv
<1> QED
  BY <1>1, <1>2, <1>3, <1>4, <1>5, <1>6 DEF IInv

\* What is noted as subscribed is streamed by the session's connection, as far as
\* that lists it, unless a redial came between a subscription and its note, or lists
\* were sent out of order (ensure_subscribed, ticks, Client::subscribe).
THEOREM WhatIsNotedIsStreamed == Spec => []NoteIsTrue
<1>1. IInv => NoteIsTrue
  BY DEF IInv
<1> QED
  BY <1>1, InitInv, NextInv, PTL DEF Spec

\* Under the same condition a stream that has come up with the session hears all its
\* symbols that the connection lists (ticks).
THEOREM StreamsHearTheirSymbols == Spec => []StreamsHear
<1>1. IInv => StreamsHear
  BY NotedIsHeard DEF IInv
<1> QED
  BY <1>1, InitInv, NextInv, PTL DEF Spec

\* The broker is left alone after refused logins, whoever asks (client, backoff).
THEOREM BrokerIsLeftAlone == Spec => BackoffKept
<1>1. IInv /\ [Next]_vars =>
        [\A t \in Tasks : lock # t /\ lock' = t =>
           failures = 0 \/ quiet >= Backoff[failures]]_vars
  <2> SUFFICES ASSUME IInv, [Next]_vars, NEW t \in Tasks, lock # t, lock' = t
               PROVE  failures = 0 \/ quiet >= Backoff[failures]
    OBVIOUS
  <2>1. wait = 0
    BY ConstantsFit
    DEF Next, Start, StartSnapshot, StartQuery, StartResubscribe, StartSend, StartTicks, Begin, Work,
        Connect, Reuse, Unavailable, Dial, Connected, DialFails, Judge, Reset, ReadFails,
        ReadBook, Ensure, ExtendFresh, Extend, SkipFresh, Subscribe, SubscribeFails, NoteEnsured,
        StreamStep, StartStream, Look, Follow, ExtendMissing, SkipMissing, Resubscribe,
        ResubscribeFails, Rejoin, Close, Tick, live, vars
  <2>2. failures \in Nat /\ quiet \in Nat
    BY ConstantsFit DEF IInv, TypeOK
  <2> QED
    BY <2>1, <2>2 DEF IInv, Spaced
<1> QED
  BY <1>1, InitInv, NextInv, PTL DEF Spec, BackoffKept

\* With one task that takes snapshots, a snapshot reads from a connection that was
\* young when it looked, or that has closed (snapshot, reconnect).
THEOREM SnapshotsAreYoung ==
    ASSUME OneTakesSnapshots
    PROVE  Spec => SnapshotTrusted
<1> DEFINE J == IInv /\ SnapshotPlaces /\ Young
<1>1. Init => J
  <2> SUFFICES ASSUME Init PROVE SnapshotPlaces /\ Young
    BY InitInv
  <2> QED
    BY DEF Init, SnapshotPlaces, Young
<1>2. J /\ [Next]_vars => J'
  <2> SUFFICES ASSUME J, [Next]_vars PROVE J'
    OBVIOUS
  <2>1. Calls /\ Names /\ Handles /\ Locking /\ Shared /\ Net /\ Held
    BY Parts DEF IInv
  <2> QED
    BY <2>1, NextInv, SnapshotPlacesStep, YoungStep
<1>3. J /\ [Next]_vars =>
        [\A t \in Callers : at[t] = "ageing" /\ at'[t] = "reading" =>
           age[on[t]] < MaxAge \/ state[on[t]] = "closed"]_vars
  <2> SUFFICES ASSUME J, [Next]_vars, NEW t \in Callers, at[t] = "ageing", at'[t] = "reading"
               PROVE  age[on[t]] < MaxAge \/ state[on[t]] = "closed"
    OBVIOUS
  <2>1. Judge(t)
    BY JudgedOnly, Parts, ConstantsFit DEF IInv
  <2>2. ~Stale
    BY <2>1, ConstantsFit DEF Judge, IInv, TypeOK
  <2>3. on[t] = client => client = generation /\ client \in Dials
    BY Parts, Standing, ConstantsFit DEF IInv, Held, WithHandle
  <2>4. on[t] = client => age[on[t]] < MaxAge
    <3>1. on[t] = client => age[on[t]] \in 0 .. MaxAge
      BY <2>3 DEF IInv, TypeOK
    <3> QED
      BY <2>2, <2>3, <3>1, ConstantsFit DEF Stale
  <2>5. on[t] = client \/ state[on[t]] = "closed"
    BY ConstantsFit DEF Young
  <2> QED
    BY <2>4, <2>5
<1> QED
  BY <1>1, <1>2, <1>3, PTL DEF Spec, SnapshotTrusted
=============================================================================
