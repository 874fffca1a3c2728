------------------------ MODULE NativeSessionChannel ------------------------
(***************************************************************************)
(* The two ciphers of a synchronized session stay in step with the         *)
(* broker's, and messages reach the application whole, once and in order,  *)
(* for every key, content and bound.                                       *)
(***************************************************************************)
EXTENDS NativeSessionProofs

------------------------------------------------------------------------------
(* Chains of enciphered payloads *)

\* Where a cipher stands that has just been through a payload.
After(box) == Advanced([key |-> box.key, pos |-> box.at], box.plain)

LEMMA AfterInStep ==
    ASSUME NEW c \in Ciphers, NEW box \in Boxes, InStep(c, box)
    PROVE  Advanced(c, box.plain) = After(box)
<1>1. c = [key |-> box.key, pos |-> box.at]
  BY DEF InStep, Ciphers
<1> QED
  BY <1>1 DEF After

LEMMA SealedInStep ==
    ASSUME NEW c \in Ciphers, NEW plain \in Seq(ChunkTypes)
    PROVE  /\ Sealed(c, plain) \in Boxes /\ Sealed(c, plain).plain = plain
           /\ InStep(c, Sealed(c, plain))
  BY SealedType DEF Sealed, InStep

\* A payload sealed where the chain ends extends it.
LEMMA ChainedAppend ==
    ASSUME NEW boxes \in Seq(Boxes), NEW box \in Boxes, NEW c, NEW d \in Ciphers,
           Chained(c, boxes, d), InStep(d, box)
    PROVE  Chained(c, Append(boxes, box), Advanced(d, box.plain))
<1> DEFINE longer == Append(boxes, box)
           n == Len(boxes)
<1>1. /\ longer \in Seq(Boxes) /\ longer # <<>> /\ Len(longer) = n + 1 /\ n \in Nat
      /\ \A i \in 1 .. n : longer[i] = boxes[i]
      /\ longer[n + 1] = box
  BY AppendProperties
<1>2. Advanced(d, box.plain) = After(box)
  BY AfterInStep
<1>3. CASE boxes = <<>>
  <2>1. c = d /\ n = 0
    BY <1>3 DEF Chained
  <2> HIDE DEF longer, n
  <2>2. /\ InStep(c, longer[1]) /\ Len(longer) = 1 /\ longer[Len(longer)] = box
        /\ 1 .. Len(longer) - 1 = {}
    BY <1>1, <2>1
  <2>3. Chained(c, longer, After(box))
    BY <1>1, <2>2 DEF Chained, After
  <2> QED
    BY <1>2, <2>3 DEF longer
<1>4. CASE boxes # <<>>
  <2>1. /\ InStep(c, boxes[1])
        /\ \A i \in 1 .. n - 1 : InStep(After(boxes[i]), boxes[i + 1])
        /\ d = After(boxes[n])
    BY <1>4 DEF Chained, After
  <2>2. n >= 1
    BY <1>1, <1>4
  <2> HIDE DEF longer, n
  <2>3. InStep(c, longer[1])
    BY <1>1, <2>1, <2>2
  <2>4. ASSUME NEW i \in 1 .. n PROVE InStep(After(longer[i]), longer[i + 1])
    <3>1. CASE i = n
      BY <1>1, <2>1, <2>2, <3>1
    <3>2. CASE i # n
      <4>1. i \in 1 .. n - 1 /\ i + 1 \in 1 .. n
        BY <1>1, <3>2
      <4> QED
        BY <1>1, <2>1, <4>1
    <3> QED
      BY <3>1, <3>2
  <2>5. Len(longer) - 1 = n /\ longer[Len(longer)] = box
    BY <1>1
  <2>6. \A i \in 1 .. Len(longer) - 1 : InStep(After(longer[i]), longer[i + 1])
    BY <2>4, <2>5
  <2>7. Chained(c, longer, After(box))
    BY <1>1, <2>3, <2>5, <2>6 DEF Chained, After
  <2> QED
    BY <1>2, <2>7 DEF longer
<1> QED
  BY <1>3, <1>4

\* The first payload of a chain is in step, and the rest goes on from its end.
LEMMA ChainedTail ==
    ASSUME NEW boxes \in Seq(Boxes), boxes # <<>>, NEW c \in Ciphers, NEW d,
           Chained(c, boxes, d)
    PROVE  /\ InStep(c, boxes[1])
           /\ Chained(Advanced(c, boxes[1].plain), Tail(boxes), d)
<1> DEFINE rest == Tail(boxes)
           n == Len(boxes)
<1>1. /\ rest \in Seq(Boxes) /\ Len(rest) = n - 1 /\ n \in Nat /\ n >= 1
      /\ \A i \in 1 .. n - 1 : rest[i] = boxes[i + 1]
  BY HeadTailProperties
<1>2. /\ InStep(c, boxes[1])
      /\ \A i \in 1 .. n - 1 : InStep(After(boxes[i]), boxes[i + 1])
      /\ d = After(boxes[n])
  BY DEF Chained, After
<1>3. boxes[1] \in Boxes
  BY <1>1, ElementOfSeq
<1>4. Advanced(c, boxes[1].plain) = After(boxes[1])
  BY <1>2, <1>3, AfterInStep
<1>5. CASE n = 1
  <2> HIDE DEF rest, n
  <2>1. rest = <<>> /\ d = After(boxes[1])
    BY <1>1, <1>2, <1>5, EmptySeq
  <2>2. Chained(After(boxes[1]), rest, d)
    BY <2>1 DEF Chained
  <2> QED
    BY <1>2, <1>4, <2>2 DEF rest
<1>6. CASE n # 1
  <2> HIDE DEF rest, n
  <2>1. rest # <<>>
    BY <1>1, <1>6, EmptySeq
  <2>2. InStep(After(boxes[1]), rest[1])
    <3>1. 1 \in 1 .. n - 1
      BY <1>1, <1>6
    <3> QED
      BY <1>1, <1>2, <3>1
  <2>3. ASSUME NEW i \in 1 .. Len(rest) - 1
        PROVE  InStep(After(rest[i]), rest[i + 1])
    <3>1. i \in 1 .. n - 1 /\ i + 1 \in 1 .. n - 1
      BY <1>1
    <3> QED
      BY <1>1, <1>2, <3>1
  <2>4. d = After(rest[Len(rest)])
    <3>1. n - 1 \in 1 .. n - 1 /\ (n - 1) + 1 = n
      BY <1>1, <1>6
    <3> QED
      BY <1>1, <1>2, <3>1
  <2>5. Chained(After(boxes[1]), rest, d)
    BY <2>1, <2>2, <2>3, <2>4 DEF Chained, After
  <2> QED
    BY <1>2, <1>4, <2>5 DEF rest
<1> QED
  BY <1>5, <1>6

------------------------------------------------------------------------------
(* The payloads in flight *)

Inbound == Chained(rx, Boxed(pending \o toClient), broker.tx)
Outbound(c) == Chained(broker.rx, Requested(toBroker), c)

\* A function on 1 .. n is a sequence of length n.
LEMMA FunctionSeq ==
    ASSUME NEW S, NEW n \in Nat, NEW f \in [1 .. n -> S]
    PROVE  f \in Seq(S) /\ Len(f) = n
<1>1. f \in Seq(S)
  BY SeqDef
<1>2. Len(f) \in Nat /\ 1 .. Len(f) = 1 .. n
  BY <1>1, LenProperties
<1> QED
  BY <1>1, <1>2

LEMMA BoxedSeq ==
    ASSUME NEW s \in Seq(Replies), \A i \in 1 .. Len(s) : s[i].body \in Boxes
    PROVE  /\ Boxed(s) \in Seq(Boxes) /\ Len(Boxed(s)) = Len(s)
           /\ \A i \in 1 .. Len(s) : Boxed(s)[i] = s[i].body
<1>1. DOMAIN s = 1 .. Len(s) /\ Len(s) \in Nat
  BY LenProperties
<1>2. Boxed(s) \in [1 .. Len(s) -> Boxes]
  BY <1>1 DEF Boxed
<1> QED
  BY <1>1, <1>2, FunctionSeq DEF Boxed

LEMMA RequestedSeq ==
    ASSUME NEW s \in Seq(Requests)
    PROVE  /\ Requested(s) \in Seq(Boxes) /\ Len(Requested(s)) = Len(s)
           /\ \A i \in 1 .. Len(s) : Requested(s)[i] = s[i].box
<1>1. DOMAIN s = 1 .. Len(s) /\ Len(s) \in Nat
  BY LenProperties
<1>2. ASSUME NEW i \in 1 .. Len(s) PROVE s[i].box \in Boxes
  <2>1. s[i] \in Requests
    BY ElementOfSeq
  <2> QED
    BY <2>1 DEF Requests
<1>3. Requested(s) \in [1 .. Len(s) -> Boxes]
  BY <1>1, <1>2 DEF Requested
<1> QED
  BY <1>1, <1>3, FunctionSeq DEF Requested

\* Everything in flight, read or not, is enciphered.
LEMMA FlightSeq ==
    ASSUME NEW p \in Seq(Replies), NEW t \in Seq(Replies),
           \A i \in 1 .. Len(p) : p[i].body \in Boxes,
           \A i \in 1 .. Len(t) : t[i].body \in Boxes
    PROVE  /\ p \o t \in Seq(Replies) /\ Len(p \o t) = Len(p) + Len(t)
           /\ \A i \in 1 .. Len(p \o t) : (p \o t)[i].body \in Boxes
<1>1. /\ p \o t \in Seq(Replies) /\ Len(p \o t) = Len(p) + Len(t)
      /\ \A i \in 1 .. Len(p) + Len(t) :
           (p \o t)[i] = IF i <= Len(p) THEN p[i] ELSE t[i - Len(p)]
  BY ConcatProperties
<1>2. Len(p) \in Nat /\ Len(t) \in Nat
  BY LenProperties
<1>3. ASSUME NEW i \in 1 .. Len(p) + Len(t) PROVE (p \o t)[i].body \in Boxes
  <2>1. CASE i <= Len(p)
    <3>1. i \in 1 .. Len(p) /\ (p \o t)[i] = p[i]
      BY <1>1, <1>2, <2>1
    <3> QED
      BY <3>1
  <2>2. CASE ~(i <= Len(p))
    <3>1. i - Len(p) \in 1 .. Len(t) /\ (p \o t)[i] = t[i - Len(p)]
      BY <1>1, <1>2, <2>2
    <3> QED
      BY <3>1
  <2> QED
    BY <2>1, <2>2
<1> QED
  BY <1>1, <1>3

\* A queue of frames with one more at its end.
LEMMA BoxedAppend ==
    ASSUME NEW s \in Seq(Replies), \A i \in 1 .. Len(s) : s[i].body \in Boxes,
           NEW f \in Replies, f.body \in Boxes
    PROVE  Boxed(Append(s, f)) = Append(Boxed(s), f.body)
<1> DEFINE longer == Append(s, f)
           n == Len(s)
<1>1. /\ longer \in Seq(Replies) /\ Len(longer) = n + 1 /\ n \in Nat
      /\ \A i \in 1 .. n : longer[i] = s[i]
      /\ longer[n + 1] = f
  BY AppendProperties
<1>2. \A i \in 1 .. n + 1 : i \in 1 .. n \/ i = n + 1
  BY <1>1
<1>3. \A i \in 1 .. n + 1 : longer[i].body \in Boxes
  BY <1>1, <1>2
<1> HIDE DEF longer
<1>4. /\ Boxed(longer) \in Seq(Boxes) /\ Len(Boxed(longer)) = n + 1
      /\ \A i \in 1 .. n + 1 : Boxed(longer)[i] = longer[i].body
  BY <1>1, <1>3, BoxedSeq
<1>5. /\ Boxed(s) \in Seq(Boxes) /\ Len(Boxed(s)) = n
      /\ \A i \in 1 .. n : Boxed(s)[i] = s[i].body
  BY BoxedSeq
<1>6. /\ Append(Boxed(s), f.body) \in Seq(Boxes)
      /\ Len(Append(Boxed(s), f.body)) = n + 1
      /\ \A i \in 1 .. n : Append(Boxed(s), f.body)[i] = Boxed(s)[i]
      /\ Append(Boxed(s), f.body)[n + 1] = f.body
  BY <1>5, AppendProperties
<1> HIDE DEF n
<1>7. \A i \in 1 .. n + 1 : Boxed(longer)[i] = Append(Boxed(s), f.body)[i]
  BY <1>1, <1>2, <1>4, <1>5, <1>6
<1>8. Boxed(longer) = Append(Boxed(s), f.body)
  BY <1>4, <1>6, <1>7, SeqEqual
<1> QED
  BY <1>8 DEF longer

\* A queue of frames whose first one has been taken.
LEMMA BoxedTail ==
    ASSUME NEW s \in Seq(Replies), \A i \in 1 .. Len(s) : s[i].body \in Boxes,
           s # <<>>
    PROVE  Boxed(Tail(s)) = Tail(Boxed(s)) /\ Boxed(s)[1] = Head(s).body
           /\ Boxed(s) # <<>>
<1> DEFINE rest == Tail(s)
           n == Len(s)
<1>1. /\ rest \in Seq(Replies) /\ Len(rest) = n - 1 /\ n \in Nat /\ n >= 1
      /\ \A i \in 1 .. n - 1 : rest[i] = s[i + 1]
      /\ Head(s) = s[1]
  BY HeadTailProperties
<1>2. \A i \in 1 .. n - 1 : i + 1 \in 1 .. n
  BY <1>1
<1>3. \A i \in 1 .. n - 1 : rest[i].body \in Boxes
  BY <1>1, <1>2
<1> HIDE DEF rest
<1>4. /\ Boxed(rest) \in Seq(Boxes) /\ Len(Boxed(rest)) = n - 1
      /\ \A i \in 1 .. n - 1 : Boxed(rest)[i] = rest[i].body
  BY <1>1, <1>3, BoxedSeq
<1>5. /\ Boxed(s) \in Seq(Boxes) /\ Len(Boxed(s)) = n
      /\ \A i \in 1 .. n : Boxed(s)[i] = s[i].body
  BY BoxedSeq
<1>6. Boxed(s) # <<>>
  BY <1>1, <1>5, EmptySeq
<1>7. /\ Tail(Boxed(s)) \in Seq(Boxes) /\ Len(Tail(Boxed(s))) = n - 1
      /\ \A i \in 1 .. n - 1 : Tail(Boxed(s))[i] = Boxed(s)[i + 1]
  BY <1>5, <1>6, HeadTailProperties
<1> HIDE DEF n
<1>8. \A i \in 1 .. n - 1 : Boxed(rest)[i] = Tail(Boxed(s))[i]
  BY <1>1, <1>2, <1>4, <1>5, <1>7
<1>9. Boxed(rest) = Tail(Boxed(s))
  BY <1>4, <1>7, <1>8, SeqEqual
<1>10. Boxed(s)[1] = Head(s).body
  BY <1>1, <1>5
<1> QED
  BY <1>6, <1>9, <1>10 DEF rest

\* pop_front of the frames that were read is pop_front of everything in flight.
LEMMA TailOfFlight ==
    ASSUME NEW p \in Seq(Replies), NEW t \in Seq(Replies), p # <<>>
    PROVE  Tail(p) \o t = Tail(p \o t) /\ Head(p \o t) = Head(p) /\ p \o t # <<>>
<1> DEFINE n == Len(p)
           m == Len(t)
<1>1. /\ Tail(p) \in Seq(Replies) /\ Len(Tail(p)) = n - 1 /\ n \in Nat /\ n >= 1
      /\ \A i \in 1 .. n - 1 : Tail(p)[i] = p[i + 1]
      /\ Head(p) = p[1] /\ m \in Nat
  BY HeadTailProperties
<1>2. /\ p \o t \in Seq(Replies) /\ Len(p \o t) = n + m
      /\ \A i \in 1 .. n + m : (p \o t)[i] = IF i <= n THEN p[i] ELSE t[i - n]
  BY ConcatProperties
<1>3. p \o t # <<>>
  BY <1>1, <1>2, EmptySeq
<1>4. /\ Tail(p \o t) \in Seq(Replies) /\ Len(Tail(p \o t)) = n + m - 1
      /\ \A i \in 1 .. n + m - 1 : Tail(p \o t)[i] = (p \o t)[i + 1]
      /\ Head(p \o t) = (p \o t)[1]
  BY <1>2, <1>3, HeadTailProperties
<1>5. /\ Tail(p) \o t \in Seq(Replies) /\ Len(Tail(p) \o t) = (n - 1) + m
      /\ \A i \in 1 .. (n - 1) + m :
           (Tail(p) \o t)[i] = IF i <= n - 1 THEN Tail(p)[i] ELSE t[i - (n - 1)]
  BY <1>1, ConcatProperties
<1> HIDE DEF n, m
<1>6. ASSUME NEW i \in 1 .. n + m - 1
      PROVE  (Tail(p) \o t)[i] = Tail(p \o t)[i]
  <2>1. i \in 1 .. (n - 1) + m /\ i + 1 \in 1 .. n + m
    BY <1>1
  <2>2. CASE i <= n - 1
    <3>1. i \in 1 .. n - 1 /\ i + 1 <= n
      BY <1>1, <2>2
    <3> QED
      BY <1>1, <1>2, <1>4, <1>5, <2>1, <2>2, <3>1
  <2>3. CASE ~(i <= n - 1)
    <3>1. ~(i + 1 <= n) /\ i - (n - 1) = (i + 1) - n
      BY <1>1, <2>3
    <3> QED
      BY <1>2, <1>4, <1>5, <2>1, <2>3, <3>1
  <2> QED
    BY <2>2, <2>3
<1>7. Len(Tail(p) \o t) = n + m - 1
  BY <1>1, <1>5
<1>8. Tail(p) \o t = Tail(p \o t)
  BY <1>4, <1>5, <1>6, <1>7, SeqEqual
<1>9. Head(p \o t) = Head(p)
  BY <1>1, <1>2, <1>4
<1> QED
  BY <1>3, <1>8, <1>9

\* The same for the queue of requests.
LEMMA RequestedAppend ==
    ASSUME NEW s \in Seq(Requests), NEW f \in Requests
    PROVE  Requested(Append(s, f)) = Append(Requested(s), f.box)
<1> DEFINE longer == Append(s, f)
           n == Len(s)
<1>1. /\ longer \in Seq(Requests) /\ Len(longer) = n + 1 /\ n \in Nat
      /\ \A i \in 1 .. n : longer[i] = s[i]
      /\ longer[n + 1] = f
  BY AppendProperties
<1> HIDE DEF longer
<1>2. /\ Requested(longer) \in Seq(Boxes) /\ Len(Requested(longer)) = n + 1
      /\ \A i \in 1 .. n + 1 : Requested(longer)[i] = longer[i].box
  BY <1>1, RequestedSeq
<1>3. /\ Requested(s) \in Seq(Boxes) /\ Len(Requested(s)) = n
      /\ \A i \in 1 .. n : Requested(s)[i] = s[i].box
  BY RequestedSeq
<1>4. f.box \in Boxes
  BY DEF Requests
<1>5. /\ Append(Requested(s), f.box) \in Seq(Boxes)
      /\ Len(Append(Requested(s), f.box)) = n + 1
      /\ \A i \in 1 .. n : Append(Requested(s), f.box)[i] = Requested(s)[i]
      /\ Append(Requested(s), f.box)[n + 1] = f.box
  BY <1>3, <1>4, AppendProperties
<1> HIDE DEF n
<1>6. \A i \in 1 .. n + 1 : i \in 1 .. n \/ i = n + 1
  BY <1>1
<1>7. \A i \in 1 .. n + 1 : Requested(longer)[i] = Append(Requested(s), f.box)[i]
  BY <1>1, <1>2, <1>3, <1>5, <1>6
<1>8. Requested(longer) = Append(Requested(s), f.box)
  BY <1>2, <1>5, <1>7, SeqEqual
<1> QED
  BY <1>8 DEF longer

LEMMA RequestedTail ==
    ASSUME NEW s \in Seq(Requests), s # <<>>
    PROVE  Requested(Tail(s)) = Tail(Requested(s)) /\ Requested(s)[1] = Head(s).box
           /\ Requested(s) # <<>>
<1> DEFINE rest == Tail(s)
           n == Len(s)
<1>1. /\ rest \in Seq(Requests) /\ Len(rest) = n - 1 /\ n \in Nat /\ n >= 1
      /\ \A i \in 1 .. n - 1 : rest[i] = s[i + 1]
      /\ Head(s) = s[1]
  BY HeadTailProperties
<1>2. \A i \in 1 .. n - 1 : i + 1 \in 1 .. n
  BY <1>1
<1> HIDE DEF rest
<1>3. /\ Requested(rest) \in Seq(Boxes) /\ Len(Requested(rest)) = n - 1
      /\ \A i \in 1 .. n - 1 : Requested(rest)[i] = rest[i].box
  BY <1>1, RequestedSeq
<1>4. /\ Requested(s) \in Seq(Boxes) /\ Len(Requested(s)) = n
      /\ \A i \in 1 .. n : Requested(s)[i] = s[i].box
  BY RequestedSeq
<1>5. Requested(s) # <<>>
  BY <1>1, <1>4, EmptySeq
<1>6. /\ Tail(Requested(s)) \in Seq(Boxes) /\ Len(Tail(Requested(s))) = n - 1
      /\ \A i \in 1 .. n - 1 : Tail(Requested(s))[i] = Requested(s)[i + 1]
  BY <1>4, <1>5, HeadTailProperties
<1> HIDE DEF n
<1>7. \A i \in 1 .. n - 1 : Requested(rest)[i] = Tail(Requested(s))[i]
  BY <1>1, <1>2, <1>3, <1>4, <1>6
<1>8. Requested(rest) = Tail(Requested(s))
  BY <1>3, <1>6, <1>7, SeqEqual
<1>9. Requested(s)[1] = Head(s).box
  BY <1>1, <1>4
<1> QED
  BY <1>5, <1>8, <1>9 DEF rest

------------------------------------------------------------------------------
(* What a step does to the payloads in flight *)

\* The broker puts a frame in flight.
LEMMA EmitInbound ==
    ASSUME IInv, Enciphered, Inbound, NEW cmd \in FrameCommands, NEW seq \in Nat,
           NEW fin \in BOOLEAN, NEW comp \in BOOLEAN, NEW plain \in Seq(ChunkTypes),
           Emit(cmd, seq, fin, comp, plain), UNCHANGED <<pending, rx>>,
           broker'.tx = Advanced(broker.tx, plain)
    PROVE  Inbound'
<1> DEFINE box == Sealed(broker.tx, plain)
           f == Reply(cmd, seq, fin, comp, box)
           q == pending \o toClient
<1>1. /\ broker.tx \in Ciphers /\ toClient \in Seq(Replies) /\ pending \in Seq(Replies)
  BY DEF IInv, TypeOK
<1>2. box \in Boxes /\ box.plain = plain /\ InStep(broker.tx, box)
  BY <1>1, SealedInStep
<1>3. toClient' = Append(toClient, f)
  BY DEF Emit
<1> HIDE DEF box
<1>4. f \in Replies /\ f.body = box
  BY <1>2 DEF Reply, Replies
<1> HIDE DEF f
<1>5. q \in Seq(Replies) /\ \A i \in 1 .. Len(q) : q[i].body \in Boxes
  BY <1>1, FlightSeq DEF Enciphered
<1>6. pending' \o toClient' = Append(q, f)
  <2>1. toClient' = toClient \o <<f>> /\ Append(q, f) = q \o <<f>>
    BY <1>1, <1>3, <1>4, <1>5, AppendIsConcat
  <2>2. <<f>> \in Seq(Replies)
    BY <1>4
  <2>3. (pending \o toClient) \o <<f>> = pending \o (toClient \o <<f>>)
    BY <1>1, <2>2, ConcatAssociative
  <2> QED
    BY <2>1, <2>3
<1> HIDE DEF q
<1>7. Boxed(pending' \o toClient') = Append(Boxed(q), box)
  BY <1>2, <1>4, <1>5, <1>6, BoxedAppend
<1>8. Boxed(q) \in Seq(Boxes)
  BY <1>5, BoxedSeq
<1>9. Chained(rx, Boxed(q), broker.tx)
  BY DEF Inbound, q
<1>10. Chained(rx, Append(Boxed(q), box), Advanced(broker.tx, box.plain))
  BY <1>1, <1>2, <1>8, <1>9, ChainedAppend
<1> QED
  BY <1>2, <1>7, <1>10 DEF Inbound

\* The session takes a frame, and deciphers all of its payload.
LEMMA TakeInbound ==
    ASSUME IInv, Enciphered, Inbound, pending # <<>>, pending' = Tail(pending),
           UNCHANGED <<toClient, broker>>, rx' = Advanced(rx, frame.body.plain)
    PROVE  Inbound' /\ InStep(rx, frame.body)
<1> DEFINE q == pending \o toClient
<1>1. /\ rx \in Ciphers /\ toClient \in Seq(Replies) /\ pending \in Seq(Replies)
  BY DEF IInv, TypeOK
<1>2. q \in Seq(Replies) /\ \A i \in 1 .. Len(q) : q[i].body \in Boxes
  BY <1>1, FlightSeq DEF Enciphered
<1>3. pending' \o toClient' = Tail(q) /\ Head(q) = frame /\ q # <<>>
  BY <1>1, TailOfFlight DEF frame
<1>4. Chained(rx, Boxed(q), broker.tx)
  BY DEF Inbound
<1> HIDE DEF q
<1>5. /\ Boxed(Tail(q)) = Tail(Boxed(q)) /\ Boxed(q)[1] = frame.body
      /\ Boxed(q) # <<>> /\ Boxed(q) \in Seq(Boxes)
  BY <1>2, <1>3, BoxedTail, BoxedSeq
<1>6. /\ InStep(rx, Boxed(q)[1])
      /\ Chained(Advanced(rx, Boxed(q)[1].plain), Tail(Boxed(q)), broker.tx)
  BY <1>1, <1>4, <1>5, ChainedTail
<1> QED
  BY <1>3, <1>5, <1>6 DEF Inbound

\* A ping without a payload leaves the cipher where it is.
LEMMA AdvancedByNothing ==
    ASSUME NEW c \in Ciphers
    PROVE  Advanced(c, <<>>) = c
  BY DEF Advanced, Ciphers

\* The broker receives a request.
LEMMA ReceivedOutbound ==
    ASSUME IInv, NEW c, Outbound(c), toBroker # <<>>, toBroker' = Tail(toBroker),
           broker'.rx = Advanced(broker.rx, Head(toBroker).box.plain)
    PROVE  Chained(broker'.rx, Requested(toBroker'), c)
<1>1. toBroker \in Seq(Requests) /\ broker.rx \in Ciphers
  BY DEF IInv, TypeOK
<1>2. /\ Requested(Tail(toBroker)) = Tail(Requested(toBroker))
      /\ Requested(toBroker)[1] = Head(toBroker).box /\ Requested(toBroker) # <<>>
      /\ Requested(toBroker) \in Seq(Boxes)
  BY <1>1, RequestedTail, RequestedSeq
<1>3. Chained(Advanced(broker.rx, Requested(toBroker)[1].plain),
              Tail(Requested(toBroker)), c)
  BY <1>1, <1>2, ChainedTail DEF Outbound
<1> QED
  BY <1>2, <1>3

\* The session sends a request on cipher c.
LEMMA SentOutbound ==
    ASSUME IInv, NEW c \in Ciphers, Outbound(c), NEW plain \in Seq(ChunkTypes),
           NEW cmd \in RequestCommands \union {"HELLO", "AUTH", "ACCOUNT_STATE"},
           NEW torn \in BOOLEAN,
           toBroker' = Append(toBroker, Request(cmd, Sealed(c, plain), torn)),
           UNCHANGED broker
    PROVE  Chained(broker'.rx, Requested(toBroker'), Advanced(c, plain))
<1> DEFINE box == Sealed(c, plain)
           f == Request(cmd, box, torn)
<1>1. toBroker \in Seq(Requests) /\ sequence \in 1 .. SequenceMod - 1
  BY DEF IInv, TypeOK
<1>2. box \in Boxes /\ box.plain = plain /\ InStep(c, box)
  BY SealedInStep
<1> HIDE DEF box
<1>3. f \in Requests /\ f.box = box
  BY <1>1, <1>2 DEF Request, Requests
<1>4. toBroker' = Append(toBroker, f)
  BY DEF box
<1> HIDE DEF f
<1>5. Requested(toBroker') = Append(Requested(toBroker), box)
  BY <1>1, <1>3, <1>4, RequestedAppend
<1>6. Requested(toBroker) \in Seq(Boxes)
  BY <1>1, RequestedSeq
<1>7. Chained(broker.rx, Append(Requested(toBroker), box), Advanced(c, box.plain))
  BY <1>2, <1>6, ChainedAppend DEF Outbound
<1> QED
  BY <1>2, <1>5, <1>7

------------------------------------------------------------------------------
(* The invariant *)

\* The broker keyed both its ciphers from the authentication result.
Keyed(reply) ==
    /\ broker.rx = NewCipher(LastValue(reply.body.tlvs, 7))
    /\ broker.tx = NewCipher(LastValue(reply.body.tlvs, 7))

\* Before the first enciphered payload both sides have keyed their ciphers alike.
Agreed ==
    /\ op = "auth" =>
         /\ \A i \in 1 .. Len(pending) : Keyed(pending[i])
         /\ \A i \in 1 .. Len(toClient) : Keyed(toClient[i])
    /\ state = "Authenticated" =>
         /\ hs.cipher = NewCipher(hs.sessionKey)
         /\ broker.rx = hs.cipher /\ broker.tx = hs.cipher

CipherInv == Agreed /\ CiphersInStep

LEMMA CipherInvIs ==
    CipherInv <=>
        /\ Agreed
        /\ op \in {"sync", "poll"} \/ state = "Ready" => Inbound
        /\ op = "poll" \/ state = "Ready" => Outbound(tx)
        /\ op = "sync" \/ state = "Authenticated" => Outbound(hs.cipher)
  BY DEF CipherInv, CiphersInStep, InboundInStep, OutboundInStep, Inbound, Outbound

\* A session that is spent, or has only said hello, owes nothing.
LEMMA SpentCiphers ==
    ASSUME state' = "Failed", op' \in {"idle", "challenge"}
    PROVE  CipherInv'
  BY DEF CipherInv, Agreed, CiphersInStep, InboundInStep, OutboundInStep

LEMMA AbortCiphers == ASSUME Abort PROVE CipherInv'
  BY SpentCiphers DEF Abort, Return

LEMMA KeptCiphers ==
    ASSUME CipherInv,
           UNCHANGED <<state, op, hs, rx, tx, pending, toClient, toBroker, broker>>
    PROVE  CipherInv'
  BY DEF CipherInv, Agreed, Keyed, CiphersInStep, InboundInStep, OutboundInStep

LEMMA BodySeq == Body \in Seq(ChunkTypes) /\ <<>> \in Seq(ChunkTypes)
  BY DEF Body, NoAccount, ChunkTypes

LEMMA EmptyChain ==
    ASSUME NEW c
    PROVE  /\ Chained(c, Boxed(<<>> \o <<>>), c)
           /\ Chained(c, Requested(<<>>), c)
<1>1. <<>> \o <<>> = <<>>
  BY ConcatEmptySeq
<1>2. DOMAIN <<>> = {}
  OBVIOUS
<1>3. Boxed(<<>>) = <<>> /\ Requested(<<>>) = <<>>
  BY <1>2 DEF Boxed, Requested
<1> QED
  BY <1>1, <1>3 DEF Chained

------------------------------------------------------------------------------
(* Every step keeps it *)

LEMMA AuthenticateCiphers == ASSUME Authenticate PROVE CipherInv'
  BY SpentCiphers DEF Authenticate, SendAndAwait

LEMMA TakeChallengeCiphers == ASSUME IInv, TakeChallenge PROVE CipherInv'
<1>1. CASE Abort
  BY <1>1, AbortCiphers
<1>2. CASE SendAndAwait("AUTH", Sealed(NoCipher, <<>>), "auth")
  <2>1. Exchanging("HELLO", ChallengeReplies) /\ pending # <<>> /\ toClient' = toClient
    BY DEF TakeChallenge, Takes, IInv, Exchange
  <2>2. Len(pending) = 1 /\ toClient' = <<>>
    BY <2>1 DEF Exchanging
  <2>3. Len(pending') = 0
    BY <2>2, TakesType DEF TakeChallenge
  <2>4. state' = "Failed" /\ op' \in {"idle", "auth"}
    BY <1>2 DEF SendAndAwait
  <2>5. 1 .. Len(pending') = {} /\ 1 .. Len(toClient') = {}
    BY <2>2, <2>3
  <2> QED
    BY <2>4, <2>5 DEF CipherInv, Agreed, CiphersInStep, InboundInStep, OutboundInStep
<1> QED
  BY <1>1, <1>2 DEF TakeChallenge

LEMMA TakeAuthResultCiphers ==
    ASSUME IInv, CipherInv, TakeAuthResult PROVE CipherInv'
<1>1. CASE Abort
  BY <1>1, AbortCiphers
<1>2. CASE /\ OnAuthResult(hs, frame.body).phase = "SessionKeysReady"
           /\ hs' = OnAuthResult(hs, frame.body)
           /\ state' = "Authenticated"
           /\ Return
           /\ UNCHANGED <<awaited, payload, profileReadOnly, ready,
                          sequence, toBroker, brokerVars>>
  <2>1. Exchanging("AUTH", AuthReplies) /\ pending # <<>> /\ op = "auth"
        /\ pending \in Seq(Replies) /\ hs \in Handshakes
    BY DEF TakeAuthResult, Takes, IInv, Exchange, TypeOK
  <2>2. Len(pending) = 1 /\ toBroker = <<>> /\ frame = pending[1]
    BY <2>1 DEF Exchanging, frame
  <2>3. Keyed(frame)
    BY <2>1, <2>2 DEF CipherInv, Agreed
  <2>4. /\ hs'.cipher = NewCipher(LastValue(frame.body.tlvs, 7))
        /\ hs'.sessionKey = LastValue(frame.body.tlvs, 7)
    <3>1. Acceptable(frame.body)
      BY <1>2 DEF OnAuthResult, Failed
    <3> QED
      BY <1>2, <2>1, <3>1 DEF OnAuthResult, Handshakes
  <2>5. /\ hs'.cipher = NewCipher(hs'.sessionKey)
        /\ broker'.rx = hs'.cipher /\ broker'.tx = hs'.cipher
    BY <1>2, <2>3, <2>4 DEF Keyed, brokerVars
  <2>6. toBroker' = <<>> /\ state' = "Authenticated" /\ op' = "idle"
    BY <1>2, <2>2 DEF Return
  <2>7. Chained(broker'.rx, Requested(toBroker'), hs'.cipher)
    BY <2>5, <2>6, EmptyChain
  <2> QED
    BY <2>5, <2>6, <2>7
       DEF CipherInv, Agreed, CiphersInStep, InboundInStep, OutboundInStep
<1> QED
  BY <1>1, <1>2 DEF TakeAuthResult

LEMMA SynchronizeCiphers == ASSUME IInv, CipherInv, Synchronize PROVE CipherInv'
<1>1. /\ hs.cipher = NewCipher(hs.sessionKey)
      /\ broker.rx = hs.cipher /\ broker.tx = hs.cipher
      /\ toBroker = <<>> /\ pending = <<>> /\ toClient = <<>>
  BY DEF Synchronize, CipherInv, Agreed, IInv, Exchange, Quiet
<1>2. /\ hs' = Sync(hs, Body) /\ rx' = NewCipher(hs.sessionKey)
      /\ UNCHANGED <<pending, toClient, broker>>
      /\ SendAndAwait("ACCOUNT_STATE", Sealed(hs.cipher, Body), "sync")
  BY DEF Synchronize, brokerVars
<1>3. PICK torn \in BOOLEAN :
        toBroker' = Append(toBroker,
                           Request("ACCOUNT_STATE", Sealed(hs.cipher, Body), torn))
  BY <1>2 DEF SendAndAwait
<1>4. state' = "Failed" /\ op' \in {"idle", "sync"}
  BY <1>2 DEF SendAndAwait
<1>5. hs.cipher \in Ciphers /\ hs'.cipher = Advanced(hs.cipher, Body)
  <2>1. hs \in Handshakes
    BY DEF IInv, TypeOK
  <2> QED
    BY <1>2, <2>1 DEF Sync, Handshakes
<1>6. Outbound(hs.cipher)
  BY <1>1, EmptyChain DEF Outbound
<1>7. Chained(broker'.rx, Requested(toBroker'), hs'.cipher)
  BY <1>2, <1>3, <1>5, <1>6, SentOutbound, BodySeq
<1>8. Chained(rx', Boxed(pending' \o toClient'), broker'.tx)
  BY <1>1, <1>2, EmptyChain
<1> QED
  BY <1>4, <1>7, <1>8
     DEF CipherInv, Agreed, CiphersInStep, InboundInStep, OutboundInStep

LEMMA TransmitCiphers ==
    ASSUME IInv, CipherInv, NEW cmd \in RequestCommands,
           NEW plain \in Seq(ChunkTypes), Transmit(cmd, plain)
    PROVE  CipherInv'
<1>1. PICK torn \in BOOLEAN :
        /\ toBroker' = Append(toBroker, Request(cmd, Sealed(tx, plain), torn))
        /\ state' = AfterWrite(torn)
  BY DEF Transmit
<1>2. /\ op = "idle" /\ state = "Ready" /\ tx' = Advanced(tx, plain) /\ tx \in Ciphers
      /\ UNCHANGED <<op, hs, rx, pending, toClient, broker>>
  BY DEF Transmit, IInv, TypeOK, startup, brokerVars
<1>3. Inbound /\ Outbound(tx)
  BY <1>2, CipherInvIs
<1>4. Chained(broker'.rx, Requested(toBroker'), tx')
  BY <1>1, <1>2, <1>3, SentOutbound
<1>5. Chained(rx', Boxed(pending' \o toClient'), broker'.tx)
  BY <1>2, <1>3 DEF Inbound
<1>6. state' \in {"Ready", "Failed"} /\ op' = "idle"
  BY <1>1, <1>2 DEF AfterWrite
<1> QED
  BY <1>4, <1>5, <1>6
     DEF CipherInv, Agreed, CiphersInStep, InboundInStep, OutboundInStep

LEMMA SendCiphers ==
    ASSUME IInv, CipherInv, SendRequest \/ SendTrade PROVE CipherInv'
<1>1. CASE SendRequest
  BY <1>1, BodySeq, TransmitCiphers, CommandAssumption DEF SendRequest, RequestCommands
<1>2. CASE SendTrade
  BY <1>2, BodySeq, TransmitCiphers DEF SendTrade, RequestCommands
<1> QED
  BY <1>1, <1>2

LEMMA PollCiphers == ASSUME CipherInv, Poll PROVE CipherInv'
  BY DEF Poll, CipherInv, Agreed, CiphersInStep, InboundInStep, OutboundInStep,
         startup, ready, brokerVars

\* A frame of a message is taken, with all that its payload enciphered.
LEMMA TakenCiphers ==
    ASSUME IInv, CipherInv, NEW call \in {"sync", "poll"}, Takes(call),
           UNCHANGED <<toBroker, broker>>, rx' = Advanced(rx, frame.body.plain)
    PROVE  Chained(rx', Boxed(pending' \o toClient'), broker'.tx)
<1>1. /\ pending # <<>> /\ pending' = Tail(pending) /\ UNCHANGED toClient
      /\ op = call /\ Enciphered
  BY TakesEnciphered DEF Takes
<1>2. Inbound
  BY <1>1, CipherInvIs
<1>3. Inbound'
  BY <1>1, <1>2, TakeInbound
<1> QED
  BY <1>3 DEF Inbound

LEMMA TakeSyncFrameCiphers ==
    ASSUME IInv, CipherInv, TakeSyncFrame PROVE CipherInv'
<1>1. /\ Takes("sync") /\ op = "sync" /\ state = "Failed" /\ rx \in Ciphers
      /\ toBroker = <<>> /\ broker.phase # "hello"
  BY TakesEnciphered DEF TakeSyncFrame, IInv, TypeOK
<1>2. Outbound(hs.cipher)
  BY <1>1, CipherInvIs
<1>3. CASE Abort
  BY <1>3, AbortCiphers
<1>4. CASE /\ IdlePing
           /\ UNCHANGED <<state, op, expired, startup, ready, sequence, toBroker,
                          brokerVars>>
  <2>1. rx' = Advanced(rx, frame.body.plain)
    BY <1>1, <1>4, AdvancedByNothing DEF IdlePing, ready
  <2>2. Chained(rx', Boxed(pending' \o toClient'), broker'.tx)
    BY <1>1, <1>4, <2>1, TakenCiphers DEF brokerVars
  <2> QED
    BY <1>1, <1>2, <1>4, <2>2
       DEF CipherInv, Agreed, CiphersInStep, InboundInStep, OutboundInStep, Outbound,
           startup, brokerVars
<1>5. CASE /\ rx' = AfterFrame(rx, frame)
           /\ UNCHANGED <<state, op, hs, toBroker, brokerVars>>
  <2>1. Chained(rx', Boxed(pending' \o toClient'), broker'.tx)
    BY <1>1, <1>5, TakenCiphers DEF brokerVars, AfterFrame
  <2> QED
    BY <1>1, <1>2, <1>5, <2>1
       DEF CipherInv, Agreed, CiphersInStep, InboundInStep, OutboundInStep, Outbound,
           brokerVars
<1>6. CASE /\ state' = "Ready" /\ Return
           /\ rx' = AfterFrame(rx, frame) /\ tx' = SendCipher(hs)
           /\ UNCHANGED <<toBroker, brokerVars>>
  <2>1. Chained(rx', Boxed(pending' \o toClient'), broker'.tx)
    BY <1>1, <1>6, TakenCiphers DEF brokerVars, AfterFrame
  <2>2. Chained(broker'.rx, Requested(toBroker'), tx')
    BY <1>2, <1>6 DEF Outbound, SendCipher, brokerVars
  <2> QED
    BY <1>6, <2>1, <2>2
       DEF CipherInv, Agreed, CiphersInStep, InboundInStep, OutboundInStep, Return
<1> QED
  BY <1>3, <1>4, <1>5, <1>6 DEF TakeSyncFrame

LEMMA TakeMessageFrameCiphers ==
    ASSUME IInv, CipherInv, TakeMessageFrame PROVE CipherInv'
<1>1. Takes("poll") /\ op = "poll" /\ state = "Failed"
  BY TakesEnciphered DEF TakeMessageFrame
<1>2. Outbound(tx)
  BY <1>1, CipherInvIs
<1>3. CASE Abort
  BY <1>3, AbortCiphers
<1>4. CASE /\ rx' = AfterFrame(rx, frame)
           /\ UNCHANGED <<startup, tx, toBroker, brokerVars>>
           /\ \/ UNCHANGED <<state, op>>
              \/ state' = "Ready" /\ Return
  <2>1. Chained(rx', Boxed(pending' \o toClient'), broker'.tx)
    BY <1>1, <1>4, TakenCiphers DEF brokerVars, AfterFrame
  <2>2. Chained(broker'.rx, Requested(toBroker'), tx')
    BY <1>2, <1>4 DEF Outbound, brokerVars
  <2>3. \/ op' = "poll" /\ state' = "Failed"
        \/ op' = "idle" /\ state' = "Ready"
    BY <1>1, <1>4 DEF Return
  <2> QED
    BY <2>1, <2>2, <2>3
       DEF CipherInv, Agreed, CiphersInStep, InboundInStep, OutboundInStep
<1> QED
  BY <1>3, <1>4 DEF TakeMessageFrame

LEMMA ReadSocketCiphers == ASSUME IInv, CipherInv, ReadSocket PROVE CipherInv'
<1>1. PICK n \in 1 .. Len(toClient) :
         /\ toClient' = SubSeq(toClient, n + 1, Len(toClient))
         /\ \/ Abort
            \/ /\ pending' = SubSeq(toClient, 1, n)
               /\ UNCHANGED <<state, op, expired, startup, ready, sequence,
                              toBroker, brokerVars>>
  BY DEF ReadSocket
<1>2. toClient \in Seq(Replies) /\ pending = <<>>
  BY DEF IInv, TypeOK, ReadSocket, MayRead
<1>3. CASE Abort
  BY <1>3, AbortCiphers
<1>4. CASE /\ pending' = SubSeq(toClient, 1, n)
           /\ UNCHANGED <<state, op, expired, startup, ready, sequence,
                          toBroker, brokerVars>>
  <2>1. pending' \o toClient' = toClient /\ pending \o toClient = toClient
    <3>1. Len(toClient) \in Nat
      BY <1>2, LenProperties
    <3>2. SubSeq(toClient, 1, n) \o SubSeq(toClient, n + 1, Len(toClient))
            = SubSeq(toClient, 1, Len(toClient))
      <4>1. /\ 1 \in 1 .. Len(toClient) + 1 /\ n \in 1 - 1 .. Len(toClient)
            /\ Len(toClient) \in n .. Len(toClient)
        BY <3>1
      <4> QED
        BY <1>2, <4>1, ConcatAdjacentSubSeq
    <3> QED
      BY <1>1, <1>2, <1>4, <3>2, SubSeqFull, ConcatEmptySeq
  <2>2. op = "auth" => /\ \A i \in 1 .. Len(pending') : Keyed(pending'[i])
                       /\ \A i \in 1 .. Len(toClient') : Keyed(toClient'[i])
    <3>1. /\ Len(pending') = n /\ \A i \in 1 .. n : pending'[i] = toClient[i]
          /\ Len(toClient') = Len(toClient) - n /\ Len(toClient) \in Nat
          /\ \A i \in 1 .. Len(toClient') : toClient'[i] = toClient[n + i]
      BY <1>1, <1>2, <1>4, SubSeqProperties, ElementOfSeq, LenProperties
    <3>2. ASSUME NEW i \in 1 .. Len(toClient') PROVE n + i \in 1 .. Len(toClient)
      BY <3>1
    <3>3. \A i \in 1 .. n : i \in 1 .. Len(toClient)
      BY <3>1
    <3> QED
      BY <3>1, <3>2, <3>3 DEF CipherInv, Agreed
  <2> QED
    BY <1>4, <2>1, <2>2
       DEF CipherInv, Agreed, Keyed, CiphersInStep, InboundInStep, OutboundInStep,
           startup, ready, brokerVars
<1> QED
  BY <1>1, <1>3, <1>4

LEMMA WaitCiphers ==
    ASSUME IInv, CipherInv, ReadEnd \/ Expire \/ TimeOut PROVE CipherInv'
<1>1. CASE Abort
  BY <1>1, AbortCiphers
<1>2. CASE Expire
  BY <1>2, KeptCiphers DEF Expire, startup, ready, brokerVars
<1>3. CASE /\ op = "poll" /\ state' = "Ready" /\ Return
           /\ UNCHANGED <<startup, ready, sequence, toBroker, brokerVars>>
           /\ UNCHANGED <<pending, toClient>>
  BY <1>3 DEF CipherInv, Agreed, CiphersInStep, InboundInStep, OutboundInStep,
              Return, startup, ready, brokerVars
<1> QED
  BY <1>1, <1>2, <1>3 DEF ReadEnd, TimeOut

------------------------------------------------------------------------------
(* What the broker does *)

LEMMA BrokerChallengeCiphers ==
    ASSUME IInv, CipherInv, BrokerChallenge PROVE CipherInv'
<1>1. op = "challenge" /\ state = "Failed"
  <2>1. toBroker[1].cmd = "HELLO" /\ Len(toBroker) >= 1 /\ toBroker # <<>>
    BY ArrivedType DEF BrokerChallenge, Arrived, IInv, TypeOK
  <2>2. BrokerUp
    BY DEF BrokerChallenge, BrokerStep
  <2> QED
    BY <2>1, <2>2, BrokerUpCases
       DEF IInv, Exchange, Exchanging, Quiet, RequestCommands, PlainCommands,
           ReadOnlyCommands
<1> QED
  BY <1>1, SpentCiphers DEF BrokerChallenge, BrokerStep, session

LEMMA BrokerAuthenticatesCiphers ==
    ASSUME IInv, CipherInv, BrokerAuthenticates PROVE CipherInv'
<1>1. op = "auth" /\ state = "Failed"
  <2>1. toBroker[1].cmd = "AUTH" /\ Len(toBroker) >= 1 /\ toBroker # <<>>
    BY ArrivedType DEF BrokerAuthenticates, Arrived, IInv, TypeOK
  <2>2. BrokerUp
    BY DEF BrokerAuthenticates, BrokerStep
  <2> QED
    BY <2>1, <2>2, BrokerUpCases
       DEF IInv, Exchange, Exchanging, Quiet, RequestCommands, PlainCommands,
           ReadOnlyCommands
<1>2. PICK result \in AuthReplies, comp \in BOOLEAN :
        /\ toClient' = Append(toClient,
               Reply("AUTH", Head(toBroker).seq, TRUE, comp, result))
        /\ broker' = [broker EXCEPT !.rx = NewCipher(LastValue(result.tlvs, 7)),
                                    !.tx = NewCipher(LastValue(result.tlvs, 7))]
  BY DEF BrokerAuthenticates
<1> DEFINE f == Reply("AUTH", Head(toBroker).seq, TRUE, comp, result)
<1>3. f.body = result
  BY DEF Reply
<1>4. /\ broker'.rx = NewCipher(LastValue(result.tlvs, 7))
      /\ broker'.tx = NewCipher(LastValue(result.tlvs, 7))
  BY <1>2 DEF IInv, TypeOK
<1>5. toClient = <<>> /\ pending' = <<>>
  <2>1. Exchanging("AUTH", AuthReplies) /\ toBroker # <<>>
    BY <1>1 DEF IInv, Exchange, BrokerAuthenticates, Arrived
  <2> QED
    BY <2>1 DEF Exchanging, BrokerAuthenticates, BrokerStep, session
<1>6. toClient' = <<f>>
  BY <1>2, <1>5
<1> HIDE DEF f
<1>7. 1 .. Len(pending') = {} /\ 1 .. Len(toClient') = {1} /\ toClient'[1] = f
  BY <1>5, <1>6
<1>8. op' = "auth" /\ state' = "Failed"
  BY <1>1 DEF BrokerAuthenticates, BrokerStep, session
<1> QED
  BY <1>3, <1>4, <1>7, <1>8
     DEF CipherInv, Agreed, Keyed, CiphersInStep, InboundInStep, OutboundInStep

LEMMA BrokerReceivesCiphers ==
    ASSUME IInv, CipherInv, BrokerReceives PROVE CipherInv'
<1> DEFINE f == Head(toBroker)
           SyncCmd == f.cmd = "ACCOUNT_STATE"
<1>1. /\ f = toBroker[1] /\ toBroker # <<>> /\ Len(toBroker) >= 1
      /\ f.cmd \in PlainCommands \union {"ACCOUNT_STATE", "TRADE_REQUEST"}
      /\ toBroker' = Tail(toBroker)
  BY ArrivedType DEF BrokerReceives, Arrived, IInv, TypeOK
<1>2. broker' = [broker EXCEPT
           !.rx = Advanced(broker.rx, f.box.plain),
           !.phase = IF SyncCmd THEN "answering" ELSE broker.phase,
           !.seq = IF SyncCmd THEN f.seq ELSE broker.seq]
  BY DEF BrokerReceives
<1> HIDE DEF SyncCmd
<1>3. broker'.rx = Advanced(broker.rx, f.box.plain) /\ broker'.tx = broker.tx
  BY <1>2 DEF IInv, TypeOK
<1>4. toBroker[1].cmd \notin {"HELLO", "AUTH"}
  BY <1>1 DEF PlainCommands, ReadOnlyCommands
<1>5. \/ op = "sync" /\ state = "Failed"
      \/ op = "poll" /\ state = "Failed"
      \/ op = "idle" /\ state = "Ready"
  BY <1>1, <1>4, BrokerUpCases
     DEF BrokerReceives, BrokerStep, IInv, Exchange, Exchanging, Quiet
<1>6. UNCHANGED <<op, state, hs, rx, tx, pending, toClient>>
  BY DEF BrokerReceives, BrokerStep, session, startup, ready
<1>7. Inbound'
  BY <1>3, <1>5, <1>6, CipherInvIs DEF Inbound
<1>8. ASSUME NEW c, Outbound(c) PROVE Chained(broker'.rx, Requested(toBroker'), c)
  BY <1>1, <1>3, <1>8, ReceivedOutbound
<1>9. CASE op = "sync"
  <2>1. Outbound(hs.cipher)
    BY <1>9, CipherInvIs
  <2>2. Chained(broker'.rx, Requested(toBroker'), hs'.cipher)
    BY <1>6, <1>8, <2>1
  <2> QED
    BY <1>5, <1>6, <1>7, <1>9, <2>2
       DEF CipherInv, Agreed, CiphersInStep, InboundInStep, OutboundInStep, Inbound
<1>10. CASE op # "sync"
  <2>1. Outbound(tx)
    BY <1>5, <1>10, CipherInvIs
  <2>2. Chained(broker'.rx, Requested(toBroker'), tx')
    BY <1>6, <1>8, <2>1
  <2> QED
    BY <1>5, <1>6, <1>7, <1>10, <2>2
       DEF CipherInv, Agreed, CiphersInStep, InboundInStep, OutboundInStep, Inbound
<1> QED
  BY <1>9, <1>10

\* A frame emitted once the synchronization request has arrived.
LEMMA StreamCiphers ==
    ASSUME IInv, CipherInv, BrokerUp, UNCHANGED <<session, toBroker>>,
           broker.phase # "hello", broker'.rx = broker.rx,
           NEW cmd \in FrameCommands, NEW seq \in Nat, NEW fin \in BOOLEAN,
           NEW comp \in BOOLEAN, NEW plain \in Seq(ChunkTypes),
           Emit(cmd, seq, fin, comp, plain),
           broker'.tx = Advanced(broker.tx, plain)
    PROVE  CipherInv'
<1>1. /\ Enciphered
      /\ \/ op = "sync" /\ state = "Failed"
         \/ op = "poll" /\ state = "Failed"
         \/ op = "idle" /\ state = "Ready"
  BY BrokerUpCases DEF IInv, Exchange, Exchanging, Quiet
<1>2. UNCHANGED <<op, state, hs, rx, tx, pending>>
  BY DEF session, startup, ready
<1>3. Inbound
  BY <1>1, CipherInvIs
<1>4. Inbound'
  BY <1>1, <1>2, <1>3, EmitInbound
<1> QED
  BY <1>1, <1>2, <1>4
     DEF CipherInv, Agreed, CiphersInStep, InboundInStep, OutboundInStep, Inbound

LEMMA BrokerSynchronizesCiphers ==
    ASSUME IInv, CipherInv, BrokerSynchronizes PROVE CipherInv'
<1>1. PICK chunk \in Chunks, fin \in BOOLEAN, comp \in BOOLEAN :
        /\ Emit("ACCOUNT_STATE", broker.seq, fin, comp, <<chunk>>)
        /\ broker' = [broker EXCEPT !.tx = Advanced(broker.tx, <<chunk>>),
                                    !.phase = IF fin THEN "streaming" ELSE broker.phase]
  BY DEF BrokerSynchronizes
<1>2. <<chunk>> \in Seq(ChunkTypes) /\ broker.seq \in Nat
      /\ "ACCOUNT_STATE" \in FrameCommands
  BY ContentAssumption DEF IInv, TypeOK, FrameCommands
<1>3. broker'.tx = Advanced(broker.tx, <<chunk>>) /\ broker'.rx = broker.rx
  BY <1>1 DEF IInv, TypeOK
<1>4. BrokerUp /\ UNCHANGED <<session, toBroker>> /\ broker.phase # "hello"
  BY DEF BrokerSynchronizes, BrokerStep
<1> QED
  BY <1>1, <1>2, <1>3, <1>4, StreamCiphers

LEMMA BrokerStreamsCiphers ==
    ASSUME IInv, CipherInv, BrokerStreams PROVE CipherInv'
<1>1. PICK cmd \in {"TRADE_UPDATE", "QUOTES"}, seq \in BrokerSequences,
           chunk \in Chunks, fin \in BOOLEAN, comp \in BOOLEAN :
         StreamFragment(cmd, seq, chunk, fin, comp)
  BY DEF BrokerStreams
<1>2. /\ Emit(cmd, seq, fin, comp, <<chunk>>)
      /\ \E open : broker' = [broker EXCEPT !.tx = Advanced(broker.tx, <<chunk>>),
                                            !.open = open]
  BY <1>1 DEF StreamFragment
<1>3. <<chunk>> \in Seq(ChunkTypes) /\ seq \in Nat /\ cmd \in FrameCommands
  BY ContentAssumption DEF FrameCommands
<1>4. broker'.tx = Advanced(broker.tx, <<chunk>>) /\ broker'.rx = broker.rx
  BY <1>2 DEF IInv, TypeOK
<1>5. BrokerUp /\ UNCHANGED <<session, toBroker>> /\ broker.phase # "hello"
  BY DEF BrokerStreams, BrokerStep
<1> QED
  BY <1>2, <1>3, <1>4, <1>5, StreamCiphers

\* A ping or a garbled frame has no payload, and moves no cipher.
LEMMA BrokerSilentCiphers ==
    ASSUME IInv, CipherInv, BrokerPings \/ BrokerGarbles PROVE CipherInv'
<1>1. PICK cmd \in {"PING", "BAD_HEADER", "OTHER"}, seq \in Nat, fin \in BOOLEAN :
        Emit(cmd, seq, fin, FALSE, <<>>)
  BY DEF BrokerPings, BrokerGarbles, IInv, TypeOK
<1>2. cmd \in FrameCommands
  BY DEF FrameCommands
<1>3. broker'.tx = Advanced(broker.tx, <<>>) /\ broker'.rx = broker.rx
  <2>1. broker.tx \in Ciphers
    BY DEF IInv, TypeOK
  <2> QED
    BY <2>1, AdvancedByNothing DEF BrokerPings, BrokerGarbles
<1>4. BrokerUp /\ UNCHANGED <<session, toBroker>> /\ broker.phase # "hello"
  BY DEF BrokerPings, BrokerGarbles, BrokerStep
<1> QED
  BY <1>1, <1>2, <1>3, <1>4, BodySeq, StreamCiphers

LEMMA CipherStep == IInv /\ CipherInv /\ [Next]_vars => CipherInv'
<1> SUFFICES ASSUME IInv, CipherInv, [Next]_vars PROVE CipherInv'
  OBVIOUS
<1>1. CASE Calls
  BY <1>1, AuthenticateCiphers, SynchronizeCiphers, SendCiphers, PollCiphers DEF Calls
<1>2. CASE Progress
  BY <1>2, TakeChallengeCiphers, TakeAuthResultCiphers, TakeSyncFrameCiphers,
     TakeMessageFrameCiphers, ReadSocketCiphers, WaitCiphers DEF Progress
<1>3. CASE Expire
  BY <1>3, WaitCiphers
<1>4. CASE BrokerCloses \/ UNCHANGED vars
  BY <1>4, KeptCiphers DEF BrokerCloses, vars, session, startup, ready, brokerVars
<1>5. CASE Broker /\ ~BrokerCloses
  BY <1>5, BrokerChallengeCiphers, BrokerAuthenticatesCiphers, BrokerReceivesCiphers,
     BrokerSynchronizesCiphers, BrokerStreamsCiphers, BrokerSilentCiphers DEF Broker
<1> QED
  BY <1>1, <1>2, <1>3, <1>4, <1>5 DEF Next

\* Neither side ever deciphers with another key, or at another position, than the
\* other enciphered with, whatever fragments, pings, timeouts and errors there are.
THEOREM CiphersNeverDrift == Spec => []CiphersInStep
<1>1. Init => CipherInv
  BY DEF Init, CipherInv, Agreed, CiphersInStep, InboundInStep, OutboundInStep
<1>2. CipherInv => CiphersInStep
  BY DEF CipherInv
<1> QED
  BY <1>1, <1>2, CipherStep, Inductive, PTL DEF Spec

------------------------------------------------------------------------------
(* What the frames in flight carry *)

\* After f the fragments held are m2 and the messages delivered d2, of those in s.
Carries(s, m, d, f, m2, d2) ==
    \/ /\ f.cmd \in {"TRADE_UPDATE", "QUOTES"}
       /\ m2 = Pushed(m, f, f.body.plain)
       /\ d2 = IF f.fin THEN d + 1 ELSE d
       /\ f.fin => d2 \in 1 .. Len(s) /\ s[d2] = Completed(m, f, f.body.plain)
    \/ /\ \/ f.cmd \in {"ACCOUNT_STATE", "PING", "BAD_HEADER"}
          \/ f.cmd = "OTHER" /\ f.seq \in DOMAIN m /\ m[f.seq].cmd # "OTHER"
       /\ m2 = m /\ d2 = d

\* Taken one after another, the frames q lead from m and d to m2 and d2.
Path(s, m, d, q, m2, d2) ==
    \E M, D :
        /\ M[0] = m /\ D[0] = d /\ M[Len(q)] = m2 /\ D[Len(q)] = d2
        /\ \A i \in 1 .. Len(q) : Carries(s, M[i - 1], D[i - 1], q[i], M[i], D[i])

LEMMA PathNil ==
    ASSUME NEW s, NEW m, NEW d
    PROVE  Path(s, m, d, <<>>, m, d)
<1> DEFINE M == [i \in {0} |-> m]
           D == [i \in {0} |-> d]
<1>1. M[0] = m /\ D[0] = d /\ Len(<<>>) = 0 /\ 1 .. 0 = {}
  OBVIOUS
<1> HIDE DEF M, D
<1> QED
  BY <1>1 DEF Path

\* A message more changes nothing for the frames before it.
LEMMA CarriesMore ==
    ASSUME NEW S, NEW s \in Seq(S), NEW t \in Seq(S), Len(s) <= Len(t),
           \A k \in 1 .. Len(s) : t[k] = s[k],
           NEW m, NEW d, NEW f, NEW m2, NEW d2, Carries(s, m, d, f, m2, d2)
    PROVE  Carries(t, m, d, f, m2, d2)
<1>1. Len(s) \in Nat /\ Len(t) \in Nat
  BY LenProperties
<1>2. 1 .. Len(s) \subseteq 1 .. Len(t)
  BY <1>1
<1> QED
  BY <1>2 DEF Carries

LEMMA PathAppend ==
    ASSUME NEW S, NEW s \in Seq(S), NEW t \in Seq(S), Len(s) <= Len(t),
           \A k \in 1 .. Len(s) : t[k] = s[k],
           NEW q \in Seq(Replies), NEW f \in Replies,
           NEW m, NEW d, NEW m2, NEW d2, NEW m3, NEW d3,
           Path(s, m, d, q, m2, d2), Carries(t, m2, d2, f, m3, d3)
    PROVE  Path(t, m, d, Append(q, f), m3, d3)
<1> DEFINE longer == Append(q, f)
           n == Len(q)
<1>1. PICK M, D :
        /\ M[0] = m /\ D[0] = d /\ M[n] = m2 /\ D[n] = d2
        /\ \A i \in 1 .. n : Carries(s, M[i - 1], D[i - 1], q[i], M[i], D[i])
  BY DEF Path
<1> DEFINE Mx == [i \in 0 .. n + 1 |-> IF i = n + 1 THEN m3 ELSE M[i]]
           Dx == [i \in 0 .. n + 1 |-> IF i = n + 1 THEN d3 ELSE D[i]]
<1>2. /\ longer \in Seq(Replies) /\ Len(longer) = n + 1 /\ n \in Nat
      /\ \A i \in 1 .. n : longer[i] = q[i]
      /\ longer[n + 1] = f
  BY AppendProperties
<1> HIDE DEF longer, n
<1>3. /\ \A i \in 0 .. n : Mx[i] = M[i] /\ Dx[i] = D[i]
      /\ Mx[n + 1] = m3 /\ Dx[n + 1] = d3
  BY <1>2
<1> HIDE DEF Mx, Dx
<1>4. Mx[0] = m /\ Dx[0] = d /\ Mx[n] = m2 /\ Dx[n] = d2
  <2>1. 0 \in 0 .. n /\ n \in 0 .. n
    BY <1>2
  <2> QED
    BY <1>1, <1>3, <2>1
<1>5. ASSUME NEW i \in 1 .. n + 1
      PROVE  Carries(t, Mx[i - 1], Dx[i - 1], longer[i], Mx[i], Dx[i])
  <2>1. CASE i = n + 1
    <3>1. i - 1 = n
      BY <1>2, <2>1
    <3> QED
      BY <1>2, <1>3, <1>4, <2>1, <3>1
  <2>2. CASE i # n + 1
    <3>1. i \in 1 .. n /\ i \in 0 .. n /\ i - 1 \in 0 .. n
      BY <1>2, <2>2
    <3>2. Carries(s, M[i - 1], D[i - 1], q[i], M[i], D[i])
      BY <1>1, <3>1
    <3>3. Carries(t, M[i - 1], D[i - 1], q[i], M[i], D[i])
      BY <3>2, CarriesMore
    <3> QED
      BY <1>2, <1>3, <3>1, <3>3
  <2> QED
    BY <2>1, <2>2
<1>6. Path(t, m, d, longer, m3, d3)
  BY <1>2, <1>3, <1>4, <1>5 DEF Path
<1> QED
  BY <1>6 DEF longer

LEMMA PathTail ==
    ASSUME NEW s, NEW q \in Seq(Replies), q # <<>>, NEW m, NEW d, NEW m2, NEW d2,
           Path(s, m, d, q, m2, d2)
    PROVE  \E m1, d1 : Carries(s, m, d, Head(q), m1, d1) /\ Path(s, m1, d1, Tail(q), m2, d2)
<1> DEFINE rest == Tail(q)
           n == Len(q)
<1>1. PICK M, D :
        /\ M[0] = m /\ D[0] = d /\ M[n] = m2 /\ D[n] = d2
        /\ \A i \in 1 .. n : Carries(s, M[i - 1], D[i - 1], q[i], M[i], D[i])
  BY DEF Path
<1> DEFINE Mx == [i \in 0 .. n - 1 |-> M[i + 1]]
           Dx == [i \in 0 .. n - 1 |-> D[i + 1]]
<1>2. /\ rest \in Seq(Replies) /\ Len(rest) = n - 1 /\ n \in Nat /\ n >= 1
      /\ \A i \in 1 .. n - 1 : rest[i] = q[i + 1]
      /\ Head(q) = q[1]
  BY HeadTailProperties
<1> HIDE DEF rest, n
<1>3. \A i \in 0 .. n - 1 : Mx[i] = M[i + 1] /\ Dx[i] = D[i + 1]
  OBVIOUS
<1> HIDE DEF Mx, Dx
<1>4. /\ Mx[0] = M[1] /\ Dx[0] = D[1] /\ Mx[n - 1] = m2 /\ Dx[n - 1] = d2
  <2>1. /\ 0 \in 0 .. n - 1 /\ 0 + 1 = 1
        /\ n - 1 \in 0 .. n - 1 /\ (n - 1) + 1 = n
    BY <1>2
  <2> QED
    BY <1>1, <1>3, <2>1
<1>5. ASSUME NEW i \in 1 .. n - 1
      PROVE  Carries(s, Mx[i - 1], Dx[i - 1], rest[i], Mx[i], Dx[i])
  <2>1. /\ i + 1 \in 1 .. n /\ (i + 1) - 1 = i /\ (i - 1) + 1 = i
        /\ i \in 0 .. n - 1 /\ i - 1 \in 0 .. n - 1
    BY <1>2
  <2>2. Carries(s, M[i], D[i], q[i + 1], M[i + 1], D[i + 1])
    BY <1>1, <2>1
  <2>3. /\ Mx[i] = M[i + 1] /\ Dx[i] = D[i + 1]
        /\ Mx[i - 1] = M[i] /\ Dx[i - 1] = D[i]
    BY <1>3, <2>1
  <2> QED
    BY <1>2, <2>2, <2>3
<1>6. Path(s, M[1], D[1], rest, m2, d2)
  BY <1>2, <1>4, <1>5 DEF Path
<1>7. Carries(s, m, d, Head(q), M[1], D[1])
  <2>1. 1 \in 1 .. n /\ 1 - 1 = 0
    BY <1>2
  <2> QED
    BY <1>1, <1>2, <2>1
<1> QED
  BY <1>6, <1>7 DEF rest

------------------------------------------------------------------------------
(* The invariant of the channel *)

\* Everything on its way to the client, read or not.
Flight == pending \o toClient

Live == op \in {"sync", "poll"} \/ state = "Ready"

\* A frame of the synchronization, and the one that completes it.
Startup(f) == f.cmd \in {"ACCOUNT_STATE", "PING"}
Last(f) == f.cmd = "ACCOUNT_STATE" /\ f.fin

HasLast(q) == \E i \in 1 .. Len(q) : Last(q[i])
HasStartup(q) == \E i \in 1 .. Len(q) : Startup(q[i])

\* The frame that completes the synchronization is the last one of it.
Ordered(q) ==
    \A i, j \in 1 .. Len(q) : i < j /\ Last(q[i]) => ~Startup(q[j])

\* Messages are begun after the synchronization.
Fresh ==
    /\ broker.phase = "hello" =>
         /\ sent = <<>> /\ delivered = <<>>
         /\ messages = NoFragments /\ broker.open = NoFragments
    /\ op = "sync" => messages = NoFragments

\* No message the broker has begun has the command of a garbled frame.
Known == \A s \in DOMAIN broker.open : broker.open[s].cmd # "OTHER"

\* A header that cannot be parsed was never put among the frames.
Parsed == \A i \in 1 .. Len(pending) : pending[i].cmd # "BAD_HEADER"

Staged ==
    /\ op = "sync" => Ordered(Flight) /\ (HasLast(Flight) => broker.phase = "streaming")
    /\ op = "poll" \/ state = "Ready" =>
         broker.phase = "streaming" /\ ~HasStartup(Flight)

\* What is in flight leads from the fragments the session holds and the messages it
\* has delivered to the fragments the broker has sent and the messages it has completed.
Arriving ==
    Live => Path(sent, messages, Len(delivered), Flight, broker.open, Len(sent))

ChannelInv == Fresh /\ Known /\ Parsed /\ Staged /\ Arriving

LEMMA OrderedAppend ==
    ASSUME NEW q \in Seq(Replies), NEW f \in Replies, Ordered(q),
           Startup(f) => ~HasLast(q)
    PROVE  Ordered(Append(q, f))
<1> DEFINE longer == Append(q, f)
           n == Len(q)
<1>1. /\ Len(longer) = n + 1 /\ n \in Nat
      /\ \A i \in 1 .. n : longer[i] = q[i]
      /\ longer[n + 1] = f
  BY AppendProperties
<1> HIDE DEF longer
<1>2. ASSUME NEW i \in 1 .. n + 1, NEW j \in 1 .. n + 1, i < j, Last(longer[i])
      PROVE  ~Startup(longer[j])
  <2>1. i \in 1 .. n /\ (j \in 1 .. n \/ j = n + 1)
    BY <1>1, <1>2
  <2> QED
    BY <1>1, <1>2, <2>1 DEF Ordered, HasLast
<1>3. Ordered(longer)
  BY <1>1, <1>2 DEF Ordered
<1> QED
  BY <1>3 DEF longer

LEMMA StageAppend ==
    ASSUME NEW q \in Seq(Replies), NEW f \in Replies
    PROVE  /\ HasLast(Append(q, f)) => HasLast(q) \/ Last(f)
           /\ HasStartup(Append(q, f)) => HasStartup(q) \/ Startup(f)
<1> DEFINE longer == Append(q, f)
           n == Len(q)
<1>1. /\ Len(longer) = n + 1 /\ n \in Nat
      /\ \A i \in 1 .. n : longer[i] = q[i]
      /\ longer[n + 1] = f
  BY AppendProperties
<1> HIDE DEF longer
<1>2. \A i \in 1 .. n + 1 : i \in 1 .. n \/ i = n + 1
  BY <1>1
<1>3. /\ HasLast(longer) => HasLast(q) \/ Last(f)
      /\ HasStartup(longer) => HasStartup(q) \/ Startup(f)
  BY <1>1, <1>2 DEF HasLast, HasStartup
<1> QED
  BY <1>3 DEF longer

LEMMA StageTail ==
    ASSUME NEW q \in Seq(Replies), q # <<>>
    PROVE  /\ HasLast(Tail(q)) => HasLast(q)
           /\ HasStartup(Tail(q)) => HasStartup(q)
           /\ Startup(Head(q)) => HasStartup(q)
           /\ Last(Head(q)) => HasLast(q)
           /\ Ordered(q) => /\ Ordered(Tail(q))
                            /\ Last(Head(q)) => ~HasStartup(Tail(q))
<1> DEFINE rest == Tail(q)
           n == Len(q)
<1>1. /\ Len(rest) = n - 1 /\ n \in Nat /\ n >= 1
      /\ \A i \in 1 .. n - 1 : rest[i] = q[i + 1]
      /\ Head(q) = q[1]
  BY HeadTailProperties
<1> HIDE DEF rest, n
<1>2. \A i \in 1 .. n - 1 : i + 1 \in 1 .. n /\ 1 < i + 1
  BY <1>1
<1>3. 1 \in 1 .. n
  BY <1>1
<1>4. /\ HasLast(rest) => HasLast(q)
      /\ HasStartup(rest) => HasStartup(q)
  BY <1>1, <1>2 DEF HasLast, HasStartup, n
<1>5. /\ Startup(Head(q)) => HasStartup(q)
      /\ Last(Head(q)) => HasLast(q)
  BY <1>1, <1>3 DEF HasLast, HasStartup, n
<1>6. ASSUME Ordered(q), NEW i \in 1 .. n - 1, NEW j \in 1 .. n - 1, i < j, Last(rest[i])
      PROVE  ~Startup(rest[j])
  <2>1. i + 1 \in 1 .. n /\ j + 1 \in 1 .. n /\ i + 1 < j + 1
    BY <1>1, <1>6
  <2> QED
    BY <1>1, <1>6, <2>1 DEF Ordered, n
<1>7. ASSUME Ordered(q), Last(Head(q)), NEW j \in 1 .. n - 1
      PROVE  ~Startup(rest[j])
  BY <1>1, <1>2, <1>3, <1>7 DEF Ordered, n
<1>8. Ordered(q) => Ordered(rest) /\ (Last(Head(q)) => ~HasStartup(rest))
  BY <1>1, <1>6, <1>7 DEF Ordered, HasStartup
<1> QED
  BY <1>4, <1>5, <1>8 DEF rest

------------------------------------------------------------------------------
(* What a step does to the channel *)

LEMMA FlightType == IInv => Flight \in Seq(Replies)
  BY DEF Flight, IInv, TypeOK

\* The broker puts a frame in flight.
LEMMA FlightEmit ==
    ASSUME IInv, NEW f \in Replies, toClient' = Append(toClient, f), UNCHANGED pending
    PROVE  Flight' = Append(Flight, f)
<1>1. toClient \in Seq(Replies) /\ pending \in Seq(Replies) /\ Flight \in Seq(Replies)
  BY FlightType DEF IInv, TypeOK
<1>2. toClient' = toClient \o <<f>> /\ Append(Flight, f) = Flight \o <<f>>
  BY <1>1, AppendIsConcat
<1>3. <<f>> \in Seq(Replies)
  OBVIOUS
<1>4. (pending \o toClient) \o <<f>> = pending \o (toClient \o <<f>>)
  BY <1>1, <1>3, ConcatAssociative
<1> QED
  BY <1>2, <1>4 DEF Flight

\* The session takes one.
LEMMA FlightTake ==
    ASSUME IInv, pending # <<>>, pending' = Tail(pending), UNCHANGED toClient
    PROVE  /\ Flight # <<>> /\ Flight' = Tail(Flight) /\ Head(Flight) = frame
           /\ Parsed => Parsed' /\ frame.cmd # "BAD_HEADER"
<1>1. toClient \in Seq(Replies) /\ pending \in Seq(Replies)
  BY DEF IInv, TypeOK
<1>2. Flight # <<>> /\ Flight' = Tail(Flight) /\ Head(Flight) = frame
  BY <1>1, TailOfFlight DEF Flight, frame
<1>3. /\ Len(Tail(pending)) = Len(pending) - 1 /\ Len(pending) \in Nat
      /\ Len(pending) >= 1
      /\ \A i \in 1 .. Len(pending) - 1 : Tail(pending)[i] = pending[i + 1]
      /\ Head(pending) = pending[1]
  BY <1>1, HeadTailProperties
<1>4. \A i \in 1 .. Len(pending) - 1 : i + 1 \in 1 .. Len(pending)
  BY <1>3
<1>5. 1 \in 1 .. Len(pending)
  BY <1>3
<1> QED
  BY <1>2, <1>3, <1>4, <1>5 DEF Parsed, frame

\* A session that is spent, or has not synchronized, owes nothing.
LEMMA SpentChannel ==
    ASSUME ChannelInv, state' # "Ready", op' \notin {"sync", "poll"},
           UNCHANGED <<messages, delivered, sent>>, Parsed',
           broker'.phase = broker.phase, broker'.open = broker.open
    PROVE  ChannelInv'
  BY DEF ChannelInv, Fresh, Known, Staged, Arriving, Live

LEMMA AbortChannel ==
    ASSUME ChannelInv, Abort, Parsed' PROVE ChannelInv'
  BY SpentChannel DEF Abort, Return, ready, brokerVars

\* A step that leaves the messages and the broker alone, and keeps the stage.
LEMMA KeptChannel ==
    ASSUME ChannelInv, UNCHANGED <<messages, delivered, sent>>,
           broker'.phase = broker.phase, broker'.open = broker.open,
           Flight' = Flight, Parsed',
           op' = "sync" => op = "sync",
           op' = "poll" \/ state' = "Ready" => op = "poll" \/ state = "Ready"
    PROVE  ChannelInv'
<1>1. Fresh' /\ Known' /\ Staged'
  BY DEF ChannelInv, Fresh, Known, Staged
<1>2. Arriving'
  BY DEF ChannelInv, Arriving, Live
<1> QED
  BY <1>1, <1>2 DEF ChannelInv

\* The broker puts a frame in flight, on a session that synchronizes or has done so.
LEMMA EmitChannel ==
    ASSUME IInv, ChannelInv, BrokerUp, broker.phase # "hello", UNCHANGED session,
           NEW f \in Replies, toClient' = Append(toClient, f),
           broker'.phase # "hello",
           broker.phase = "streaming" => broker'.phase = "streaming",
           Startup(f) => broker.phase # "streaming",
           Last(f) => broker'.phase = "streaming",
           Known', sent' \in Seq(Messages), Len(sent) <= Len(sent'),
           \A k \in 1 .. Len(sent) : sent'[k] = sent[k],
           Carries(sent', broker.open, Len(sent), f, broker'.open, Len(sent'))
    PROVE  ChannelInv'
<1>1. /\ UNCHANGED <<op, state, pending, messages, delivered>>
      /\ Flight \in Seq(Replies) /\ sent \in Seq(Messages)
  BY FlightType DEF session, ready, IInv, TypeOK
<1>2. Flight' = Append(Flight, f)
  BY <1>1, FlightEmit
<1>3. Live
  BY BrokerUpCases DEF IInv, Exchange, Exchanging, Quiet, Live
<1>4. /\ HasLast(Flight') => HasLast(Flight) \/ Last(f)
      /\ HasStartup(Flight') => HasStartup(Flight) \/ Startup(f)
  BY <1>1, <1>2, StageAppend
<1>5. ASSUME op = "sync" PROVE Staged'
  <2>1. Ordered(Flight) /\ (HasLast(Flight) => broker.phase = "streaming")
    BY <1>5 DEF ChannelInv, Staged
  <2>2. Ordered(Flight')
    BY <1>1, <1>2, <2>1, OrderedAppend
  <2>3. state' # "Ready"
    BY <1>1, <1>5 DEF IInv, TypeOK
  <2> QED
    BY <1>1, <1>4, <1>5, <2>1, <2>2, <2>3 DEF Staged
<1>6. ASSUME op # "sync" PROVE Staged'
  BY <1>1, <1>3, <1>4, <1>6 DEF ChannelInv, Staged, Live
<1>7. Path(sent', messages, Len(delivered), Append(Flight, f), broker'.open, Len(sent'))
  <2>1. Path(sent, messages, Len(delivered), Flight, broker.open, Len(sent))
    BY <1>3 DEF ChannelInv, Arriving
  <2> QED
    BY <1>1, <2>1, PathAppend
<1>8. Arriving'
  BY <1>1, <1>2, <1>7 DEF Arriving
<1>9. Fresh' /\ Parsed'
  BY <1>1 DEF ChannelInv, Fresh, Parsed
<1> QED
  BY <1>5, <1>6, <1>8, <1>9 DEF ChannelInv

------------------------------------------------------------------------------
(* What the session does to the channel *)

LEMMA TakenPath ==
    ASSUME IInv, ChannelInv, NEW call \in {"sync", "poll"}, Takes(call)
    PROVE  /\ Flight # <<>> /\ Flight' = Tail(Flight) /\ Head(Flight) = frame
           /\ Flight \in Seq(Replies) /\ frame.cmd # "BAD_HEADER" /\ Parsed'
           /\ \E m, d :
                /\ Carries(sent, messages, Len(delivered), frame, m, d)
                /\ Path(sent, m, d, Flight', broker.open, Len(sent))
<1>1. /\ pending # <<>> /\ pending' = Tail(pending) /\ UNCHANGED toClient
      /\ op = call
  BY DEF Takes
<1>2. /\ Flight # <<>> /\ Flight' = Tail(Flight) /\ Head(Flight) = frame
      /\ Flight \in Seq(Replies) /\ frame.cmd # "BAD_HEADER" /\ Parsed'
  BY <1>1, FlightTake, FlightType DEF ChannelInv
<1>3. Path(sent, messages, Len(delivered), Flight, broker.open, Len(sent))
  BY <1>1 DEF ChannelInv, Arriving, Live
<1> QED
  BY <1>2, <1>3, PathTail

LEMMA TakeSyncFrameChannel ==
    ASSUME IInv, ChannelInv, TakeSyncFrame PROVE ChannelInv'
<1>1. Takes("sync") /\ op = "sync" /\ state = "Failed" /\ messages = NoFragments
  BY TakesEnciphered DEF TakeSyncFrame, ChannelInv, Fresh
<1>2. /\ Flight # <<>> /\ Flight' = Tail(Flight) /\ Head(Flight) = frame
      /\ Flight \in Seq(Replies) /\ Parsed'
  BY <1>1, TakenPath
<1>3. PICK m, d : /\ Carries(sent, messages, Len(delivered), frame, m, d)
                  /\ Path(sent, m, d, Flight', broker.open, Len(sent))
  BY <1>1, TakenPath
<1>4. Ordered(Flight) /\ (HasLast(Flight) => broker.phase = "streaming")
  BY <1>1 DEF ChannelInv, Staged
<1>5. /\ HasLast(Flight') => HasLast(Flight)
      /\ Ordered(Flight')
      /\ Last(frame) => HasLast(Flight) /\ ~HasStartup(Flight')
  BY <1>2, <1>4, StageTail
<1>6. CASE Abort
  BY <1>2, <1>6, AbortChannel
<1>7. ASSUME Startup(frame)
      PROVE  Path(sent, messages, Len(delivered), Flight', broker.open, Len(sent))
  BY <1>3, <1>7 DEF Carries, Startup
<1>8. CASE /\ Startup(frame)
           /\ UNCHANGED <<state, op, messages, delivered, brokerVars>>
  BY <1>1, <1>2, <1>4, <1>5, <1>7, <1>8
     DEF ChannelInv, Fresh, Known, Staged, Arriving, brokerVars
<1>9. CASE /\ Last(frame) /\ state' = "Ready" /\ Return /\ messages' = NoFragments
           /\ UNCHANGED <<delivered, brokerVars>>
  BY <1>1, <1>2, <1>4, <1>5, <1>7, <1>9
     DEF ChannelInv, Fresh, Known, Staged, Arriving, Return, brokerVars, Startup, Last
<1> QED
  BY <1>6, <1>8, <1>9
     DEF TakeSyncFrame, IdlePing, SyncRejects, Startup, Last, ready

\* A frame of a message is put with the fragments held, or completes the next of the
\* messages the broker has completed.
LEMMA TakenMessage ==
    ASSUME IInv, CipherInv, ChannelInv, Takes("poll"),
           ~PushRejects(messages, frame, PollPlain)
    PROVE  /\ Path(sent, Pushed(messages, frame, PollPlain),
                   IF frame.fin THEN Len(delivered) + 1 ELSE Len(delivered),
                   Flight', broker.open, Len(sent))
           /\ frame.fin => /\ Len(delivered) + 1 \in 1 .. Len(sent)
                           /\ sent[Len(delivered) + 1]
                                = Completed(messages, frame, PollPlain)
<1>1. /\ op = "poll" /\ pending # <<>> /\ pending' = Tail(pending) /\ UNCHANGED toClient
      /\ Enciphered
  BY TakesEnciphered DEF Takes
<1>2. PollPlain = frame.body.plain
  <2>1. Inbound
    BY <1>1, CipherInvIs
  <2>2. rx \in Ciphers /\ toClient \in Seq(Replies) /\ pending \in Seq(Replies)
    BY DEF IInv, TypeOK
  <2> DEFINE q == pending \o toClient
  <2>3. q \in Seq(Replies) /\ \A i \in 1 .. Len(q) : q[i].body \in Boxes
    BY <1>1, <2>2, FlightSeq DEF Enciphered
  <2>4. Head(q) = frame /\ q # <<>>
    BY <1>1, <2>2, TailOfFlight DEF frame
  <2>5. Chained(rx, Boxed(q), broker.tx)
    BY <2>1 DEF Inbound
  <2> HIDE DEF q
  <2>6. Boxed(q)[1] = frame.body /\ Boxed(q) # <<>> /\ Boxed(q) \in Seq(Boxes)
    BY <2>3, <2>4, BoxedTail, BoxedSeq
  <2>7. InStep(rx, Boxed(q)[1])
    BY <2>2, <2>5, <2>6, ChainedTail
  <2> QED
    BY <2>6, <2>7 DEF PollPlain, Opened
<1>3. PICK m, d : /\ Carries(sent, messages, Len(delivered), frame, m, d)
                  /\ Path(sent, m, d, Flight', broker.open, Len(sent))
  BY TakenPath
<1>4. frame.cmd # "BAD_HEADER" /\ ~Startup(frame)
  <2>1. /\ Flight # <<>> /\ Head(Flight) = frame
        /\ Flight \in Seq(Replies) /\ frame.cmd # "BAD_HEADER"
    BY TakenPath
  <2>2. ~HasStartup(Flight)
    BY <1>1 DEF ChannelInv, Staged
  <2> QED
    BY <2>1, <2>2, StageTail
<1>5. ~(frame.cmd = "OTHER" /\ frame.seq \in DOMAIN messages
          /\ messages[frame.seq].cmd # "OTHER")
  BY DEF PushRejects
<1>6. /\ m = Pushed(messages, frame, frame.body.plain)
      /\ d = IF frame.fin THEN Len(delivered) + 1 ELSE Len(delivered)
      /\ frame.fin => /\ d \in 1 .. Len(sent)
                      /\ sent[d] = Completed(messages, frame, frame.body.plain)
  BY <1>3, <1>4, <1>5 DEF Carries, Startup
<1> QED
  BY <1>2, <1>3, <1>6

LEMMA TakeMessageFrameChannel ==
    ASSUME IInv, CipherInv, ChannelInv, TakeMessageFrame PROVE ChannelInv'
<1>1. /\ Takes("poll") /\ op = "poll" /\ state = "Failed" /\ broker.phase # "hello"
      /\ delivered \in Seq(Messages)
  BY TakesEnciphered DEF TakeMessageFrame, IInv, TypeOK
<1>2. /\ Flight # <<>> /\ Flight' = Tail(Flight) /\ Flight \in Seq(Replies) /\ Parsed'
      /\ broker.phase = "streaming" /\ ~HasStartup(Flight')
  <2>1. /\ Flight # <<>> /\ Flight' = Tail(Flight) /\ Flight \in Seq(Replies)
        /\ Parsed' /\ broker.phase = "streaming" /\ ~HasStartup(Flight)
    BY <1>1, TakenPath DEF ChannelInv, Staged
  <2> QED
    BY <2>1, StageTail
<1>3. CASE Abort
  BY <1>2, <1>3, AbortChannel
<1>4. CASE /\ ~PushRejects(messages, frame, PollPlain)
           /\ messages' = Pushed(messages, frame, PollPlain)
           /\ UNCHANGED brokerVars
           /\ \/ ~frame.fin /\ UNCHANGED <<state, op, delivered>>
              \/ /\ frame.fin /\ state' = "Ready" /\ Return
                 /\ delivered' = Append(delivered, Completed(messages, frame, PollPlain))
  <2>1. Len(delivered') = IF frame.fin THEN Len(delivered) + 1 ELSE Len(delivered)
    BY <1>1, <1>4
  <2>2. Path(sent', messages', Len(delivered'), Flight', broker'.open, Len(sent'))
    BY <1>1, <1>4, <2>1, TakenMessage DEF brokerVars
  <2> QED
    BY <1>1, <1>2, <1>4, <2>2
       DEF ChannelInv, Fresh, Known, Staged, Arriving, Return, brokerVars
<1> QED
  BY <1>3, <1>4 DEF TakeMessageFrame

LEMMA ReadSocketChannel == ASSUME IInv, ChannelInv, ReadSocket PROVE ChannelInv'
<1>1. PICK n \in 1 .. Len(toClient) :
         /\ toClient' = SubSeq(toClient, n + 1, Len(toClient))
         /\ \/ pending' = <<>> /\ Abort
            \/ /\ \A i \in 1 .. n : toClient[i].cmd # "BAD_HEADER"
               /\ pending' = SubSeq(toClient, 1, n)
               /\ UNCHANGED <<state, op, expired, startup, ready, sequence,
                              toBroker, brokerVars>>
  BY DEF ReadSocket
<1>2. toClient \in Seq(Replies) /\ pending = <<>> /\ Len(toClient) \in Nat
  BY LenProperties DEF IInv, TypeOK, ReadSocket, MayRead
<1>3. CASE pending' = <<>> /\ Abort
  BY <1>3, AbortChannel DEF Parsed
<1>4. CASE /\ \A i \in 1 .. n : toClient[i].cmd # "BAD_HEADER"
           /\ pending' = SubSeq(toClient, 1, n)
           /\ UNCHANGED <<state, op, expired, startup, ready, sequence,
                          toBroker, brokerVars>>
  <2>1. SubSeq(toClient, 1, n) \o SubSeq(toClient, n + 1, Len(toClient))
            = SubSeq(toClient, 1, Len(toClient))
    <3>1. /\ 1 \in 1 .. Len(toClient) + 1 /\ n \in 1 - 1 .. Len(toClient)
          /\ Len(toClient) \in n .. Len(toClient)
      BY <1>2
    <3> QED
      BY <1>2, <3>1, ConcatAdjacentSubSeq
  <2>2. Flight' = Flight
    BY <1>1, <1>2, <1>4, <2>1, SubSeqFull, ConcatEmptySeq DEF Flight
  <2>3. Len(pending') = n /\ \A i \in 1 .. n : pending'[i] = toClient[i]
    BY <1>1, <1>2, <1>4, SubSeqProperties, ElementOfSeq, LenProperties
  <2>4. Parsed'
    BY <1>4, <2>3 DEF Parsed
  <2> QED
    BY <1>4, <2>2, <2>4, KeptChannel DEF ready, brokerVars
<1> QED
  BY <1>1, <1>3, <1>4

LEMMA WaitChannel ==
    ASSUME IInv, ChannelInv, ReadEnd \/ Expire \/ TimeOut PROVE ChannelInv'
<1>1. UNCHANGED <<pending, toClient>>
  BY DEF ReadEnd, Expire, TimeOut
<1>2. Flight' = Flight /\ Parsed'
  BY <1>1 DEF Flight, ChannelInv, Parsed
<1>3. CASE Abort
  BY <1>2, <1>3, AbortChannel
<1>4. CASE Expire
  BY <1>2, <1>4, KeptChannel DEF Expire, ready, brokerVars
<1>5. CASE /\ op = "poll" /\ state' = "Ready" /\ Return
           /\ UNCHANGED <<startup, ready, sequence, toBroker, brokerVars>>
  BY <1>2, <1>5, KeptChannel DEF Return, ready, brokerVars
<1> QED
  BY <1>3, <1>4, <1>5 DEF ReadEnd, TimeOut

LEMMA StartupChannel ==
    ASSUME IInv, ChannelInv, Authenticate \/ TakeChallenge \/ TakeAuthResult
    PROVE  ChannelInv'
<1>1. CASE Authenticate
  <2>1. Parsed'
    BY <1>1 DEF Authenticate, ChannelInv, Parsed
  <2> QED
    BY <1>1, <2>1, SpentChannel DEF Authenticate, SendAndAwait, ready, brokerVars
<1>2. CASE TakeChallenge \/ TakeAuthResult
  <2>1. pending # <<>> /\ pending' = Tail(pending) /\ UNCHANGED toClient
    BY <1>2 DEF TakeChallenge, TakeAuthResult, Takes
  <2>2. Parsed'
    BY <2>1, FlightTake DEF ChannelInv
  <2>3. CASE Abort
    BY <2>2, <2>3, AbortChannel
  <2>4. CASE SendAndAwait("AUTH", Sealed(NoCipher, <<>>), "auth")
               /\ UNCHANGED <<payload, profileReadOnly, ready, brokerVars>>
    BY <2>2, <2>4, SpentChannel DEF SendAndAwait, ready, brokerVars
  <2>5. CASE /\ state' = "Authenticated" /\ Return
             /\ UNCHANGED <<awaited, payload, profileReadOnly, ready,
                            sequence, toBroker, brokerVars>>
    BY <2>2, <2>5, SpentChannel DEF Return, ready, brokerVars
  <2> QED
    BY <1>2, <2>3, <2>4, <2>5 DEF TakeChallenge, TakeAuthResult
<1> QED
  BY <1>1, <1>2

LEMMA SynchronizeChannel == ASSUME IInv, ChannelInv, Synchronize PROVE ChannelInv'
<1>1. Quiet
  BY DEF Synchronize, IInv, Exchange
<1>2. /\ UNCHANGED <<messages, delivered, sent, broker, pending, toClient>>
      /\ state' = "Failed" /\ op' \in {"idle", "sync"}
  BY DEF Synchronize, SendAndAwait, brokerVars
<1>3. /\ sent = <<>> /\ delivered = <<>>
      /\ messages = NoFragments /\ broker.open = NoFragments
  BY <1>1 DEF Quiet, ChannelInv, Fresh
<1>4. pending' = <<>> /\ Flight' = <<>>
  BY <1>1, <1>2 DEF Quiet, Flight
<1>5. Fresh' /\ Known' /\ Parsed'
  BY <1>2, <1>3, <1>4 DEF ChannelInv, Fresh, Known, Parsed
<1>6. Staged'
  BY <1>2, <1>4 DEF Staged, Ordered, HasLast
<1>7. Arriving'
  BY <1>2, <1>3, <1>4, PathNil DEF Arriving
<1> QED
  BY <1>5, <1>6, <1>7 DEF ChannelInv

LEMMA CallChannel ==
    ASSUME IInv, ChannelInv, SendRequest \/ SendTrade \/ Poll PROVE ChannelInv'
<1>1. /\ op = "idle" /\ state = "Ready" /\ op' \in {"idle", "poll"}
      /\ UNCHANGED <<messages, delivered, sent, broker, pending, toClient>>
  BY DEF SendRequest, SendTrade, Transmit, Poll, ready, brokerVars
<1>2. Flight' = Flight /\ Parsed'
  BY <1>1 DEF Flight, ChannelInv, Parsed
<1> QED
  BY <1>1, <1>2, KeptChannel

------------------------------------------------------------------------------
(* What the broker does to the channel *)

LEMMA BrokerStartupChannel ==
    ASSUME IInv, ChannelInv, BrokerChallenge \/ BrokerAuthenticates PROVE ChannelInv'
<1>1. op \in {"challenge", "auth"} /\ state = "Failed"
  <2>1. /\ toBroker[1].cmd \in {"HELLO", "AUTH"} /\ Len(toBroker) >= 1
        /\ toBroker # <<>>
    <3>1. CASE BrokerChallenge
      BY <3>1, ArrivedType DEF BrokerChallenge, Arrived, IInv, TypeOK
    <3>2. CASE BrokerAuthenticates
      <4>1. Arrived({"AUTH"}) /\ toBroker' = Tail(toBroker)
        BY <3>2 DEF BrokerAuthenticates
      <4> QED
        BY <4>1, ArrivedType DEF Arrived, IInv, TypeOK
    <3> QED
      BY <3>1, <3>2
  <2>2. BrokerUp
    BY DEF BrokerChallenge, BrokerAuthenticates, BrokerStep
  <2> QED
    BY <2>1, <2>2, BrokerUpCases
       DEF IInv, Exchange, Exchanging, Quiet, RequestCommands, PlainCommands,
           ReadOnlyCommands
<1>2. /\ UNCHANGED <<op, state, pending, messages, delivered, sent>>
  BY DEF BrokerChallenge, BrokerAuthenticates, BrokerStep, session, ready
<1>3. broker'.phase = broker.phase /\ broker'.open = broker.open
  BY DEF BrokerChallenge, BrokerAuthenticates, IInv, TypeOK
<1>4. Parsed'
  BY <1>2 DEF ChannelInv, Parsed
<1> QED
  BY <1>1, <1>2, <1>3, <1>4, SpentChannel

LEMMA BrokerReceivesChannel ==
    ASSUME IInv, ChannelInv, BrokerReceives PROVE ChannelInv'
<1> DEFINE f == Head(toBroker)
           SyncCmd == f.cmd = "ACCOUNT_STATE"
<1>1. /\ f = toBroker[1] /\ toBroker # <<>> /\ Len(toBroker) >= 1
  BY ArrivedType DEF BrokerReceives, Arrived, IInv, TypeOK
<1>2. broker' = [broker EXCEPT
           !.rx = Advanced(broker.rx, f.box.plain),
           !.phase = IF SyncCmd THEN "answering" ELSE broker.phase,
           !.seq = IF SyncCmd THEN f.seq ELSE broker.seq]
  BY DEF BrokerReceives
<1>3. /\ broker'.open = broker.open
      /\ broker'.phase = IF SyncCmd THEN "answering" ELSE broker.phase
  BY <1>2 DEF IInv, TypeOK
<1>4. UNCHANGED <<op, state, pending, toClient, messages, delivered, sent>>
  BY DEF BrokerReceives, BrokerStep, session, ready
<1>5. Flight' = Flight /\ Parsed'
  BY <1>4 DEF Flight, ChannelInv, Parsed
<1>6. CASE ~SyncCmd
  BY <1>3, <1>4, <1>5, <1>6, KeptChannel
<1>7. CASE SyncCmd
  <2>1. BrokerUp
    BY DEF BrokerReceives, BrokerStep
  <2>2. /\ op = "sync" /\ state = "Failed" /\ pending = <<>> /\ toClient = <<>>
    BY <1>1, <1>7, <2>1, BrokerUpCases
       DEF IInv, Exchange, Exchanging, Quiet, RequestCommands, PlainCommands,
           ReadOnlyCommands
  <2>3. Flight' = <<>>
    BY <1>4, <2>2 DEF Flight
  <2>4. Fresh' /\ Known'
    BY <1>3, <1>4, <1>7 DEF ChannelInv, Fresh, Known
  <2>5. Staged'
    BY <1>4, <2>2, <2>3 DEF Staged, Ordered, HasLast
  <2>6. Arriving'
    BY <1>3, <1>4, <1>5 DEF ChannelInv, Arriving, Live
  <2> QED
    BY <1>5, <2>4, <2>5, <2>6 DEF ChannelInv
<1> QED
  BY <1>6, <1>7

\* A frame that is no part of a message.
LEMMA BesideChannel ==
    ASSUME IInv, ChannelInv, BrokerUp, UNCHANGED <<session, sent>>,
           broker.phase # "hello", broker'.phase # "hello",
           broker'.open = broker.open,
           broker.phase = "streaming" => broker'.phase = "streaming",
           NEW f \in Replies, toClient' = Append(toClient, f),
           f.cmd \in {"ACCOUNT_STATE", "PING", "BAD_HEADER", "OTHER"},
           Startup(f) => broker.phase # "streaming",
           Last(f) => broker'.phase = "streaming",
           f.cmd = "OTHER" => f.seq \in DOMAIN broker.open
    PROVE  ChannelInv'
<1>1. Known /\ Known'
  BY DEF ChannelInv, Known
<1>2. Carries(sent', broker.open, Len(sent), f, broker'.open, Len(sent'))
  BY <1>1 DEF Carries, Known
<1>3. sent' \in Seq(Messages) /\ Len(sent) <= Len(sent')
  BY LenProperties DEF IInv, TypeOK
<1> QED
  BY <1>1, <1>2, <1>3, EmitChannel

LEMMA BrokerSynchronizesChannel ==
    ASSUME IInv, ChannelInv, BrokerSynchronizes PROVE ChannelInv'
<1>1. PICK chunk \in Chunks, fin \in BOOLEAN, comp \in BOOLEAN :
        /\ Emit("ACCOUNT_STATE", broker.seq, fin, comp, <<chunk>>)
        /\ broker' = [broker EXCEPT !.tx = Advanced(broker.tx, <<chunk>>),
                                    !.phase = IF fin THEN "streaming" ELSE broker.phase]
  BY DEF BrokerSynchronizes
<1> DEFINE f == Reply("ACCOUNT_STATE", broker.seq, fin, comp, Sealed(broker.tx, <<chunk>>))
<1>2. f \in Replies /\ f.cmd = "ACCOUNT_STATE" /\ f.fin = fin
  <2>1. /\ <<chunk>> \in Seq(ChunkTypes) /\ broker.seq \in Nat
        /\ "ACCOUNT_STATE" \in FrameCommands
    BY ContentAssumption DEF IInv, TypeOK, FrameCommands
  <2>2. Sealed(broker.tx, <<chunk>>) \in Boxes
    <3>1. broker.tx \in Ciphers
      BY DEF IInv, TypeOK
    <3> QED
      BY <2>1, <3>1, SealedType
  <2>3. Sealed(broker.tx, <<chunk>>).plain = <<chunk>>
    BY DEF Sealed
  <2> QED
    BY <2>1, <2>2, <2>3 DEF Reply, Replies
<1>3. toClient' = Append(toClient, f)
  BY <1>1 DEF Emit
<1> HIDE DEF f
<1>4. /\ broker'.phase = IF fin THEN "streaming" ELSE broker.phase
      /\ broker'.open = broker.open
  BY <1>1 DEF IInv, TypeOK
<1>5. BrokerUp /\ UNCHANGED <<session, sent>> /\ broker.phase = "answering"
  BY DEF BrokerSynchronizes, BrokerStep
<1>6. /\ Startup(f) => broker.phase # "streaming"
      /\ Last(f) => broker'.phase = "streaming"
  BY <1>2, <1>4, <1>5 DEF Last
<1> QED
  BY <1>2, <1>3, <1>4, <1>5, <1>6, BesideChannel

LEMMA BrokerSilentChannel ==
    ASSUME IInv, ChannelInv, BrokerPings \/ BrokerGarbles PROVE ChannelInv'
<1>1. PICK cmd \in {"PING", "BAD_HEADER", "OTHER"}, seq \in Nat, fin \in BOOLEAN :
        /\ Emit(cmd, seq, fin, FALSE, <<>>)
        /\ cmd = "PING" => broker.phase = "answering"
        /\ cmd = "OTHER" => seq \in DOMAIN broker.open
  BY DEF BrokerPings, BrokerGarbles, IInv, TypeOK
<1> DEFINE f == Reply(cmd, seq, fin, FALSE, Sealed(broker.tx, <<>>))
<1>2. f \in Replies /\ f.cmd = cmd /\ f.seq = seq
  <2>1. cmd \in FrameCommands
    BY DEF FrameCommands
  <2>2. Sealed(broker.tx, <<>>) \in Boxes
    <3>1. broker.tx \in Ciphers
      BY DEF IInv, TypeOK
    <3> QED
      BY <2>1, <3>1, BodySeq, SealedType
  <2>3. Sealed(broker.tx, <<>>).plain = <<>>
    BY DEF Sealed
  <2> QED
    BY <2>1, <2>2, <2>3 DEF Reply, Replies
<1>3. toClient' = Append(toClient, f)
  BY <1>1 DEF Emit
<1> HIDE DEF f
<1>4. /\ BrokerUp /\ UNCHANGED <<session, sent, broker>>
      /\ broker.phase \in {"answering", "streaming"}
  BY DEF BrokerPings, BrokerGarbles, BrokerStep
<1>5. /\ Startup(f) => broker.phase # "streaming"
      /\ ~Last(f)
  BY <1>1, <1>2 DEF Startup, Last
<1>6. /\ f.cmd \in {"ACCOUNT_STATE", "PING", "BAD_HEADER", "OTHER"}
      /\ f.cmd = "OTHER" => f.seq \in DOMAIN broker.open
  BY <1>1, <1>2
<1> QED
  BY <1>2, <1>3, <1>4, <1>5, <1>6, BesideChannel

LEMMA BrokerStreamsChannel ==
    ASSUME IInv, ChannelInv, BrokerStreams PROVE ChannelInv'
<1>1. PICK cmd \in {"TRADE_UPDATE", "QUOTES"}, seq \in BrokerSequences,
           chunk \in Chunks, fin \in BOOLEAN, comp \in BOOLEAN :
         StreamFragment(cmd, seq, chunk, fin, comp)
  BY DEF BrokerStreams
<1> DEFINE f == Reply(cmd, seq, fin, comp, Sealed(broker.tx, <<chunk>>))
           whole == [cmd |-> cmd, payload |-> Extended(seq, chunk)]
           others == DOMAIN broker.open \ {seq}
           m == Completed(broker.open, f, <<chunk>>)
<1>2. /\ f \in Replies /\ f.cmd = cmd /\ f.seq = seq /\ f.fin = fin
      /\ f.body.plain = <<chunk>>
  <2>1. /\ <<chunk>> \in Seq(ChunkTypes) /\ seq \in Nat /\ cmd \in FrameCommands
    BY ContentAssumption DEF FrameCommands
  <2>2. Sealed(broker.tx, <<chunk>>) \in Boxes
    <3>1. broker.tx \in Ciphers
      BY DEF IInv, TypeOK
    <3> QED
      BY <2>1, <3>1, SealedType
  <2>3. Sealed(broker.tx, <<chunk>>).plain = <<chunk>>
    BY DEF Sealed
  <2> QED
    BY <2>1, <2>2, <2>3 DEF Reply, Replies
<1>3. toClient' = Append(toClient, f)
  BY <1>1 DEF StreamFragment, Emit
<1> HIDE DEF f
<1>4. Extended(seq, chunk) = Buffered(broker.open, f) \o <<chunk>>
  <2>1. <<chunk>> \in Seq(ChunkTypes) /\ chunk \in ChunkTypes
    BY ContentAssumption
  <2>2. CASE seq \in DOMAIN broker.open
    <3>1. broker.open[seq].payload \in Seq(ChunkTypes)
      BY <2>2 DEF IInv, TypeOK, Partial
    <3> QED
      BY <1>2, <2>1, <2>2, <3>1, AppendIsConcat DEF Extended, Buffered
  <2>3. CASE seq \notin DOMAIN broker.open
    BY <1>2, <2>1, <2>3, ConcatEmptySeq DEF Extended, Buffered
  <2> QED
    BY <2>2, <2>3
<1>5. /\ broker'.open = Pushed(broker.open, f, <<chunk>>)
      /\ broker'.phase = broker.phase
      /\ sent' = IF fin THEN Append(sent, m) ELSE sent
  <2>1. CASE fin
    <3>1. /\ sent' = Append(sent, [cmd |-> cmd, seq |-> seq, payload |-> whole.payload])
          /\ broker' = [broker EXCEPT !.tx = Advanced(broker.tx, <<chunk>>),
                                      !.open = [s \in others |-> broker.open[s]]]
      BY <1>1, <2>1 DEF StreamFragment
    <3>2. /\ broker'.open = [s \in others |-> broker.open[s]]
          /\ broker'.phase = broker.phase
      BY <3>1 DEF IInv, TypeOK
    <3> QED
      BY <1>2, <1>4, <2>1, <3>1, <3>2 DEF Pushed, Completed
  <2>2. CASE ~fin
    <3>1. /\ sent' = sent
          /\ broker' = [broker EXCEPT !.tx = Advanced(broker.tx, <<chunk>>),
                  !.open = [s \in others \union {seq} |->
                               IF s = seq THEN whole ELSE broker.open[s]]]
      BY <1>1, <2>2 DEF StreamFragment
    <3>2. /\ broker'.open = [s \in others \union {seq} |->
                               IF s = seq THEN whole ELSE broker.open[s]]
          /\ broker'.phase = broker.phase
      BY <3>1 DEF IInv, TypeOK
    <3>3. others \union {seq} = DOMAIN broker.open \union {seq}
      OBVIOUS
    <3> QED
      BY <1>2, <1>4, <2>2, <3>1, <3>2, <3>3 DEF Pushed
  <2> QED
    BY <2>1, <2>2
<1>6. BrokerUp /\ UNCHANGED session /\ broker.phase = "streaming"
  BY DEF BrokerStreams, BrokerStep
<1>7. Known'
  BY <1>2, <1>5 DEF ChannelInv, Known, Pushed
<1>8. /\ sent \in Seq(Messages) /\ sent' \in Seq(Messages) /\ Len(sent) \in Nat
  <2>1. IInv'
    BY BrokerStreamsIInv
  <2> QED
    BY <2>1, LenProperties DEF IInv, TypeOK
<1> HIDE DEF m
<1>9. /\ Len(sent') = IF fin THEN Len(sent) + 1 ELSE Len(sent)
      /\ \A k \in 1 .. Len(sent) : sent'[k] = sent[k]
      /\ fin => sent'[Len(sent) + 1] = m
  BY <1>5, <1>8
<1>10. Carries(sent', broker.open, Len(sent), f, broker'.open, Len(sent'))
  <2>1. fin => Len(sent') \in 1 .. Len(sent') /\ sent'[Len(sent')] = m
    BY <1>8, <1>9
  <2> QED
    BY <1>2, <1>5, <1>9, <2>1 DEF Carries, m
<1>11. ~Startup(f) /\ ~Last(f) /\ Len(sent) <= Len(sent')
  BY <1>2, <1>8, <1>9 DEF Startup, Last
<1> QED
  BY <1>2, <1>3, <1>5, <1>6, <1>7, <1>8, <1>9, <1>10, <1>11, EmitChannel

LEMMA ChannelInvStep ==
    IInv /\ CipherInv /\ ChannelInv /\ [Next]_vars => ChannelInv'
<1> SUFFICES ASSUME IInv, CipherInv, ChannelInv, [Next]_vars PROVE ChannelInv'
  OBVIOUS
<1>1. CASE Calls
  BY <1>1, StartupChannel, SynchronizeChannel, CallChannel DEF Calls
<1>2. CASE Progress
  BY <1>2, StartupChannel, TakeSyncFrameChannel, TakeMessageFrameChannel,
     ReadSocketChannel, WaitChannel DEF Progress
<1>3. CASE Expire
  BY <1>3, WaitChannel
<1>4. CASE BrokerCloses \/ UNCHANGED vars
  <2>1. UNCHANGED <<op, state, pending, toClient, messages, delivered, sent, broker>>
    BY <1>4 DEF BrokerCloses, vars, session, ready, brokerVars
  <2>2. Flight' = Flight /\ Parsed'
    BY <2>1 DEF Flight, ChannelInv, Parsed
  <2> QED
    BY <2>1, <2>2, KeptChannel
<1>5. CASE Broker /\ ~BrokerCloses
  BY <1>5, BrokerStartupChannel, BrokerReceivesChannel, BrokerSynchronizesChannel,
     BrokerSilentChannel, BrokerStreamsChannel DEF Broker
<1> QED
  BY <1>1, <1>2, <1>3, <1>4, <1>5 DEF Next

------------------------------------------------------------------------------
(* The session implements the channel *)

\* A step that neither completes nor delivers a message stutters or consumes.
LEMMA QuietStep ==
    ASSUME ~Consumed, UNCHANGED <<sent, delivered>>
    PROVE  [Channel!Next]_(Channel!vars)
  BY DEF Channel!Next, Channel!Consume, Channel!vars

LEMMA DeliverStep ==
    ASSUME IInv, CipherInv, ChannelInv, TakeMessageFrame
    PROVE  [Channel!Next]_(Channel!vars)
<1>1. /\ Takes("poll") /\ op = "poll" /\ UNCHANGED sent
      /\ delivered \in Seq(Messages) /\ sent \in Seq(Messages)
      /\ ~Consumed
  BY DEF TakeMessageFrame, Takes, Abort, brokerVars, IInv, TypeOK, Consumed
<1>2. CASE UNCHANGED delivered
  BY <1>1, <1>2, QuietStep
<1>3. CASE /\ ~PushRejects(messages, frame, PollPlain) /\ frame.fin /\ state' = "Ready"
           /\ delivered' = Append(delivered, Completed(messages, frame, PollPlain))
  <2>1. /\ Len(delivered) + 1 \in 1 .. Len(sent)
        /\ sent[Len(delivered) + 1] = Completed(messages, frame, PollPlain)
    BY <1>1, <1>3, TakenMessage
  <2>2. Len(delivered) < Len(sent) /\ ~Consumed'
    BY <1>1, <1>3, <2>1, LenProperties DEF Consumed
  <2>3. Channel!Deliver
    BY <1>1, <1>3, <2>1, <2>2 DEF Channel!Deliver
  <2> QED
    BY <2>3 DEF Channel!Next
<1> QED
  BY <1>2, <1>3 DEF TakeMessageFrame, Abort, ready

LEMMA CompleteStep ==
    ASSUME IInv, BrokerStreams PROVE [Channel!Next]_(Channel!vars)
<1>1. /\ ~Consumed /\ ~Consumed' /\ UNCHANGED delivered
      /\ sent \in Seq(Messages) /\ Len(sent) \in Nat
  BY LenProperties
     DEF BrokerStreams, BrokerStep, BrokerUp, Consumed, session, ready, IInv, TypeOK
<1>2. CASE UNCHANGED sent
  BY <1>1, <1>2, QuietStep
<1>3. ASSUME NEW m, sent' = Append(sent, m) PROVE Channel!Complete
  <2>1. sent' \in Seq(Messages)
    BY BrokerStreamsIInv DEF IInv, TypeOK
  <2>2. /\ Len(sent') = Len(sent) + 1
        /\ \A k \in 1 .. Len(sent) : sent'[k] = sent[k]
    BY <1>1, <1>3
  <2>3. SubSeq(sent', 1, Len(sent)) = sent
    <3>1. /\ SubSeq(sent', 1, Len(sent)) \in Seq(Messages)
          /\ Len(SubSeq(sent', 1, Len(sent))) = Len(sent)
          /\ \A k \in 1 .. Len(sent) : SubSeq(sent', 1, Len(sent))[k] = sent'[k]
      BY <1>1, <2>1, <2>2
    <3> QED
      BY <1>1, <2>2, <3>1, SeqEqual
  <2> QED
    BY <1>1, <2>2, <2>3 DEF Channel!Complete
<1>4. (\E m : sent' = Append(sent, m)) \/ UNCHANGED sent
  BY DEF BrokerStreams, StreamFragment
<1> QED
  BY <1>2, <1>3, <1>4 DEF Channel!Next

LEMMA ChannelStep ==
    IInv /\ CipherInv /\ ChannelInv /\ [Next]_vars => [Channel!Next]_(Channel!vars)
<1> SUFFICES ASSUME IInv, CipherInv, ChannelInv, [Next]_vars
             PROVE  [Channel!Next]_(Channel!vars)
  OBVIOUS
<1>1. CASE Consumed
  <2>1. UNCHANGED session
    BY <1>1, ConsumedStep
  <2>2. UNCHANGED sent
    <3>1. UNCHANGED sent \/ BrokerUp
      BY DEF Next, Calls, Progress, Broker, Authenticate, Synchronize, SendRequest,
             SendTrade, Transmit, Poll, TakeChallenge, TakeAuthResult, TakeSyncFrame,
             TakeMessageFrame, ReadSocket, ReadEnd, TimeOut, Expire, Abort,
             BrokerChallenge, BrokerAuthenticates, BrokerReceives,
             BrokerSynchronizes, BrokerPings, BrokerStreams, BrokerGarbles,
             BrokerCloses, BrokerStep, brokerVars, vars
    <3> QED
      BY <1>1, <3>1 DEF BrokerUp
  <2> QED
    BY <1>1, <2>1, <2>2 DEF Channel!vars, Consumed, session, ready
<1>2. CASE ~Consumed /\ TakeMessageFrame
  BY <1>2, DeliverStep
<1>3. CASE ~Consumed /\ BrokerStreams
  BY <1>3, CompleteStep
<1>4. CASE ~Consumed /\ ~TakeMessageFrame /\ ~BrokerStreams
  <2>1. CASE Calls
    BY <1>4, <2>1, QuietStep
       DEF Calls, Authenticate, Synchronize, SendRequest, SendTrade, Transmit, Poll,
           ready, brokerVars
  <2>2. CASE Progress
    BY <1>4, <2>2, QuietStep
       DEF Progress, TakeChallenge, TakeAuthResult, TakeSyncFrame, ReadSocket, ReadEnd,
           TimeOut, Abort, ready, brokerVars
  <2>3. CASE Expire
    BY <1>4, <2>3, QuietStep DEF Expire, ready, brokerVars
  <2>4. CASE Broker
    BY <1>4, <2>4, QuietStep
       DEF Broker, BrokerChallenge, BrokerAuthenticates, BrokerReceives,
           BrokerSynchronizes, BrokerPings, BrokerGarbles, BrokerCloses, BrokerStep,
           session, ready
  <2>5. CASE UNCHANGED vars
    BY <1>4, <2>5, QuietStep DEF vars, session, ready, brokerVars
  <2> QED
    BY <2>1, <2>2, <2>3, <2>4, <2>5 DEF Next
<1> QED
  BY <1>1, <1>2, <1>3, <1>4

LEMMA InitChannel == Init => ChannelInv
<1> SUFFICES ASSUME Init PROVE ChannelInv
  OBVIOUS
<1>1. /\ broker.phase = "hello" /\ broker.open = NoFragments /\ op = "idle"
      /\ state = "Connected" /\ pending = <<>>
      /\ messages = NoFragments /\ delivered = <<>> /\ sent = <<>>
  BY DEF Init
<1>2. DOMAIN broker.open = {}
  BY <1>1 DEF NoFragments
<1> QED
  BY <1>1, <1>2 DEF ChannelInv, Fresh, Known, Parsed, Staged, Arriving, Live

\* The messages the broker completes reach the application whole, each once and in
\* order, until the session is consumed, however they are cut into fragments,
\* interleaved, garbled, and read from the socket.
THEOREM MessagesArriveWhole == Spec => ChannelRefined
<1>1. Init => Channel!Init
  BY DEF Init, Channel!Init, Consumed
<1>2. Init => CipherInv
  BY DEF Init, CipherInv, Agreed, CiphersInStep, InboundInStep, OutboundInStep
<1> QED
  BY <1>1, <1>2, InitChannel, CipherStep, ChannelInvStep, ChannelStep, Inductive, PTL
     DEF Spec, ChannelRefined, Channel!Spec

=============================================================================
