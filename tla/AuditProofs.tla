---------------------------- MODULE AuditProofs ----------------------------
(***************************************************************************)
(* For any number of handlers, any capacity and either number of           *)
(* processors: the channel keeps the order of each handler's events, and   *)
(* every event is written once by each writer.                             *)
(***************************************************************************)
EXTENDS Audit, FiniteSetTheorems, TLAPS

TypeOK ==
  /\ sent \in [Handlers -> Nat]
  /\ queue \in Seq(Event)
  /\ blocked \in Seq(Event)
  /\ log \in Seq(Event)
  /\ console \in Seq(Event)
  /\ hand \in [Processors -> {None} \cup [event : Event, writer : Nat]]

\* Of two events of one handler that of S is the earlier.
Precede(S, T) == \A x \in S, y \in T : x.by = y.by => x.no < y.no
Ordered(s) ==
  \A i, j \in 1 .. Len(s) : i < j /\ s[i].by = s[j].by => s[i].no < s[j].no

\* The events that a processor has taken.
Taken == ToSet(log) \cup ToSet(console) \cup InHand

InOrder ==
  /\ Ordered(queue)
  /\ Ordered(blocked)
  /\ Precede(ToSet(queue), ToSet(blocked))
  /\ Precede(Taken, Waiting)

\* Every event that is somewhere has been counted.
Counted == \A e \in Waiting \cup Taken : e.no <= sent[e.by]

Inv == TypeOK /\ InOrder /\ Counted

------------------------------------------------------------------------------
\* What Append, Head and Tail do to the elements and their order.
LEMMA AppendElements ==
  ASSUME NEW s \in Seq(Event), NEW e \in Event
  PROVE  Append(s, e) \in Seq(Event) /\ ToSet(Append(s, e)) = ToSet(s) \cup {e}
<1> DEFINE t == Append(s, e)
<1>1. /\ t \in Seq(Event) /\ Len(t) = Len(s) + 1 /\ Len(s) \in Nat
      /\ DOMAIN s = 1 .. Len(s) /\ DOMAIN t = 1 .. Len(t)
  OBVIOUS
<1>2. t[Len(s) + 1] = e /\ \A i \in 1 .. Len(s) : t[i] = s[i]
  OBVIOUS
<1> HIDE DEF t
<1>3. DOMAIN t = DOMAIN s \cup {Len(s) + 1}
  BY <1>1
<1>4. ToSet(t) = ToSet(s) \cup {e}
  BY <1>1, <1>2, <1>3 DEF ToSet
<1> QED
  BY <1>1, <1>4 DEF t

LEMMA AppendOrdered ==
  ASSUME NEW s \in Seq(Event), NEW e \in Event, Ordered(s), Precede(ToSet(s), {e})
  PROVE  Ordered(Append(s, e))
<1> SUFFICES ASSUME NEW i \in 1 .. Len(s) + 1, NEW j \in 1 .. Len(s) + 1, i < j,
                    Append(s, e)[i].by = Append(s, e)[j].by
             PROVE  Append(s, e)[i].no < Append(s, e)[j].no
  BY DEF Ordered
<1>1. i \in 1 .. Len(s) /\ Append(s, e)[i] = s[i] /\ s[i] \in ToSet(s)
  BY DEF ToSet
<1>2. CASE j \in 1 .. Len(s)
  BY <1>1, <1>2 DEF Ordered
<1>3. CASE j = Len(s) + 1
  BY <1>1, <1>3 DEF Precede
<1> QED
  BY <1>2, <1>3

LEMMA TailElements ==
  ASSUME NEW s \in Seq(Event), s # <<>>
  PROVE  /\ Head(s) \in Event /\ Tail(s) \in Seq(Event)
         /\ Head(s) \in ToSet(s) /\ ToSet(Tail(s)) \subseteq ToSet(s)
         /\ ToSet(s) = {Head(s)} \cup ToSet(Tail(s))
<1>1. /\ Head(s) \in Event /\ Tail(s) \in Seq(Event)
      /\ Head(s) \in ToSet(s) /\ ToSet(Tail(s)) \subseteq ToSet(s)
  BY DEF ToSet
<1>2. ASSUME NEW i \in DOMAIN s PROVE s[i] \in {Head(s)} \cup ToSet(Tail(s))
  <2>1. CASE i = 1
    BY <2>1
  <2>2. CASE i # 1
    <3>1. i - 1 \in 1 .. Len(Tail(s)) /\ Tail(s)[i - 1] = s[i]
      BY <2>2
    <3> QED
      BY <1>1, <3>1 DEF ToSet
  <2> QED
    BY <2>1, <2>2
<1> QED
  BY <1>1, <1>2 DEF ToSet

LEMMA TailOrdered ==
  ASSUME NEW s \in Seq(Event), s # <<>>, Ordered(s)
  PROVE  Ordered(Tail(s)) /\ Precede({Head(s)}, ToSet(Tail(s)))
BY DEF Ordered, Precede, ToSet

------------------------------------------------------------------------------
LEMMA SendInv ==
  ASSUME Inv, NEW h \in Handlers, AuditWithRequest(h)
  PROVE  Inv'
<1> DEFINE e == [by |-> h, no |-> sent[h] + 1]
<1> USE DEF Inv
<1>1. e \in Event /\ sent' \in [Handlers -> Nat]
  BY AuditAssumption DEF AuditWithRequest, TypeOK, Event
<1>2. \A x \in Waiting \cup Taken : x.by = h => x.no < e.no
  <2>1. sent[h] \in Nat
    BY DEF TypeOK
  <2>2. \A x \in Waiting \cup Taken : x \in Event
    BY DEF Waiting, Taken, InHand, TypeOK, ToSet
  <2> QED
    BY <2>1, <2>2 DEF Counted, Event
<1>3. Precede(ToSet(queue), {e}) /\ Precede(ToSet(blocked), {e}) /\ Precede(Taken, {e})
  BY <1>2 DEF Precede, Waiting
<1>4. Precede({e}, ToSet(blocked))
  BY DEF AuditWithRequest, Waits, Precede
<1>5. Taken' = Taken
  BY DEF AuditWithRequest, Taken, InHand
<1>6. \A x \in Waiting \cup Taken \cup {e} : x.no <= sent'[x.by]
  <2>1. \A x \in Waiting \cup Taken : x \in Event
    BY DEF Waiting, Taken, InHand, TypeOK, ToSet
  <2>2. sent' = [sent EXCEPT ![h] = sent[h] + 1] /\ sent \in [Handlers -> Nat]
    BY DEF AuditWithRequest, TypeOK
  <2>3. e.no <= sent'[e.by]
    BY <2>2
  <2>4. ASSUME NEW x \in Waiting \cup Taken PROVE x.no <= sent'[x.by]
    BY <2>1, <2>2, <2>4 DEF Counted, Event
  <2> QED
    BY <2>3, <2>4
<1>7. CASE queue' = Append(queue, e) /\ UNCHANGED blocked
  <2>1. queue' \in Seq(Event) /\ ToSet(queue') = ToSet(queue) \cup {e}
    BY <1>1, <1>7, AppendElements DEF TypeOK
  <2>2. Ordered(queue')
    BY <1>1, <1>3, <1>7, AppendOrdered DEF TypeOK, InOrder
  <2>3. InOrder'
    BY <1>3, <1>4, <1>5, <1>7, <2>1, <2>2 DEF InOrder, Precede, Waiting
  <2>4. Waiting' = Waiting \cup {e}
    BY <1>7, <2>1 DEF Waiting
  <2>5. TypeOK'
    BY <1>1, <1>7, <2>1 DEF AuditWithRequest, TypeOK
  <2>6. Counted'
    BY <1>5, <1>6, <2>4 DEF Counted
  <2> QED
    BY <2>3, <2>5, <2>6
<1>8. CASE blocked' = Append(blocked, e) /\ UNCHANGED queue
  <2>1. blocked' \in Seq(Event) /\ ToSet(blocked') = ToSet(blocked) \cup {e}
    BY <1>1, <1>8, AppendElements DEF TypeOK
  <2>2. Ordered(blocked')
    BY <1>1, <1>3, <1>8, AppendOrdered DEF TypeOK, InOrder
  <2>3. InOrder'
    BY <1>3, <1>5, <1>8, <2>1, <2>2 DEF InOrder, Precede, Waiting
  <2>4. Waiting' = Waiting \cup {e}
    BY <1>8, <2>1 DEF Waiting
  <2>5. TypeOK'
    BY <1>1, <1>8, <2>1 DEF AuditWithRequest, TypeOK
  <2>6. Counted'
    BY <1>5, <1>6, <2>4 DEF Counted
  <2> QED
    BY <2>3, <2>5, <2>6
<1> QED
  BY <1>7, <1>8 DEF AuditWithRequest

LEMMA ReceiveInv ==
  ASSUME Inv, NEW p \in Processors, Receive(p)
  PROVE  Inv'
<1> DEFINE first == Head(queue)
<1> USE DEF Inv
<1>1. queue # <<>> /\ queue \in Seq(Event) /\ blocked \in Seq(Event)
  BY DEF Receive, TypeOK
<1>2. /\ first \in Event /\ first \in ToSet(queue)
      /\ Tail(queue) \in Seq(Event) /\ ToSet(Tail(queue)) \subseteq ToSet(queue)
  BY <1>1, TailElements
<1>3. Ordered(Tail(queue)) /\ Precede({first}, ToSet(Tail(queue)))
  BY <1>1, TailOrdered DEF InOrder
<1>4. /\ hand' \in [Processors -> {None} \cup [event : Event, writer : Nat]]
      /\ Taken' \subseteq Taken \cup {first}
  <2>1. hand' = [hand EXCEPT ![p] = [event |-> first, writer |-> 1]]
    BY DEF Receive
  <2>2. InHand' \subseteq InHand \cup {first}
    BY <2>1 DEF InHand, TypeOK
  <2> QED
    BY <1>2, <2>1, <2>2 DEF Receive, Taken, TypeOK
<1>5. CASE blocked = <<>> /\ queue' = Tail(queue) /\ UNCHANGED blocked
  <2>1. Waiting' \subseteq Waiting
    BY <1>2, <1>5 DEF Waiting
  <2>2. Precede(Taken \cup {first}, Waiting')
    BY <1>3, <1>5, <2>1 DEF InOrder, Precede, Waiting, ToSet
  <2>3. InOrder'
    BY <1>2, <1>3, <1>4, <1>5, <2>2 DEF InOrder, Precede
  <2> QED
    BY <1>2, <1>4, <1>5, <2>1, <2>3 DEF Receive, TypeOK, Counted, Waiting
<1>6. CASE /\ blocked # <<>>
           /\ queue' = Append(Tail(queue), Head(blocked))
           /\ blocked' = Tail(blocked)
  <2> DEFINE woken == Head(blocked)
  <2>1. /\ woken \in Event /\ woken \in ToSet(blocked)
        /\ blocked' \in Seq(Event) /\ ToSet(blocked') \subseteq ToSet(blocked)
    BY <1>1, <1>6, TailElements
  <2>2. Ordered(blocked') /\ Precede({woken}, ToSet(blocked'))
    BY <1>1, <1>6, TailOrdered DEF InOrder
  <2>3. queue' \in Seq(Event) /\ ToSet(queue') = ToSet(Tail(queue)) \cup {woken}
    BY <1>2, <1>6, <2>1, AppendElements
  <2>4. Precede(ToSet(Tail(queue)), {woken})
    BY <1>2, <2>1 DEF InOrder, Precede
  <2>5. Ordered(queue')
    BY <1>2, <1>3, <1>6, <2>1, <2>4, AppendOrdered
  <2>6. Precede(ToSet(queue'), ToSet(blocked'))
    BY <1>2, <2>1, <2>2, <2>3 DEF InOrder, Precede
  <2>7. Waiting' \subseteq Waiting
    BY <1>2, <2>1, <2>3 DEF Waiting
  <2>8. Precede({first}, Waiting')
    BY <1>2, <1>3, <2>1, <2>3 DEF InOrder, Precede, Waiting
  <2>9. InOrder'
    BY <1>4, <2>2, <2>5, <2>6, <2>7, <2>8 DEF InOrder, Precede
  <2> QED
    BY <1>2, <1>4, <2>1, <2>3, <2>7, <2>9 DEF Receive, TypeOK, Counted, Waiting
<1> QED
  BY <1>5, <1>6 DEF Receive

LEMMA WriteInv ==
  ASSUME Inv, NEW p \in Processors, WriteNext(p)
  PROVE  Inv'
<1> DEFINE e == hand[p].event
<1> USE DEF Inv
<1>1. hand[p] \in [event : Event, writer : Nat] /\ e \in Event /\ e \in InHand
  BY DEF WriteNext, TypeOK, InHand
<1>2. hand' = [hand EXCEPT ![p] = AfterWriter(e, hand[p].writer)]
  BY DEF WriteNext
<1>3. AfterWriter(e, hand[p].writer) \in
        {None} \cup {[event |-> e, writer |-> hand[p].writer + 1]}
  BY DEF AfterWriter
<1>4. hand' \in [Processors -> {None} \cup [event : Event, writer : Nat]]
  BY <1>1, <1>2, <1>3 DEF TypeOK
<1>5. InHand' \subseteq InHand
  BY <1>1, <1>2, <1>3 DEF InHand, TypeOK
<1>6. /\ log' \in Seq(Event) /\ ToSet(log') \subseteq ToSet(log) \cup {e}
      /\ console' \in Seq(Event) /\ ToSet(console') \subseteq ToSet(console) \cup {e}
  <2>1. /\ log \in Seq(Event) /\ console \in Seq(Event)
        /\ \/ log' = Append(log, e) /\ console' = console
           \/ console' = Append(console, e) /\ log' = log
    BY DEF WriteNext, TypeOK
  <2> QED
    BY <1>1, <2>1, AppendElements
<1>7. Taken' \subseteq Taken /\ Waiting' = Waiting
  BY <1>1, <1>5, <1>6 DEF Taken, Waiting, WriteNext
<1>8. InOrder' /\ Counted'
  BY <1>7 DEF InOrder, Precede, Counted, WriteNext
<1> QED
  BY <1>4, <1>6, <1>8 DEF WriteNext, TypeOK

LEMMA StepInv == Inv /\ [Next]_vars => Inv'
<1> SUFFICES ASSUME Inv, [Next]_vars PROVE Inv'
  OBVIOUS
<1>1. CASE UNCHANGED vars
  BY <1>1 DEF vars, Inv, TypeOK, InOrder, Counted, Waiting, Taken, InHand
<1>2. CASE Next
  BY <1>2, SendInv, ReceiveInv, WriteInv DEF Next, AuditProcessor
<1> QED
  BY <1>1, <1>2

------------------------------------------------------------------------------
(***************************************************************************)
(* Every event is written once by each writer.                             *)
(***************************************************************************)
\* An event in hand has one processor, and the writers before the next one
\* have it.
HandsExact ==
  \A p \in Processors : hand[p] # None =>
    /\ hand[p].writer \in 1 .. 2 * Opened
    /\ Lines(hand[p].event) = hand[p].writer \div 2
    /\ Prints(hand[p].event) = (hand[p].writer - 1) \div 2
    /\ \A q \in Processors : hand[q] # None /\ hand[q].event = hand[p].event => q = p

Exact == HandsExact /\ NothingDropped

LEMMA CountAppend ==
  ASSUME NEW s \in Seq(Event), NEW e \in Event, NEW x
  PROVE  /\ Count(s, x) \in Nat
         /\ Count(Append(s, e), x) = IF x = e THEN Count(s, x) + 1 ELSE Count(s, x)
<1> DEFINE S == {i \in DOMAIN s : s[i] = x}
           t == Append(s, e)
           T == {i \in DOMAIN t : t[i] = x}
           n == Len(s)
<1>1. /\ n \in Nat /\ DOMAIN s = 1 .. n /\ DOMAIN t = 1 .. n + 1
      /\ t[n + 1] = e /\ \A i \in 1 .. n : t[i] = s[i]
  OBVIOUS
<1>2. IsFiniteSet(S)
  <2>1. IsFiniteSet(1 .. n)
    BY <1>1, FS_Interval
  <2>2. S \in SUBSET (1 .. n)
    BY <1>1
  <2> QED
    BY <2>1, <2>2, FS_Subset
<1>3. Cardinality(S) \in Nat
  BY <1>2, FS_CardinalityType
<1> HIDE DEF t
<1>4. CASE x = e
  <2>1. T = S \cup {n + 1} /\ n + 1 \notin S
    BY <1>1, <1>4
  <2>2. Cardinality(T) = Cardinality(S) + 1
    BY <1>2, <2>1, FS_AddElement
  <2> QED
    BY <1>3, <1>4, <2>2 DEF Count, t
<1>5. CASE x # e
  <2>1. T = S
    BY <1>1, <1>5
  <2> QED
    BY <1>3, <1>5, <2>1 DEF Count, t
<1> QED
  BY <1>4, <1>5

LEMMA CountNone ==
  ASSUME NEW s, NEW x, x \notin ToSet(s)
  PROVE  Count(s, x) = 0
<1>1. {i \in DOMAIN s : s[i] = x} = {}
  BY DEF ToSet
<1> QED
  BY <1>1, FS_EmptySet DEF Count

\* What waits has not been written.
LEMMA WaitingUnwritten ==
  ASSUME Inv, NEW e \in Waiting
  PROVE  e \notin Taken /\ Lines(e) = 0 /\ Prints(e) = 0
<1>1. e \in Event
  BY DEF Inv, TypeOK, Waiting, ToSet
<1>2. e \notin Taken
  BY <1>1 DEF Inv, InOrder, Precede, Event
<1> QED
  BY <1>2, CountNone DEF Taken, Lines, Prints

LEMMA SendExact ==
  ASSUME Inv, Exact, NEW h \in Handlers, AuditWithRequest(h)
  PROVE  Exact'
<1> DEFINE e == [by |-> h, no |-> sent[h] + 1]
<1>1. /\ e \in Event /\ hand' = hand /\ log' = log /\ console' = console
      /\ sent' = [sent EXCEPT ![h] = sent[h] + 1] /\ sent \in [Handlers -> Nat]
      /\ queue \in Seq(Event) /\ blocked \in Seq(Event)
  BY AuditAssumption DEF AuditWithRequest, Inv, TypeOK, Event
<1>2. Waiting' = Waiting \cup {e}
  BY <1>1, AppendElements DEF AuditWithRequest, Waiting
<1>3. ASSUME NEW x \in Event, x.no <= sent'[x.by], x # e
      PROVE  x.no <= sent[x.by]
  <2>1. x = [by |-> x.by, no |-> x.no] /\ x.no \in Nat /\ x.by \in Handlers
    BY DEF Event
  <2> QED
    BY <1>1, <1>3, <2>1
<1>4. HandsExact'
  BY <1>1 DEF Exact, HandsExact, Lines, Prints
<1>5. NothingDropped'
  <2> SUFFICES ASSUME NEW x \in Issued', x \notin Waiting', x \notin InHand'
               PROVE  Lines(x) = Opened /\ Prints(x) = Opened
    BY <1>1 DEF NothingDropped, Lines, Prints
  <2>1. x \in Issued
    BY <1>2, <1>3 DEF Issued
  <2> QED
    BY <1>1, <1>2, <2>1 DEF Exact, NothingDropped, InHand
<1> QED
  BY <1>4, <1>5 DEF Exact

LEMMA ReceiveExact ==
  ASSUME Inv, Exact, NEW p \in Processors, Receive(p)
  PROVE  Exact'
<1>1. PICK first : first = Head(queue)
  OBVIOUS
<1>2. /\ first \in Waiting /\ first \in Event
      /\ queue \in Seq(Event) /\ blocked \in Seq(Event) /\ queue # <<>>
  BY <1>1, TailElements DEF Receive, Inv, TypeOK, Waiting
<1>3. first \notin InHand /\ Lines(first) = 0 /\ Prints(first) = 0
  BY <1>2, WaitingUnwritten DEF Taken
<1>4. /\ hand[p] = None /\ hand' = [hand EXCEPT ![p] = [event |-> first, writer |-> 1]]
      /\ log' = log /\ console' = console /\ sent' = sent
  BY <1>1 DEF Receive
<1>5. /\ hand'[p] # None /\ hand'[p].event = first /\ hand'[p].writer = 1
      /\ \A q \in Processors \ {p} : hand'[q] = hand[q]
  BY <1>2, <1>4, AuditAssumption DEF Inv, TypeOK
<1>6. InHand' = InHand \cup {first}
  BY <1>4, <1>5 DEF InHand
<1>7. Waiting \subseteq Waiting' \cup {first}
  <2>1. ToSet(queue) = {first} \cup ToSet(Tail(queue)) /\ Tail(queue) \in Seq(Event)
    BY <1>1, <1>2, TailElements
  <2>2. CASE queue' = Tail(queue) /\ blocked' = blocked
    BY <2>1, <2>2 DEF Waiting
  <2>3. CASE /\ blocked # <<>>
             /\ queue' = Append(Tail(queue), Head(blocked))
             /\ blocked' = Tail(blocked)
    <3>1. Head(blocked) \in Event /\ ToSet(blocked) = {Head(blocked)} \cup ToSet(blocked')
      BY <1>2, <2>3, TailElements
    <3>2. ToSet(queue') = ToSet(Tail(queue)) \cup {Head(blocked)}
      BY <2>1, <2>3, <3>1, AppendElements
    <3> QED
      BY <2>1, <3>1, <3>2 DEF Waiting
  <2> QED
    BY <2>2, <2>3 DEF Receive
<1>8. HandsExact'
  <2> SUFFICES ASSUME NEW q \in Processors, hand'[q] # None
               PROVE  /\ hand'[q].writer \in 1 .. 2 * Opened
                      /\ Lines(hand'[q].event) = hand'[q].writer \div 2
                      /\ Prints(hand'[q].event) = (hand'[q].writer - 1) \div 2
                      /\ \A x \in Processors :
                           hand'[x] # None /\ hand'[x].event = hand'[q].event => x = q
    BY <1>4 DEF HandsExact, Lines, Prints
  <2>1. CASE q = p
    <3>1. Opened \in Nat /\ Opened >= 1
      BY AuditAssumption DEF Processors
    <3>2. \A x \in Processors : hand'[x] # None /\ hand'[x].event = first => x = p
      BY <1>3, <1>5 DEF InHand
    <3> QED
      BY <1>3, <1>5, <2>1, <3>1, <3>2
  <2>2. CASE q # p
    <3>1. hand'[q] = hand[q] /\ hand[q].event # first
      BY <1>3, <1>5, <2>2 DEF InHand
    <3> QED
      BY <1>5, <3>1 DEF Exact, HandsExact
  <2> QED
    BY <2>1, <2>2
<1>9. NothingDropped'
  <2> SUFFICES ASSUME NEW x \in Issued', x \notin Waiting', x \notin InHand'
               PROVE  Lines(x) = Opened /\ Prints(x) = Opened
    BY <1>4 DEF NothingDropped, Lines, Prints
  <2> QED
    BY <1>4, <1>6, <1>7 DEF Exact, NothingDropped, Issued
<1> QED
  BY <1>8, <1>9 DEF Exact

LEMMA WriteExact ==
  ASSUME Inv, Exact, NEW p \in Processors, WriteNext(p)
  PROVE  Exact'
<1>1. PICK e, k : e = hand[p].event /\ k = hand[p].writer
  OBVIOUS
<1>2. /\ hand[p] # None /\ e \in Event /\ k \in 1 .. 2 * Opened
      /\ log \in Seq(Event) /\ console \in Seq(Event)
      /\ sent' = sent /\ queue' = queue /\ blocked' = blocked
      /\ hand' = [hand EXCEPT ![p] = AfterWriter(e, k)]
      /\ Lines(e) = k \div 2 /\ Prints(e) = (k - 1) \div 2
      /\ \A q \in Processors : hand[q] # None /\ hand[q].event = e => q = p
  BY <1>1 DEF WriteNext, Inv, TypeOK, Exact, HandsExact
<1>3. /\ Opened \in 1 .. 2 /\ Len(Writers) = 2 * Opened
      /\ Writers[k] = IF k % 2 = 1 THEN "log" ELSE "console"
  BY <1>2, AuditAssumption DEF Processors, Writers
<1>4. /\ Count(log', e) = IF k % 2 = 1 THEN Lines(e) + 1 ELSE Lines(e)
      /\ Count(console', e) = IF k % 2 = 1 THEN Prints(e) ELSE Prints(e) + 1
      /\ \A x : x # e => Count(log', x) = Lines(x) /\ Count(console', x) = Prints(x)
  <2>1. CASE k % 2 = 1
    <3>1. log' = Append(log, e) /\ console' = console
      BY <1>1, <1>3, <2>1 DEF WriteNext
    <3> QED
      BY <1>2, <2>1, <3>1, CountAppend DEF Lines, Prints
  <2>2. CASE k % 2 # 1
    <3>1. log' = log /\ console' = Append(console, e)
      BY <1>1, <1>3, <2>2 DEF WriteNext
    <3> QED
      BY <1>2, <2>2, <3>1, CountAppend DEF Lines, Prints
  <2> QED
    BY <2>1, <2>2
<1>5. \A q \in Processors \ {p} : hand'[q] = hand[q]
  BY <1>2 DEF Inv, TypeOK
<1>6. k \in 1 .. 4 /\ 2 * Opened \in {2, 4}
  BY <1>2, <1>3
<1>7. CASE k < 2 * Opened
  <2>1. /\ hand'[p].event = e /\ hand'[p].writer = k + 1 /\ hand'[p] # None
    <3>1. hand'[p] = [event |-> e, writer |-> k + 1]
      BY <1>2, <1>3, <1>7 DEF AfterWriter, Inv, TypeOK
    <3> QED
      BY <1>2, <1>6, <3>1, AuditAssumption
  <2>2. /\ k + 1 \in 1 .. 2 * Opened
        /\ Count(log', e) = (k + 1) \div 2 /\ Count(console', e) = k \div 2
    BY <1>2, <1>4, <1>6, <1>7
  <2>3. InHand' = InHand
    BY <1>1, <1>2, <1>5, <2>1 DEF InHand
  <2>4. HandsExact'
    <3> SUFFICES ASSUME NEW q \in Processors, hand'[q] # None
                 PROVE  /\ hand'[q].writer \in 1 .. 2 * Opened
                        /\ Count(log', hand'[q].event) = hand'[q].writer \div 2
                        /\ Count(console', hand'[q].event) = (hand'[q].writer - 1) \div 2
                        /\ \A x \in Processors :
                             hand'[x] # None /\ hand'[x].event = hand'[q].event => x = q
      BY DEF HandsExact, Lines, Prints
    <3>1. CASE q = p
      BY <1>2, <1>5, <1>6, <2>1, <2>2, <3>1
    <3>2. CASE q # p
      <4>1. hand'[q] = hand[q] /\ hand[q].event # e
        BY <1>2, <1>5, <3>2
      <4> QED
        BY <1>4, <1>5, <2>1, <4>1 DEF Exact, HandsExact
    <3> QED
      BY <3>1, <3>2
  <2>5. NothingDropped'
    <3> SUFFICES ASSUME NEW x \in Issued', x \notin Waiting', x \notin InHand'
                 PROVE  Count(log', x) = Opened /\ Count(console', x) = Opened
      BY DEF NothingDropped, Lines, Prints
    <3>1. x \in Issued /\ x \notin Waiting /\ x \notin InHand /\ x # e
      BY <1>1, <1>2, <2>3 DEF Issued, Waiting, InHand
    <3> QED
      BY <1>4, <3>1 DEF Exact, NothingDropped
  <2> QED
    BY <2>4, <2>5 DEF Exact
<1>8. CASE k = 2 * Opened
  <2>1. hand'[p] = None
    BY <1>2, <1>3, <1>8 DEF AfterWriter, Inv, TypeOK
  <2>2. Count(log', e) = Opened /\ Count(console', e) = Opened
    <3>1. CASE Opened = 1
      BY <1>2, <1>4, <1>8, <3>1
    <3>2. CASE Opened = 2
      BY <1>2, <1>4, <1>8, <3>2
    <3> QED
      BY <1>3, <3>1, <3>2
  <2>3. HandsExact'
    <3> SUFFICES ASSUME NEW q \in Processors, hand'[q] # None
                 PROVE  /\ hand'[q].writer \in 1 .. 2 * Opened
                        /\ Count(log', hand'[q].event) = hand'[q].writer \div 2
                        /\ Count(console', hand'[q].event) = (hand'[q].writer - 1) \div 2
                        /\ \A x \in Processors :
                             hand'[x] # None /\ hand'[x].event = hand'[q].event => x = q
      BY DEF HandsExact, Lines, Prints
    <3>1. q # p /\ hand'[q] = hand[q] /\ hand[q].event # e
      BY <1>2, <1>5, <2>1
    <3> QED
      BY <1>4, <1>5, <2>1, <3>1 DEF Exact, HandsExact
  <2>4. NothingDropped'
    <3> SUFFICES ASSUME NEW x \in Issued', x \notin Waiting', x \notin InHand', x # e
                 PROVE  Count(log', x) = Opened /\ Count(console', x) = Opened
      BY <2>2 DEF NothingDropped, Lines, Prints
    <3>1. x \in Issued /\ x \notin Waiting
      BY <1>2 DEF Issued, Waiting
    <3>2. x \notin InHand
      BY <1>1, <1>5 DEF InHand
    <3> QED
      BY <1>4, <3>1, <3>2 DEF Exact, NothingDropped
  <2> QED
    BY <2>3, <2>4 DEF Exact
<1> QED
  BY <1>2, <1>3, <1>7, <1>8

LEMMA ExactHolds == Spec => [](Inv /\ Exact)
<1>1. Init => Inv /\ Exact
  <2> SUFFICES ASSUME Init PROVE Inv /\ Exact
    OBVIOUS
  <2>1. Inv /\ HandsExact
    BY DEF Init, Inv, TypeOK, InOrder, Ordered, Precede, Counted, Waiting, Taken,
           InHand, ToSet, HandsExact
  <2>2. Issued = {}
    BY DEF Init, Issued, Event
  <2> QED
    BY <2>1, <2>2 DEF Exact, NothingDropped
<1>2. Inv /\ Exact /\ [Next]_vars => Inv' /\ Exact'
  <2> SUFFICES ASSUME Inv, Exact, [Next]_vars PROVE Exact'
    BY StepInv
  <2>1. CASE UNCHANGED vars
    BY <2>1 DEF vars, Exact, HandsExact, NothingDropped, Lines, Prints, Issued,
                Waiting, InHand
  <2>2. CASE Next
    BY <2>2, SendExact, ReceiveExact, WriteExact DEF Next, AuditProcessor
  <2> QED
    BY <2>1, <2>2
<1> QED
  BY <1>1, <1>2, PTL DEF Spec

\* NothingDropped: an event that no longer waits in the channel or in a send, and
\* that no processor has in hand, was written once by each writer, however many
\* handlers audit and however full the channel is.
THEOREM WrittenExactlyOnce == Spec => []NothingDropped
BY ExactHolds, PTL DEF Exact
=============================================================================
