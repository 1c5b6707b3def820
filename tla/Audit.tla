------------------------------- MODULE Audit -------------------------------
(***************************************************************************)
(* Package audit, and setupAuditEvents of main.go.  A handler that has done *)
(* its work sends an event into the buffered channel AuditChan before it   *)
(* answers; the processors take events out and pass each one to every      *)
(* writer.  main.run calls setupAuditEvents twice, and each call that can  *)
(* open the log adds a log writer and a console writer and starts one more *)
(* processor.  A call that cannot open it prints the error and returns.    *)
(***************************************************************************)
EXTENDS Naturals, Sequences, FiniteSets, SequencesExt

CONSTANTS Handlers,     \* goroutines that audit what they do
          Capacity,     \* of AuditChan, 100 in the code
          Opened,       \* how many of the two calls could open the log
          MaxEvents,    \* bound: events of one handler
          None          \* a processor has no event in hand

\* Mutant: setupAuditEvents adds its writers and starts no processor.
Processors_NotStarted == {}

\* Each call that could open the log ends with go AuditProcessor().
Processors == 1..Opened

Event == [by : Handlers, no : 1..MaxEvents]

ASSUME AuditAssumption ==
  /\ Capacity \in Nat \ {0} /\ Opened \in 0..2 /\ MaxEvents \in Nat
  /\ None \notin [event : Event, writer : Nat]

\* AuditWriters, in the order of the calls of AddWriter.
Writers == [k \in 1..(2 * Opened) |-> IF k % 2 = 1 THEN "log" ELSE "console"]

VARIABLES
  sent,     \* how many events each handler has begun to send
  queue,    \* the buffer of AuditChan
  blocked,  \* the events whose handlers wait in the send, in Go's order
  hand,     \* the event of each processor and the writer it goes to next
  log,      \* lines of eckmanager-audit.out, which all log writers append to
  console   \* lines on the console

vars == <<sent, queue, blocked, hand, log, console>>

Init ==
  /\ sent = [h \in Handlers |-> 0]
  /\ queue = <<>>
  /\ blocked = <<>>
  /\ hand = [p \in Processors |-> None]
  /\ log = <<>>
  /\ console = <<>>

Waits(h) == \E e \in ToSet(blocked) : e.by = h

------------------------------------------------------------------------------
\* Mutant: an event for which there is no room is dropped.
AuditWithRequest_DropWhenFull(h) ==
  LET e == [by |-> h, no |-> sent[h] + 1] IN
  /\ ~Waits(h)
  /\ sent[h] < MaxEvents
  /\ sent' = [sent EXCEPT ![h] = @ + 1]
  /\ queue' = IF Len(queue) < Capacity THEN Append(queue, e) ELSE queue
  /\ UNCHANGED <<blocked, hand, log, console>>

\* AuditWithRequest, Audit: a full channel blocks the handler.
AuditWithRequest(h) ==
  LET e == [by |-> h, no |-> sent[h] + 1] IN
  /\ ~Waits(h)
  /\ sent[h] < MaxEvents
  /\ sent' = [sent EXCEPT ![h] = @ + 1]
  /\ \/ /\ Len(queue) < Capacity
        /\ queue' = Append(queue, e)
        /\ UNCHANGED blocked
     \/ /\ Len(queue) = Capacity
        /\ blocked' = Append(blocked, e)
        /\ UNCHANGED queue
  /\ UNCHANGED <<hand, log, console>>

\* range AuditChan: the oldest event of the buffer, whose place is given to
\* the handler that has waited longest.
Receive(p) ==
  /\ hand[p] = None
  /\ queue # <<>>
  /\ hand' = [hand EXCEPT ![p] = [event |-> Head(queue), writer |-> 1]]
  /\ \/ /\ blocked # <<>>
        /\ queue' = Append(Tail(queue), Head(blocked))
        /\ blocked' = Tail(blocked)
     \/ /\ blocked = <<>>
        /\ queue' = Tail(queue)
        /\ UNCHANGED blocked
  /\ UNCHANGED <<sent, log, console>>

\* Mutant: a processor stops after the first two writers, those of one call.
AfterWriter_OwnOnly(e, k) == IF k < 2 THEN [event |-> e, writer |-> k + 1] ELSE None

\* The rest of the loop over AuditWriters.
AfterWriter(e, k) ==
  IF k < Len(Writers) THEN [event |-> e, writer |-> k + 1] ELSE None

\* LogWriter.Write appends one line, ConsoleWriter.Write prints one.
WriteNext(p) ==
  /\ hand[p] # None
  /\ LET e == hand[p].event
         k == hand[p].writer IN
     /\ \/ /\ Writers[k] = "log"
           /\ log' = Append(log, e)
           /\ UNCHANGED console
        \/ /\ Writers[k] = "console"
           /\ console' = Append(console, e)
           /\ UNCHANGED log
     /\ hand' = [hand EXCEPT ![p] = AfterWriter(e, k)]
  /\ UNCHANGED <<sent, queue, blocked>>

AuditProcessor(p) == Receive(p) \/ WriteNext(p)

Next ==
  \/ \E h \in Handlers : AuditWithRequest(h)
  \/ \E p \in Processors : AuditProcessor(p)

\* The Go scheduler runs every processor that can run; a handler need not
\* have anything to do.
Fairness == \A p \in Processors : WF_vars(AuditProcessor(p))

Spec == Init /\ [][Next]_vars /\ Fairness

------------------------------------------------------------------------------
Issued    == {e \in Event : e.no <= sent[e.by]}
InHand    == {hand[p].event : p \in {q \in Processors : hand[q] # None}}
Waiting   == ToSet(queue) \cup ToSet(blocked)
Count(s, e) == Cardinality({i \in DOMAIN s : s[i] = e})
Lines(e)  == Count(log, e)
Prints(e) == Count(console, e)

\* No event is dropped between a handler and the writers: one that no longer
\* waits and is in nobody's hand has been given to every writer.
NothingDropped ==
  \A e \in Issued \ (Waiting \cup InHand) : Lines(e) = Opened /\ Prints(e) = Opened

\* Once a handler audits an action, every writer gets it in the end.
EventuallyWritten ==
  \A h \in Handlers : \A n \in 1..MaxEvents :
    sent[h] >= n ~> /\ Lines([by |-> h, no |-> n]) = Opened
                    /\ Prints([by |-> h, no |-> n]) = Opened

\* A request is answered in the end: its handler does not wait in the send
\* for ever, however many others audit at the same time.
EventuallyAnswered == \A h \in Handlers : Waits(h) ~> ~Waits(h)
=============================================================================
