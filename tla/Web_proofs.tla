----------------------------- MODULE Web_proofs -----------------------------
(***************************************************************************)
(* Proofs about what a user sees.                                          *)
(*                                                                         *)
(* EventStreams, for every set of requests, every mix of them and every    *)
(* number of chunks, batches and failures: its bridge neither loses,       *)
(* repeats nor swaps events and ends a stream only after them, and a query *)
(* that is alone streams its whole answer.                                 *)
(*                                                                         *)
(* WebChat, for every number of questions and events: Stop reaches what    *)
(* streams, and a later question leaves earlier answers alone.             *)
(*                                                                         *)
(* WebPages, for any number of changes: the wizard sends what it has       *)
(* validated, and the landing pages stay usable and keep a chosen theme.   *)
(***************************************************************************)
EXTENDS EventStreams, WebChat, WebPages, SequenceTheorems, FiniteSetTheorems, TLAPS

Names == {"start", "parsed", "chunked", "persisting", "indexed", "failed"}

Event ==
  {Thought, Final} \cup {Phase(n) : n \in Names} \cup {Batch(i) : i \in Nat}
    \cup {Chunk(r, i) : r \in Asks, i \in Nat}

Pcs ==
  {"never", "new", "asked", "importing", "parsing", "embedding", "storing", "retrieving",
   "generating", "researching", "ended", "over", "failed"}
Writers == {"off", "first", "ready", "parked", "closed", "cut"}

TaskType ==
  /\ pc \in [Requests -> Pcs]
  /\ generator \in Queries \cup {Plain}
  /\ feeds \in [Asks -> Queries \cup {Plain}]
  /\ made \in [Requests -> Nat]

BridgeType ==
  /\ queue \in [Streams -> Seq(Event)]
  /\ delivered \in [Streams -> Seq(Event)]
  /\ sent \in [Streams -> Seq(Event)]
  /\ done \in [Streams -> BOOLEAN]
  /\ writer \in [Streams -> Writers]
  /\ sentAtDone \in [Streams -> Nat]

\* The queue is what was pushed and is not delivered yet.
Order == \A s \in Streams : sent[s] = delivered[s] \o queue[s]

\* A stream whose generator is not installed yet.
Early == {"never", "new", "asked"}

\* Only a task that has ended set done, and only then may the writer end.
Ends(s) ==
  /\ done[s] => pc[s] \in {"over", "failed"} /\ sentAtDone[s] <= Len(sent[s])
  /\ ~done[s] => sentAtDone[s] = 0
  /\ writer[s] = "closed" => done[s] /\ sentAtDone[s] <= Len(delivered[s])

\* Nobody pushes into a stream that has not installed its generator.
Hooked ==
  /\ generator # Plain => pc[generator] \notin Early
  /\ \A r \in Asks : feeds[r] # Plain => pc[feeds[r]] \notin Early
  /\ \A s \in Queries : pc[s] \in Early => queue[s] = <<>>

StreamInv ==
  TaskType /\ BridgeType /\ Order /\ (\A s \in Streams : Ends(s)) /\ Hooked

LEMMA PrefixOfConcat ==
  ASSUME NEW S, NEW a \in Seq(S), NEW b \in Seq(S)
  PROVE  IsPrefix(a, a \o b)
<1>1. CASE a = <<>>
  <2>1. a \o b = b
    BY <1>1, ConcatEmptySeq
  <2>2. SubSeq(a, 1, Len(a)) = <<>> /\ SubSeq(b, 1, Len(a)) = <<>>
    BY <1>1, SubSeqEmpty, EmptySeq
  <2> QED
    BY <1>1, <2>1, <2>2, EmptySeq, LenProperties DEF IsPrefix
<1>2. CASE a # <<>>
  <2>1. Len(a) \in Nat \ {0} /\ Len(b) \in Nat
    BY <1>2, EmptySeq, LenProperties
  <2>2. Len(a) \in 1 .. Len(a) /\ 1 \in 1 .. Len(a)
    BY <2>1
  <2>3. SubSeq(a \o b, 1, Len(a)) = SubSeq(a, 1, Len(a))
    BY <2>2, SubSeqOfConcat1
  <2>4. Len(a \o b) = Len(a) + Len(b)
    BY ConcatProperties
  <2> QED
    BY <2>1, <2>3, <2>4 DEF IsPrefix
<1> QED
  BY <1>1, <1>2

\* What a push, with or without the end of its task, does to the queues.
LEMMA Queued ==
  ASSUME BridgeType, Order, NEW s \in Streams, NEW events \in Seq(Event),
         queue' = [queue EXCEPT ![s] = @ \o events],
         sent' = [sent EXCEPT ![s] = @ \o events],
         UNCHANGED delivered
  PROVE  /\ queue' \in [Streams -> Seq(Event)] /\ sent' \in [Streams -> Seq(Event)]
         /\ Order'
         /\ \A x \in Streams : Len(sent[x]) <= Len(sent'[x])
         /\ Len(sent'[s]) = Len(sent[s]) + Len(events)
         /\ \A x \in Streams : x # s => queue'[x] = queue[x]
<1>1. queue[s] \o events \in Seq(Event) /\ sent[s] \o events \in Seq(Event)
  BY ConcatProperties DEF BridgeType
<1>2. sent[s] \o events = delivered[s] \o (queue[s] \o events)
  <2> DEFINE d == delivered[s]
             q == queue[s]
  <2>1. d \in Seq(Event) /\ q \in Seq(Event) /\ sent[s] = d \o q
    BY DEF BridgeType, Order
  <2> HIDE DEF d, q
  <2>2. (d \o q) \o events = d \o (q \o events)
    BY <2>1, ConcatAssociative
  <2> QED
    BY <2>1, <2>2 DEF d, q
<1>3. Len(sent[s] \o events) = Len(sent[s]) + Len(events)
  BY ConcatProperties DEF BridgeType
<1>4. \A x \in Streams : Len(sent[x]) \in Nat
  <2> TAKE x \in Streams
  <2>1. sent[x] \in Seq(Event)
    BY DEF BridgeType
  <2> QED
    BY <2>1, LenProperties
<1>5. Len(events) \in Nat
  BY LenProperties
<1>6. \A x \in Streams : Len(sent[x]) <= Len(sent'[x])
  <2> TAKE x \in Streams
  <2>1. CASE x = s
    BY <2>1, <1>3, <1>4, <1>5 DEF BridgeType
  <2>2. CASE x # s
    BY <2>2, <1>4 DEF BridgeType
  <2> QED
    BY <2>1, <2>2
<1>7. Order'
  <2> SUFFICES ASSUME NEW x \in Streams
               PROVE  sent'[x] = delivered'[x] \o queue'[x]
    BY DEF Order
  <2>1. CASE x = s
    BY <2>1, <1>2 DEF BridgeType
  <2>2. CASE x # s
    BY <2>2 DEF BridgeType, Order
  <2> QED
    BY <2>1, <2>2
<1> QED
  BY <1>1, <1>3, <1>6, <1>7 DEF BridgeType

LEMMA WokenType ==
  ASSUME BridgeType, NEW s \in Streams
  PROVE  /\ Woken(s) \in [Streams -> Writers]
         /\ \A x \in Streams : Woken(s)[x] = "closed" <=> writer[x] = "closed"
<1>1. writer[s] \in Writers /\ writer \in [Streams -> Writers]
  BY DEF BridgeType
<1> DEFINE next == IF writer[s] = "parked" THEN "ready" ELSE writer[s]
<1>2. next \in Writers /\ (next = "closed" <=> writer[s] = "closed")
  BY <1>1 DEF Writers
<1>3. Woken(s) = [writer EXCEPT ![s] = next]
  BY <1>1 DEF Woken
<1> HIDE DEF next
<1> QED
  BY <1>1, <1>2, <1>3

-----------------------------------------------------------------------------
(* What the step of a task may do apart from its push. *)

PcKept ==
  /\ \A x \in Requests : pc[x] \notin Early => pc'[x] \notin Early
  /\ \A x \in Requests : pc'[x] \in Early => pc[x] \in Early
  /\ \A x \in Streams : done[x] => pc'[x] \in {"over", "failed"}

TaskKept ==
  /\ TaskType' /\ PcKept
  /\ generator' = generator
  /\ \A r \in Asks : feeds'[r] \in {feeds[r], generator}

LEMMA Moved ==
  ASSUME StreamInv, NEW r \in Requests, NEW there \in Pcs, there \notin Early,
         pc[r] \notin {"over", "failed"}, Goto(r, there)
  PROVE  pc' \in [Requests -> Pcs] /\ PcKept
<1>1. pc \in [Requests -> Pcs]
  BY DEF StreamInv, TaskType
<1>2. r \in Streams => ~done[r]
  BY DEF StreamInv, Ends
<1>3. \A x \in Streams : x \in Requests
  BY DEF Streams, Requests, Asks
<1>4. \A x \in Streams : done[x] => pc[x] \in {"over", "failed"}
  BY DEF StreamInv, Ends
<1> QED
  BY <1>1, <1>2, <1>3, <1>4 DEF Goto, PcKept

LEMMA HookedKept ==
  ASSUME StreamInv, TaskKept,
         \A x \in Queries : pc[x] \in Early => queue'[x] = queue[x]
  PROVE  Hooked'
<1>1. \A x \in Queries : x \in Requests
  BY DEF Requests, Asks
<1>2. generator # Plain => generator \in Queries /\ pc[generator] \notin Early
  BY DEF StreamInv, TaskType, Hooked
<1>3. \A r \in Asks : feeds[r] # Plain => feeds[r] \in Queries /\ pc[feeds[r]] \notin Early
  BY DEF StreamInv, TaskType, Hooked
<1>4. generator' # Plain => pc'[generator'] \notin Early
  BY <1>1, <1>2 DEF TaskKept, PcKept
<1>5. \A r \in Asks : feeds'[r] # Plain => pc'[feeds'[r]] \notin Early
  BY <1>1, <1>2, <1>3 DEF TaskKept, PcKept
<1>6. \A s \in Queries : pc'[s] \in Early => queue'[s] = <<>>
  BY <1>1 DEF TaskKept, PcKept, StreamInv, Hooked
<1> QED
  BY <1>4, <1>5, <1>6 DEF Hooked

LEMMA QuietStep ==
  ASSUME StreamInv, TaskKept, UNCHANGED bridge
  PROVE  StreamInv'
<1>1. Hooked'
  BY HookedKept DEF bridge
<1>2. BridgeType' /\ Order'
  BY DEF StreamInv, BridgeType, Order, bridge
<1>3. \A s \in Streams : Ends(s)'
  BY DEF StreamInv, Ends, bridge, TaskKept, PcKept
<1> QED
  BY <1>1, <1>2, <1>3 DEF StreamInv, TaskKept

LEMMA PushStep ==
  ASSUME StreamInv, TaskKept, NEW s \in Streams, NEW events \in Seq(Event),
         s \in Queries => pc[s] \notin Early, Push(s, events)
  PROVE  StreamInv'
<1>1. /\ queue' \in [Streams -> Seq(Event)] /\ sent' \in [Streams -> Seq(Event)]
      /\ Order'
      /\ \A x \in Streams : Len(sent[x]) <= Len(sent'[x])
      /\ \A x \in Streams : x # s => queue'[x] = queue[x]
  BY Queued DEF StreamInv, Push
<1>2. /\ writer' \in [Streams -> Writers]
      /\ \A x \in Streams : writer'[x] = "closed" <=> writer[x] = "closed"
  BY WokenType DEF StreamInv, Push
<1>3. BridgeType'
  BY <1>1, <1>2 DEF StreamInv, Push, BridgeType
<1>4. Hooked'
  BY <1>1, HookedKept DEF Streams
<1>5. ASSUME NEW x \in Streams PROVE Ends(x)'
  <2>1. Len(sent[x]) \in Nat /\ Len(sent'[x]) \in Nat /\ sentAtDone[x] \in Nat
    <3>1. sent[x] \in Seq(Event) /\ sent'[x] \in Seq(Event)
      BY <1>1 DEF StreamInv, BridgeType
    <3> QED
      BY <3>1, LenProperties DEF StreamInv, BridgeType
  <2>2. done[x] => sentAtDone[x] <= Len(sent'[x])
    BY <1>1, <2>1 DEF StreamInv, Ends
  <2>3. done'[x] = done[x] /\ delivered'[x] = delivered[x] /\ sentAtDone'[x] = sentAtDone[x]
    BY DEF Push
  <2> QED
    BY <1>2, <2>2, <2>3 DEF StreamInv, Ends, TaskKept, PcKept
<1> QED
  BY <1>1, <1>3, <1>4, <1>5 DEF StreamInv, TaskKept

LEMMA DoneStep ==
  ASSUME StreamInv, TaskKept, NEW s \in Streams, NEW events \in Seq(Event),
         pc[s] \notin Early \cup {"over", "failed"}, pc'[s] \in {"over", "failed"},
         SetDone(s, events)
  PROVE  StreamInv'
<1>1. /\ queue' \in [Streams -> Seq(Event)] /\ sent' \in [Streams -> Seq(Event)]
      /\ Order'
      /\ \A x \in Streams : Len(sent[x]) <= Len(sent'[x])
      /\ Len(sent'[s]) = Len(sent[s]) + Len(events)
      /\ \A x \in Streams : x # s => queue'[x] = queue[x]
  BY Queued DEF StreamInv, SetDone
<1>2. /\ writer' \in [Streams -> Writers]
      /\ \A x \in Streams : writer'[x] = "closed" <=> writer[x] = "closed"
  BY WokenType DEF StreamInv, SetDone
<1>3. /\ sentAtDone'[s] = Len(sent'[s]) /\ Len(sent'[s]) \in Nat
      /\ \A x \in Streams : x # s => sentAtDone'[x] = sentAtDone[x]
  <2>1. sent'[s] \in Seq(Event)
    BY <1>1
  <2> QED
    BY <1>1, <2>1, LenProperties DEF SetDone, StreamInv, BridgeType
<1>4. /\ done' \in [Streams -> BOOLEAN] /\ done'[s] = TRUE
      /\ \A x \in Streams : x # s => done'[x] = done[x]
  BY Zenon DEF SetDone, StreamInv, BridgeType
<1>5. sentAtDone' \in [Streams -> Nat]
  BY <1>1, <1>3 DEF SetDone, StreamInv, BridgeType
<1>6. BridgeType'
  BY <1>1, <1>2, <1>4, <1>5 DEF StreamInv, SetDone, BridgeType
<1>7. Hooked'
  BY <1>1, HookedKept DEF Streams
<1>8. ASSUME NEW x \in Streams PROVE Ends(x)'
  <2>1. CASE x = s
    <3>1. writer'[s] # "closed"
      BY <1>2 DEF StreamInv, Ends
    <3> QED
      BY <2>1, <3>1, <1>3, <1>4 DEF Ends
  <2>2. CASE x # s
    <3>1. Len(sent[x]) \in Nat /\ Len(sent'[x]) \in Nat /\ sentAtDone[x] \in Nat
      <4>1. sent[x] \in Seq(Event) /\ sent'[x] \in Seq(Event)
        BY <1>1 DEF StreamInv, BridgeType
      <4> QED
        BY <4>1, LenProperties DEF StreamInv, BridgeType
    <3>2. done[x] => sentAtDone[x] <= Len(sent'[x])
      BY <1>1, <3>1 DEF StreamInv, Ends
    <3>3. delivered'[x] = delivered[x]
      BY DEF SetDone
    <3> QED
      BY <2>2, <1>2, <1>3, <1>4, <3>2, <3>3 DEF StreamInv, Ends, TaskKept, PcKept
  <2> QED
    BY <2>1, <2>2
<1> QED
  BY <1>1, <1>6, <1>7, <1>8 DEF StreamInv, TaskKept

\* A step that leaves the tasks alone and ends no stream early.
LEMMA WriterKept ==
  ASSUME StreamInv, UNCHANGED <<task, done, sent, sentAtDone>>, BridgeType', Order',
         \A s \in Streams : Len(delivered[s]) <= Len(delivered'[s]),
         \A s \in Streams : queue[s] = <<>> => queue'[s] = <<>>,
         \A s \in Streams : writer'[s] = "closed" =>
           writer[s] = "closed" \/ (done[s] /\ sentAtDone[s] <= Len(delivered'[s]))
  PROVE  StreamInv'
<1>1. ASSUME NEW s \in Streams PROVE Ends(s)'
  <2>1. /\ Len(delivered[s]) \in Nat /\ Len(delivered'[s]) \in Nat
        /\ sentAtDone[s] \in Nat
    <3>1. delivered[s] \in Seq(Event) /\ delivered'[s] \in Seq(Event)
      BY DEF StreamInv, BridgeType
    <3> QED
      BY <3>1, LenProperties DEF StreamInv, BridgeType
  <2> QED
    BY <2>1 DEF StreamInv, Ends, task
<1>2. TaskType'
  BY DEF StreamInv, TaskType, task
<1>3. Hooked'
  BY DEF StreamInv, Hooked, task, Streams
<1> QED
  BY <1>1, <1>2, <1>3 DEF StreamInv

LEMMA WriteStep == ASSUME StreamInv, NEW s \in Streams, Write(s) PROVE StreamInv'
<1> DEFINE d == delivered[s]
           q == queue[s]
           e == Head(q)
           t == Tail(q)
<1>1. d \in Seq(Event) /\ q \in Seq(Event) /\ sent[s] = d \o q /\ q # <<>>
  BY DEF StreamInv, BridgeType, Order, Write
<1>2. e \in Event /\ t \in Seq(Event)
  BY <1>1, HeadTailProperties
<1>3. /\ delivered' = [delivered EXCEPT ![s] = Append(d, e)]
      /\ queue' = [queue EXCEPT ![s] = t]
      /\ delivered \in [Streams -> Seq(Event)] /\ queue \in [Streams -> Seq(Event)]
  BY DEF Write, StreamInv, BridgeType
<1> HIDE DEF d, q, e, t
<1>4. Append(d, e) \in Seq(Event) /\ Len(Append(d, e)) = Len(d) + 1 /\ Len(d) \in Nat
  BY <1>1, <1>2, AppendProperties, LenProperties
<1>5. Append(d, e) \o t = d \o q
  <2>1. <<e>> \in Seq(Event)
    BY <1>2
  <2>2. Append(d, e) = d \o <<e>>
    BY <1>1, <1>2, AppendIsConcat
  <2>3. (d \o <<e>>) \o t = d \o (<<e>> \o t)
    BY <1>1, <1>2, <2>1, ConcatAssociative
  <2>4. <<e>> \o t = q
    <3> USE DEF e, t
    <3>1. Len(q) \in Nat \ {0} /\ Len(t) = Len(q) - 1 /\ Len(<<e>>) = 1
      BY <1>1, EmptySeq, HeadTailProperties
    <3>2. /\ <<e>> \o t \in Seq(Event) /\ Len(<<e>> \o t) = Len(q)
          /\ \A i \in 1 .. Len(q) : (<<e>> \o t)[i] = IF i <= 1 THEN <<e>>[i] ELSE t[i - 1]
      BY <1>2, <2>1, <3>1, ConcatProperties
    <3>3. \A i \in 1 .. Len(t) : t[i] = q[i + 1]
      BY <1>1, HeadTailProperties
    <3>4. ASSUME NEW i \in 1 .. Len(q) PROVE (<<e>> \o t)[i] = q[i]
      <4>1. CASE i = 1
        BY <4>1, <3>2, <1>1
      <4>2. CASE i # 1
        <5>1. i - 1 \in 1 .. Len(t) /\ (i - 1) + 1 = i /\ ~(i <= 1)
          BY <4>2, <3>1
        <5> QED
          BY <5>1, <3>2, <3>3
      <4> QED
        BY <4>1, <4>2
    <3> QED
      BY <1>1, <3>2, <3>4, SeqEqual
  <2> QED
    BY <2>2, <2>3, <2>4
<1>6. UNCHANGED <<task, done, writer, sent, sentAtDone>>
  BY DEF Write
<1>7. BridgeType'
  BY <1>2, <1>3, <1>4, <1>6 DEF StreamInv, BridgeType
<1>8. Order'
  <2> SUFFICES ASSUME NEW x \in Streams PROVE sent'[x] = delivered'[x] \o queue'[x]
    BY DEF Order
  <2>1. CASE x = s
    BY <2>1, <1>1, <1>3, <1>5, <1>6
  <2>2. CASE x # s
    BY <2>2, <1>3, <1>6 DEF StreamInv, Order
  <2> QED
    BY <2>1, <2>2
<1>9. \A x \in Streams : Len(delivered[x]) <= Len(delivered'[x])
  <2> TAKE x \in Streams
  <2>1. Len(delivered[x]) \in Nat
    <3>1. delivered[x] \in Seq(Event)
      BY DEF StreamInv, BridgeType
    <3> QED
      BY <3>1, LenProperties
  <2>2. CASE x = s
    BY <2>2, <1>3, <1>4 DEF d
  <2>3. CASE x # s
    BY <2>3, <1>3, <2>1
  <2> QED
    BY <2>2, <2>3
<1>10. \A x \in Streams : queue[x] = <<>> => queue'[x] = <<>>
  BY <1>1, <1>3 DEF q
<1>11. \A x \in Streams : writer'[x] = "closed" => writer[x] = "closed"
  BY <1>6
<1> QED
  BY <1>6, <1>7, <1>8, <1>9, <1>10, <1>11, WriterKept

LEMMA ParkStep ==
  ASSUME StreamInv, NEW s \in Streams, Park(s) \/ Return(s) \/ Die
  PROVE  StreamInv'
<1>1. UNCHANGED <<task, queue, done, delivered, sent, sentAtDone>>
  BY DEF Park, Return, Die
<1>2. writer' \in [Streams -> Writers]
  BY DEF Park, Return, Die, StreamInv, BridgeType, Writers
<1>3. BridgeType' /\ Order'
  BY <1>1, <1>2 DEF StreamInv, BridgeType, Order
<1>4. ASSUME NEW x \in Streams PROVE Len(delivered[x]) \in Nat
  <2>1. delivered[x] \in Seq(Event)
    BY DEF StreamInv, BridgeType
  <2> QED
    BY <2>1, LenProperties
<1>5. ASSUME NEW x \in Streams, writer'[x] = "closed"
      PROVE  writer[x] = "closed" \/ (done[x] /\ sentAtDone[x] <= Len(delivered'[x]))
  <2>1. CASE Return(s) /\ x = s
    <3>1. queue[s] = <<>> /\ done[s] /\ sentAtDone[s] <= Len(sent[s])
      BY <2>1 DEF Return, StreamInv, Ends
    <3>2. delivered[s] \in Seq(Event) /\ sent[s] = delivered[s] \o <<>>
      BY <3>1 DEF StreamInv, BridgeType, Order
    <3>3. sent[s] = delivered[s]
      BY <3>2, ConcatEmptySeq
    <3> QED
      BY <2>1, <3>1, <3>3, <1>1
  <2>2. CASE ~(Return(s) /\ x = s)
    <3>1. writer \in [Streams -> Writers]
      BY DEF StreamInv, BridgeType
    <3>2. CASE Park(s)
      BY <3>1, <3>2, <1>5 DEF Park
    <3>3. CASE Return(s)
      BY <3>1, <3>3, <2>2, <1>5 DEF Return
    <3>4. CASE Die
      BY <3>1, <3>4, <1>5 DEF Die
    <3> QED
      BY <3>2, <3>3, <3>4
  <2> QED
    BY <2>1, <2>2
<1> QED
  BY <1>1, <1>3, <1>4, <1>5, WriterKept

-----------------------------------------------------------------------------
(* The tasks. *)

LEMMA Sets ==
  /\ \A s \in Ingests : s \in Streams /\ s \in Requests
  /\ \A s \in Queries : s \in Streams /\ s \in Requests /\ s \in Asks
  /\ \A s \in Streams : s \in Requests
  /\ \A r \in Asks : r \in Requests
BY DEF Streams, Requests, Asks

LEMMA Events ==
  /\ \A n \in Names : <<Phase(n)>> \in Seq(Event)
  /\ \A i \in Nat : <<Batch(i)>> \in Seq(Event)
  /\ \A r \in Asks, i \in Nat : <<Chunk(r, i)>> \in Seq(Event)
  /\ <<Thought>> \in Seq(Event) /\ <<Final>> \in Seq(Event)
BY DEF Event

LEMMA CutStep ==
  ASSUME StreamInv, NEW s \in Ingests, NEW events \in Seq(Event),
         pc[s] \in {"importing", "parsing"}, Cut(s, events),
         UNCHANGED <<generator, feeds, made>>
  PROVE  StreamInv'
<1>1. PICK there \in {"ended", "embedding"} : Goto(s, there)
  BY DEF Cut
<1>2. pc' \in [Requests -> Pcs] /\ PcKept
  BY <1>1, Moved, Sets DEF Early, Pcs
<1>3. TaskKept
  BY <1>2 DEF StreamInv, TaskType, TaskKept
<1> DEFINE all == events \o <<Phase("parsed"), Phase("chunked")>>
<1>4. all \in Seq(Event)
  <2>1. <<Phase("parsed"), Phase("chunked")>> \in Seq(Event)
    BY DEF Event, Names
  <2> QED
    BY <2>1, ConcatProperties
<1>5. Push(s, all)
  BY DEF Cut
<1> HIDE DEF all
<1> QED
  BY <1>3, <1>4, <1>5, PushStep, Sets DEF Early

LEMMA IngestStep ==
  ASSUME StreamInv, NEW s \in Ingests,
         Imported(s) \/ Parsed(s) \/ Embedded(s) \/ Stored(s) \/ IngestFails(s)
  PROVE  StreamInv'
<1> USE DEF Early, Pcs
<1>1. CASE Imported(s)
  <2>1. <<Phase("start")>> \in Seq(Event)
    BY Events DEF Names
  <2>2. CASE Cut(s, <<Phase("start")>>)
    BY <1>1, <2>1, <2>2, CutStep DEF Imported
  <2>3. CASE Goto(s, "parsing") /\ Push(s, <<Phase("start")>>)
    <3>1. pc' \in [Requests -> Pcs] /\ PcKept
      BY <1>1, <2>3, Moved, Sets DEF Imported
    <3>2. TaskKept
      BY <1>1, <3>1 DEF Imported, StreamInv, TaskType, TaskKept
    <3> QED
      BY <1>1, <2>1, <2>3, <3>2, PushStep, Sets DEF Imported
  <2> QED
    BY <1>1, <2>2, <2>3 DEF Imported
<1>2. CASE Parsed(s)
  <2>1. <<>> \in Seq(Event)
    OBVIOUS
  <2> QED
    BY <1>2, <2>1, CutStep DEF Parsed
<1>3. CASE Embedded(s)
  <2>1. PICK there \in {"storing", "embedding"} : Goto(s, there)
    BY <1>3 DEF Embedded
  <2>2. pc' \in [Requests -> Pcs] /\ PcKept
    BY <1>3, <2>1, Moved, Sets DEF Embedded
  <2>3. made' \in [Requests -> Nat] /\ made'[s] \in Nat
    BY <1>3, Sets DEF Embedded, StreamInv, TaskType
  <2>4. TaskKept
    BY <1>3, <2>2, <2>3 DEF Embedded, StreamInv, TaskType, TaskKept
  <2>5. PICK tail \in {<<>>, <<Phase("persisting")>>} : Push(s, <<Batch(made'[s])>> \o tail)
    BY <1>3 DEF Embedded
  <2>6. <<Batch(made'[s])>> \in Seq(Event) /\ tail \in Seq(Event)
    <3>1. <<Phase("persisting")>> \in Seq(Event)
      BY Events DEF Names
    <3>2. <<>> \in Seq(Event)
      OBVIOUS
    <3>3. <<Batch(made'[s])>> \in Seq(Event)
      BY <2>3, Events
    <3>4. tail = <<>> \/ tail = <<Phase("persisting")>>
      OBVIOUS
    <3> QED
      BY <3>1, <3>2, <3>3, <3>4, Zenon
  <2>7. <<Batch(made'[s])>> \o tail \in Seq(Event)
    BY <2>6, ConcatProperties
  <2> QED
    BY <1>3, <2>4, <2>5, <2>7, PushStep, Sets DEF Embedded
<1>4. CASE Stored(s)
  <2>1. pc' \in [Requests -> Pcs] /\ PcKept
    BY <1>4, Moved, Sets DEF Stored
  <2>2. TaskKept
    BY <1>4, <2>1 DEF Stored, StreamInv, TaskType, TaskKept
  <2>3. <<Phase("indexed")>> \in Seq(Event)
    BY Events DEF Names
  <2> QED
    BY <1>4, <2>2, <2>3, PushStep, Sets DEF Stored
<1>5. CASE IngestFails(s)
  <2>1. pc' \in [Requests -> Pcs] /\ PcKept
    BY <1>5, Moved, Sets DEF IngestFails
  <2>2. TaskKept
    BY <1>5, <2>1 DEF IngestFails, StreamInv, TaskType, TaskKept
  <2>3. <<Phase("failed")>> \in Seq(Event)
    BY Events DEF Names
  <2> QED
    BY <1>5, <2>2, <2>3, PushStep, Sets DEF IngestFails
<1> QED
  BY <1>1, <1>2, <1>3, <1>4, <1>5

LEMMA AskStep ==
  ASSUME StreamInv, NEW r \in Asks,
         Retrieved(r) \/ Delta(r) \/ Generated(r) \/ GenerationFails(r) \/ Answer(r)
  PROVE  StreamInv'
<1> USE DEF Early, Pcs
<1>1. CASE Retrieved(r)
  <2>1. PICK there \in {"generating", "ended"} : Goto(r, there)
    BY <1>1 DEF Retrieved
  <2>2. pc' \in [Requests -> Pcs] /\ PcKept
    BY <1>1, <2>1, Moved, Sets DEF Retrieved
  <2>3. /\ feeds' \in [Asks -> Queries \cup {Plain}]
        /\ \A x \in Asks : feeds'[x] \in {feeds[x], generator}
    BY <1>1 DEF Retrieved, StreamInv, TaskType
  <2>4. TaskKept
    BY <1>1, <2>2, <2>3 DEF Retrieved, StreamInv, TaskType, TaskKept
  <2> QED
    BY <1>1, <2>4, QuietStep DEF Retrieved
<1>2. CASE Delta(r)
  <2>1. made' \in [Requests -> Nat] /\ made'[r] \in Nat
    BY <1>2, Sets DEF Delta, StreamInv, TaskType
  <2>2. PcKept
    BY <1>2, Sets DEF Delta, PcKept, StreamInv, Ends
  <2>3. TaskKept
    BY <1>2, <2>1, <2>2 DEF Delta, StreamInv, TaskType, TaskKept
  <2>4. CASE feeds[r] = Plain
    BY <1>2, <2>3, <2>4, QuietStep DEF Delta
  <2>5. CASE feeds[r] # Plain
    <3>1. feeds[r] \in Streams /\ pc[feeds[r]] \notin Early
      BY <2>5, Sets DEF StreamInv, TaskType, Hooked
    <3>2. <<Chunk(r, made'[r])>> \in Seq(Event)
      BY <2>1, Events
    <3> QED
      BY <1>2, <2>3, <2>5, <3>1, <3>2, PushStep DEF Delta
  <2> QED
    BY <2>4, <2>5
<1>3. CASE Generated(r) \/ Answer(r)
  <2>1. PICK there \in {"ended", "over"} : Goto(r, there)
    BY <1>3 DEF Generated, Answer
  <2>2. pc' \in [Requests -> Pcs] /\ PcKept
    BY <1>3, <2>1, Moved, Sets DEF Generated, Answer
  <2>3. TaskKept
    BY <1>3, <2>2 DEF Generated, Answer, StreamInv, TaskType, TaskKept
  <2> QED
    BY <1>3, <2>3, QuietStep DEF Generated, Answer
<1>4. CASE GenerationFails(r)
  <2>1. pc' \in [Requests -> Pcs] /\ PcKept
    BY <1>4, Moved, Sets DEF GenerationFails
  <2>2. TaskKept
    BY <1>4, <2>1 DEF GenerationFails, StreamInv, TaskType, TaskKept
  <2>3. CASE r \in Queries
    <3>1. r \in Streams /\ SetDone(r, <<Final>>) /\ pc'[r] = "failed"
      BY <1>4, <2>3, Sets DEF GenerationFails, Goto, StreamInv, TaskType
    <3> QED
      BY <1>4, <2>2, <3>1, DoneStep, Events DEF GenerationFails
  <2>4. CASE r \notin Queries
    BY <1>4, <2>2, <2>4, QuietStep DEF GenerationFails
  <2> QED
    BY <2>3, <2>4
<1> QED
  BY <1>1, <1>2, <1>3, <1>4

LEMMA EndStep == ASSUME StreamInv, NEW s \in Requests, End(s) PROVE StreamInv'
<1>1. s \in Streams /\ pc[s] = "ended" /\ SetDone(s, <<>>)
  BY DEF End
<1>2. pc' \in [Requests -> Pcs] /\ PcKept /\ pc'[s] = "over"
  BY <1>1, Moved DEF End, Early, Pcs, Goto, StreamInv, TaskType
<1>3. TaskKept
  BY <1>2 DEF End, StreamInv, TaskType, TaskKept
<1>4. <<>> \in Seq(Event)
  OBVIOUS
<1> QED
  BY <1>1, <1>2, <1>3, <1>4, DoneStep DEF Early

-----------------------------------------------------------------------------
(* The requests begin. *)

LEMMA BeginStep ==
  ASSUME StreamInv, NEW s \in Queries, Begin(s)
  PROVE  StreamInv'
<1> USE DEF Early, Pcs
<1>1. PICK there \in {"retrieving", "researching"} : Goto(s, there)
  BY DEF Begin
<1>2. pc[s] = "asked" /\ generator' = s
      /\ UNCHANGED <<feeds, made, queue, done, delivered, sent, sentAtDone>>
  BY DEF Begin, Install
<1>3. pc' \in [Requests -> Pcs] /\ PcKept
  BY <1>1, <1>2, Moved, Sets
<1>4. pc'[s] \notin Early
  BY <1>1, Sets DEF Goto, StreamInv, TaskType
<1>5. writer' = [writer EXCEPT ![s] = "ready"]
  BY DEF Begin
<1>6. /\ writer' \in [Streams -> Writers]
      /\ \A x \in Streams : writer'[x] = "closed" => writer[x] = "closed"
  BY <1>5 DEF StreamInv, BridgeType, Writers
<1>7. TaskType' /\ BridgeType' /\ Order'
  BY <1>2, <1>3, <1>6 DEF StreamInv, TaskType, BridgeType, Order
<1>8. \A x \in Streams : Ends(x)'
  BY <1>2, <1>3, <1>6 DEF StreamInv, Ends, PcKept
<1>9. Hooked'
  <2>1. \A r \in Asks : feeds'[r] # Plain => feeds'[r] \in Queries /\ pc[feeds'[r]] \notin Early
    BY <1>2 DEF StreamInv, TaskType, Hooked
  <2>2. \A r \in Asks : feeds'[r] # Plain => pc'[feeds'[r]] \notin Early
    BY <2>1, <1>3, Sets DEF PcKept
  <2>3. \A x \in Queries : pc'[x] \in Early => queue'[x] = <<>>
    BY <1>2, <1>3, Sets DEF PcKept, StreamInv, Hooked
  <2> QED
    BY <1>2, <1>4, <2>2, <2>3 DEF Hooked
<1> QED
  BY <1>7, <1>8, <1>9 DEF StreamInv

LEMMA AskFirst == ASSUME StreamInv, NEW s \in Queries, Ask(s) PROVE StreamInv'
<1> USE DEF Early, Pcs
<1>1. /\ pc[s] = "new" /\ pc' = [pc EXCEPT ![s] = "asked"]
      /\ delivered' = [delivered EXCEPT ![s] = <<Thought>>]
      /\ sent' = [sent EXCEPT ![s] = <<Thought>>]
      /\ writer' = [writer EXCEPT ![s] = "first"]
      /\ UNCHANGED <<generator, feeds, made, queue, done, sentAtDone>>
  BY DEF Ask, Goto
<1>2. s \in Streams /\ s \in Requests /\ queue[s] = <<>> /\ ~done[s]
  BY <1>1, Sets DEF StreamInv, Hooked, Ends
<1>3. <<Thought>> \in Seq(Event) /\ <<Thought>> \o <<>> = <<Thought>>
  BY Events, ConcatEmptySeq
<1>4. TaskType'
  BY <1>1 DEF StreamInv, TaskType
<1>5. BridgeType'
  BY <1>1, <1>3 DEF StreamInv, BridgeType, Writers
<1>6. Order'
  <2> SUFFICES ASSUME NEW x \in Streams PROVE sent'[x] = delivered'[x] \o queue'[x]
    BY DEF Order
  <2>1. CASE x = s
    BY <2>1, <1>1, <1>2, <1>3 DEF StreamInv, BridgeType
  <2>2. CASE x # s
    BY <2>2, <1>1 DEF StreamInv, BridgeType, Order
  <2> QED
    BY <2>1, <2>2
<1>7. ASSUME NEW x \in Streams PROVE Ends(x)'
  <2>1. CASE x = s
    BY <2>1, <1>1, <1>2 DEF StreamInv, Ends, BridgeType
  <2>2. CASE x # s
    BY <2>2, <1>1, Sets DEF StreamInv, Ends, BridgeType, TaskType
  <2> QED
    BY <2>1, <2>2
<1>8. Hooked'
  <2>1. \A x \in Requests : pc'[x] \in Early <=> pc[x] \in Early
    BY <1>1, <1>2 DEF StreamInv, TaskType
  <2>2. generator # Plain => generator \in Requests
    BY Sets DEF StreamInv, TaskType
  <2>3. \A r \in Asks : feeds[r] # Plain => feeds[r] \in Requests
    BY Sets DEF StreamInv, TaskType
  <2> QED
    BY <1>1, <2>1, <2>2, <2>3, Sets DEF StreamInv, Hooked
<1> QED
  BY <1>4, <1>5, <1>6, <1>7, <1>8 DEF StreamInv

LEMMA UploadStep == ASSUME StreamInv, NEW s \in Ingests, Upload(s) PROVE StreamInv'
<1> USE DEF Early, Pcs
<1>1. pc' \in [Requests -> Pcs] /\ PcKept
  BY Moved, Sets DEF Upload
<1>2. TaskKept
  BY <1>1 DEF Upload, StreamInv, TaskType, TaskKept
<1>3. UNCHANGED <<queue, done, delivered, sent, sentAtDone>>
      /\ writer' = [writer EXCEPT ![s] = "ready"]
  BY DEF Upload
<1>4. /\ writer' \in [Streams -> Writers]
      /\ \A x \in Streams : writer'[x] = "closed" => writer[x] = "closed"
  BY <1>3 DEF StreamInv, BridgeType, Writers
<1>5. BridgeType' /\ Order'
  BY <1>3, <1>4 DEF StreamInv, BridgeType, Order
<1>6. \A x \in Streams : Ends(x)'
  BY <1>1, <1>3, <1>4 DEF StreamInv, Ends, PcKept
<1>7. Hooked'
  BY <1>2, <1>3, HookedKept
<1> QED
  BY <1>2, <1>5, <1>6, <1>7 DEF StreamInv, TaskKept

LEMMA RunStep == ASSUME StreamInv, NEW r \in Plains, Run(r) PROVE StreamInv'
<1> USE DEF Early, Pcs
<1>1. PICK there \in {"retrieving", "researching"} : Goto(r, there)
  BY DEF Run
<1>2. r \in Requests
  BY DEF Requests, Asks
<1>3. pc' \in [Requests -> Pcs] /\ PcKept
  BY <1>1, <1>2, Moved DEF Run
<1>4. TaskKept
  BY <1>3 DEF Run, StreamInv, TaskType, TaskKept
<1> QED
  BY <1>4, QuietStep DEF Run

-----------------------------------------------------------------------------
LEMMA InitInv == StreamInit => StreamInv
<1> SUFFICES ASSUME StreamInit PROVE StreamInv
  OBVIOUS
<1>1. TaskType
  BY DEF StreamInit, TaskType, Pcs
<1>2. <<>> \in Seq(Event) /\ Len(<<>>) = 0 /\ <<>> \o <<>> = <<>>
  BY ConcatEmptySeq, EmptySeq
<1>3. BridgeType /\ Order
  BY <1>2 DEF StreamInit, BridgeType, Order, Writers
<1>4. \A s \in Streams : Ends(s)
  BY DEF StreamInit, Ends
<1>5. Hooked
  BY Sets DEF StreamInit, Hooked
<1> QED
  BY <1>1, <1>3, <1>4, <1>5 DEF StreamInv

LEMMA StepInv == StreamInv /\ [StreamNext]_streamVars => StreamInv'
<1> SUFFICES ASSUME StreamInv, [StreamNext]_streamVars PROVE StreamInv'
  OBVIOUS
<1>1. ASSUME NEW s \in Streams, Upload(s) \/ Ask(s) \/ WriterStep(s) PROVE StreamInv'
  <2>1. CASE Upload(s)
    BY <2>1, UploadStep DEF Upload
  <2>2. CASE Ask(s)
    BY <2>2, AskFirst DEF Ask
  <2>3. CASE Write(s)
    BY <2>3, WriteStep
  <2>4. CASE Park(s) \/ Return(s)
    BY <2>4, ParkStep
  <2>5. CASE s \in Queries /\ Begin(s)
    BY <2>5, BeginStep
  <2> QED
    BY <1>1, <2>1, <2>2, <2>3, <2>4, <2>5 DEF WriterStep
<1>2. ASSUME NEW r \in Plains, Run(r) PROVE StreamInv'
  BY <1>2, RunStep
<1>3. ASSUME NEW r \in Requests, TaskStep(r) PROVE StreamInv'
  BY <1>3, IngestStep, AskStep, EndStep DEF TaskStep
<1>4. CASE Die
  <2>1. CASE Streams = {}
    <3>1. UNCHANGED <<task, queue, done, delivered, sent, sentAtDone>>
      BY <1>4 DEF Die
    <3>2. BridgeType' /\ Order'
      BY <2>1, <3>1, <1>4 DEF StreamInv, BridgeType, Order, Die
    <3> QED
      BY <2>1, <3>1, <3>2, WriterKept
  <2>2. CASE Streams # {}
    BY <1>4, <2>2, ParkStep
  <2> QED
    BY <2>1, <2>2
<1>5. CASE UNCHANGED streamVars
  <2>1. TaskKept
    BY <1>5 DEF streamVars, task, StreamInv, TaskType, TaskKept, PcKept, Ends
  <2> QED
    BY <1>5, <2>1, QuietStep DEF streamVars
<1> QED
  BY <1>1, <1>2, <1>3, <1>4, <1>5 DEF StreamNext

LEMMA InvImplies == StreamInv => ClosedSawAll
<1> SUFFICES ASSUME StreamInv, NEW s \in Streams
             PROVE  /\ IsPrefix(delivered[s], sent[s])
                    /\ writer[s] = "closed" => Len(delivered[s]) >= sentAtDone[s]
  BY DEF ClosedSawAll
<1>1. /\ delivered[s] \in Seq(Event) /\ queue[s] \in Seq(Event)
      /\ sent[s] = delivered[s] \o queue[s] /\ sentAtDone[s] \in Nat
  BY DEF StreamInv, BridgeType, Order
<1>2. IsPrefix(delivered[s], delivered[s] \o queue[s])
  BY <1>1, PrefixOfConcat
<1>3. Len(delivered[s]) \in Nat
  BY <1>1, LenProperties
<1> QED
  BY <1>1, <1>2, <1>3 DEF StreamInv, Ends

\* The bridge (documents.ts:204-263, orchestrator.ts:122-184): whatever is
\* pushed reaches the client once and in order, and a stream that ended had
\* delivered all that was pushed before its task did.
THEOREM ClosedSawAllCorrect == StreamSpec => []ClosedSawAll
  BY InitInv, StepInv, InvImplies, PTL DEF StreamSpec

-----------------------------------------------------------------------------
(* What a query streams that has the orchestrator for itself.              *)

Chunks(s, n) == [i \in 1 .. n |-> Chunk(s, i)]
WholeOf(s) == <<Thought>> \o Chunks(s, made[s])

\* Before its hook is installed a stream has its first thought and no more.
BeginsEmpty(s) ==
  /\ pc[s] \in Early => made[s] = 0 /\ writer[s] \in {"off", "first", "cut"}
  /\ pc[s] = "asked" => sent[s] = <<Thought>>

\* A query that is alone is the only one that uses the orchestrator: the hook in
\* the registry is its own, and what it has generated is what it has pushed.
HasItself(s) ==
  alone[s] /\ s \in Using =>
    /\ Using = {s} /\ generator = s
    /\ pc[s] = "generating" => feeds[s] = s
    /\ pc[s] # "failed" => sent[s] = WholeOf(s)

EndsWhole(s) ==
  alone[s] /\ writer[s] = "closed" /\ pc[s] = "over" => delivered[s] = WholeOf(s)

WholeInv(s) == BeginsEmpty(s) /\ HasItself(s) /\ EndsWhole(s)

AloneInv == \A s \in Queries : WholeInv(s)

Active == {"retrieving", "generating", "researching", "ended"}
Live == {"ready", "parked"}

\* A step that leaves a query as it is.
Same(s) ==
  /\ pc'[s] = pc[s] /\ made'[s] = made[s] /\ feeds'[s] = feeds[s] /\ alone' = alone
  /\ generator' = generator
  /\ Using' \subseteq Using
  /\ pc[s] = "asked" \/ (alone[s] /\ s \in Using) => sent'[s] = sent[s]
  /\ writer'[s] \in {writer[s], "cut"} \/ (writer[s] \in Live /\ writer'[s] \in Live)
  /\ writer[s] = "closed" => delivered'[s] = delivered[s]

LEMMA Kept == ASSUME NEW s \in Queries, WholeInv(s), Same(s) PROVE WholeInv(s)'
<1>1. BeginsEmpty(s)'
  BY DEF WholeInv, Same, BeginsEmpty, Early, Live
<1>2. WholeOf(s)' = WholeOf(s)
  BY DEF Same, WholeOf
<1>3. HasItself(s)'
  <2> SUFFICES ASSUME alone'[s], s \in Using'
               PROVE  /\ Using' = {s} /\ generator' = s
                      /\ pc'[s] = "generating" => feeds'[s] = s
                      /\ pc'[s] # "failed" => sent'[s] = WholeOf(s)'
    BY DEF HasItself
  <2>1. alone[s] /\ s \in Using
    BY DEF Same
  <2>2. /\ Using = {s} /\ generator = s
        /\ pc[s] = "generating" => feeds[s] = s
        /\ pc[s] # "failed" => sent[s] = WholeOf(s)
    BY <2>1 DEF WholeInv, HasItself
  <2> QED
    BY <1>2, <2>1, <2>2 DEF Same
<1>4. EndsWhole(s)'
  BY <1>2 DEF WholeInv, Same, EndsWhole, Live
<1> QED
  BY <1>1, <1>3, <1>4 DEF WholeInv

LEMMA UsingKept ==
  ASSUME \A x \in Asks : pc'[x] \in Active => pc[x] \in Active,
         \A x \in Queries : writer'[x] \in Live => writer[x] \in Live
  PROVE  Using' \subseteq Using
BY DEF Using, Active, Live

LEMMA WokenKept ==
  ASSUME BridgeType, NEW s \in Streams, NEW x \in Streams
  PROVE  /\ Woken(s)[x] = writer[x] \/ (writer[x] \in Live /\ Woken(s)[x] \in Live)
         /\ Woken(s)[x] \in Live => writer[x] \in Live
<1>1. CASE x = s
  BY <1>1 DEF BridgeType, Woken, Live
<1>2. CASE x # s
  BY <1>2 DEF BridgeType, Woken
<1> QED
  BY <1>1, <1>2

\* The first thought, and then one chunk more.
LEMMA NoChunks ==
  ASSUME NEW s \in Queries, made[s] = 0
  PROVE  WholeOf(s) = <<Thought>>
<1>1. Chunks(s, 0) = <<>>
  BY EmptySeq DEF Chunks
<1>2. <<Thought>> \in Seq(Event) /\ <<Thought>> \o <<>> = <<Thought>>
  BY Events, ConcatEmptySeq
<1> QED
  BY <1>1, <1>2 DEF WholeOf

LEMMA OneChunk ==
  ASSUME NEW s \in Queries, NEW n \in Nat
  PROVE  /\ Chunks(s, n) \in Seq(Event)
         /\ Chunks(s, n + 1) = Chunks(s, n) \o <<Chunk(s, n + 1)>>
<1>1. \A i \in Nat : Chunk(s, i) \in Event
  BY Sets DEF Event
<1>2. /\ Chunks(s, n) \in Seq(Event) /\ Len(Chunks(s, n)) = n
      /\ \A i \in 1 .. n : Chunks(s, n)[i] = Chunk(s, i)
  BY <1>1 DEF Chunks
<1>3. /\ Chunks(s, n + 1) \in Seq(Event) /\ Len(Chunks(s, n + 1)) = n + 1
      /\ \A i \in 1 .. n + 1 : Chunks(s, n + 1)[i] = Chunk(s, i)
  BY <1>1 DEF Chunks
<1> DEFINE c == Chunks(s, n)
           one == <<Chunk(s, n + 1)>>
<1>4. one \in Seq(Event) /\ Len(one) = 1 /\ one[1] = Chunk(s, n + 1)
  BY <1>1
<1>5. /\ c \o one \in Seq(Event) /\ Len(c \o one) = n + 1
      /\ \A i \in 1 .. n + 1 : (c \o one)[i] = IF i <= n THEN c[i] ELSE one[i - n]
  BY <1>2, <1>4, ConcatProperties
<1>6. ASSUME NEW i \in 1 .. n + 1 PROVE Chunks(s, n + 1)[i] = (c \o one)[i]
  <2>1. CASE i <= n
    BY <2>1, <1>2, <1>3, <1>5
  <2>2. CASE ~(i <= n)
    BY <2>2, <1>3, <1>4, <1>5
  <2> QED
    BY <2>1, <2>2
<1> HIDE DEF c, one
<1>7. Chunks(s, n + 1) = c \o one
  BY <1>3, <1>5, <1>6, SeqEqual
<1> QED
  BY <1>2, <1>7 DEF c, one

-----------------------------------------------------------------------------
(* The steps of other tasks and of the writers. *)

\* The bridge of another stream moves.
Beside(a, s) ==
  /\ \A x \in Streams : x # a => sent'[x] = sent[x]
  /\ UNCHANGED delivered
  /\ writer' = Woken(a) \/ UNCHANGED writer

LEMMA BesideStep ==
  ASSUME StreamInv, AloneInv, NEW s \in Queries, NEW a \in Streams, a # s, Beside(a, s),
         pc'[s] = pc[s], made'[s] = made[s], feeds'[s] = feeds[s],
         UNCHANGED <<generator, alone>>,
         \A x \in Asks : pc'[x] \in Active => pc[x] \in Active
  PROVE  WholeInv(s)'
<1>1. BridgeType /\ WholeInv(s) /\ s \in Streams
  BY Sets DEF StreamInv, AloneInv
<1>2. \A x \in Streams : writer'[x] \in Live => writer[x] \in Live
  BY <1>1, WokenKept DEF Beside
<1>3. writer'[s] = writer[s] \/ (writer[s] \in Live /\ writer'[s] \in Live)
  BY <1>1, WokenKept DEF Beside
<1>4. Using' \subseteq Using
  BY <1>2, Sets, UsingKept
<1>5. Same(s)
  BY <1>1, <1>3, <1>4 DEF Same, Beside
<1> QED
  BY <1>1, <1>5, Kept

LEMMA AloneIngest ==
  ASSUME StreamInv, AloneInv, NEW a \in Ingests, NEW s \in Queries,
         \/ Imported(a) \/ Parsed(a) \/ Embedded(a) \/ Stored(a) \/ IngestFails(a)
         \/ Upload(a)
  PROVE  WholeInv(s)'
<1>1. a # s /\ a \in Streams /\ a \notin Asks /\ s \in Requests /\ s \in Asks
  BY Sets, KindsAreDisjoint DEF Asks
<1>2. UNCHANGED <<generator, feeds, alone>> /\ \A x \in Asks : pc'[x] = pc[x]
  BY <1>1, Sets DEF Imported, Parsed, Embedded, Stored, IngestFails, Upload, Cut, Goto, StreamInv, TaskType
<1>3. made'[s] = made[s]
  BY <1>1 DEF Imported, Parsed, Embedded, Stored, IngestFails, Upload, StreamInv, TaskType
<1>4. CASE ~Upload(a)
  <2>1. PICK events : Push(a, events)
    BY <1>4 DEF Imported, Parsed, Embedded, Stored, IngestFails, Cut
  <2>2. Beside(a, s)
    BY <2>1 DEF Push, Beside, StreamInv, BridgeType
  <2> QED
    BY <1>1, <1>2, <1>3, <2>2, BesideStep
<1>5. CASE Upload(a)
  <2>1. WholeInv(s) /\ s \in Streams
    BY Sets DEF AloneInv
  <2>2. \A x \in Queries : writer'[x] = writer[x]
    BY <1>5, Sets, KindsAreDisjoint DEF Upload, StreamInv, BridgeType
  <2>3. Using' \subseteq Using
    BY <1>2, <2>2, UsingKept
  <2>4. UNCHANGED <<sent, delivered>>
    BY <1>5 DEF Upload
  <2>5. Same(s)
    BY <1>2, <1>3, <1>1, <2>2, <2>3, <2>4 DEF Same
  <2> QED
    BY <2>1, <2>5, Kept
<1> QED
  BY <1>4, <1>5

LEMMA WriterMoves ==
  ASSUME StreamInv, AloneInv, NEW s \in Queries, UNCHANGED <<task, sent, alone>>,
         \A x \in Queries : writer'[x] \in Live => writer[x] \in Live,
         writer'[s] \in {writer[s], "cut"} \/ (writer[s] \in Live /\ writer'[s] \in Live),
         writer[s] = "closed" => delivered'[s] = delivered[s]
  PROVE  WholeInv(s)'
<1>1. Using' \subseteq Using
  BY UsingKept DEF task
<1>2. Same(s)
  BY <1>1 DEF Same, task
<1> QED
  BY <1>2, Kept DEF AloneInv

LEMMA AloneWriter ==
  ASSUME StreamInv, AloneInv, NEW a \in Streams, NEW s \in Queries,
         Write(a) \/ Park(a) \/ Die
  PROVE  WholeInv(s)'
<1>1. s \in Streams /\ BridgeType
  BY Sets DEF StreamInv
<1>2. UNCHANGED <<task, sent, alone>>
  BY DEF Write, Park, Die
<1>3. \A x \in Streams : writer'[x] \in Live => writer[x] \in Live
  BY <1>1 DEF Write, Park, Die, Live, BridgeType
<1>4. writer'[s] \in {writer[s], "cut"} \/ (writer[s] \in Live /\ writer'[s] \in Live)
  BY <1>1 DEF Write, Park, Die, Live, BridgeType
<1>5. writer[s] = "closed" => delivered'[s] = delivered[s]
  BY <1>1 DEF Write, Park, Die, BridgeType
<1> QED
  BY <1>2, <1>3, <1>4, <1>5, Sets, WriterMoves

\* The writer returns when its queue is empty: all that was pushed is delivered.
LEMMA AloneReturn ==
  ASSUME StreamInv, AloneInv, NEW a \in Streams, NEW s \in Queries, Return(a)
  PROVE  WholeInv(s)'
<1>1. s \in Streams /\ BridgeType /\ WholeInv(s) /\ Ends(a)
  BY Sets DEF StreamInv, AloneInv
<1>2. UNCHANGED <<task, sent, alone, queue, done, delivered>>
  BY DEF Return
<1>3. /\ writer' = [writer EXCEPT ![a] = "closed"]
      /\ writer[a] = "ready" /\ done[a] /\ queue[a] = <<>>
  BY DEF Return
<1>4. \A x \in Streams : writer'[x] \in Live => writer[x] \in Live
  BY <1>1, <1>3 DEF Live, BridgeType
<1>5. CASE s # a
  <2>1. writer'[s] = writer[s]
    BY <1>3, <1>5
  <2> QED
    BY <1>2, <1>4, <2>1, Sets, WriterMoves
<1>6. CASE s = a
  <2>1. writer'[s] = "closed" /\ pc[s] \in {"over", "failed"}
    BY <1>1, <1>3, <1>6 DEF BridgeType, Ends
  <2>2. s \in Using
    BY <1>3, <1>6, Sets DEF Using
  <2>3. s \notin Using'
    BY <1>2, <2>1 DEF Using, task
  <2>4. BeginsEmpty(s)'
    BY <1>2, <2>1 DEF BeginsEmpty, task, Early
  <2>5. EndsWhole(s)'
    <3> SUFFICES ASSUME alone[s], pc[s] = "over"
                 PROVE  delivered[s] = WholeOf(s)
      BY <1>2 DEF EndsWhole, WholeOf, task
    <3>1. sent[s] = WholeOf(s)
      BY <1>1, <2>2 DEF WholeInv, HasItself
    <3>2. delivered[s] \in Seq(Event) /\ sent[s] = delivered[s] \o <<>>
      BY <1>1, <1>3, <1>6 DEF BridgeType, StreamInv, Order
    <3>3. sent[s] = delivered[s]
      BY <3>2, ConcatEmptySeq
    <3> QED
      BY <3>1, <3>3
  <2> QED
    BY <2>3, <2>4, <2>5 DEF WholeInv, HasItself
<1> QED
  BY <1>5, <1>6

-----------------------------------------------------------------------------
(* The steps of queries.                                                   *)

\* Whoever comes while another uses the orchestrator, neither is alone.
LEMMA JoinStep ==
  ASSUME StreamInv, AloneInv, NEW a \in Asks, NEW s \in Queries, s # a, Joins(a),
         \A x \in Asks : x # a => pc'[x] = pc[x],
         UNCHANGED <<made, sent, delivered>>,
         \A x \in Streams : x # a => writer'[x] = writer[x]
  PROVE  WholeInv(s)'
<1>1. WholeInv(s) /\ s \in Streams /\ s \in Asks
  BY Sets DEF AloneInv
<1>2. pc'[s] = pc[s] /\ writer'[s] = writer[s]
  BY <1>1
<1>3. s \in Using' => s \in Using
  BY <1>1, <1>2 DEF Using
<1>4. alone'[s] => alone[s] /\ ~(s \in Using)
  BY <1>1 DEF Joins
<1>5. BeginsEmpty(s)'
  BY <1>1, <1>2 DEF WholeInv, BeginsEmpty
<1>6. HasItself(s)'
  BY <1>3, <1>4 DEF HasItself
<1>7. EndsWhole(s)'
  BY <1>1, <1>2, <1>4 DEF WholeInv, EndsWhole, WholeOf
<1> QED
  BY <1>5, <1>6, <1>7 DEF WholeInv

LEMMA AloneJoins ==
  ASSUME StreamInv, AloneInv, NEW a \in Asks, NEW s \in Queries,
         (a \in Queries /\ Begin(a)) \/ (a \in Plains /\ Run(a))
  PROVE  WholeInv(s)'
<1>1. s \in Streams /\ s \in Asks /\ s \in Requests /\ WholeInv(s) /\ s \notin Plains
  BY Sets, KindsAreDisjoint DEF AloneInv
<1>2. /\ Joins(a) /\ UNCHANGED <<made, sent, delivered, feeds>>
      /\ \E there \in {"retrieving", "researching"} : Goto(a, there)
  BY DEF Begin, Run, bridge
<1>3. \A x \in Asks : x # a => pc'[x] = pc[x]
  BY <1>2, Sets DEF Goto, StreamInv, TaskType
<1>4. \A x \in Streams : x # a => writer'[x] = writer[x]
  BY DEF Begin, Run, bridge, StreamInv, BridgeType
<1>5. CASE s # a
  BY <1>2, <1>3, <1>4, <1>5, JoinStep
<1>6. CASE s = a
  <2>1. /\ pc[s] = "asked" /\ generator' = s /\ pc'[s] \in {"retrieving", "researching"}
        /\ writer'[s] = "ready"
    BY <1>1, <1>6 DEF Begin, Install, Goto, StreamInv, TaskType, BridgeType
  <2>2. made[s] = 0 /\ sent[s] = <<Thought>>
    BY <1>1, <2>1 DEF WholeInv, BeginsEmpty, Early
  <2>3. sent'[s] = WholeOf(s)'
    BY <1>2, <2>2, NoChunks DEF WholeOf
  <2>4. alone'[s] => Using = {}
    BY <1>1, <1>2, <1>6 DEF Joins
  <2>5. Using' \subseteq Using \cup {s}
    BY <1>3, <1>4, <1>6, Sets DEF Using
  <2>6. s \in Using'
    BY <1>1, <2>1 DEF Using
  <2>7. alone'[s] => Using' = {s}
    BY <2>4, <2>5, <2>6
  <2>8. BeginsEmpty(s)' /\ EndsWhole(s)'
    BY <2>1 DEF BeginsEmpty, EndsWhole, Early
  <2>9. HasItself(s)'
    BY <2>1, <2>3, <2>7 DEF HasItself
  <2> QED
    BY <2>8, <2>9 DEF WholeInv
<1> QED
  BY <1>5, <1>6

LEMMA AloneAsk ==
  ASSUME StreamInv, AloneInv, NEW a \in Queries, NEW s \in Queries, Ask(a)
  PROVE  WholeInv(s)'
<1>1. s \in Streams /\ s \in Asks /\ s \in Requests /\ WholeInv(s) /\ WholeInv(a) /\ a \in Streams
  BY Sets DEF AloneInv
<1>2. /\ pc[a] = "new" /\ pc' = [pc EXCEPT ![a] = "asked"]
      /\ delivered' = [delivered EXCEPT ![a] = <<Thought>>]
      /\ sent' = [sent EXCEPT ![a] = <<Thought>>]
      /\ writer' = [writer EXCEPT ![a] = "first"]
      /\ UNCHANGED <<generator, feeds, made, alone>>
  BY DEF Ask, Goto
<1>3. writer[a] # "closed" /\ made[a] = 0
  BY <1>1, <1>2 DEF WholeInv, BeginsEmpty, Early
<1>4. Using' \subseteq Using
  <2>1. \A x \in Asks : pc'[x] \in Active => pc[x] \in Active
    BY <1>2, Sets DEF StreamInv, TaskType, Active
  <2>2. \A x \in Queries : writer'[x] \in Live => writer[x] \in Live
    BY <1>2, Sets DEF StreamInv, BridgeType, Live
  <2> QED
    BY <2>1, <2>2, UsingKept
<1>5. CASE s # a
  <2>1. Same(s)
    BY <1>1, <1>2, <1>4, <1>5 DEF Same, StreamInv, TaskType, BridgeType
  <2> QED
    BY <1>1, <2>1, Kept
<1>6. CASE s = a
  <2>1. /\ pc'[s] = "asked" /\ sent'[s] = <<Thought>> /\ writer'[s] = "first"
        /\ made'[s] = 0
    BY <1>1, <1>2, <1>3, <1>6 DEF StreamInv, TaskType, BridgeType
  <2>2. s \notin Using'
    BY <2>1 DEF Using
  <2> QED
    BY <2>1, <2>2 DEF WholeInv, BeginsEmpty, HasItself, EndsWhole, Early
<1> QED
  BY <1>5, <1>6

\* A task that goes on without touching a bridge.
LEMMA AloneGoesOn ==
  ASSUME StreamInv, AloneInv, NEW a \in Asks, NEW s \in Queries,
         Retrieved(a) \/ Generated(a) \/ Answer(a)
  PROVE  WholeInv(s)'
<1>1. s \in Streams /\ s \in Asks /\ s \in Requests /\ WholeInv(s) /\ s \notin Plains
  BY Sets, KindsAreDisjoint DEF AloneInv
<1>2. UNCHANGED <<bridge, generator, made, alone>> /\ pc[a] \in Active
  BY DEF Retrieved, Generated, Answer, Active
<1>3. PICK there \in {"generating", "ended", "over"} : Goto(a, there)
  BY DEF Retrieved, Generated, Answer
<1>4. Using' \subseteq Using
  <2>1. \A x \in Asks : pc'[x] \in Active => pc[x] \in Active
    BY <1>2, <1>3, Sets DEF Goto, StreamInv, TaskType
  <2> QED
    BY <1>2, <2>1, UsingKept DEF bridge
<1>5. CASE s # a
  <2>1. pc'[s] = pc[s] /\ feeds'[s] = feeds[s]
    BY <1>1, <1>3, <1>5 DEF Goto, Retrieved, Generated, Answer, StreamInv, TaskType
  <2>2. Same(s)
    BY <1>2, <1>4, <2>1 DEF Same, bridge
  <2> QED
    BY <1>1, <2>2, Kept
<1>6. CASE s = a
  <2>1. ~Answer(a)
    BY <1>1, <1>6 DEF Answer
  <2>2. pc'[s] \in {"generating", "ended"}
    BY <1>1, <1>6, <2>1 DEF Retrieved, Generated, Goto, StreamInv, TaskType
  <2>3. pc'[s] = "generating" => feeds'[s] = generator
    BY <1>1, <1>6, <2>1, <2>2 DEF Retrieved, Generated, Goto, StreamInv, TaskType
  <2>4. s \in Using /\ pc[s] # "failed"
    BY <1>1, <1>2, <1>6 DEF Using, Active
  <2>5. alone'[s] => Using' = {s} /\ generator' = s /\ sent'[s] = WholeOf(s)'
    <3>1. s \in Using'
      BY <1>1, <2>2 DEF Using
    <3> QED
      BY <1>1, <1>2, <1>4, <2>4, <3>1 DEF WholeInv, HasItself, bridge, WholeOf
  <2>6. BeginsEmpty(s)' /\ EndsWhole(s)'
    BY <2>2 DEF BeginsEmpty, EndsWhole, Early
  <2>7. HasItself(s)'
    BY <1>2, <2>3, <2>5 DEF HasItself
  <2> QED
    BY <2>6, <2>7 DEF WholeInv
<1> QED
  BY <1>5, <1>6

\* A chunk goes to the stream whose hook the task has: to that of a query that is
\* alone only from its own task.
LEMMA AloneDelta ==
  ASSUME StreamInv, AloneInv, NEW a \in Asks, NEW s \in Queries, Delta(a)
  PROVE  WholeInv(s)'
<1>1. s \in Streams /\ s \in Asks /\ s \in Requests /\ WholeInv(s) /\ BridgeType /\ TaskType
  BY Sets DEF AloneInv, StreamInv
<1>2. UNCHANGED <<pc, generator, feeds, alone, delivered>> /\ pc[a] = "generating"
  BY DEF Delta, bridge, Push
<1>3. /\ \A x \in Queries : writer'[x] \in Live => writer[x] \in Live
      /\ writer'[s] = writer[s] \/ (writer[s] \in Live /\ writer'[s] \in Live)
  <2>1. CASE feeds[a] = Plain
    BY <2>1 DEF Delta, bridge
  <2>2. CASE feeds[a] # Plain
    <3>1. feeds[a] \in Streams /\ writer' = Woken(feeds[a])
      BY <1>1, <2>2, Sets DEF Delta, Push, TaskType
    <3> QED
      BY <1>1, <3>1, Sets, WokenKept
  <2> QED
    BY <2>1, <2>2
<1>4. Using' \subseteq Using
  BY <1>2, <1>3, UsingKept
<1>5. a \in Using
  BY <1>2 DEF Using
<1>6. CASE s # a
  <2>1. made'[s] = made[s]
    BY <1>1, <1>6 DEF Delta, TaskType
  <2>2. ~(alone[s] /\ s \in Using)
    BY <1>1, <1>5, <1>6 DEF WholeInv, HasItself
  <2>3. pc[s] = "asked" => sent'[s] = sent[s]
    <3> SUFFICES ASSUME pc[s] = "asked" PROVE sent'[s] = sent[s]
      OBVIOUS
    <3>1. feeds[a] # s
      <4>1. s # Plain
        BY KindsAreDisjoint
      <4> QED
        BY <4>1 DEF StreamInv, Hooked, Early
    <3> QED
      BY <1>1, <3>1 DEF Delta, bridge, Push, BridgeType
  <2>4. Same(s)
    BY <1>2, <1>3, <1>4, <2>1, <2>2, <2>3 DEF Same
  <2> QED
    BY <1>1, <2>4, Kept
<1>7. CASE s = a
  <2>1. BeginsEmpty(s)' /\ EndsWhole(s)'
    BY <1>2, <1>7 DEF BeginsEmpty, EndsWhole, Early
  <2>2. HasItself(s)'
    <3> SUFFICES ASSUME alone[s]
                 PROVE  /\ Using' = {s} /\ generator' = s /\ feeds'[s] = s
                        /\ sent'[s] = WholeOf(s)'
      BY <1>2 DEF HasItself
    <3>1. /\ Using = {s} /\ generator = s /\ feeds[s] = s /\ sent[s] = WholeOf(s)
      BY <1>1, <1>2, <1>5, <1>7 DEF WholeInv, HasItself
    <3>2. s \in Using'
      BY <1>1, <1>2, <1>7 DEF Using
    <3>3. made'[s] = made[s] + 1 /\ made[s] \in Nat
      BY <1>1, <1>7 DEF Delta, TaskType
    <3>4. sent'[s] = WholeOf(s) \o <<Chunk(s, made[s] + 1)>>
      <4>1. s # Plain
        BY KindsAreDisjoint
      <4>2. Push(s, <<Chunk(s, made'[s])>>)
        BY <1>7, <3>1, <4>1 DEF Delta
      <4> QED
        BY <1>1, <3>1, <3>3, <4>2 DEF Push, BridgeType
    <3>5. WholeOf(s) \o <<Chunk(s, made[s] + 1)>> = WholeOf(s)'
      <4> DEFINE c == Chunks(s, made[s])
                 one == <<Chunk(s, made[s] + 1)>>
                 first == <<Thought>>
      <4>1. c \in Seq(Event) /\ Chunks(s, made[s] + 1) = c \o one
        BY <3>3, OneChunk
      <4>2. one \in Seq(Event) /\ first \in Seq(Event)
        BY <1>1, <3>3, Events
      <4>3. WholeOf(s) = first \o c
        BY DEF WholeOf
      <4>4. WholeOf(s)' = first \o Chunks(s, made[s] + 1)
        BY <3>3 DEF WholeOf
      <4> HIDE DEF c, one, first
      <4>5. (first \o c) \o one = first \o (c \o one)
        BY <4>1, <4>2, ConcatAssociative
      <4>6. WholeOf(s) \o one = WholeOf(s)'
        BY <4>1, <4>3, <4>4, <4>5
      <4> QED
        BY <4>6 DEF one
    <3> QED
      BY <1>2, <1>4, <3>1, <3>2, <3>4, <3>5
  <2> QED
    BY <2>1, <2>2 DEF WholeInv
<1> QED
  BY <1>6, <1>7

\* The end of a task, with or without an error.
LEMMA AloneDone ==
  ASSUME StreamInv, AloneInv, NEW a \in Streams, NEW s \in Queries, NEW events \in Seq(Event),
         NEW there \in {"over", "failed"}, SetDone(a, events), Goto(a, there),
         pc[a] \in Active, there = "over" => events = <<>>,
         UNCHANGED <<generator, feeds, made, alone>>
  PROVE  WholeInv(s)'
<1>1. /\ s \in Streams /\ s \in Asks /\ s \in Requests /\ a \in Requests
      /\ WholeInv(s) /\ BridgeType /\ TaskType
  BY Sets DEF AloneInv, StreamInv
<1>2. \A x \in Asks : pc'[x] \in Active => pc[x] \in Active
  BY <1>1, Sets DEF Goto, TaskType, Active
<1>3. CASE s # a
  <2>1. pc'[s] = pc[s]
    BY <1>1, <1>3 DEF Goto, TaskType
  <2>2. Beside(a, s)
    BY <1>1 DEF SetDone, Beside, BridgeType
  <2> QED
    BY <1>2, <1>3, <2>1, <2>2, BesideStep
<1>4. CASE s = a
  <2>1. pc'[s] = there
    BY <1>1, <1>4 DEF Goto, TaskType
  <2>2. writer[s] # "closed"
    BY <1>1, <1>4 DEF StreamInv, Ends, Active
  <2>3. writer'[s] # "closed"
    BY <1>1, <1>4, <2>2, WokenType DEF SetDone
  <2>4. Using' \subseteq Using
    <3>1. \A x \in Queries : writer'[x] \in Live => writer[x] \in Live
      BY <1>1, Sets, WokenKept DEF SetDone
    <3> QED
      BY <1>2, <3>1, UsingKept
  <2>5. s \in Using /\ pc[s] # "failed"
    BY <1>1, <1>4 DEF Using, Active
  <2>6. there = "over" => sent'[s] = sent[s]
    <3>1. sent[s] \in Seq(Event) /\ sent'[s] = sent[s] \o events
      BY <1>1, <1>4 DEF SetDone, BridgeType
    <3> QED
      BY <3>1, ConcatEmptySeq
  <2>7. BeginsEmpty(s)' /\ EndsWhole(s)'
    BY <2>1, <2>3 DEF BeginsEmpty, EndsWhole, Early
  <2>8. HasItself(s)'
    <3>1. alone[s] => Using = {s} /\ generator = s /\ sent[s] = WholeOf(s)
      BY <1>1, <2>5 DEF WholeInv, HasItself
    <3>2. WholeOf(s)' = WholeOf(s)
      BY DEF WholeOf
    <3> QED
      BY <2>1, <2>4, <2>6, <3>1, <3>2 DEF HasItself
  <2> QED
    BY <2>7, <2>8 DEF WholeInv
<1> QED
  BY <1>3, <1>4

LEMMA AloneFails ==
  ASSUME StreamInv, AloneInv, NEW a \in Asks, NEW s \in Queries, GenerationFails(a)
  PROVE  WholeInv(s)'
<1>1. /\ Goto(a, "failed") /\ pc[a] \in Active
      /\ UNCHANGED <<generator, feeds, made, alone>>
  BY DEF GenerationFails, Active
<1>2. CASE a \in Queries
  <2>1. SetDone(a, <<Final>>) /\ <<Final>> \in Seq(Event) /\ a \in Streams
    BY <1>2, Events, Sets DEF GenerationFails
  <2> QED
    BY <1>1, <2>1, AloneDone
<1>3. CASE a \notin Queries
  <2>1. UNCHANGED bridge
    BY <1>3 DEF GenerationFails
  <2>2. \A x \in Asks : pc'[x] \in Active => pc[x] \in Active
    BY <1>1, Sets DEF Goto, StreamInv, TaskType, Active
  <2>3. Using' \subseteq Using
    BY <2>1, <2>2, UsingKept DEF bridge
  <2>4. pc'[s] = pc[s]
    BY <1>1, <1>3, Sets DEF Goto, StreamInv, TaskType
  <2>5. Same(s)
    BY <1>1, <2>1, <2>3, <2>4 DEF Same, bridge
  <2> QED
    BY <2>5, Kept DEF AloneInv
<1> QED
  BY <1>2, <1>3

-----------------------------------------------------------------------------
LEMMA InitAlone == StreamInit => AloneInv
<1> SUFFICES ASSUME StreamInit, NEW s \in Queries PROVE WholeInv(s)
  BY DEF AloneInv
<1>1. s \in Streams /\ s \in Asks /\ s \in Requests
  BY Sets
<1>2. pc[s] \in {"new", "never"} /\ writer[s] = "off" /\ made[s] = 0
  BY <1>1 DEF StreamInit
<1>3. s \notin Using
  BY <1>2 DEF Using
<1> QED
  BY <1>2, <1>3 DEF WholeInv, BeginsEmpty, HasItself, EndsWhole

LEMMA StepAlone == StreamInv /\ AloneInv /\ [StreamNext]_streamVars => AloneInv'
<1> SUFFICES ASSUME StreamInv, AloneInv, [StreamNext]_streamVars, NEW s \in Queries
             PROVE  WholeInv(s)'
  BY DEF AloneInv
<1>1. ASSUME NEW a \in Streams, Upload(a) \/ Ask(a) \/ WriterStep(a) PROVE WholeInv(s)'
  <2>1. CASE Upload(a)
    BY <2>1, AloneIngest DEF Upload
  <2>2. CASE Ask(a)
    BY <2>2, AloneAsk DEF Ask
  <2>3. CASE Write(a) \/ Park(a)
    BY <2>3, AloneWriter
  <2>4. CASE Return(a)
    BY <2>4, AloneReturn
  <2>5. CASE a \in Queries /\ Begin(a)
    BY <2>5, AloneJoins, Sets
  <2> QED
    BY <1>1, <2>1, <2>2, <2>3, <2>4, <2>5 DEF WriterStep
<1>2. ASSUME NEW a \in Plains, Run(a) PROVE WholeInv(s)'
  BY <1>2, AloneJoins DEF Asks
<1>3. ASSUME NEW a \in Requests, TaskStep(a) PROVE WholeInv(s)'
  <2>1. CASE a \in Ingests /\ ~End(a)
    <3>1. a \notin Asks
      BY <2>1, KindsAreDisjoint DEF Asks
    <3> QED
      BY <1>3, <2>1, <3>1, AloneIngest DEF TaskStep
  <2>2. CASE a \in Asks /\ ~End(a)
    <3>1. a \notin Ingests
      BY <2>2, KindsAreDisjoint DEF Asks
    <3> QED
      BY <1>3, <2>2, <3>1, AloneGoesOn, AloneDelta, AloneFails DEF TaskStep
  <2>3. CASE End(a)
    <3>1. <<>> \in Seq(Event)
      OBVIOUS
    <3>2. /\ a \in Streams /\ SetDone(a, <<>>) /\ Goto(a, "over") /\ pc[a] \in Active
          /\ UNCHANGED <<generator, feeds, made, alone>>
      BY <2>3 DEF End, Active
    <3> QED
      BY <3>1, <3>2, AloneDone
  <2> QED
    BY <1>3, <2>1, <2>2, <2>3 DEF TaskStep
<1>4. CASE Die
  BY <1>4, AloneWriter, Sets
<1>5. CASE UNCHANGED streamVars
  <2>1. Using' \subseteq Using
    BY <1>5, UsingKept DEF streamVars, task, bridge
  <2>2. Same(s)
    BY <1>5, <2>1 DEF Same, streamVars, task, bridge
  <2> QED
    BY <2>2, Kept DEF AloneInv
<1> QED
  BY <1>1, <1>2, <1>3, <1>4, <1>5 DEF StreamNext

LEMMA AloneImplies == AloneInv => AloneIsWhole
BY DEF AloneInv, WholeInv, EndsWhole, WholeOf, Chunks, AloneIsWhole

\* A query that no other overlapped (orchestrator.ts:85-184, query-pipeline.ts)
\* streams its whole answer and nothing else: the hook it installs replaces any
\* that an earlier stream left in the registry.
THEOREM AloneIsWholeCorrect == StreamSpec => []AloneIsWhole
<1>1. StreamInit => StreamInv /\ AloneInv
  BY InitInv, InitAlone
<1>2. StreamInv /\ AloneInv /\ [StreamNext]_streamVars => (StreamInv /\ AloneInv)'
  BY StepInv, StepAlone
<1>3. StreamInv /\ AloneInv => AloneIsWhole
  BY AloneImplies
<1> QED
  BY <1>1, <1>2, <1>3, PTL DEF StreamSpec

\* Both bridges (server/streaming.ts, documents.ts) hand on what was pushed, and a lone
\* question is answered in full.
THEOREM StreamsAreWholeCorrect == StreamSpec => []StreamsAreWhole
  BY ClosedSawAllCorrect, AloneIsWholeCorrect, PTL DEF StreamsAreWhole

-----------------------------------------------------------------------------
(* WebChat.  What text there is plays no part here.                        *)

USE ChatAssumption

ChatTyped ==
  /\ chatAt \in {"open", "left"} /\ streaming \in BOOLEAN
  /\ asked \in 0 .. MaxQuestions /\ controller \in 0 .. MaxQuestions
  /\ start \in [Questions -> {"none", "fetching", "reading", "over"}]
  /\ aborted \in [Questions -> BOOLEAN]

OnItsWay(q) == start[q] \in {"fetching", "reading"}

\* Only the last question can be on its way, the page streams while it is, and as
\* long as the page is there its controller is at hand or was used.
ChatInv ==
  /\ \A q \in Questions : start[q] # "none" => q <= asked
  /\ \A q \in Questions : OnItsWay(q) => q = asked /\ streaming
  /\ streaming => asked \in Questions /\ OnItsWay(asked)
  /\ chatAt = "open" /\ streaming => controller = asked \/ (aborted[asked] /\ controller = 0)

LEMMA InitChat == ChatInit => ChatTyped /\ ChatInv
<1> SUFFICES ASSUME ChatInit PROVE ChatTyped /\ ChatInv
  OBVIOUS
<1>1. ChatTyped
  <2>1. start \in [Questions -> {"none", "fetching", "reading", "over"}]
    BY DEF ChatInit
  <2>2. aborted \in [Questions -> BOOLEAN]
    BY DEF ChatInit
  <2>3. asked \in 0 .. MaxQuestions /\ controller \in 0 .. MaxQuestions
    BY DEF ChatInit
  <2> QED BY <2>1, <2>2, <2>3 DEF ChatInit, ChatTyped
<1>2. ~streaming /\ \A q \in Questions : start[q] = "none"
  BY DEF ChatInit
<1> QED BY <1>1, <1>2 DEF ChatInv, OnItsWay

\* An answer that ends was the last, and nothing is on its way after it.
LEMMA OverStep ==
  ASSUME ChatTyped, ChatInv, NEW q \in Questions, OnItsWay(q), NEW failed, Over(q, failed)
  PROVE  ChatTyped' /\ ChatInv'
<1>1. /\ start' = [start EXCEPT ![q] = "over"] /\ streaming' = FALSE /\ controller' = 0
      /\ UNCHANGED <<chatAt, asked, aborted>>
  BY DEF Over
<1>2. ChatTyped'
  <2>1. /\ start \in [Questions -> {"none", "fetching", "reading", "over"}]
        /\ aborted \in [Questions -> BOOLEAN]
    BY DEF ChatTyped
  <2>2. start' \in [Questions -> {"none", "fetching", "reading", "over"}]
    BY <1>1, <2>1
  <2>3. aborted' \in [Questions -> BOOLEAN]
    <3>1. aborted' = aborted
      BY <1>1, Zenon
    <3> QED BY <3>1, <2>1, Zenon
  <2>4. controller' \in 0 .. MaxQuestions
    <3>1. controller' = 0
      BY <1>1, Zenon
    <3> QED BY <3>1
  <2>5. streaming' \in BOOLEAN
    BY <1>1, Zenon
  <2> QED BY <1>1, <2>2, <2>3, <2>4, <2>5 DEF ChatTyped
<1>3. \A r \in Questions : r # q => start[r] \notin {"fetching", "reading"}
  BY DEF ChatInv, OnItsWay
<1>4. ChatInv'
  BY <1>1, <1>3 DEF ChatTyped, ChatInv, OnItsWay
<1> QED BY <1>2, <1>4

\* The steps that move no question.
LEMMA ChatQuiet ==
  ASSUME ChatTyped, ChatInv, UNCHANGED <<chatAt, streaming, asked, controller, start, aborted>>
  PROVE  ChatTyped' /\ ChatInv'
<1>1. ChatTyped'
  BY DEF ChatTyped
<1>2. ChatInv'
  BY DEF ChatInv, OnItsWay
<1> QED BY <1>1, <1>2

LEMMA ChatStep == ChatTyped /\ ChatInv /\ [ChatNext]_chatVars => ChatTyped' /\ ChatInv'
<1> SUFFICES ASSUME ChatTyped, ChatInv, [ChatNext]_chatVars PROVE ChatTyped' /\ ChatInv'
  OBVIOUS
<1>1. CASE Commit
  BY <1>1, ChatQuiet DEF Commit
<1>2. CASE AskQuestion
  <2> DEFINE q == asked + 1
  <2>1. /\ ~streaming /\ asked < MaxQuestions
        /\ asked' = q /\ controller' = q /\ streaming' = TRUE
        /\ start' = [start EXCEPT ![q] = "fetching"]
        /\ aborted' = IF controller = 0 THEN aborted ELSE [aborted EXCEPT ![controller] = TRUE]
        /\ UNCHANGED chatAt
    BY <1>2 DEF AskQuestion, MayAsk
  <2>2. q \in Questions
    BY <2>1 DEF ChatTyped, Questions
  <2>3. ChatTyped'
    BY <2>1, <2>2 DEF ChatTyped, Questions
  <2>4. \A r \in Questions : r # q => start'[r] = start[r] /\ ~OnItsWay(r)
    BY <2>1, <2>2 DEF ChatTyped, ChatInv
  <2> QED BY <2>1, <2>2, <2>3, <2>4 DEF ChatTyped, ChatInv, OnItsWay, Questions
<1>3. CASE StopStream
  <2>1. /\ streaming /\ controller # 0 /\ chatAt = "open"
        /\ aborted' = [aborted EXCEPT ![controller] = TRUE] /\ controller' = 0
        /\ UNCHANGED <<chatAt, asked, start, streaming>>
    BY <1>3 DEF StopStream, Settled, ComposerOffers
  <2>2. controller = asked /\ asked \in Questions
    BY <2>1 DEF ChatInv
  <2> QED BY <2>1, <2>2 DEF ChatTyped, ChatInv, OnItsWay, Questions
<1>4. CASE LeaveChat
  BY <1>4 DEF LeaveChat, ChatTyped, ChatInv, OnItsWay, Questions
<1>5. ASSUME NEW q \in Questions, Respond(q) PROVE ChatTyped' /\ ChatInv'
  <2>1. start[q] = "fetching" /\ start' = [start EXCEPT ![q] = "reading"]
        /\ UNCHANGED <<chatAt, streaming, asked, controller, aborted>>
    BY <1>5 DEF Respond
  <2> QED BY <2>1 DEF ChatTyped, ChatInv, OnItsWay
<1>6. ASSUME NEW q \in Questions, Done(q) PROVE ChatTyped' /\ ChatInv'
  BY <1>6, OverStep DEF Done, OnItsWay
<1>7. ASSUME NEW q \in Questions, Fails(q) PROVE ChatTyped' /\ ChatInv'
  BY <1>7, OverStep DEF Fails, OnItsWay
<1>8. ASSUME NEW q \in Questions, AbortError(q) PROVE ChatTyped' /\ ChatInv'
  BY <1>8, OverStep DEF AbortError, OnItsWay
<1>9. ASSUME NEW q \in Questions, NEW n \in 1 .. MaxEvents, Read(q, n)
      PROVE  ChatTyped' /\ ChatInv'
  <2>1. UNCHANGED <<chatAt, streaming, asked, controller, start, aborted>>
    BY <1>9 DEF Read
  <2> QED BY <2>1, ChatQuiet
<1>10. ASSUME NEW q \in Questions, NEW rating \in {"up", "down"}, Rate(q, rating)
       PROVE  ChatTyped' /\ ChatInv'
  <2>1. UNCHANGED <<chatAt, streaming, asked, controller, start, aborted>>
    BY <1>10 DEF Rate
  <2> QED BY <2>1, ChatQuiet
<1>11. CASE UNCHANGED chatVars
  <2>1. UNCHANGED <<chatAt, streaming, asked, controller, start, aborted>>
    BY <1>11 DEF chatVars
  <2> QED BY <2>1, ChatQuiet
<1> QED
  BY <1>1, <1>2, <1>3, <1>4, <1>5, <1>6, <1>7, <1>8, <1>9, <1>10, <1>11 DEF ChatNext

\* While the page shows that it streams one answer is on its way and Stop reaches
\* it; when it shows that it is ready nothing arrives any more.
THEOREM StopReachesStreamCorrect == ChatSpec => []StopReachesStream
<1>1. ChatTyped /\ ChatInv => StopReachesStream
  <2> SUFFICES ASSUME ChatTyped, ChatInv PROVE StopReachesStream
    OBVIOUS
  <2>1. Running \subseteq {asked} /\ Running = IF streaming THEN {asked} ELSE {}
    BY DEF ChatTyped, ChatInv, OnItsWay, Running
  <2>2. Cardinality(Running) <= 1
    BY <2>1, FS_EmptySet, FS_Singleton
  <2> QED BY <2>1, <2>2 DEF ChatTyped, ChatInv, StopReachesStream
<1> QED BY InitChat, ChatStep, <1>1, PTL DEF ChatSpec

BubblesTyped == DOMAIN bubble = Questions

LEMMA BubblesStay == BubblesTyped /\ [ChatNext]_chatVars => BubblesTyped'
<1> SUFFICES ASSUME BubblesTyped, [ChatNext]_chatVars PROVE BubblesTyped'
  OBVIOUS
<1>1. ASSUME NEW q, NEW failed, Over(q, failed) PROVE BubblesTyped'
  BY <1>1 DEF Over, BubblesTyped
<1>2. ASSUME NEW q \in Questions, Done(q) \/ Fails(q) \/ AbortError(q) PROVE BubblesTyped'
  BY <1>1, <1>2 DEF Done, Fails, AbortError
<1>3. CASE Commit
  BY <1>3 DEF Commit, BubblesTyped
<1>4. ASSUME \A q \in Questions : ~Done(q) /\ ~Fails(q) /\ ~AbortError(q), ~Commit
      PROVE  bubble' = bubble
  BY Zenon, <1>4 DEF ChatNext, chatVars, AskQuestion, StopStream, LeaveChat, Respond, Read, Rate
<1> QED BY <1>2, <1>3, <1>4 DEF BubblesTyped

\* An answer that is over stays as it is once another question has been asked:
\* a commit writes to the last bubble, and an answer that ends to its own.
THEOREM EarlierAnswersStayCorrect == ChatSpec => EarlierAnswersStay
<1>1. ChatTyped /\ BubblesTyped /\ [ChatNext]_chatVars
      => [\A q \in Questions : start[q] = "over" /\ q < asked => bubble'[q] = bubble[q]]_chatVars
  <2> SUFFICES ASSUME ChatTyped, BubblesTyped, ChatNext,
                      NEW q \in Questions, start[q] = "over", q < asked
               PROVE  bubble'[q] = bubble[q]
    OBVIOUS
  <2>1. asked # q /\ q \in DOMAIN bubble
    BY DEF ChatTyped, BubblesTyped, Questions
  <2>2. CASE Commit
    BY <2>1, <2>2 DEF Commit, Target
  <2>3. ASSUME NEW r \in Questions, NEW failed, r # q, Over(r, failed) PROVE bubble'[q] = bubble[q]
    BY <2>1, <2>3 DEF Over
  <2>4. ASSUME NEW r \in Questions, Done(r) \/ Fails(r) \/ AbortError(r)
        PROVE  bubble'[q] = bubble[q]
    BY <2>3, <2>4 DEF Done, Fails, AbortError
  <2>5. ASSUME \A r \in Questions : ~Done(r) /\ ~Fails(r) /\ ~AbortError(r), ~Commit
        PROVE  bubble' = bubble
    BY Zenon, <2>5 DEF ChatNext, AskQuestion, StopStream, LeaveChat, Respond, Read, Rate
  <2> QED BY <2>2, <2>4, <2>5
<1>2. ChatInit => BubblesTyped
  BY DEF ChatInit, BubblesTyped
<1> QED BY InitChat, ChatStep, <1>1, <1>2, BubblesStay, PTL DEF ChatSpec, EarlierAnswersStay

-----------------------------------------------------------------------------
(* WebPages: the wizard and the landing pages, for any number of changes.  *)

WizardInv ==
  /\ wizard \in 1 .. 5 /\ DOMAIN form = FormFields
  /\ \A i \in 1 .. 5 : i < wizard => CanAdvance(i)
  /\ FALSE \notin registered

LEMMA FiveSteps == Len(Steps) = 5 /\ DOMAIN Steps = 1 .. 5
  BY DEF Steps

\* No field belongs to two steps, and none to the last.
LEMMA FieldsApart ==
  /\ Fields[5] = {}
  /\ \A i \in 1 .. 5 : Fields[i] \subseteq FormFields
  /\ \A i, j \in 1 .. 5 : i # j => Fields[i] \cap Fields[j] = {}
  BY FiveSteps DEF Fields, FormFields

LEMMA InitWizard == PagesInit => WizardInv
<1> SUFFICES ASSUME PagesInit PROVE WizardInv
  OBVIOUS
<1>1. wizard = 1 /\ registered = {} /\ DOMAIN form = FormFields
  BY DEF PagesInit
<1> QED BY <1>1 DEF WizardInv

\* A move to a step before which all are valid.
LEMMA MoveKeeps ==
  ASSUME WizardInv, wizard' \in 1 .. 5, UNCHANGED <<form, registered>>,
         \A i \in 1 .. 5 : i < wizard' => i < wizard \/ CanAdvance(i)
  PROVE  WizardInv'
<1>1. registered' = registered /\ \A i \in 1 .. 5 : CanAdvance(i)' = CanAdvance(i)
  BY DEF CanAdvance
<1>2. \A i \in 1 .. 5 : i < wizard' => CanAdvance(i)
  BY DEF WizardInv
<1> QED BY <1>1, <1>2, Zenon DEF WizardInv

\* A change of a field of the step shown leaves the steps before it as they are.
LEMMA EditKeeps ==
  ASSUME WizardInv, NEW f \in Fields[wizard], NEW t, form' = [form EXCEPT ![f] = t],
         UNCHANGED <<wizard, registered>>
  PROVE  WizardInv'
<1>1. wizard \in 1 .. 4
  BY FieldsApart DEF WizardInv
<1>2. ASSUME NEW i \in 1 .. 5, i < wizard PROVE CanAdvance(i)'
  <2>1. CanAdvance(i) /\ i \in 1 .. 3
    BY <1>1, <1>2 DEF WizardInv
  <2>2. f \notin Fields[i]
    BY <1>1, <1>2, FieldsApart
  <2>3. \A g \in Fields[i] : form[g] # ""
    BY <2>1, Zenon DEF CanAdvance
  <2>4. Fields[i] \subseteq DOMAIN form
    BY FieldsApart DEF WizardInv
  <2>5. ASSUME NEW g \in Fields[i] PROVE form'[g] # ""
    <3>1. g # f /\ g \in DOMAIN form /\ form[g] # ""
      BY <2>2, <2>3, <2>4, Zenon
    <3>2. [form EXCEPT ![f] = t][g] = form[g]
      BY <3>1, Zenon
    <3> QED BY <3>1, <3>2
  <2>6. i # 4
    BY <2>1
  <2> QED BY <2>5, <2>6, Zenon DEF CanAdvance
<1>3. registered' = registered /\ wizard' = wizard /\ DOMAIN form' = DOMAIN form
  OBVIOUS
<1> QED BY <1>2, <1>3 DEF WizardInv

LEMMA WizardKeeps ==
  ASSUME WizardInv,
         ChooseProvider \/ GoNext \/ GoPrev \/ SubmitWizard \/ WizardAnswered
           \/ (\E f \in FormFields : EditField(f)) \/ \E i \in DOMAIN Steps : Jump(i)
  PROVE  WizardInv'
<1>1. ASSUME NEW f \in FormFields, EditField(f) PROVE WizardInv'
  <2>1. f \in Fields[wizard] /\ UNCHANGED <<wizard, registered>>
    BY <1>1 DEF EditField
  <2>2. PICK t \in TextsFor(f) : form' = [form EXCEPT ![f] = t]
    BY <1>1 DEF EditField
  <2> QED BY <2>1, <2>2, EditKeeps
<1>2. CASE ChooseProvider
  <2>1. /\ Steps[wizard] = "llm" /\ form' = [form EXCEPT !["llmModel"] = "p"]
        /\ UNCHANGED <<wizard, registered>>
    BY <1>2 DEF ChooseProvider
  <2>2. wizard = 3
    BY <2>1 DEF Steps, WizardInv
  <2>3. "llmModel" \in Fields[wizard]
    BY <2>2 DEF Fields
  <2> QED BY <2>1, <2>3, EditKeeps
<1>3. CASE GoNext
  <2>1. wizard < 5 /\ CanAdvance(wizard) /\ wizard' = wizard + 1 /\ UNCHANGED <<form, registered>>
    BY <1>3, FiveSteps DEF GoNext
  <2>2. wizard \in 1 .. 5
    BY DEF WizardInv
  <2>3. wizard' \in 1 .. 5 /\ \A i \in 1 .. 5 : i < wizard' => i < wizard \/ i = wizard
    BY <2>1, <2>2
  <2>4. \A i \in 1 .. 5 : i < wizard' => i < wizard \/ CanAdvance(i)
    BY <2>1, <2>3, Zenon
  <2> QED BY <2>1, <2>3, <2>4, MoveKeeps
<1>4. CASE GoPrev
  <2>1. wizard > 1 /\ wizard' = wizard - 1 /\ UNCHANGED <<form, registered>>
    BY <1>4 DEF GoPrev
  <2>2. wizard \in 1 .. 5
    BY DEF WizardInv
  <2>3. wizard' \in 1 .. 5 /\ \A i \in 1 .. 5 : i < wizard' => i < wizard
    BY <2>1, <2>2
  <2> QED BY <2>1, <2>3, MoveKeeps
<1>5. CASE SubmitWizard
  <2>1. wizard = 5 /\ UNCHANGED <<wizard, form>>
        /\ registered' = registered \cup {\A i \in 1 .. 5 : CanAdvance(i)}
    BY <1>5, FiveSteps DEF SubmitWizard
  <2>2. CanAdvance(5)
    BY FieldsApart DEF CanAdvance
  <2>3. \A i \in 1 .. 5 : CanAdvance(i)
    BY <2>1, <2>2 DEF WizardInv
  <2>4. FALSE \notin registered'
    BY <2>1, <2>3 DEF WizardInv
  <2>5. \A i \in 1 .. 5 : CanAdvance(i)' = CanAdvance(i)
    BY <2>1 DEF CanAdvance
  <2> QED BY <2>1, <2>3, <2>4, <2>5, Zenon DEF WizardInv
<1>6. CASE WizardAnswered
  BY <1>6, MoveKeeps DEF WizardAnswered, WizardInv
<1>7. ASSUME NEW i \in DOMAIN Steps, Jump(i) PROVE WizardInv'
  <2>1. i \in 1 .. 5 /\ i <= wizard /\ wizard' = i /\ UNCHANGED <<form, registered>>
    BY <1>7, FiveSteps DEF Jump, MayJump
  <2>2. wizard \in 1 .. 5
    BY DEF WizardInv
  <2>3. wizard' \in 1 .. 5 /\ \A j \in 1 .. 5 : j < wizard' => j < wizard
    BY <2>1, <2>2
  <2> QED BY <2>1, <2>3, MoveKeeps
<1> QED BY <1>1, <1>2, <1>3, <1>4, <1>5, <1>6, <1>7

\* The form is locked only under a stream, which a run reads.
LiveInv ==
  /\ DOMAIN live = DOMAIN LiveStart
  /\ {live.locked, live.streaming} \subseteq BOOLEAN
  /\ live.locked => live.streaming
  /\ live.streaming => live.runs # {}

\* There is a timer for the question that is shown while the page streams.
DemoInv ==
  /\ DOMAIN demo = DOMAIN DemoStart /\ demo.streaming \in BOOLEAN
  /\ demo.typed = demo.active /\ demo.ticks \subseteq {demo.active}
  /\ demo.streaming <=> demo.ticks # {}

\* What was chosen is stored and shown.
ThemeInv ==
  /\ DOMAIN theme = {"os", "storage", "root", "state", "stored", "chosen"}
  /\ theme.storage \in BOOLEAN
  /\ theme.storage /\ theme.chosen # "none" => theme.root = theme.chosen /\ theme.stored = theme.chosen

LandingInv == LiveInv /\ DemoInv /\ ThemeInv

LEMMA InitLanding == PagesInit => LandingInv
<1> SUFFICES ASSUME PagesInit PROVE LandingInv
  OBVIOUS
<1>1. live = LiveStart /\ demo = DemoStart /\ theme \in FirstVisits
  BY DEF PagesInit
<1>2. LiveInv
  BY <1>1 DEF LiveInv, LiveStart
<1>3. DemoInv
  BY <1>1 DEF DemoInv, DemoStart
<1>4. PICK w \in BOOLEAN, os \in Themes : theme = Mounted(w, "none", os, "none")
  BY <1>1 DEF FirstVisits
<1>5. ThemeInv
  BY <1>4 DEF ThemeInv, Mounted
<1> QED BY <1>2, <1>3, <1>5 DEF LandingInv

LEMMA LiveKeeps ==
  ASSUME LiveInv,
         AskLive \/ (\E n \in live.probes : ProbeAnswered(n) \/ ProbeFails(n))
           \/ (\E n \in live.runs : RunEnds(n)) \/ (\E n \in live.typing : DemoTyped(n))
  PROVE  LiveInv'
<1>1. CASE AskLive
  BY <1>1 DEF AskLive, LiveInv, LiveStart, Rendered
<1>2. ASSUME NEW n \in live.probes, ProbeAnswered(n) PROVE LiveInv'
  BY <1>2 DEF ProbeAnswered, LiveInv, LiveStart, Rendered
<1>3. ASSUME NEW n \in live.probes, ProbeFails(n) PROVE LiveInv'
  BY <1>3 DEF ProbeFails, LiveInv, LiveStart, Rendered
<1>4. ASSUME NEW n \in live.runs, RunEnds(n) PROVE LiveInv'
  BY <1>4 DEF RunEnds, LiveInv, LiveStart, Rendered
<1>5. ASSUME NEW n \in live.typing, DemoTyped(n) PROVE LiveInv'
  BY <1>5 DEF DemoTyped, LiveInv, LiveStart
<1> QED BY <1>1, <1>2, <1>3, <1>4, <1>5

LEMMA DemoKeeps ==
  ASSUME DemoInv, NEW d, AskDemo(d) \/ Tick(d)
  PROVE  DemoInv'
<1>1. CASE AskDemo(d)
  <2>1. /\ ~demo.streaming
        /\ demo' = [streaming |-> TRUE, active |-> d, typed |-> d, ticks |-> demo.ticks \cup {d}]
    BY <1>1 DEF AskDemo, MayType
  <2> QED BY <2>1 DEF DemoInv, DemoStart
<1>2. CASE Tick(d)
  <2>1. PICK over \in BOOLEAN :
          demo' = [demo EXCEPT !.typed = d, !.streaming = @ /\ ~over,
                               !.ticks = IF over THEN @ \ {d} ELSE @]
    BY <1>2 DEF Tick
  <2>2. d \in demo.ticks
    BY <1>2 DEF Tick
  <2> QED BY <2>1, <2>2 DEF DemoInv, DemoStart
<1> QED BY <1>1, <1>2

LEMMA ThemeKeeps ==
  ASSUME ThemeInv,
         OsChanges \/ Reload \/ \E c \in Switches : \E t \in Themes : PressTheme(c, t)
  PROVE  ThemeInv'
<1>1. CASE OsChanges
  <2>1. PICK t \in Themes \ {theme.os} :
          theme' = IF MayFollow
                   THEN [theme EXCEPT !.os = t, !.state = [c \in Switches |-> t], !.root = t,
                                      !.stored = IF theme.storage THEN t ELSE @]
                   ELSE [theme EXCEPT !.os = t]
    BY <1>1 DEF OsChanges
  <2> QED BY <2>1 DEF ThemeInv, MayFollow
<1>2. CASE Reload
  BY <1>2 DEF Reload, Mounted, InitialTheme, ThemeInv
<1>3. ASSUME NEW c \in Switches, NEW t \in Themes, PressTheme(c, t) PROVE ThemeInv'
  BY <1>3 DEF PressTheme, ThemeInv
<1> QED BY <1>1, <1>2, <1>3

LEMMA PagesStep ==
  WizardInv /\ LandingInv /\ [PagesNext]_pagesVars => WizardInv' /\ LandingInv'
<1> SUFFICES ASSUME WizardInv, LandingInv, [PagesNext]_pagesVars PROVE WizardInv' /\ LandingInv'
  OBVIOUS
<1>1. ASSUME UNCHANGED wizardVars PROVE WizardInv'
  <2>1. UNCHANGED <<wizard, form, registered>>
    BY <1>1 DEF wizardVars
  <2> QED BY <2>1, MoveKeeps DEF WizardInv
<1>2. ASSUME UNCHANGED landingVars PROVE LandingInv'
  BY <1>2 DEF landingVars, LandingInv, LiveInv, DemoInv, ThemeInv
<1>3. CASE \/ Mount \/ Poll \/ Retry \/ ChooseFile \/ ClearFile \/ PostFile \/ PostAnswered \/ DrainSse
           \/ \E a \in gets : ShowDocuments(a)
           \/ \E d \in PageDocs : Ingested(d)
  <2>1. UNCHANGED <<wizardVars, landingVars>>
    BY <1>3, Zenon DEF Mount, Poll, Retry, ChooseFile, ClearFile, PostFile, PostAnswered, DrainSse,
         ShowDocuments, Ingested, DocStep
  <2> QED BY <1>1, <1>2, <2>1
<1>4. CASE \/ MountPanel \/ LoadPanel
           \/ \E v \in panelGets : ShowPanel(v)
           \/ \E ok \in BOOLEAN :
                \/ GrantAccess(ok) \/ RevokeAccess(ok) \/ InviteMember(ok)
                \/ EditMember(ok) \/ Vacuum(ok) \/ SignOut(ok)
                \/ \E typed \in BOOLEAN : SaveSettings(ok, typed)
  <2>1. UNCHANGED <<wizardVars, landingVars>>
    BY <1>4, Zenon DEF MountPanel, LoadPanel, ShowPanel, GrantAccess, RevokeAccess, InviteMember,
         EditMember, Vacuum, SignOut, SaveSettings, Changed, PanelStep
  <2> QED BY <1>1, <1>2, <2>1
<1>5. CASE \/ ChooseProvider \/ GoNext \/ GoPrev \/ SubmitWizard \/ WizardAnswered
           \/ \E f \in FormFields : EditField(f)
           \/ \E i \in DOMAIN Steps : Jump(i)
  <2>1. UNCHANGED landingVars
    BY <1>5, Zenon DEF EditField, ChooseProvider, GoNext, GoPrev, SubmitWizard, WizardAnswered, Jump, WizardStep
  <2> QED BY <1>2, <1>5, <2>1, WizardKeeps
<1>6. CASE LandingNext
  <2>1. UNCHANGED wizardVars
    BY <1>6, Zenon DEF LandingNext, AskLive, OsChanges, Reload, ProbeAnswered, ProbeFails, RunEnds,
         DemoTyped, AskDemo, Tick, PressTheme, LandingStep
  <2>2. CASE /\ UNCHANGED <<demo, theme>>
             /\ AskLive \/ (\E n \in live.probes : ProbeAnswered(n) \/ ProbeFails(n))
                  \/ (\E n \in live.runs : RunEnds(n)) \/ (\E n \in live.typing : DemoTyped(n))
    <3>1. LiveInv'
      BY <2>2, LiveKeeps DEF LandingInv
    <3> QED BY <1>1, <2>1, <2>2, <3>1 DEF LandingInv, DemoInv, ThemeInv
  <2>3. CASE /\ UNCHANGED <<live, theme>>
             /\ \E d \in DemoQueries : AskDemo(d) \/ Tick(d)
    <3>1. DemoInv'
      BY <2>3, DemoKeeps DEF LandingInv
    <3> QED BY <1>1, <2>1, <2>3, <3>1 DEF LandingInv, LiveInv, ThemeInv
  <2>4. CASE /\ UNCHANGED <<live, demo>>
             /\ OsChanges \/ Reload \/ \E c \in Switches : \E t \in Themes : PressTheme(c, t)
    <3>1. ThemeInv'
      BY <2>4, ThemeKeeps DEF LandingInv
    <3> QED BY <1>1, <2>1, <2>4, <3>1 DEF LandingInv, LiveInv, DemoInv
  <2> QED
    BY <1>6, <2>2, <2>3, <2>4, Zenon DEF LandingNext, AskLive, OsChanges, Reload, ProbeAnswered,
      ProbeFails, RunEnds, DemoTyped, AskDemo, Tick, PressTheme
<1>7. CASE SubmitLogin \/ LoginAnswered \/ \E f \in LoginFields : TypeLogin(f)
  <2>1. UNCHANGED <<wizardVars, landingVars>>
    BY <1>7, Zenon DEF SubmitLogin, LoginAnswered, TypeLogin, SignInStep
  <2> QED BY <1>1, <1>2, <2>1
<1>8. CASE UNCHANGED pagesVars
  BY <1>1, <1>2, <1>8 DEF pagesVars
<1> QED BY <1>3, <1>4, <1>5, <1>6, <1>7, <1>8, Zenon DEF PagesNext

\* The landing pages (marketing/live-query.tsx, lib/use-theme.ts) stay usable and keep a chosen
\* theme; the wizard (onboarding/page.tsx) sends what it has validated.
THEOREM PagesHoldCorrect == PagesSpec => []PagesHold
<1>1. WizardInv /\ LandingInv => PagesHold
  BY DEF WizardInv, LandingInv, LiveInv, DemoInv, ThemeInv, PagesHold
<1> QED BY InitWizard, InitLanding, PagesStep, <1>1, PTL DEF PagesSpec
=============================================================================
