----------------------------- MODULE AmqpProofs -----------------------------
(***************************************************************************)
(* Proofs about AmqpMessaging, for every number of messages and whatever   *)
(* the host publishes: the consumer prints what its queue has received, in *)
(* order, whichever connections break and whichever calls fail, and the    *)
(* dump it prints of a text can be read back.                              *)
(***************************************************************************)
EXTENDS AmqpMessaging, SequenceTheorems, TLAPS

\* What the publisher sends is one of the bodies.
LEMMA SentBody == \A n \in 1..Count : messageBody[n] \in Bodies
  BY DEF Bodies

\* A dump of a body has the type of what is printed.
LEMMA PrintedType ==
  \A b \in Bodies : [body |-> b, dump |-> AmqpDump(b)]
                      \in [body : Bodies, dump : {AmqpDump(c) : c \in Bodies}]
  OBVIOUS

\* Lengths are numbers.
LEMMA Lengths ==
  ASSUME TypeOK
  PROVE  /\ Len(shown) \in Nat /\ Len(toConsumer) \in Nat /\ Len(routed) \in Nat
         /\ Len(queue.content) \in Nat /\ queue.content \in Seq(Bodies)
  BY DEF TypeOK

\* The invariant holds before either program has started.
LEMMA InitIInv == Init => IInv
<1> SUFFICES ASSUME Init PROVE IInv
  OBVIOUS
<1> USE AmqpAssumption DEF Init, NoQueue
<1>1. TypeOK
  BY DEF TypeOK, Labels, Ends, Programs
<1>2. QueueInv /\ FlowInv /\ InOrder
  BY DEF QueueInv, FlowInv, InOrder, Programs
<1> QED
  BY <1>1, <1>2 DEF IInv

\* Steps that change neither the queue, nor what is under way to the consumer,
\* nor what it has printed, keep the order; they only move a program on.
LEMMA SameFlow ==
  ASSUME IInv, TypeOK', UNCHANGED <<queue, toConsumer, routed, shown>>,
         \/ UNCHANGED pc
         \/ \E label \in Labels : Go("publisher", label)
         \/ \E label \in Labels : /\ Go("consumer", label)
                                  /\ \/ label \in {"start", "new", "socket", "open", "login",
                                                   "channel", "declare"} /\ queue = NoQueue
                                        /\ routed = <<>>
                                     \/ label = "bind" /\ queue.state = "declared"
                                     \/ label \in {"recv", "dtor", "throw"} \cup Ends
  PROVE  IInv'
<1>1. FlowInv' /\ InOrder'
  BY DEF IInv, FlowInv, InOrder
<1>2. QueueInv'
  BY DEF IInv, QueueInv, TypeOK, Go, Programs, NoQueue, Ends, Labels
<1> QED
  BY <1>1, <1>2 DEF IInv

\* main() and the constructor of either program.
LEMMA StartsKeep ==
  ASSUME IInv, NEW p \in Programs, Start(p) \/ Construct(p)
  PROVE  IInv'
<1> USE DEF Programs, broker
<1>1. CASE Start(p)
  <2>1. TypeOK'
    BY <1>1 DEF IInv, TypeOK, Start, Go, Labels, Ends
  <2>2. \E label \in {"new"} \cup Ends : Go(p, label)
    BY <1>1 DEF Start, Ends
  <2>3. p = "consumer" => queue = NoQueue /\ routed = <<>>
    BY <1>1 DEF IInv, QueueInv, Start
  <2> QED
    BY <1>1, <2>1, <2>2, <2>3, SameFlow DEF Start, Labels
<1>2. CASE Construct(p)
  <2>1. TypeOK'
    BY <1>2 DEF IInv, TypeOK, Construct, Go, Labels, Ends, After, Body1
  <2>2. \E label \in {"socket", "open", "login", "channel", "failure", Body1(p)} : Go(p, label)
    BY <1>2 DEF Construct, After
  <2>3. p = "consumer" => queue = NoQueue /\ routed = <<>>
    BY <1>2 DEF IInv, QueueInv, Construct, After
  <2> QED
    BY <1>2, <2>1, <2>2, <2>3, SameFlow DEF Construct, Labels, Ends, Body1
<1> QED
  BY <1>1, <1>2

\* Publishing and the end of the publisher.
LEMMA PublisherKeeps ==
  ASSUME IInv, SendData \/ ClosePublisher
  PROVE  IInv'
<1> USE DEF Programs, broker
<1>1. CASE SendData
  <2>1. pc' \in [Programs -> Labels] /\ i' \in 0..Count
    BY <1>1, AmqpAssumption DEF IInv, TypeOK, SendData, Go, Labels
  <2>2. toBroker' \in Seq(Bodies)
    <3>1. i < Count => messageBody[i + 1] \in Bodies
      BY SentBody, AmqpAssumption DEF IInv, TypeOK
    <3>2. \/ toBroker' = toBroker
          \/ i < Count /\ toBroker' = Append(toBroker, messageBody[i + 1])
      BY <1>1 DEF SendData
    <3>3. toBroker \in Seq(Bodies)
      BY DEF IInv, TypeOK
    <3> QED
      BY <3>1, <3>2, <3>3
  <2>3. TypeOK'
    BY <1>1, <2>1, <2>2 DEF IInv, TypeOK, SendData
  <2> QED
    BY <1>1, <2>3, SameFlow DEF SendData, Labels
<1>2. CASE ClosePublisher
  <2>1. PICK n \in 0..Len(toBroker) : toBroker' = SubSeq(toBroker, 1, n)
    BY <1>2 DEF ClosePublisher, EndPublisher, Cut
  <2>2. TypeOK'
    BY <1>2, <2>1 DEF IInv, TypeOK, ClosePublisher, EndPublisher, Go, Labels, Ends
  <2> QED
    BY <1>2, <2>2, SameFlow DEF ClosePublisher, EndPublisher, Labels, Ends
<1> QED
  BY <1>1, <1>2

\* The calls of DeclareQueue(), which change the state of the queue or throw.
LEMMA DeclareKeeps ==
  ASSUME IInv, DeclareQueue \/ BindQueue \/ BasicConsume \/ CopyName
  PROVE  IInv'
<1> USE DEF Programs, broker
<1>1. CASE CopyName
  <2>1. TypeOK'
    BY <1>1 DEF IInv, TypeOK, CopyName, Go, Labels
  <2>2. queue.state = "declared"
    BY <1>1 DEF IInv, QueueInv, CopyName
  <2> QED
    BY <1>1, <2>1, <2>2, SameFlow DEF CopyName, Labels
<1>2. ASSUME NEW from \in {"declare", "bind", "consume"},
             NEW label \in {"dup", "consume", "recv"},
             NEW state \in {"declared", "bound", "consumed"},
             <<from, label, state>> \in {<<"declare", "dup", "declared">>,
                <<"bind", "consume", "bound">>, <<"consume", "recv", "consumed">>},
             pc["consumer"] = from, Ask(label, state)
      PROVE  IInv'
  <2>1. /\ queue' = queue \/ queue' = [queue EXCEPT !.state = state]
        /\ UNCHANGED <<link, i, toBroker, toConsumer, routed, shown, hosts>>
    BY <1>2 DEF Ask
  <2>2. \/ Go("consumer", label) /\ queue'.state = state
        \/ Go("consumer", "throw")
    BY <1>2 DEF Ask
  <2>3. TypeOK'
    BY <1>2, <2>1, <2>2 DEF IInv, TypeOK, Go, Labels
  <2>4. queue'.content = queue.content /\ queue'.state \in {queue.state, state}
    BY <1>2, <2>1 DEF IInv, TypeOK
  <2>5. from = "declare" => routed = <<>> /\ shown = <<>> /\ toConsumer = <<>>
                            /\ queue.content = <<>>
    BY <1>2 DEF IInv, TypeOK, QueueInv, FlowInv, NoQueue
  <2>6. from # "declare" => queue.state # "absent"
    BY <1>2 DEF IInv, QueueInv
  <2>7. FlowInv'
    BY <1>2, <2>1, <2>4, <2>5, <2>6 DEF IInv, TypeOK, FlowInv
  <2>8. InOrder'
    BY <2>1 DEF IInv, InOrder
  <2>9. QueueInv'
    <3>1. from = "bind" => queue.state = "declared" /\ routed = <<>> /\ toConsumer = <<>>
      BY <1>2 DEF IInv, TypeOK, QueueInv, FlowInv
    <3>2. from = "consume" => queue.state = "bound" /\ toConsumer = <<>>
      BY <1>2 DEF IInv, QueueInv
    <3> QED
      BY <1>2, <2>1, <2>2, <2>4, <2>5, <3>1, <3>2 DEF IInv, TypeOK, QueueInv, Go, NoQueue
  <2> QED
    BY <2>3, <2>7, <2>8, <2>9 DEF IInv
<1> QED
  BY <1>1, <1>2 DEF DeclareQueue, BindQueue, BasicConsume

\* A message is printed, or the loop ends.
LEMMA RecvKeeps ==
  ASSUME IInv, RecvAndPrintData
  PROVE  IInv'
<1> USE DEF Programs
<1>1. CASE toConsumer # <<>>
  <2>1. /\ shown' = Append(shown, [body |-> Head(toConsumer), dump |-> AmqpDump(Head(toConsumer))])
        /\ toConsumer' = Tail(toConsumer)
        /\ UNCHANGED <<pc, link, i, toBroker, queue, routed, hosts>>
    BY <1>1 DEF RecvAndPrintData
  <2>2. Head(toConsumer) \in Bodies /\ Tail(toConsumer) \in Seq(Bodies)
    BY <1>1 DEF IInv, TypeOK
  <2>3. shown' \in Seq([body : Bodies, dump : {AmqpDump(b) : b \in Bodies}])
    BY <2>1, <2>2, PrintedType DEF IInv, TypeOK
  <2>4. TypeOK'
    BY <2>1, <2>2, <2>3 DEF IInv, TypeOK
  <2>5. /\ Len(shown') = Len(shown) + 1 /\ Len(toConsumer') = Len(toConsumer) - 1
        /\ \A n \in 1..Len(toConsumer') : toConsumer'[n] = toConsumer[n + 1]
        /\ \A n \in 1..Len(shown) : shown'[n] = shown[n]
        /\ shown'[Len(shown) + 1].body = toConsumer[1]
    BY <1>1, <2>1, <2>2 DEF IInv, TypeOK
  <2>6. InOrder'
    BY <1>1, <2>1, <2>5 DEF IInv, TypeOK, InOrder, FlowInv
  <2>7. FlowInv'
    BY <1>1, <2>1, <2>5 DEF IInv, TypeOK, FlowInv
  <2>8. QueueInv'
    BY <1>1, <2>1 DEF IInv, QueueInv
  <2> QED
    BY <2>4, <2>6, <2>7, <2>8 DEF IInv
<1>2. CASE toConsumer = <<>>
  <2>1. Go("consumer", "dtor") /\ UNCHANGED <<link, i, toBroker, queue, toConsumer, routed, shown, hosts>>
    BY <1>2 DEF RecvAndPrintData
  <2>2. TypeOK'
    BY <2>1 DEF IInv, TypeOK, Go, Labels
  <2> QED
    BY <2>1, <2>2, SameFlow DEF Labels
<1> QED
  BY <1>1, <1>2

\* A queue that is deleted with its consumer, and messages that are lost on the
\* way to it, leave a beginning of what was routed.
LEMMA LosingKeeps ==
  ASSUME IInv, NEW n \in 0..Len(toConsumer), toConsumer' = SubSeq(toConsumer, 1, n),
         queue.state = "bound" \/ queue.state = "declared" => toConsumer' = toConsumer,
         queue' = Deleted(queue), UNCHANGED <<routed, shown>>, TypeOK',
         \/ UNCHANGED pc
         \/ Go("consumer", "success") \/ Go("consumer", "failure")
  PROVE  IInv'
<1> USE DEF Programs
<1>1. /\ Len(toConsumer') = n
      /\ \A k \in 1..n : toConsumer'[k] = toConsumer[k]
  BY DEF IInv, TypeOK
<1>2. \/ queue' = NoQueue /\ queue.state = "consumed"
      \/ queue' = queue /\ queue.state # "consumed"
  BY DEF Deleted
<1>f. FlowInv
  BY DEF IInv
<1>q. queue.state \in {"absent", "declared", "bound", "consumed"}
  BY DEF IInv, TypeOK
<1>3. InOrder'
  BY DEF IInv, InOrder
<1>4. FlowInv'
  <2> DEFINE a == Len(shown)
             b == Len(toConsumer)
             c == Len(queue.content)
  <2>1. /\ a \in Nat /\ b \in Nat /\ c \in Nat /\ a + b + c <= Len(routed) /\ Len(routed) \in Nat
        /\ \A k \in 1..b : toConsumer[k] = routed[a + k]
        /\ n \in 0..b
    BY <1>f, Lengths DEF IInv, FlowInv
  <2>2. Len(toConsumer') = n /\ Len(shown') = a /\ routed' = routed
        /\ \A k \in 1..n : toConsumer'[k] = toConsumer[k]
    BY <1>1
  <2>3. CASE queue' = NoQueue
    <3>1. queue'.state = "absent" /\ Len(queue'.content) = 0
      BY <2>3 DEF NoQueue
    <3> HIDE DEF a, b, c
    <3>2. a + n + 0 <= Len(routed) /\ \A k \in 1..n : k \in 1..b
      BY <2>1
    <3>3. \A k \in 1..n : toConsumer'[k] = routed[a + k]
      BY <2>1, <2>2, <3>2
    <3> QED
      BY <2>2, <3>1, <3>2, <3>3 DEF FlowInv
  <2>4. CASE queue' = queue /\ queue.state \in {"declared", "bound"}
    BY <1>f, <2>4 DEF FlowInv
  <2>5. CASE queue' = queue /\ queue.state = "absent"
    <3>1. Len(queue'.content) = c /\ queue'.state = "absent"
      BY <2>5
    <3> HIDE DEF a, b, c
    <3>2. a + n + c <= Len(routed) /\ \A k \in 1..n : k \in 1..b
      BY <2>1
    <3>3. \A k \in 1..n : toConsumer'[k] = routed[a + k]
      BY <2>1, <2>2, <3>2
    <3> QED
      BY <2>2, <3>1, <3>2, <3>3 DEF FlowInv
  <2> QED
    BY <1>2, <1>q, <2>3, <2>4, <2>5
<1>5. QueueInv'
  <2>1. \/ pc'["consumer"] = pc["consumer"]
        \/ pc'["consumer"] \in {"success", "failure"}
    BY DEF IInv, TypeOK, Go
  <2>2. pc["consumer"] \in {"dup", "bind", "consume"} => queue.state # "consumed"
    BY DEF IInv, QueueInv
  <2>3. CASE queue' = NoQueue
    <3>1. queue'.state = "absent" /\ queue'.content = <<>>
      BY <2>3 DEF NoQueue
    <3> QED
      BY <1>2, <2>1, <2>2, <2>3, <3>1 DEF IInv, QueueInv
  <2>4. CASE queue' = queue /\ queue.state # "consumed"
    BY <2>1, <2>4 DEF IInv, QueueInv
  <2> QED
    BY <1>2, <2>3, <2>4
<1> QED
  BY <1>3, <1>4, <1>5 DEF IInv

\* The end of the consumer, and of a connection.
LEMMA EndsKeep ==
  ASSUME IInv, CloseConsumer \/ \E p \in Programs : Break(p)
  PROVE  IInv'
<1> USE DEF Programs
<1>0. Deleted(queue) \in [state : {"absent", "declared", "bound", "consumed"}, content : Seq(Bodies)]
  BY DEF IInv, TypeOK, Deleted, NoQueue
<1>t. queue.state \in {"declared", "bound"} => toConsumer = <<>>
  BY DEF IInv, TypeOK, QueueInv, FlowInv
<1>1. CASE CloseConsumer
  <2>1. TypeOK'
    BY <1>1, <1>0 DEF IInv, TypeOK, CloseConsumer, Go, Labels, Ends
  <2>2. toConsumer' = SubSeq(toConsumer, 1, 0) /\ 0 \in 0..Len(toConsumer)
    BY <1>1 DEF CloseConsumer, IInv, TypeOK
  <2> QED
    BY <1>1, <1>t, <2>1, <2>2, LosingKeeps DEF CloseConsumer
<1>2. CASE Break("publisher")
  <2>1. PICK n \in 0..Len(toBroker) : toBroker' = SubSeq(toBroker, 1, n)
    BY <1>2 DEF Break, Cut
  <2>2. TypeOK'
    BY <1>2, <2>1 DEF IInv, TypeOK, Break
  <2> QED
    BY <1>2, <2>2, SameFlow DEF Break
<1>3. CASE Break("consumer")
  <2>1. PICK n \in 0..Len(toConsumer) : toConsumer' = SubSeq(toConsumer, 1, n)
    BY <1>3 DEF Break, Cut
  <2>2. TypeOK'
    BY <1>3, <2>1, <1>0 DEF IInv, TypeOK, Break
  <2>3. toConsumer = <<>> => toConsumer' = toConsumer
    BY <2>1 DEF IInv, TypeOK
  <2> QED
    BY <1>3, <1>t, <2>1, <2>2, <2>3, LosingKeeps DEF Break
<1> QED
  BY <1>1, <1>2, <1>3

\* A body comes to the exchange.
LEMMA ExchangeKeeps ==
  ASSUME IInv, NEW body \in Bodies, Exchange(body), TypeOK', UNCHANGED <<pc, toConsumer, shown>>
  PROVE  IInv'
<1> USE DEF Programs
<1>1. CASE queue.state \in {"bound", "consumed"}
  <2>1. /\ queue' = [queue EXCEPT !.content = Append(@, body)] /\ routed' = Append(routed, body)
    BY <1>1 DEF Exchange
  <2>2. /\ queue'.state = queue.state
        /\ Len(queue'.content) = Len(queue.content) + 1 /\ Len(routed') = Len(routed) + 1
        /\ \A n \in 1..Len(routed) : routed'[n] = routed[n]
        /\ \A n \in 1..Len(queue.content) : queue'.content[n] = queue.content[n]
        /\ queue'.content[Len(queue.content) + 1] = body /\ routed'[Len(routed) + 1] = body
    BY <2>1 DEF IInv, TypeOK
  <2>3. InOrder'
    <3>1. InOrder /\ Len(shown) \in Nat /\ Len(routed) \in Nat
      BY Lengths DEF IInv
    <3> QED
      BY <2>2, <3>1 DEF InOrder
  <2>4. FlowInv'
    <3> DEFINE a == Len(shown)
               b == Len(toConsumer)
               c == Len(queue.content)
    <3>1. /\ a \in Nat /\ b \in Nat /\ c \in Nat /\ Len(routed) = a + b + c
          /\ \A n \in 1..b : toConsumer[n] = routed[a + n]
          /\ \A n \in 1..c : queue.content[n] = routed[a + b + n]
      BY <1>1, Lengths DEF IInv, FlowInv
    <3>2. /\ Len(queue'.content) = c + 1 /\ Len(toConsumer') = b /\ Len(shown') = a
          /\ toConsumer' = toConsumer /\ Len(routed') = a + b + c + 1
          /\ \A n \in 1..c : queue'.content[n] = queue.content[n]
          /\ queue'.content[c + 1] = body /\ routed'[a + b + c + 1] = body
          /\ \A n \in 1..(a + b + c) : routed'[n] = routed[n]
      BY <2>2, <3>1
    <3> HIDE DEF a, b, c
    <3>3. \A n \in 1..b : a + n \in 1..(a + b + c)
      BY <3>1
    <3>4. \A n \in 1..b : toConsumer'[n] = routed'[a + n]
      BY <3>1, <3>2, <3>3
    <3>5. \A n \in 1..c : a + b + n \in 1..(a + b + c)
      BY <3>1
    <3>6. \A n \in 1..c : queue'.content[n] = routed'[a + b + n]
      BY <3>1, <3>2, <3>5
    <3>7. queue'.content[c + 1] = routed'[a + b + (c + 1)]
      BY <3>1, <3>2
    <3>8. \A n \in 1..(c + 1) : n \in 1..c \/ n = c + 1
      BY <3>1
    <3>9. \A n \in 1..(c + 1) : queue'.content[n] = routed'[a + b + n]
      BY <3>6, <3>7, <3>8
    <3>10. a + b + (c + 1) = Len(routed') /\ a + b + (c + 1) <= Len(routed')
      BY <3>1, <3>2
    <3> QED
      BY <3>2, <3>4, <3>9, <3>10 DEF FlowInv
  <2>5. QueueInv'
    BY <1>1, <2>2 DEF IInv, QueueInv, NoQueue
  <2> QED
    BY <2>3, <2>4, <2>5 DEF IInv
<1>2. CASE queue.state \notin {"bound", "consumed"}
  BY <1>2, SameFlow DEF Exchange
<1> QED
  BY <1>1, <1>2

\* Type correctness of what Exchange leaves.
LEMMA ExchangeTyped ==
  ASSUME TypeOK, NEW body \in Bodies, Exchange(body)
  PROVE  /\ routed' \in Seq(Bodies)
         /\ queue' \in [state : {"absent", "declared", "bound", "consumed"}, content : Seq(Bodies)]
<1>1. routed \in Seq(Bodies)
      /\ queue \in [state : {"absent", "declared", "bound", "consumed"}, content : Seq(Bodies)]
  BY DEF TypeOK
<1>2. Append(routed, body) \in Seq(Bodies) /\ Append(queue.content, body) \in Seq(Bodies)
  BY <1>1
<1> QED
  BY <1>1, <1>2 DEF Exchange

\* The broker routes and delivers.
LEMMA BrokerKeeps ==
  ASSUME IInv, Route \/ HostPublish \/ Deliver
  PROVE  IInv'
<1> USE DEF Programs
<1>0. TypeOK
  BY DEF IInv
<1>1. CASE Route
  <2>1. Head(toBroker) \in Bodies /\ Tail(toBroker) \in Seq(Bodies)
    BY <1>0, <1>1 DEF TypeOK, Route
  <2>2. TypeOK'
    BY <1>0, <1>1, <2>1, ExchangeTyped DEF TypeOK, Route
  <2> QED
    BY <1>1, <2>1, <2>2, ExchangeKeeps DEF Route
<1>2. CASE HostPublish
  <2>1. PICK body \in HostBodies : Exchange(body)
    BY <1>2 DEF HostPublish
  <2>2. body \in Bodies
    BY DEF Bodies
  <2>3. TypeOK'
    BY <1>0, <1>2, <2>1, <2>2, ExchangeTyped DEF TypeOK, HostPublish
  <2> QED
    BY <1>2, <2>1, <2>2, <2>3, ExchangeKeeps DEF HostPublish
<1>3. CASE Deliver
  <2>1. /\ queue.state = "consumed" /\ queue.content # <<>> /\ queue.content \in Seq(Bodies)
        /\ toConsumer' = Append(toConsumer, Head(queue.content))
        /\ queue' = [queue EXCEPT !.content = Tail(@)]
        /\ UNCHANGED <<pc, link, i, toBroker, routed, shown, hosts>>
    BY <1>0, <1>3 DEF Deliver, TypeOK
  <2>2. Head(queue.content) \in Bodies /\ Tail(queue.content) \in Seq(Bodies)
    BY <2>1
  <2>3. TypeOK'
    <3>1. toConsumer' \in Seq(Bodies)
      BY <1>0, <2>1, <2>2 DEF TypeOK
    <3>2. queue' \in [state : {"absent", "declared", "bound", "consumed"}, content : Seq(Bodies)]
      BY <1>0, <2>1, <2>2 DEF TypeOK
    <3> QED
      BY <1>0, <2>1, <3>1, <3>2 DEF TypeOK
  <2>4. /\ queue'.state = "consumed" /\ Len(queue'.content) = Len(queue.content) - 1
        /\ Len(toConsumer') = Len(toConsumer) + 1
        /\ \A n \in 1..Len(toConsumer) : toConsumer'[n] = toConsumer[n]
        /\ toConsumer'[Len(toConsumer) + 1] = queue.content[1]
        /\ \A n \in 1..Len(queue'.content) : queue'.content[n] = queue.content[n + 1]
    <3>1. toConsumer \in Seq(Bodies) /\ DOMAIN queue = {"state", "content"}
      BY <1>0 DEF TypeOK
    <3>2. queue'.state = "consumed" /\ queue'.content = Tail(queue.content)
      BY <2>1, <3>1
    <3> QED
      BY <2>1, <2>2, <3>1, <3>2
  <2>5. FlowInv'
    <3> DEFINE a == Len(shown)
               b == Len(toConsumer)
               c == Len(queue.content)
    <3>1. /\ a \in Nat /\ b \in Nat /\ c \in Nat /\ Len(routed) = a + b + c
          /\ \A n \in 1..b : toConsumer[n] = routed[a + n]
          /\ \A n \in 1..c : queue.content[n] = routed[a + b + n]
      BY <1>0, <2>1, Lengths DEF IInv, FlowInv
    <3>2. /\ Len(queue'.content) = c - 1 /\ Len(toConsumer') = b + 1 /\ Len(shown') = a
          /\ routed' = routed /\ c >= 1
          /\ \A n \in 1..b : toConsumer'[n] = toConsumer[n]
          /\ toConsumer'[b + 1] = queue.content[1]
          /\ \A n \in 1..(c - 1) : queue'.content[n] = queue.content[n + 1]
      <4>1. c # 0
        BY <2>1
      <4>2. c \in Nat
        BY <3>1
      <4>3. c >= 1
        BY <4>1, <4>2
      <4> QED
        BY <4>3, <2>1, <2>4
    <3> HIDE DEF a, b, c
    <3>3. \A n \in 1..(b + 1) : n \in 1..b \/ n = b + 1
      BY <3>1
    <3>4. 1 \in 1..c /\ a + b + 1 = a + (b + 1)
      BY <3>1, <3>2
    <3>5. toConsumer'[b + 1] = routed'[a + (b + 1)]
      BY <3>1, <3>2, <3>4
    <3>6. \A n \in 1..(b + 1) : toConsumer'[n] = routed'[a + n]
      BY <3>1, <3>2, <3>3, <3>5
    <3>7. \A n \in 1..(c - 1) : n + 1 \in 1..c /\ a + b + (n + 1) = a + (b + 1) + n
      BY <3>1, <3>2
    <3>8. \A n \in 1..(c - 1) : queue'.content[n] = routed'[a + (b + 1) + n]
      BY <3>1, <3>2, <3>7
    <3>9. a + (b + 1) + (c - 1) = Len(routed') /\ a + (b + 1) + (c - 1) <= Len(routed')
      <4>1. a + (b + 1) + (c - 1) = a + b + c /\ a + b + c <= a + b + c
        BY <3>1
      <4>2. Len(routed') = a + b + c
        BY <3>1, <3>2
      <4> QED
        BY <4>1, <4>2
    <3> QED
      BY <3>2, <3>6, <3>8, <3>9 DEF FlowInv
  <2>6. InOrder'
    BY <2>1 DEF IInv, InOrder
  <2>7. QueueInv'
    BY <2>1, <2>4 DEF IInv, QueueInv, NoQueue
  <2> QED
    BY <2>3, <2>5, <2>6, <2>7 DEF IInv
<1> QED
  BY <1>1, <1>2, <1>3

\* The inductive invariant of the message flow holds in every state.
THEOREM Invariance == Spec => []IInv
<1>1. IInv /\ [Next]_vars => IInv'
  <2> SUFFICES ASSUME IInv, [Next]_vars PROVE IInv'
    OBVIOUS
  <2>1. CASE UNCHANGED vars
    <3>1. TypeOK'
      BY <2>1 DEF IInv, TypeOK, vars, broker
    <3> QED
      BY <2>1, <3>1, SameFlow DEF vars, broker
  <2>2. CASE PublisherStep
    BY <2>2, StartsKeep, PublisherKeeps DEF PublisherStep, Programs
  <2>3. CASE ConsumerStep
    BY <2>3, StartsKeep, DeclareKeeps, RecvKeeps, EndsKeep DEF ConsumerStep, Programs
  <2>4. CASE Route \/ Deliver \/ HostPublish
    BY <2>4, BrokerKeeps
  <2>5. CASE \E p \in Programs : Break(p)
    BY <2>5, EndsKeep
  <2> QED
    BY <2>1, <2>2, <2>3, <2>4, <2>5 DEF Next
<1> QED
  BY InitIInv, <1>1, PTL DEF Spec

\* Type correctness of the two programs and the broker.
THEOREM TypeCorrect == Spec => []TypeOK
<1>1. IInv => TypeOK
  BY DEF IInv
<1> QED
  BY Invariance, <1>1, PTL

\* The consumer prints what its queue has received since the bind, in order,
\* without a gap and without a repetition, whatever fails.
THEOREM PrintedInOrder == Spec => []InOrder
<1>1. IInv => InOrder
  BY DEF IInv
<1> QED
  BY Invariance, <1>1, PTL

-----------------------------------------------------------------------------
(***************************************************************************)
(* The dump.                                                               *)
(***************************************************************************)

\* No row of a text is left out: a row has no NUL in its second column, where the
\* row it is compared with always has one.
LEMMA TextInFull ==
  ASSUME NEW body \in Seq(0..255), Text(body), NEW k \in Nat \ {0}
  PROVE  ~LeftOut(body, k)
<1> SUFFICES ASSUME LeftOut(body, k) PROVE FALSE
  OBVIOUS
<1>1. k < Rows(body) /\ oldchs(body, k)[2] = Row(body, k)[2]
  BY DEF LeftOut, RowsEq, RowLen
<1>2. oldchs(body, k)[2] = 0
  BY DEF oldchs, RowLen
<1>3. 16 * k <= Len(body) /\ Len(body) \in Nat
  BY <1>1 DEF Rows, RowLen
<1>4. Row(body, k) = SubSeq(body, 16 * (k - 1) + 1, 16 * k)
  BY <1>3 DEF Row, RowLen
<1>5. Row(body, k)[2] = body[16 * (k - 1) + 2] /\ 16 * (k - 1) + 2 \in DOMAIN body
  BY <1>3, <1>4
<1> QED BY <1>1, <1>2, <1>5 DEF Text

\* The dump of a text can be read, however long it is.
LEMMA TextReadable ==
  ASSUME NEW body \in Seq(0..255), Text(body)
  PROVE  Readable(AmqpDump(body), body)
<1> DEFINE dump == AmqpDump(body)
           at(k) == {j \in DOMAIN dump.lines : dump.lines[j].offset = RowLen * (k - 1)}
           shownAt == {j \in DOMAIN dump.lines : dump.lines[j] # Dots}
<1>1. DOMAIN dump.lines = Printed(body) /\ Printed(body) \subseteq Nat \ {0}
  BY DEF AmqpDump, Printed
<1>2. \A j \in Printed(body) : dump.lines[j] = DumpRow(body, j)
  BY <1>1, TextInFull DEF AmqpDump
<1>3. body # <<>> => dump.total = {Len(body)}
  BY DEF AmqpDump
<1> HIDE DEF dump
<1>4. \A j \in Printed(body) :
        dump.lines[j].offset = 16 * (j - 1) /\ dump.lines[j].bytes = Row(body, j)
  <2>1. \A j \in Printed(body) :
          DumpRow(body, j).offset = 16 * (j - 1) /\ DumpRow(body, j).bytes = Row(body, j)
    BY DEF DumpRow, RowLen
  <2> QED BY <1>2, <2>1
<1>5. \A i_1, j \in shownAt : i_1 < j => dump.lines[i_1].offset < dump.lines[j].offset
  BY <1>1, <1>4
<1>6. ASSUME NEW k \in 1..Rows(body)
      PROVE  \E j \in at(k) : at(k) = {j} /\ dump.lines[j].bytes = Row(body, k)
  <2>1. Rows(body) \in Nat /\ body # <<>>
    BY DEF Rows, RowLen
  <2>2. k \in Printed(body)
    BY <2>1, TextInFull DEF Printed
  <2>3. \A j \in Printed(body) : 16 * (j - 1) = 16 * (k - 1) => j = k
    BY <1>1, <2>2
  <2>4. at(k) = {k}
    BY <1>1, <1>4, <2>2, <2>3 DEF RowLen
  <2> QED BY <1>4, <2>2, <2>4
<1> QED BY <1>3, <1>5, <1>6 DEF Readable, dump

\* Every body is a sequence of bytes.
LEMMA BodyIsSequence ==
  ASSUME NEW b \in Bodies
  PROVE  b \in Seq(0..255)
<1>1. \A t \in Seq(1..255) : t \in Seq(0..255)
  OBVIOUS
<1> QED BY <1>1, AmqpAssumption DEF Bodies

\* A step prints the dump of the message it takes, or nothing.
LEMMA StepDumped == TypeOK /\ Dumped /\ [Next]_vars => Dumped'
<1> SUFFICES ASSUME TypeOK, Dumped, [Next]_vars PROVE Dumped'
  OBVIOUS
<1>1. CASE UNCHANGED shown
  BY <1>1 DEF Dumped
<1>2. CASE RecvAndPrintData /\ toConsumer # <<>>
  <2> DEFINE new == [body |-> Head(toConsumer), dump |-> AmqpDump(Head(toConsumer))]
             All == [body : Bodies, dump : {AmqpDump(b) : b \in Bodies}]
  <2>1. shown' = Append(shown, new) /\ Head(toConsumer) \in Bodies
    BY <1>2 DEF RecvAndPrintData, TypeOK
  <2>2. new.dump = AmqpDump(new.body) /\ new \in All
    BY <2>1, PrintedType
  <2>3. shown \in Seq(All)
    BY DEF TypeOK
  <2> HIDE DEF new, All
  <2>4. /\ Len(shown') = Len(shown) + 1 /\ Len(shown) \in Nat
        /\ \A n \in 1..Len(shown) : shown'[n] = shown[n]
        /\ shown'[Len(shown) + 1] = new
    BY <2>1, <2>2, <2>3
  <2>5. \A n \in 1..(Len(shown) + 1) : n \in 1..Len(shown) \/ n = Len(shown) + 1
    BY <2>4
  <2> QED BY <2>2, <2>4, <2>5 DEF Dumped
<1>3. UNCHANGED shown \/ (RecvAndPrintData /\ toConsumer # <<>>)
  BY DEF Next, vars, PublisherStep, ConsumerStep, Start, Construct, SendData, ClosePublisher,
         EndPublisher, DeclareQueue, CopyName, BindQueue, BasicConsume, Ask, RecvAndPrintData,
         CloseConsumer, Route, Deliver, HostPublish, Break
<1> QED BY <1>1, <1>2, <1>3

\* The consumer prints what its queue has received, in order, and each text can be
\* read back from what AmqpDump() prints of it, however long it is.
THEOREM Shown == Spec => []ShownAsRouted
<1>1. Init => Dumped
  BY DEF Init, Dumped
<1>2. TypeOK /\ Dumped => \A n \in 1..Len(shown) :
        Text(shown[n].body) => Readable(shown[n].dump, shown[n].body)
  <2> SUFFICES ASSUME TypeOK, Dumped, NEW n \in 1..Len(shown), Text(shown[n].body)
               PROVE  Readable(shown[n].dump, shown[n].body)
    OBVIOUS
  <2>1. shown[n].body \in Bodies /\ shown[n].dump = AmqpDump(shown[n].body)
    <3> DEFINE All == [body : Bodies, dump : {AmqpDump(b) : b \in Bodies}]
    <3>1. shown \in Seq(All)
      BY DEF TypeOK
    <3> HIDE DEF All
    <3>2. shown[n] \in All
      BY <3>1
    <3> QED BY <3>2 DEF Dumped, All
  <2> QED BY <2>1, BodyIsSequence, TextReadable
<1>3. TypeOK /\ Dumped /\ InOrder => ShownAsRouted
  BY <1>2 DEF ShownAsRouted
<1> QED
  BY <1>1, <1>3, StepDumped, TypeCorrect, PrintedInOrder, PTL DEF Spec
=============================================================================
