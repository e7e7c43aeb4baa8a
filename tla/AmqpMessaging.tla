--------------------------- MODULE AmqpMessaging ---------------------------
(***************************************************************************)
(* The two programs of examples/rabbitmq and the broker between them:      *)
(*                                                                         *)
(*   publisher  amqp_publisher/publisher/src: SendData() publishes Count   *)
(*              messages, without confirmation, and the program ends;      *)
(*   consumer   amqp_consumer/consumer/src: DeclareQueue() creates a queue *)
(*              of its own and binds it to the exchange, RecvAndPrintData()*)
(*              prints what arrives until the connection fails.            *)
(*                                                                         *)
(* The broker (RabbitMQ), the connections to it and the tool that          *)
(* publishes from the host are external.  A connection may break at any    *)
(* time and loses what is under way on it.                                 *)
(***************************************************************************)
EXTENDS HexDump

CONSTANTS
  Count,        \* the messages SendData() publishes: 100 in the code
  messageBody,  \* the text of each: the braces, "sequence" and the number in them
  HostBodies,   \* bodies a tool on the host publishes
  MaxHost       \* bound: how many of them

ASSUME AmqpAssumption ==
  /\ Count \in Nat \ {0} /\ MaxHost \in Nat /\ HostBodies \subseteq Seq(0..255)
  /\ messageBody \in [1..Count -> Seq(1..255)]
  /\ \A m, n \in 1..Count : messageBody[m] = messageBody[n] => m = n

Programs == {"publisher", "consumer"}
Ends     == {"success", "failure", "terminated"}

VARIABLES
  pc,           \* where each program is
  link,         \* its connection: "none", "up", "broken" or "closed"
  i,            \* the loop counter of SendData()
  toBroker,     \* bodies under way from the publisher
  queue,        \* the consumer's queue at the broker: its state and its content
  toConsumer,   \* bodies under way to the consumer
  routed,       \* all bodies ever put into the queue
  shown,        \* what the consumer has printed: body and dump
  hosts         \* how many messages the host has published

broker == <<toBroker, queue, toConsumer, routed>>
vars   == <<pc, link, i, broker, shown, hosts>>

NoQueue == [state |-> "absent", content |-> <<>>]

Init ==
  /\ pc = [p \in Programs |-> "start"] /\ link = [p \in Programs |-> "none"]
  /\ i = 0 /\ toBroker = <<>> /\ queue = NoQueue /\ toConsumer = <<>> /\ routed = <<>>
  /\ shown = <<>> /\ hosts = 0

-----------------------------------------------------------------------------
(***************************************************************************)
(* main() and the constructor, alike in both programs.                     *)
(***************************************************************************)
Go(p, label) == pc' = [pc EXCEPT ![p] = label]

\* No network or no address is a failure.  A port that is no number gives the
\* default one; a port that is not set or too large throws what main() does not catch.
Start(p) ==
  /\ pc[p] = "start"
  /\ \/ Go(p, "new") \/ Go(p, "failure") \/ Go(p, "terminated")
  /\ UNCHANGED <<link, i, broker, shown, hosts>>

After == [new |-> "socket", socket |-> "open", open |-> "login", login |-> "channel"]
Body1(p) == IF p = "publisher" THEN "send" ELSE "declare"

\* One call of the constructor.  One that fails throws, and the destructor does
\* not run: the connection ends with the program.
Construct(p) ==
  /\ pc[p] \in DOMAIN After \cup {"channel"}
  /\ \/ /\ link[p] # "broken"
        /\ Go(p, IF pc[p] = "channel" THEN Body1(p) ELSE After[pc[p]])
        /\ link' = [link EXCEPT ![p] = IF pc[p] = "open" THEN "up" ELSE @]
     \/ /\ Go(p, "failure")
        /\ link' = [link EXCEPT ![p] = IF @ = "up" THEN "closed" ELSE @]
  /\ UNCHANGED <<i, broker, shown, hosts>>

-----------------------------------------------------------------------------
(***************************************************************************)
(* Publisher.                                                              *)
(***************************************************************************)

\* One turn of the loop: amqp_basic_publish() writes and waits for nothing, so it
\* may succeed on a connection that is broken already; or it throws.
SendData ==
  /\ pc["publisher"] = "send"
  /\ \/ i >= Count /\ Go("publisher", "dtor") /\ UNCHANGED <<i, toBroker>>
     \/ /\ i < Count /\ i' = i + 1 /\ UNCHANGED pc
        /\ toBroker' = IF link["publisher"] = "up"
                         THEN Append(toBroker, messageBody[i + 1]) ELSE toBroker
     \/ i < Count /\ link["publisher"] = "broken" /\ Go("publisher", "throw")
        /\ UNCHANGED <<i, toBroker>>
  /\ UNCHANGED <<link, queue, toConsumer, routed, shown, hosts>>

\* What may be left of the messages under way when their connection is cut off.
Cut(messages) == {SubSeq(messages, 1, n) : n \in 0..Len(messages)}

\* The end of the program, as the result of main() and for its connection.
EndPublisher ==
  /\ link' = [link EXCEPT !["publisher"] = IF @ = "up" THEN "closed" ELSE @]
  /\ toBroker' \in Cut(toBroker)
  /\ Go("publisher", IF pc["publisher"] = "dtor" THEN "success" ELSE "failure")
  /\ UNCHANGED <<i, queue, toConsumer, routed, shown, hosts>>

\* Mistake: the destructor frees the connection without closing it.
DestroyOnly == pc["publisher"] \in {"dtor", "throw"} /\ EndPublisher

\* The destructor closes channel and connection; the broker answers a close after
\* what was published before it, so that nothing is under way when the connection
\* is freed.  The results are not looked at.
ClosePublisher ==
  /\ pc["publisher"] \in {"dtor", "throw"}
  /\ link["publisher"] = "broken" \/ toBroker = <<>>
  /\ EndPublisher

-----------------------------------------------------------------------------
(***************************************************************************)
(* Consumer.                                                               *)
(***************************************************************************)

\* An answer that is missing, or no normal one, throws (ThrowOnAmqpError()); the
\* broker may have done what was asked all the same.
Ask(label, state) ==
  /\ \/ link["consumer"] = "up" /\ queue' = [queue EXCEPT !.state = state]
     \/ UNCHANGED queue
  /\ \/ link["consumer"] = "up" /\ queue'.state = state /\ Go("consumer", label)
     \/ Go("consumer", "throw")
  /\ UNCHANGED <<link, i, toBroker, toConsumer, routed, shown, hosts>>

\* amqp_queue_declare(): no name, not exclusive, deleted with its last consumer.
DeclareQueue == pc["consumer"] = "declare" /\ Ask("dup", "declared")

\* The copy of the queue's name.
CopyName ==
  /\ pc["consumer"] = "dup"
  /\ Go("consumer", "bind") \/ Go("consumer", "throw")
  /\ UNCHANGED <<link, i, broker, shown, hosts>>

BindQueue == pc["consumer"] = "bind" /\ Ask("consume", "bound")

\* amqp_basic_consume() without acknowledgements.
BasicConsume == pc["consumer"] = "consume" /\ Ask("recv", "consumed")

\* One turn of RecvAndPrintData(): a message that has arrived is printed, also
\* after the connection has failed; then any other answer ends the loop.
RecvAndPrintData ==
  /\ pc["consumer"] = "recv"
  /\ \/ /\ toConsumer # <<>> /\ UNCHANGED pc
        /\ shown' = Append(shown, [body |-> Head(toConsumer),
                                   dump |-> AmqpDump(Head(toConsumer))])
        /\ toConsumer' = Tail(toConsumer)
     \/ /\ toConsumer = <<>> /\ link["consumer"] = "broken"
        /\ Go("consumer", "dtor") /\ UNCHANGED <<shown, toConsumer>>
  /\ UNCHANGED <<link, i, toBroker, queue, routed, hosts>>

\* A queue that has had a consumer goes with it; another one stays.
Deleted(q) == IF q.state = "consumed" THEN NoQueue ELSE q

\* The destructor; EXIT_SUCCESS unless DeclareQueue() has thrown.
CloseConsumer ==
  /\ pc["consumer"] \in {"dtor", "throw"}
  /\ link' = [link EXCEPT !["consumer"] = IF @ = "up" THEN "closed" ELSE @]
  /\ queue' = Deleted(queue) /\ toConsumer' = <<>>
  /\ Go("consumer", IF pc["consumer"] = "dtor" THEN "success" ELSE "failure")
  /\ UNCHANGED <<i, toBroker, routed, shown, hosts>>

-----------------------------------------------------------------------------
(***************************************************************************)
(* The broker, the host and the connections.                               *)
(***************************************************************************)

\* The direct exchange: a message without a bound queue is dropped.
Exchange(body) ==
  IF queue.state \in {"bound", "consumed"}
    THEN queue' = [queue EXCEPT !.content = Append(@, body)] /\ routed' = Append(routed, body)
    ELSE UNCHANGED <<queue, routed>>

Route ==
  /\ toBroker # <<>> /\ toBroker' = Tail(toBroker) /\ Exchange(Head(toBroker))
  /\ UNCHANGED <<pc, link, i, toConsumer, shown, hosts>>

HostPublish ==
  /\ hosts < MaxHost /\ hosts' = hosts + 1
  /\ \E body \in HostBodies : Exchange(body)
  /\ UNCHANGED <<pc, link, i, toBroker, toConsumer, shown>>

Deliver ==
  /\ queue.state = "consumed" /\ queue.content # <<>> /\ link["consumer"] = "up"
  /\ toConsumer' = Append(toConsumer, Head(queue.content))
  /\ queue' = [queue EXCEPT !.content = Tail(@)]
  /\ UNCHANGED <<pc, link, i, toBroker, routed, shown, hosts>>

\* A connection breaks: some of what is under way still arrives.
Break(p) ==
  /\ link[p] = "up" /\ link' = [link EXCEPT ![p] = "broken"]
  /\ IF p = "publisher"
       THEN toBroker' \in Cut(toBroker) /\ UNCHANGED <<toConsumer, queue>>
       ELSE toConsumer' \in Cut(toConsumer) /\ queue' = Deleted(queue) /\ UNCHANGED toBroker
  /\ UNCHANGED <<pc, i, routed, shown, hosts>>

-----------------------------------------------------------------------------
PublisherStep == Start("publisher") \/ Construct("publisher") \/ SendData \/ ClosePublisher
ConsumerStep  ==
  \/ Start("consumer") \/ Construct("consumer") \/ DeclareQueue \/ CopyName \/ BindQueue
  \/ BasicConsume \/ RecvAndPrintData \/ CloseConsumer

\* Both programs may have ended, or the consumer waits for good.
Next ==
  \/ PublisherStep \/ ConsumerStep \/ Route \/ Deliver \/ HostPublish
  \/ \E p \in Programs : Break(p)

Spec == Init /\ [][Next]_vars

\* One thread per program, and a broker that goes on working.
FairSpec ==
  /\ Spec
  /\ WF_vars(PublisherStep) /\ WF_vars(ConsumerStep) /\ WF_vars(Route) /\ WF_vars(Deliver)

-----------------------------------------------------------------------------
(***************************************************************************)
(* Properties.                                                             *)
(***************************************************************************)

\* The bodies there are in this system.
Bodies == HostBodies \cup {messageBody[n] : n \in 1..Count}

Labels == {"start", "new", "socket", "open", "login", "channel", "send", "declare", "dup",
           "bind", "consume", "recv", "dtor", "throw"} \cup Ends

TypeOK ==
  /\ pc \in [Programs -> Labels] /\ link \in [Programs -> {"none", "up", "broken", "closed"}]
  /\ i \in 0..Count /\ hosts \in Nat
  /\ toBroker \in Seq(Bodies) /\ toConsumer \in Seq(Bodies) /\ routed \in Seq(Bodies)
  /\ queue \in [state : {"absent", "declared", "bound", "consumed"}, content : Seq(Bodies)]
  /\ shown \in Seq([body : Bodies, dump : {AmqpDump(b) : b \in Bodies}])

\* The consumer prints, message by message and in order, what its queue has
\* received since the bind: no gap, no repetition.
InOrder ==
  /\ Len(shown) <= Len(routed)
  /\ \A n \in 1..Len(shown) : shown[n].body = routed[n]

\* Each message is printed in that order, and a text can be read from its dump.
\* (Of a body that holds NULs, AmqpDump() may leave out a row that repeats nothing.)
ShownAsRouted ==
  InOrder /\ \A n \in 1..Len(shown) :
               Text(shown[n].body) => Readable(shown[n].dump, shown[n].body)

\* How far the consumer's queue is; before it is declared nothing was routed.
QueueInv ==
  /\ pc["consumer"] \in {"start", "new", "socket", "open", "login", "channel", "declare"}
       => queue = NoQueue /\ routed = <<>>
  /\ pc["consumer"] \in {"dup", "bind"} => queue.state = "declared"
  /\ pc["consumer"] = "consume" => queue.state = "bound"
  /\ queue.state \in {"absent", "declared"} => queue.content = <<>>
  /\ queue.state = "declared" => routed = <<>>
  /\ queue.state = "bound" => toConsumer = <<>>

\* What was routed is printed, under way or in the queue, in this order; the end
\* of it may be lost with the connection.
FlowInv ==
  /\ Len(shown) + Len(toConsumer) + Len(queue.content) <= Len(routed)
  /\ \A n \in 1..Len(toConsumer) : toConsumer[n] = routed[Len(shown) + n]
  /\ queue.state # "absent" =>
       /\ Len(shown) + Len(toConsumer) + Len(queue.content) = Len(routed)
       /\ \A n \in 1..Len(queue.content) :
            queue.content[n] = routed[Len(shown) + Len(toConsumer) + n]

\* What was printed is the dump of the body.
Dumped == \A n \in 1..Len(shown) : shown[n].dump = AmqpDump(shown[n].body)

\* The inductive invariant of the message flow.
IInv == TypeOK /\ QueueInv /\ FlowInv /\ InOrder

\* If the publisher ends well over a connection that has held, and its first
\* message found the queue bound, then the consumer prints all Count of them,
\* unless its own connection ends.
PublishedArrive ==
  (/\ pc["publisher"] = "success" /\ link["publisher"] = "closed"
   /\ \E n \in DOMAIN routed : routed[n] = messageBody[1])
  ~> (\/ link["consumer"] # "up"
      \/ \A k \in 1..Count : \E n \in DOMAIN shown : shown[n].body = messageBody[k])
=============================================================================
