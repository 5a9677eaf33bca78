------------------------------ MODULE OFConnect ------------------------------
(***************************************************************************)
(* The agent's OpenFlow channel: connection.OFConnect, the goroutines that *)
(* send through it and controller.Run, which answers the switch.           *)
(*                                                                         *)
(*   main, informer handlers, Run --Send--> queue --ProcessQueue--> conn   *)
(*   conn --handleConn--> receiveCh --Run--> replies, sent like the rest   *)
(*                                                                         *)
(* Send, SetConnection and the two lock-check-wait blocks of ProcessQueue  *)
(* are critical sections and each is one step.  Only ProcessQueue holds a  *)
(* mutex across steps: queueMu while it works on the head of the queue and *)
(* connMu as well during conn.Write, which blocks while the connection is  *)
(* full.  The switch and the TCP connections are the environment.          *)
(***************************************************************************)
EXTENDS Integers, Sequences

CONSTANTS
  Flows,         \* the flow messages of the informers' handlers
  MaxConns,      \* bound: connections the switch opens; the last one stays, and
                 \*   stands for the later ones when it is refused
  MaxSent,       \* bound: the handlers stop sending after this many messages
  MaxEchos,      \* bound: echo requests of the switch
  Window,        \* messages a connection takes before a write blocks
  ReadBuffer     \* messages one read of a connection may return

ASSUME ChannelAssumption ==
  /\ MaxConns \in Nat \ {0} /\ Window \in Nat \ {0} /\ ReadBuffer \in Nat \ {0}
  /\ MaxSent \in Nat /\ MaxEchos \in Nat
  /\ Flows \cap {"none", "hello", "default", "features", "echo"} = {}

VARIABLES
  main,          \* what main does next: send hello, default flows, or wait
  queue,         \* OFConnect.queue
  pq,            \* where ProcessQueue is
  conn,          \* OFConnect.conn, 0 for nil
  accepted,      \* connections Serve has accepted
  serve,         \* Serve: "accept", or "set" before SetConnection
  handler,       \* per connection, its handleConn: reading, or holding a message
  run,           \* Run: "receive", or the reply it is about to Send
  datapathID,    \* has Run learned the datapath ID?
  link,          \* per connection, the switch's side of it
  toSwitch, fromSwitch,  \* per connection, the messages in flight
  echos,
  received,      \* history: the messages the switch has taken
  sent, written, \* history: the messages handed to Send, and to a connection
  greeting,      \* per connection, the first message written to it
  skipped        \* history: messages taken off a connection and not parsed

Conns == 1..MaxConns

Messages == Flows \cup {"hello", "default", "features", "echo"}

coreVars == <<queue, pq, conn>>
recvVars == <<handler, run, datapathID, skipped>>
wireVars == <<link, toSwitch, fromSwitch, echos, received>>
vars == <<main, coreVars, accepted, serve, recvVars, wireVars, sent, written, greeting>>

\* Mutant: ProcessQueue sleeps with queueMu held instead of waiting on a
\* condition variable, which gives it up.
QueueMuHeldAsleep == pq \notin {"queueWait", "queueWoken", "head", "write"}

QueueMuFree == pq \notin {"head", "write"}
ConnMuFree  == pq # "write"

-----------------------------------------------------------------------------
(* Sending                                                                  *)

Send(m) ==
  /\ QueueMuFree
  /\ queue' = Append(queue, m)
  /\ sent' = Append(sent, m)
  /\ pq' = IF pq = "queueWait" THEN "queueWoken" ELSE pq

\* main: Initialize, then AddDefaultFlows, and only then the informers and the
\* goroutines of the channel start.
Startup ==
  /\ \/ main = "hello" /\ Send("hello") /\ main' = "defaults"
     \/ main = "defaults" /\ Send("default") /\ main' = "running"
  /\ UNCHANGED <<conn, accepted, serve, recvVars, wireVars, written, greeting>>

\* Mutant: the informers run while main is still initializing.
HandlerSendEarly(f) ==
  /\ Len(sent) < MaxSent
  /\ Send(f)
  /\ UNCHANGED <<main, conn, accepted, serve, recvVars, wireVars, written, greeting>>

\* A VSwitchConfig or pod handler of the controller sends a flow.
HandlerSend(f) ==
  /\ main = "running" /\ Len(sent) < MaxSent
  /\ Send(f)
  /\ UNCHANGED <<main, conn, accepted, serve, recvVars, wireVars, written, greeting>>

-----------------------------------------------------------------------------
(* ProcessQueue                                                             *)

\* Wait is in an if, not in a loop: once woken, conn is not tested again.
AwaitConn ==
  /\ main = "running"
  /\ \/ pq = "conn" /\ pq' = IF conn = 0 THEN "connWait" ELSE "queue"
     \/ pq = "connWoken" /\ pq' = "queue"
  /\ UNCHANGED <<queue, conn>>

\* Neither is the length of the queue.
AwaitMessage ==
  /\ \/ pq = "queue" /\ pq' = IF queue = <<>> THEN "queueWait" ELSE "head"
     \/ pq = "queueWoken" /\ pq' = "head"
  /\ UNCHANGED <<queue, conn>>

\* WriteConnection: an error without a connection, otherwise connMu is taken
LockConn ==
  /\ pq = "head"
  /\ pq' = IF conn = 0 THEN "conn" ELSE "write"
  /\ UNCHANGED <<queue, conn>>

\* Mutant: the message stays in the queue when it has been written.
WriteOKKeeps ==
  /\ pq = "write"
  /\ link[conn] = "open" /\ Len(toSwitch[conn]) < Window
  /\ toSwitch' = [toSwitch EXCEPT ![conn] = Append(@, Head(queue))]
  /\ written' = Append(written, Head(queue))
  /\ greeting' = [greeting EXCEPT ![conn] = IF @ = "none" THEN Head(queue) ELSE @]
  /\ pq' = "conn"
  /\ UNCHANGED <<queue, conn>>

\* conn.Write accepts the message.  On a connection the switch has left it
\* may do so too, and the message is lost.
WriteOK ==
  /\ pq = "write"
  /\ \/ /\ link[conn] = "open" /\ Len(toSwitch[conn]) < Window
        /\ toSwitch' = [toSwitch EXCEPT ![conn] = Append(@, Head(queue))]
     \/ /\ link[conn] = "closed"
        /\ UNCHANGED toSwitch
  /\ written' = Append(written, Head(queue))
  /\ greeting' = [greeting EXCEPT ![conn] = IF @ = "none" THEN Head(queue) ELSE @]
  /\ queue' = Tail(queue)
  /\ pq' = "conn"
  /\ UNCHANGED conn

\* Mutant: the message is taken off the queue before it is written.
WriteErrorPops ==
  /\ pq = "write" /\ link[conn] = "closed"
  /\ pq' = "conn"
  /\ queue' = Tail(queue)
  /\ UNCHANGED conn

\* conn.Write fails: the message stays at the head of the queue.
WriteError ==
  /\ pq = "write" /\ link[conn] = "closed"
  /\ pq' = "conn"
  /\ UNCHANGED <<queue, conn>>

ProcessQueue ==
  /\ \/ /\ AwaitConn \/ AwaitMessage \/ LockConn \/ WriteError
        /\ UNCHANGED <<toSwitch, written, greeting>>
     \/ WriteOK
  /\ UNCHANGED <<main, accepted, serve, recvVars, link, fromSwitch, echos, received, sent>>

-----------------------------------------------------------------------------
(* Serve and handleConn                                                     *)

Accept ==
  /\ main = "running" /\ serve = "accept"
  /\ accepted < MaxConns /\ link[accepted + 1] # "new"
  /\ accepted' = accepted + 1
  /\ serve' = "set"
  /\ UNCHANGED <<main, coreVars, recvVars, wireVars, sent, written, greeting>>

\* Mutant: one condition variable for both waits.
WakeBoth == IF pq = "connWait" THEN "connWoken"
            ELSE IF pq = "queueWait" THEN "queueWoken" ELSE pq

\* Mutant: no broadcast.
WakeNobody == pq

\* connCond.Broadcast
WakeConn == IF pq = "connWait" THEN "connWoken" ELSE pq

\* SetConnection, and the start of handleConn
SetConnection ==
  /\ serve = "set" /\ ConnMuFree
  /\ conn' = accepted
  /\ pq' = WakeConn
  /\ handler' = [handler EXCEPT ![accepted] = "reading"]
  /\ serve' = "accept"
  /\ UNCHANGED <<main, queue, accepted, run, datapathID, skipped, wireVars, sent, written, greeting>>

\* A new bufio.Reader takes the n messages that have arrived; the first one is
\* parsed, the others go with the reader.  A read at the end of the stream
\* fails, and handleConn tries again for ever: no state changes.
ReadMessage(k, n) ==
  /\ handler[k] = "reading" /\ n <= Len(fromSwitch[k])
  /\ handler' = [handler EXCEPT ![k] = Head(fromSwitch[k])]
  /\ skipped' = skipped + (n - 1)
  /\ fromSwitch' = [fromSwitch EXCEPT ![k] = SubSeq(@, n + 1, Len(@))]
  /\ UNCHANGED <<main, coreVars, accepted, serve, run, datapathID, link, toSwitch,
                 echos, received, sent, written, greeting>>

-----------------------------------------------------------------------------
(* Run                                                                      *)

\* Mutant: every message is sent back as it came.
ReplySame(m) == m

Reply(m) ==
  CASE m = "echo"  -> "echo"
    [] m = "hello" -> "features"
    [] OTHER       -> "receive"

\* Receive: the rendezvous with a handleConn on receiveCh
Receive(k) ==
  /\ handler[k] \in {"hello", "echo", "features"} /\ run = "receive"
  /\ run' = Reply(handler[k])
  /\ datapathID' = (datapathID \/ handler[k] = "features")
  /\ handler' = [handler EXCEPT ![k] = "reading"]
  /\ UNCHANGED <<main, coreVars, accepted, serve, skipped, wireVars, sent, written, greeting>>

SendReply ==
  /\ run # "receive"
  /\ Send(run)
  /\ run' = "receive"
  /\ UNCHANGED <<main, conn, accepted, serve, handler, datapathID, skipped, wireVars,
                 written, greeting>>

-----------------------------------------------------------------------------
(* The switch                                                               *)

SwitchSends(k, m) == fromSwitch' = [fromSwitch EXCEPT ![k] = Append(@, m)]

SwitchStep ==
  UNCHANGED <<main, coreVars, accepted, serve, recvVars, sent, written, greeting>>

\* One connection at a time; the switch greets at once.
Dial(k) ==
  /\ link[k] = "new" /\ (k > 1 => link[k - 1] = "closed")
  /\ link' = [link EXCEPT ![k] = "open"]
  /\ SwitchSends(k, "hello")
  /\ UNCHANGED <<toSwitch, echos, received>>
  /\ SwitchStep

EchoRequest(k) ==
  /\ link[k] = "open" /\ echos < MaxEchos
  /\ echos' = echos + 1
  /\ SwitchSends(k, "echo")
  /\ UNCHANGED <<link, toSwitch, received>>
  /\ SwitchStep

\* The switch takes messages from a connection that begins with a hello.
SwitchReads(k) ==
  /\ link[k] = "open" /\ toSwitch[k] # <<>> /\ greeting[k] = "hello"
  /\ toSwitch' = [toSwitch EXCEPT ![k] = Tail(@)]
  /\ received' = Append(received, Head(toSwitch[k]))
  /\ IF Head(toSwitch[k]) = "features"
       THEN SwitchSends(k, "features") ELSE UNCHANGED fromSwitch
  /\ UNCHANGED <<link, echos>>
  /\ SwitchStep

\* A connection that begins with anything else is not properly established:
\* the switch drops it with all that was written to it, and dials again.
Refuse(k) ==
  /\ link[k] = "open" /\ toSwitch[k] # <<>> /\ greeting[k] # "hello"
  /\ link' = [link EXCEPT ![k] = IF k < MaxConns THEN "closed" ELSE "open"]
  /\ toSwitch' = [toSwitch EXCEPT ![k] = <<>>]
  /\ UNCHANGED <<fromSwitch, echos, received>>
  /\ SwitchStep

\* The switch restarts or drops the connection; what it had not read is lost.
Close(k) ==
  /\ link[k] = "open" /\ k < MaxConns
  /\ link' = [link EXCEPT ![k] = "closed"]
  /\ toSwitch' = [toSwitch EXCEPT ![k] = <<>>]
  /\ UNCHANGED <<fromSwitch, echos, received>>
  /\ SwitchStep

-----------------------------------------------------------------------------
Init ==
  /\ main = "hello" /\ queue = <<>> /\ pq = "conn"
  /\ conn = 0 /\ accepted = 0 /\ serve = "accept"
  /\ handler = [k \in Conns |-> "none"] /\ run = "receive" /\ datapathID = FALSE
  /\ link = [k \in Conns |-> "new"] /\ echos = 0
  /\ toSwitch = [k \in Conns |-> <<>>] /\ fromSwitch = [k \in Conns |-> <<>>]
  /\ received = <<>> /\ sent = <<>> /\ written = <<>> /\ greeting = [k \in Conns |-> "none"]
  /\ skipped = 0

Switch(k) == Dial(k) \/ EchoRequest(k) \/ SwitchReads(k) \/ Refuse(k) \/ Close(k)

Next ==
  \/ Startup
  \/ \E f \in Flows : HandlerSend(f)
  \/ ProcessQueue
  \/ Accept
  \/ SetConnection
  \/ SendReply
  \/ \E k \in Conns :
       \/ \E n \in 1..ReadBuffer : ReadMessage(k, n)
       \/ Receive(k)
       \/ Switch(k)

Spec == Init /\ [][Next]_vars

\* Goroutines run, Go's mutexes do not starve a waiter, the switch comes back
\* after it has closed a connection and reads what it is sent.
Fairness ==
  /\ WF_vars(Startup) /\ WF_vars(ProcessQueue) /\ WF_vars(Accept)
  /\ SF_vars(SetConnection) /\ SF_vars(SendReply)
  /\ \A k \in Conns :
       /\ WF_vars(Dial(k)) /\ WF_vars(SwitchReads(k) \/ Refuse(k))
       /\ WF_vars(\E n \in 1..ReadBuffer : ReadMessage(k, n))
       /\ SF_vars(Receive(k))

FairSpec == Spec /\ Fairness

-----------------------------------------------------------------------------
(* Properties                                                               *)

\* Type invariant: the fields of OFConnect and the goroutines that use it.
TypeOK ==
  /\ main \in {"hello", "defaults", "running"}
  /\ queue \in Seq(Messages)
  /\ pq \in {"conn", "connWait", "connWoken", "queue", "queueWait", "queueWoken",
             "head", "write"}
  /\ conn \in 0..MaxConns /\ accepted \in 0..MaxConns
  /\ serve \in {"accept", "set"}
  /\ handler \in [Conns -> {"none", "reading", "hello", "echo", "features"}]
  /\ run \in {"receive", "echo", "features"} /\ datapathID \in BOOLEAN
  /\ link \in [Conns -> {"new", "open", "closed"}]
  /\ toSwitch \in [Conns -> Seq(Messages)]
  /\ fromSwitch \in [Conns -> Seq({"hello", "echo", "features"})]
  /\ echos \in Nat /\ received \in Seq(Messages)
  /\ sent \in Seq(Messages) /\ written \in Seq(Messages)
  /\ greeting \in [Conns -> Messages \cup {"none"}]
  /\ skipped \in Nat

\* ProcessQueue indexes queue[0] without testing the length again after it
\* was woken: it must never do so on an empty queue, which would panic.
HeadPresent == pq \in {"head", "write"} => queue # <<>> /\ conn # 0

\* Through failed writes, reconnects and waits, every message handed to Send
\* is in the queue or has been written to a connection, once and in the order
\* of the Sends.
FIFO == sent = written \o queue

\* The switch only ever refuses a connection after another one had the hello:
\* no informer handler, no retry on the next connection and no reply of Run,
\* which answers the switch's own hello, comes before that of Initialize.
HelloFirst ==
  \A k \in Conns :
    greeting[k] \notin {"none", "hello"} => \E j \in 1..(k - 1) : greeting[j] = "hello"

\* The connection that has got the hello is gone.
Broken == \E k \in Conns : greeting[k] = "hello" /\ link[k] = "closed"

Channel == INSTANCE FlowChannel WITH
  sent <- sent, delivered <- received, broken <- Broken

\* Senders and switch see a channel: messages arrive in order, once and none
\* left out, until the connection with the hello is gone, although ProcessQueue
\* may write to a dead connection and repeats a failed write on the next one;
\* from then on nothing arrives, whatever is written to later connections.
ImplementsChannel == Channel!Spec

\* Every message handed to Send is written to a connection eventually, and read
\* by the switch as long as it keeps its connection: neither the locks nor the
\* retries of ProcessQueue keep SetConnection or a sender waiting for ever.
EverySendArrives ==
  \A i \in 1..MaxSent :
    Len(sent) >= i ~> Len(written) >= i /\ (Len(received) >= i \/ Broken)

\* Run, which has to take queueMu for every reply, always gets back to
\* receiving although ProcessQueue holds it during blocking writes.
RunKeepsReceiving == run # "receive" ~> run = "receive"

\* Every connection is established with a hello, as Initialize says it must be.
EveryConnectionGreeted == \A k \in Conns : greeting[k] \in {"none", "hello"}

\* handleConn moves forward message by message: none of those it takes off the
\* connection is left out.
NoMessageSkipped == skipped = 0

-----------------------------------------------------------------------------
(* The inductive invariant behind HeadPresent, FIFO and HelloFirst          *)

\* A wake-up keeps its promise until ProcessQueue has the lock again: only
\* ProcessQueue shortens the queue, and conn never becomes nil.
WakeUps ==
  /\ pq \in {"queueWoken", "head", "write"} => queue # <<>>
  /\ pq \notin {"conn", "connWait"} => conn # 0
  /\ serve = "set" => accepted # 0

\* Nothing but main runs before the default flows are queued.
Phases ==
  /\ main = "hello" => sent = <<>>
  /\ main # "hello" => sent # <<>> /\ sent[1] = "hello"
  /\ main # "running" =>
       accepted = 0 /\ run = "receive" /\ handler = [k \in Conns |-> "none"]

IndInv == TypeOK /\ WakeUps /\ Phases /\ FIFO

=============================================================================
