--------------------------- MODULE OFConnectProofs ---------------------------
(***************************************************************************)
(* Safety of the OpenFlow channel for every number of connections, flows   *)
(* and echo requests and every size of the buffers.                        *)
(***************************************************************************)
EXTENDS OFConnect, SequenceTheorems, TLAPS

USE DEF coreVars, recvVars, wireVars

-----------------------------------------------------------------------------
(* Sequences                                                                *)

\* Moving the head of a queue to the end of what was written before it
LEMMA MoveHead ==
  ASSUME NEW S, NEW w \in Seq(S), NEW q \in Seq(S), q # <<>>
  PROVE  Append(w, Head(q)) \o Tail(q) = w \o q
OBVIOUS

\* The first element stays first.
LEMMA AppendFirst ==
  ASSUME NEW S, NEW q \in Seq(S), NEW m \in S
  PROVE  /\ Append(q, m) \in Seq(S) /\ Append(q, m) # <<>>
         /\ q # <<>> => Append(q, m)[1] = q[1]
         /\ q = <<>> => Append(q, m)[1] = m
OBVIOUS

-----------------------------------------------------------------------------
(* The inductive invariant                                                  *)

PQStates == {"conn", "connWait", "connWoken", "queue", "queueWait", "queueWoken",
             "head", "write"}

Signals == {"hello", "echo", "features"}

\* What Send does to the queue and its history
LEMMA SendEffect ==
  ASSUME TypeOK, FIFO, NEW m \in Messages, Send(m), UNCHANGED written
  PROVE  /\ queue' \in Seq(Messages) /\ queue' # <<>>
         /\ sent' \in Seq(Messages) /\ sent' # <<>>
         /\ pq' \in PQStates
         /\ FIFO'
         /\ sent # <<>> => sent'[1] = sent[1]
         /\ sent = <<>> => sent'[1] = m
<1>1. queue \in Seq(Messages) /\ sent \in Seq(Messages) /\ written \in Seq(Messages)
  BY DEF TypeOK
<1>2. queue' = Append(queue, m) /\ sent' = Append(sent, m)
  BY DEF Send
<1>3. pq' \in PQStates
  BY DEF Send, TypeOK, PQStates
<1>4. FIFO'
  <2>1. Append(written \o queue, m) = written \o Append(queue, m)
    BY <1>1
  <2> QED
    BY <1>2, <2>1 DEF FIFO
<1> QED
  BY <1>1, <1>2, <1>3, <1>4, AppendFirst

\* What a step of ProcessQueue does to the queue, the history and the locks
LEMMA ProcessQueueStep ==
  ASSUME IndInv, ProcessQueue
  PROVE  IndInv'
<1>0. TypeOK /\ WakeUps /\ Phases /\ FIFO
  BY DEF IndInv
<1>1. ASSUME AwaitConn \/ AwaitMessage \/ LockConn \/ WriteError,
             UNCHANGED <<toSwitch, written, greeting>>
      PROVE  IndInv'
  <2>1. pq' \in PQStates
    BY <1>1 DEF AwaitConn, AwaitMessage, LockConn, WriteError, PQStates
  <2>2. /\ UNCHANGED <<queue, conn, main, accepted, serve, recvVars, link, fromSwitch,
                       echos, received, sent>>
    BY <1>1 DEF ProcessQueue, AwaitConn, AwaitMessage, LockConn, WriteError
  <2>3. TypeOK'
    BY <1>0, <1>1, <2>1, <2>2 DEF TypeOK, PQStates
  <2>4. WakeUps'
    BY <1>0, <1>1, <2>2
    DEF WakeUps, AwaitConn, AwaitMessage, LockConn, WriteError
  <2> QED
    BY <1>0, <1>1, <2>2, <2>3, <2>4 DEF IndInv, Phases, FIFO
<1>2. ASSUME WriteOK
      PROVE  IndInv'
  <2>1. queue \in Seq(Messages) /\ queue # <<>> /\ written \in Seq(Messages)
    BY <1>0, <1>2 DEF TypeOK, WakeUps, WriteOK
  <2>2. Head(queue) \in Messages /\ Tail(queue) \in Seq(Messages)
    BY <2>1
  <2>3. written' \in Seq(Messages) /\ queue' \in Seq(Messages)
    BY <1>2, <2>1, <2>2 DEF WriteOK
  <2>4. toSwitch' \in [Conns -> Seq(Messages)]
    <3>1. conn \in Conns
      BY <1>0, <1>2, ChannelAssumption DEF WriteOK, WakeUps, TypeOK, Conns
    <3>2. Append(toSwitch[conn], Head(queue)) \in Seq(Messages)
      BY <1>0, <2>2, <3>1 DEF TypeOK
    <3> QED
      BY <1>0, <1>2, <3>1, <3>2 DEF WriteOK, TypeOK
  <2>5. greeting' \in [Conns -> Messages \cup {"none"}]
    BY <1>0, <1>2, <2>2 DEF WriteOK, TypeOK
  <2>6. /\ UNCHANGED <<conn, main, accepted, serve, recvVars, link, fromSwitch, echos,
                       received, sent>>
        /\ pq' = "conn"
    BY <1>2 DEF ProcessQueue, AwaitConn, AwaitMessage, LockConn, WriteError, WriteOK
  <2>7. TypeOK'
    BY <1>0, <2>3, <2>4, <2>5, <2>6 DEF TypeOK
  <2>8. FIFO'
    BY <1>0, <1>2, <2>1, <2>6, MoveHead DEF FIFO, WriteOK
  <2> QED
    BY <1>0, <2>6, <2>7, <2>8 DEF IndInv, WakeUps, Phases
<1> QED
  BY <1>1, <1>2 DEF ProcessQueue

\* What a Send by main, a handler or Run does
LEMMA SenderStep ==
  ASSUME IndInv, Startup \/ SendReply \/ \E f \in Flows : HandlerSend(f)
  PROVE  IndInv'
<1>0. TypeOK /\ WakeUps /\ Phases /\ FIFO
  BY DEF IndInv
<1>1. ASSUME NEW m \in Messages, Send(m),
             UNCHANGED <<conn, accepted, serve, handler, datapathID, skipped, wireVars,
                         written, greeting>>,
             run' \in {"receive", run}, main' \in {"hello", "defaults", "running"},
             main' # "hello", main = "hello" => m = "hello",
             main = "running" => main' = "running"
      PROVE  IndInv'
  <2>1. /\ queue' \in Seq(Messages) /\ queue' # <<>>
        /\ sent' \in Seq(Messages) /\ sent' # <<>>
        /\ pq' \in PQStates /\ FIFO'
        /\ sent # <<>> => sent'[1] = sent[1]
        /\ sent = <<>> => sent'[1] = m
    BY <1>0, <1>1, SendEffect
  <2>2. TypeOK'
    BY <1>0, <1>1, <2>1 DEF TypeOK, PQStates
  <2>3. WakeUps'
    BY <1>0, <1>1, <2>1 DEF WakeUps, Send
  <2>4. sent'[1] = "hello"
    BY <1>0, <1>1, <2>1 DEF Phases
  <2>5. main' # "running" =>
          accepted' = 0 /\ run' = "receive" /\ handler' = [k \in Conns |-> "none"]
    BY <1>0, <1>1 DEF Phases, TypeOK
  <2> QED
    BY <1>1, <2>1, <2>2, <2>3, <2>4, <2>5 DEF IndInv, Phases
<1>2. CASE Startup
  <2>1. PICK m \in {"hello", "default"} : Send(m) /\ (main = "hello" => m = "hello")
    BY <1>2 DEF Startup
  <2>2. m \in Messages
    BY DEF Messages
  <2> QED
    BY <1>1, <1>2, <2>1, <2>2 DEF Startup
<1>3. CASE SendReply
  <2>1. run \in Messages /\ main # "hello"
    BY <1>0, <1>3 DEF SendReply, TypeOK, Messages, Phases
  <2> QED
    BY <1>0, <1>1, <1>3, <2>1 DEF SendReply, TypeOK
<1>4. ASSUME NEW f \in Flows, HandlerSend(f)
      PROVE  IndInv'
  <2>1. f \in Messages
    BY DEF Messages
  <2> QED
    BY <1>1, <1>4, <2>1 DEF HandlerSend
<1> QED
  BY <1>2, <1>3, <1>4

\* Serve, the readers, Run and the switch leave the queue and its history
\* alone, and they are quiet until main is through.
LEMMA OtherStep ==
  ASSUME IndInv,
         \/ Accept \/ SetConnection
         \/ \E k \in Conns :
              \/ \E n \in 1..ReadBuffer : ReadMessage(k, n)
              \/ Receive(k) \/ Switch(k)
         \/ UNCHANGED vars
  PROVE  IndInv'
<1>0. TypeOK /\ WakeUps /\ Phases /\ FIFO
  BY DEF IndInv
<1>1. CASE Accept
  <2>1. accepted' \in 0..MaxConns /\ accepted' # 0
    BY <1>0, <1>1, ChannelAssumption DEF Accept, TypeOK
  <2>2. TypeOK'
    BY <1>0, <1>1, <2>1 DEF Accept, TypeOK
  <2>3. WakeUps' /\ Phases' /\ FIFO'
    BY <1>0, <1>1, <2>1 DEF Accept, WakeUps, Phases, FIFO
  <2> QED
    BY <2>2, <2>3 DEF IndInv
<1>2. CASE SetConnection
  <2>1. accepted \in 0..MaxConns /\ accepted # 0 /\ main = "running"
    BY <1>0, <1>2 DEF SetConnection, TypeOK, WakeUps, Phases
  <2>2. handler' \in [Conns -> {"none", "reading", "hello", "echo", "features"}]
    BY <1>0, <1>2 DEF SetConnection, TypeOK
  <2>3. pq' \in PQStates
    BY <1>0, <1>2 DEF SetConnection, WakeConn, TypeOK, PQStates
  <2>4. TypeOK'
    BY <1>0, <1>2, <2>1, <2>2, <2>3 DEF SetConnection, TypeOK, PQStates
  <2>5. WakeUps' /\ Phases' /\ FIFO'
    BY <1>0, <1>2, <2>1 DEF SetConnection, WakeConn, WakeUps, Phases, FIFO
  <2> QED
    BY <2>4, <2>5 DEF IndInv
<1>3. ASSUME NEW k \in Conns, NEW n \in 1..ReadBuffer, ReadMessage(k, n)
      PROVE  IndInv'
  <2>1. /\ fromSwitch[k] \in Seq(Signals) /\ fromSwitch[k] # <<>>
        /\ n \in Nat \ {0} /\ n <= Len(fromSwitch[k])
    BY <1>0, <1>3, ChannelAssumption DEF ReadMessage, TypeOK, Signals
  <2>2. /\ Head(fromSwitch[k]) \in Signals
        /\ SubSeq(fromSwitch[k], n + 1, Len(fromSwitch[k])) \in Seq(Signals)
    BY <2>1
  <2>3. /\ handler' \in [Conns -> {"none", "reading", "hello", "echo", "features"}]
        /\ fromSwitch' \in [Conns -> Seq(Signals)]
    BY <1>0, <1>3, <2>2 DEF ReadMessage, TypeOK, Signals
  <2>4. skipped' \in Nat
    BY <1>0, <1>3, <2>1 DEF ReadMessage, TypeOK
  <2>5. TypeOK'
    BY <1>0, <1>3, <2>3, <2>4 DEF ReadMessage, TypeOK, Signals
  <2>6. main = "running"
    BY <1>0, <1>3 DEF ReadMessage, TypeOK, Phases
  <2>7. WakeUps' /\ Phases' /\ FIFO'
    BY <1>0, <1>3, <2>6 DEF ReadMessage, WakeUps, Phases, FIFO
  <2> QED
    BY <2>5, <2>7 DEF IndInv
<1>4. ASSUME NEW k \in Conns, Receive(k)
      PROVE  IndInv'
  <2>1. handler' \in [Conns -> {"none", "reading", "hello", "echo", "features"}]
    BY <1>0, <1>4 DEF Receive, TypeOK
  <2>2. run' \in {"receive", "echo", "features"}
    BY <1>4 DEF Receive, Reply
  <2>3. datapathID' \in BOOLEAN
    BY <1>4, Zenon DEF Receive
  <2>4. TypeOK'
    BY <1>0, <1>4, <2>1, <2>2, <2>3 DEF Receive, TypeOK
  <2>5. main = "running"
    BY <1>0, <1>4 DEF Receive, TypeOK, Phases
  <2>6. WakeUps' /\ Phases' /\ FIFO'
    BY <1>0, <1>4, <2>5 DEF Receive, WakeUps, Phases, FIFO
  <2> QED
    BY <2>4, <2>6 DEF IndInv
<1>5. ASSUME NEW k \in Conns, Switch(k)
      PROVE  IndInv'
  <2>1. UNCHANGED <<main, coreVars, accepted, serve, recvVars, sent, written, greeting>>
    BY <1>5 DEF Switch, Dial, EchoRequest, SwitchReads, Refuse, Close, SwitchStep
  <2>2. fromSwitch' \in [Conns -> Seq(Signals)]
    <3>1. ASSUME NEW m \in Signals, SwitchSends(k, m)
          PROVE  fromSwitch' \in [Conns -> Seq(Signals)]
      BY <1>0, <3>1 DEF SwitchSends, TypeOK, Signals
    <3>2. "hello" \in Signals /\ "echo" \in Signals /\ "features" \in Signals
      BY DEF Signals
    <3>3. fromSwitch \in [Conns -> Seq(Signals)]
      BY <1>0 DEF TypeOK, Signals
    <3> QED
      BY <1>5, <3>1, <3>2, <3>3 DEF Switch, Dial, EchoRequest, SwitchReads, Refuse, Close
  <2>3. toSwitch' \in [Conns -> Seq(Messages)]
    <3>1. toSwitch[k] \in Seq(Messages)
      BY <1>0 DEF TypeOK
    <3>2. toSwitch[k] # <<>> => Tail(toSwitch[k]) \in Seq(Messages)
      BY <3>1
    <3>3. CASE SwitchReads(k)
      BY <1>0, <3>2, <3>3 DEF SwitchReads, TypeOK
    <3>4. CASE Close(k) \/ Refuse(k)
      <4>1. <<>> \in Seq(Messages)
        OBVIOUS
      <4> QED
        BY <1>0, <3>4, <4>1 DEF Close, Refuse, TypeOK
    <3> QED
      BY <1>0, <1>5, <3>3, <3>4 DEF Switch, Dial, EchoRequest, TypeOK
  <2>4. link' \in [Conns -> {"new", "open", "closed"}]
    BY <1>0, <1>5 DEF Switch, Dial, EchoRequest, SwitchReads, Refuse, Close, TypeOK
  <2>5. echos' \in Nat
    BY <1>0, <1>5 DEF Switch, Dial, EchoRequest, SwitchReads, Refuse, Close, TypeOK
  <2>8. received' \in Seq(Messages)
    <3>1. toSwitch[k] # <<>> => Head(toSwitch[k]) \in Messages
      BY <1>0 DEF TypeOK
    <3>2. CASE SwitchReads(k)
      BY <1>0, <3>1, <3>2 DEF SwitchReads, TypeOK
    <3> QED
      BY <1>0, <1>5, <3>2 DEF Switch, Dial, EchoRequest, Refuse, Close, TypeOK
  <2>6. TypeOK'
    BY <1>0, <2>1, <2>2, <2>3, <2>4, <2>5, <2>8 DEF TypeOK, Signals
  <2>7. WakeUps' /\ Phases' /\ FIFO'
    BY <1>0, <2>1 DEF WakeUps, Phases, FIFO
  <2> QED
    BY <2>6, <2>7 DEF IndInv
<1>6. CASE UNCHANGED vars
  <2>1. TypeOK'
    BY <1>0, <1>6 DEF vars, TypeOK
  <2> QED
    BY <1>0, <1>6, <2>1 DEF vars, IndInv, WakeUps, Phases, FIFO
<1> QED
  BY <1>1, <1>2, <1>3, <1>4, <1>5, <1>6

LEMMA IndInvInit == Init => IndInv
<1> SUFFICES ASSUME Init PROVE IndInv
  OBVIOUS
<1>1. TypeOK
  <2>1. 0 \in 0..MaxConns
    BY ChannelAssumption
  <2>2. /\ toSwitch \in [Conns -> Seq(Messages)]
        /\ fromSwitch \in [Conns -> Seq({"hello", "echo", "features"})]
    BY DEF Init
  <2>3. datapathID \in BOOLEAN
    BY DEF Init
  <2>4. /\ queue \in Seq(Messages) /\ received \in Seq(Messages)
        /\ sent \in Seq(Messages) /\ written \in Seq(Messages)
    BY DEF Init
  <2> QED
    BY <2>1, <2>2, <2>3, <2>4 DEF Init, TypeOK
<1>2. WakeUps /\ Phases
  BY DEF Init, WakeUps, Phases
<1>3. FIFO
  BY DEF Init, FIFO
<1> QED
  BY <1>1, <1>2, <1>3 DEF IndInv

LEMMA IndInvHolds == Spec => []IndInv
<1>1. IndInv /\ [Next]_vars => IndInv'
  BY ProcessQueueStep, SenderStep, OtherStep DEF Next
<1> QED
  BY <1>1, IndInvInit, PTL DEF Spec

-----------------------------------------------------------------------------
(* Theorems                                                                 *)

\* OFConnect and the goroutines around it are well typed in every state.
THEOREM TypeCorrect == Spec => []TypeOK
<1>1. IndInv => TypeOK
  BY DEF IndInv
<1> QED
  BY <1>1, IndInvHolds, PTL

\* ProcessQueue never indexes an empty queue and never writes without a
\* connection, although both of its waits are in an if.
THEOREM HeadAlwaysPresent == Spec => []HeadPresent
<1>1. IndInv => HeadPresent
  BY DEF IndInv, WakeUps, HeadPresent
<1> QED
  BY <1>1, IndInvHolds, PTL

\* The queue neither loses nor repeats nor reorders a message, whatever
\* connections come and go.
THEOREM QueueIsFIFO == Spec => []FIFO
<1>1. IndInv => FIFO
  BY DEF IndInv
<1> QED
  BY <1>1, IndInvHolds, PTL

-----------------------------------------------------------------------------
(* The channel                                                              *)

\* The switch opens one connection after the other and Serve takes them in
\* this order, so only the current one can have messages in flight.
Wire ==
  /\ \A k \in Conns : toSwitch[k] # <<>> => k = conn /\ link[k] = "open"
  /\ \A j, k \in Conns : j < k /\ link[k] # "new" => link[j] = "closed"
  /\ accepted = IF serve = "set" THEN conn + 1 ELSE conn
  /\ \A k \in Conns : k <= accepted => link[k] # "new"

LEMMA WireInit == Init => Wire
BY DEF Init, Wire, Conns

LEMMA WireNext ==
  ASSUME IndInv, Wire, [Next]_vars
  PROVE  Wire'
<1>0. TypeOK /\ WakeUps
  BY DEF IndInv
<1>1. CASE UNCHANGED <<toSwitch, conn, link, accepted, serve>>
  BY <1>1 DEF Wire
<1>2. CASE ProcessQueue
  <2>1. UNCHANGED <<conn, link, accepted, serve>>
    BY <1>2 DEF ProcessQueue, AwaitConn, AwaitMessage, LockConn, WriteError, WriteOK
  <2>2. CASE WriteOK
    BY <1>0, <2>1, <2>2 DEF WriteOK, Wire, TypeOK
  <2>3. CASE ~WriteOK
    BY <1>1, <1>2, <2>1, <2>3 DEF ProcessQueue
  <2> QED
    BY <2>2, <2>3
<1>3. CASE Accept
  <2>1. /\ serve = "accept" /\ serve' = "set" /\ accepted' = accepted + 1
        /\ link[accepted + 1] # "new" /\ UNCHANGED <<toSwitch, conn, link>>
    BY <1>3 DEF Accept
  <2>2. accepted \in Int /\ accepted = conn
    BY <1>0, <2>1 DEF Wire, TypeOK
  <2>3. \A k \in Conns : k <= accepted + 1 => link[k] # "new"
    <3> SUFFICES ASSUME NEW k \in Conns, k <= accepted + 1 PROVE link[k] # "new"
      OBVIOUS
    <3>1. k <= accepted \/ k = accepted + 1
      BY <2>2 DEF Conns
    <3> QED
      BY <2>1, <3>1 DEF Wire
  <2> QED
    BY <2>1, <2>2, <2>3 DEF Wire
<1>4. CASE SetConnection
  <2>1. accepted = conn + 1 /\ conn' = accepted /\ serve' = "accept"
    BY <1>4 DEF SetConnection, Wire
  <2>2. \A k \in Conns : toSwitch[k] = <<>>
    <3> SUFFICES ASSUME NEW k \in Conns, toSwitch[k] # <<>> PROVE FALSE
      OBVIOUS
    <3>1. k = conn /\ link[k] = "open"
      BY DEF Wire
    <3>2. accepted \in Conns /\ k < accepted /\ link[accepted] # "new"
      BY <1>0, <2>1, <3>1 DEF Wire, TypeOK, Conns
    <3> QED
      BY <3>1, <3>2 DEF Wire
  <2> QED
    BY <1>4, <2>1, <2>2 DEF SetConnection, Wire
<1>5. ASSUME NEW k \in Conns, Switch(k)
      PROVE  Wire'
  <2>1. UNCHANGED <<conn, accepted, serve>>
    BY <1>5 DEF Switch, Dial, EchoRequest, SwitchReads, Refuse, Close, SwitchStep
  <2>2. CASE Dial(k)
    <3>1. \A j \in Conns : j < k => link[j] = "closed"
      <4>1. CASE k = 1
        BY <4>1 DEF Conns
      <4>2. CASE k > 1
        <5>1. k - 1 \in Conns /\ link[k - 1] = "closed"
          BY <2>2, <4>2, ChannelAssumption DEF Dial, Conns
        <5>2. ASSUME NEW j \in Conns, j < k, j # k - 1 PROVE link[j] = "closed"
          <6>1. j < k - 1 /\ link[k - 1] # "new"
            BY <5>1, <5>2 DEF Conns
          <6> QED
            BY <5>1, <6>1 DEF Wire
        <5> QED
          BY <5>1, <5>2
      <4> QED
        BY <4>1, <4>2 DEF Conns
    <3>2. \A j \in Conns : j > k => link[j] = "new"
      BY <2>2 DEF Dial, Wire
    <3>3. link' = [link EXCEPT ![k] = "open"] /\ toSwitch' = toSwitch /\ link[k] = "new"
      BY <2>2 DEF Dial
    <3> QED
      BY <1>0, <2>1, <3>1, <3>2, <3>3 DEF Wire, TypeOK, Conns
  <2>3. CASE EchoRequest(k)
    BY <1>1, <2>1, <2>3 DEF EchoRequest
  <2>4. CASE SwitchReads(k)
    BY <1>0, <2>1, <2>4 DEF SwitchReads, Wire, TypeOK
  <2>5. CASE Close(k)
    BY <1>0, <2>1, <2>5 DEF Close, Wire, TypeOK
  <2>6. CASE Refuse(k)
    <3>1. /\ toSwitch' = [toSwitch EXCEPT ![k] = <<>>]
          /\ link[k] = "open" /\ link'[k] \in {"open", "closed"}
          /\ \A j \in Conns : j # k => link'[j] = link[j]
          /\ \A j \in Conns : j > k => link[j] = "new"
      BY <1>0, <2>6 DEF Refuse, Wire, TypeOK
    <3> QED
      BY <1>0, <2>1, <3>1 DEF Wire, TypeOK
  <2> QED
    BY <1>5, <2>2, <2>3, <2>4, <2>5, <2>6 DEF Switch
<1>6. CASE Startup \/ SendReply \/ \E f \in Flows : HandlerSend(f)
  BY <1>1, <1>6 DEF Startup, SendReply, HandlerSend
<1>7. ASSUME NEW k \in Conns, Receive(k) \/ \E n \in 1..ReadBuffer : ReadMessage(k, n)
      PROVE  Wire'
  BY <1>1, <1>7 DEF Receive, ReadMessage
<1>8. CASE UNCHANGED vars
  BY <1>1, <1>8 DEF vars
<1> QED
  BY <1>2, <1>3, <1>4, <1>5, <1>6, <1>7, <1>8 DEF Next

-----------------------------------------------------------------------------
(* The hello                                                                *)

\* Nobody but Initialize sends a hello.
OneHello == \A i \in 1..Len(sent) : i # 1 => sent[i] # "hello"

\* The first message of the process is the hello, and it opens the first
\* connection that is written to at all; as long as the switch keeps that
\* one, it has got or is about to get all that was written.
Greeted ==
  /\ \A k \in Conns : greeting[k] # "none" => k <= conn
  /\ written = <<>> =>
       received = <<>> /\ \A k \in Conns : greeting[k] = "none" /\ toSwitch[k] = <<>>
  /\ written # <<>> => \E k \in Conns : greeting[k] = "hello"
  /\ \A j, k \in Conns : greeting[j] = "hello" /\ greeting[k] # "none" => j <= k
  /\ \A k \in Conns : greeting[k] = "hello" /\ link[k] = "open"
                        => received \o toSwitch[k] = written

HelloInv == Wire /\ OneHello /\ Greeted

LEMMA HelloInit == Init => HelloInv
<1> SUFFICES ASSUME Init PROVE HelloInv
  OBVIOUS
<1>1. OneHello
  BY DEF Init, OneHello
<1>2. Greeted
  BY DEF Init, Greeted
<1> QED
  BY <1>1, <1>2, WireInit DEF HelloInv

\* Appending anything but a hello
LEMMA AppendOther ==
  ASSUME NEW q \in Seq(Messages), NEW m \in Messages, q = <<>> \/ m # "hello",
         \A i \in 1..Len(q) : i # 1 => q[i] # "hello"
  PROVE  \A i \in 1..Len(Append(q, m)) : i # 1 => Append(q, m)[i] # "hello"
OBVIOUS

\* Where the head of the queue is among all that was sent
LEMMA HeadPosition ==
  ASSUME NEW S, NEW w \in Seq(S), NEW q \in Seq(S), q # <<>>
  PROVE  /\ Len(w) + 1 \in 1..Len(w \o q)
         /\ (w \o q)[Len(w) + 1] = Head(q)
OBVIOUS

LEMMA OneHelloNext ==
  ASSUME IndInv, OneHello, [Next]_vars
  PROVE  OneHello'
<1>0. TypeOK /\ Phases /\ sent \in Seq(Messages)
  BY DEF IndInv, TypeOK
<1>1. CASE UNCHANGED sent
  BY <1>1 DEF OneHello
<1>2. ASSUME NEW m \in Messages, Send(m), sent = <<>> \/ m # "hello"
      PROVE  OneHello'
  <2>1. sent' = Append(sent, m)
    BY <1>2 DEF Send
  <2> QED
    BY <1>0, <1>2, <2>1, AppendOther DEF OneHello
<1>3. CASE Startup
  BY <1>0, <1>2, <1>3 DEF Startup, Phases, Messages
<1>4. CASE SendReply
  BY <1>0, <1>2, <1>4 DEF SendReply, TypeOK, Messages
<1>5. ASSUME NEW f \in Flows, HandlerSend(f)
      PROVE  OneHello'
  <2>1. f \in Messages /\ f # "hello"
    BY ChannelAssumption DEF Messages
  <2> QED
    BY <1>2, <1>5, <2>1 DEF HandlerSend
<1>6. CASE ProcessQueue \/ Accept \/ SetConnection
  BY <1>1, <1>6 DEF ProcessQueue, Accept, SetConnection
<1>7. ASSUME NEW k \in Conns,
             Receive(k) \/ Switch(k) \/ \E n \in 1..ReadBuffer : ReadMessage(k, n)
      PROVE  OneHello'
  BY <1>1, <1>7
  DEF Receive, ReadMessage, Switch, Dial, EchoRequest, SwitchReads, Refuse, Close, SwitchStep
<1>8. CASE UNCHANGED vars
  BY <1>1, <1>8 DEF vars
<1> QED
  BY <1>3, <1>4, <1>5, <1>6, <1>7, <1>8 DEF Next

\* The hello leaves the queue with the first write, and only with that.
LEMMA HelloWrittenFirst ==
  ASSUME IndInv, OneHello, queue # <<>>
  PROVE  Head(queue) = "hello" <=> written = <<>>
<1>1. /\ queue \in Seq(Messages) /\ written \in Seq(Messages)
      /\ sent \in Seq(Messages) /\ sent = written \o queue
  BY DEF IndInv, TypeOK, FIFO
<1>2. Len(written) + 1 \in 1..Len(sent) /\ sent[Len(written) + 1] = Head(queue)
  BY <1>1, HeadPosition
<1>3. CASE written = <<>>
  <2>1. sent # <<>> /\ sent[1] = Head(queue)
    BY <1>1, <1>2, <1>3
  <2> QED
    BY <1>3, <2>1 DEF IndInv, Phases
<1>4. CASE written # <<>>
  <2>1. Len(written) + 1 # 1
    BY <1>1, <1>4
  <2> QED
    BY <1>2, <1>4, <2>1 DEF OneHello
<1> QED
  BY <1>3, <1>4

\* Appending on both sides, and moving a message across
LEMMA Shift ==
  ASSUME NEW S, NEW r \in Seq(S), NEW t \in Seq(S), NEW m \in S
  PROVE  /\ r \o Append(t, m) = Append(r \o t, m)
         /\ <<>> \o Append(<<>>, m) = Append(<<>>, m)
         /\ Append(t, m) # <<>>
OBVIOUS

LEMMA GreetedWrite ==
  ASSUME IndInv, HelloInv, WriteOK, UNCHANGED <<link, received>>
  PROVE  Greeted'
<1>0. /\ TypeOK /\ Wire /\ OneHello /\ Greeted
      /\ queue # <<>> /\ conn # 0 /\ conn \in Conns
      /\ queue \in Seq(Messages) /\ written \in Seq(Messages) /\ received \in Seq(Messages)
  BY ChannelAssumption DEF IndInv, HelloInv, TypeOK, WakeUps, WriteOK, Conns
<1> DEFINE m == Head(queue)
<1>1. /\ m \in Messages /\ conn' = conn
      /\ written' = Append(written, m) /\ written' # <<>>
      /\ greeting' = [greeting EXCEPT ![conn] = IF @ = "none" THEN m ELSE @]
  BY <1>0, Shift DEF WriteOK
<1>2. m = "hello" <=> written = <<>>
  BY <1>0, HelloWrittenFirst
<1>3. /\ greeting \in [Conns -> Messages \cup {"none"}]
      /\ link \in [Conns -> {"new", "open", "closed"}]
      /\ toSwitch \in [Conns -> Seq(Messages)]
  BY <1>0 DEF TypeOK
<1> HIDE DEF m
<1>9. m # "none"
  BY <1>1, ChannelAssumption DEF Messages
<1>4. \A k \in Conns : greeting'[k] # "none" => k <= conn'
  BY <1>0, <1>1, <1>3 DEF Greeted, Conns
<1>5. \E k \in Conns : greeting'[k] = "hello"
  <2>1. CASE written = <<>>
    BY <1>0, <1>1, <1>2, <1>3, <2>1 DEF Greeted
  <2>2. CASE written # <<>>
    <3>1. PICK g \in Conns : greeting[g] = "hello"
      BY <1>0, <2>2 DEF Greeted
    <3>2. greeting'[g] = "hello"
      BY <1>1, <1>3, <3>1
    <3> QED
      BY <3>2
  <2> QED
    BY <2>1, <2>2
<1>6. ASSUME NEW j \in Conns, NEW k \in Conns, greeting'[j] = "hello", greeting'[k] # "none"
      PROVE  j <= k
  <2>1. CASE written = <<>>
    <3>1. j = conn /\ k = conn
      BY <1>0, <1>1, <1>3, <1>6, <2>1 DEF Greeted
    <3> QED
      BY <3>1 DEF Conns
  <2>2. CASE written # <<>>
    <3>1. greeting[j] = "hello"
      BY <1>1, <1>2, <1>3, <1>6, <2>2
    <3>2. CASE greeting[k] # "none"
      BY <1>0, <3>1, <3>2 DEF Greeted
    <3>3. CASE greeting[k] = "none"
      <4>1. k = conn
        BY <1>1, <1>3, <1>6, <3>3
      <4> QED
        BY <1>0, <3>1, <4>1 DEF Greeted
    <3> QED
      BY <3>2, <3>3
  <2> QED
    BY <2>1, <2>2
<1>7. ASSUME NEW k \in Conns, greeting'[k] = "hello", link[k] = "open"
      PROVE  received \o toSwitch'[k] = written'
  <2>1. k = conn
    <3> SUFFICES ASSUME k # conn PROVE FALSE
      OBVIOUS
    <3>1. greeting[k] = "hello" /\ k < conn
      BY <1>0, <1>1, <1>3, <1>7 DEF Greeted, Conns
    <3>2. link[conn] # "new"
      BY <1>0 DEF Wire, TypeOK, Conns
    <3> QED
      BY <1>0, <1>7, <3>1, <3>2 DEF Wire
  <2>2. toSwitch'[k] = Append(toSwitch[k], m)
    BY <1>3, <1>7, <2>1 DEF WriteOK, m
  <2>3. toSwitch[k] \in Seq(Messages)
    BY <1>3
  <2>4. CASE written = <<>>
    BY <1>0, <1>1, <2>2, <2>4, Shift DEF Greeted
  <2>5. CASE written # <<>>
    <3>1. greeting[k] = "hello"
      BY <1>1, <1>2, <1>3, <1>7, <2>5
    <3>2. received \o toSwitch[k] = written
      BY <1>0, <1>7, <3>1 DEF Greeted
    <3>3. received \o Append(toSwitch[k], m) = Append(received \o toSwitch[k], m)
      BY <1>0, <1>1, <2>3, Shift
    <3> QED
      BY <1>1, <2>2, <3>2, <3>3
  <2> QED
    BY <2>4, <2>5
<1> QED
  BY <1>1, <1>4, <1>5, <1>6, <1>7 DEF Greeted

\* Reading moves the head of what is in flight to what is received.
LEMMA ReadHead ==
  ASSUME NEW S, NEW r \in Seq(S), NEW t \in Seq(S), NEW q \in Seq(S), t # <<>>
  PROVE  /\ Append(r, Head(t)) \o Tail(t) = r \o t
         /\ r \o t # <<>>
         /\ Len(r) < Len((r \o t) \o q)
         /\ ((r \o t) \o q)[Len(r) + 1] = Head(t)
OBVIOUS

LEMMA GreetedSwitch ==
  ASSUME IndInv, HelloInv, NEW k \in Conns, Switch(k)
  PROVE  Greeted'
<1>0. /\ TypeOK /\ Wire /\ Greeted
      /\ received \in Seq(Messages) /\ toSwitch \in [Conns -> Seq(Messages)]
      /\ link \in [Conns -> {"new", "open", "closed"}]
  BY DEF IndInv, HelloInv, TypeOK
<1>1. UNCHANGED <<conn, written, greeting>>
  BY DEF Switch, Dial, EchoRequest, SwitchReads, Refuse, Close, SwitchStep
<1>2. CASE Dial(k)
  <2>1. link[k] = "new" /\ link' = [link EXCEPT ![k] = "open"] /\ UNCHANGED <<toSwitch, received>>
    BY <1>2 DEF Dial
  <2>2. greeting[k] = "none"
    BY <1>0, <2>1 DEF Greeted, Wire, TypeOK, Conns
  <2> QED
    BY <1>0, <1>1, <2>1, <2>2 DEF Greeted
<1>3. CASE EchoRequest(k)
  BY <1>0, <1>1, <1>3 DEF EchoRequest, Greeted
<1>4. CASE SwitchReads(k)
  <2>1. /\ link[k] = "open" /\ toSwitch[k] # <<>> /\ greeting[k] = "hello"
        /\ toSwitch' = [toSwitch EXCEPT ![k] = Tail(@)] /\ link' = link
        /\ received' = Append(received, Head(toSwitch[k]))
    BY <1>4 DEF SwitchReads
  <2>2. received \o toSwitch[k] = written /\ written # <<>>
    BY <1>0, <2>1 DEF Greeted
  <2>3. received' \o toSwitch'[k] = written
    <3>1. toSwitch'[k] = Tail(toSwitch[k]) /\ toSwitch[k] \in Seq(Messages)
      BY <1>0, <2>1
    <3>2. Append(received, Head(toSwitch[k])) \o Tail(toSwitch[k]) = received \o toSwitch[k]
      BY <1>0, <2>1, <3>1, ReadHead
    <3> QED
      BY <2>1, <2>2, <3>1, <3>2
  <2>4. \A j \in Conns : greeting[j] = "hello" => j = k
    BY <1>0, <2>1 DEF Greeted, Conns
  <2> QED
    BY <1>0, <1>1, <2>1, <2>2, <2>3, <2>4 DEF Greeted
<1>5. CASE Refuse(k)
  <2>1. /\ toSwitch[k] # <<>> /\ greeting[k] # "hello" /\ received' = received
        /\ toSwitch' = [toSwitch EXCEPT ![k] = <<>>]
        /\ \A j \in Conns : j # k => link'[j] = link[j]
    BY <1>0, <1>5 DEF Refuse
  <2> QED
    BY <1>0, <1>1, <2>1 DEF Greeted
<1>6. CASE Close(k)
  <2>1. /\ received' = received /\ link' = [link EXCEPT ![k] = "closed"]
        /\ toSwitch' = [toSwitch EXCEPT ![k] = <<>>]
    BY <1>6 DEF Close
  <2> QED
    BY <1>0, <1>1, <2>1 DEF Greeted
<1> QED
  BY <1>2, <1>3, <1>4, <1>5, <1>6 DEF Switch

LEMMA HelloNext ==
  ASSUME IndInv, HelloInv, [Next]_vars
  PROVE  HelloInv'
<1>0. Wire /\ OneHello /\ Greeted /\ TypeOK
  BY DEF HelloInv, IndInv
<1>1. Wire' /\ OneHello'
  BY <1>0, WireNext, OneHelloNext
<1> SUFFICES Greeted'
  BY <1>1 DEF HelloInv
<1>2. CASE UNCHANGED <<conn, written, received, greeting, toSwitch, link>>
  BY <1>0, <1>2 DEF Greeted
<1>3. CASE ProcessQueue
  <2>1. UNCHANGED <<conn, link, received>>
    BY <1>3 DEF ProcessQueue, AwaitConn, AwaitMessage, LockConn, WriteError, WriteOK
  <2>2. CASE WriteOK
    BY <2>1, <2>2, GreetedWrite
  <2>3. CASE ~WriteOK
    BY <1>2, <1>3, <2>1, <2>3 DEF ProcessQueue
  <2> QED
    BY <2>2, <2>3
<1>4. CASE SetConnection
  <2>1. /\ conn' = conn + 1 /\ conn \in Int
        /\ UNCHANGED <<written, received, greeting, toSwitch, link>>
    BY <1>0, <1>4 DEF SetConnection, Wire, TypeOK
  <2>2. \A k \in Conns : greeting[k] # "none" => k <= conn + 1
    BY <1>0, <2>1 DEF Greeted, Conns
  <2> QED
    BY <1>0, <2>1, <2>2 DEF Greeted
<1>5. ASSUME NEW k \in Conns, Switch(k)
      PROVE  Greeted'
  BY <1>5, GreetedSwitch
<1>6. CASE Startup \/ SendReply \/ Accept \/ \E f \in Flows : HandlerSend(f)
  BY <1>2, <1>6 DEF Startup, SendReply, Accept, HandlerSend
<1>7. ASSUME NEW k \in Conns, Receive(k) \/ \E n \in 1..ReadBuffer : ReadMessage(k, n)
      PROVE  Greeted'
  BY <1>2, <1>7 DEF Receive, ReadMessage
<1>8. CASE UNCHANGED vars
  BY <1>2, <1>8 DEF vars
<1> QED
  BY <1>3, <1>4, <1>5, <1>6, <1>7, <1>8 DEF Next

LEMMA HelloInvHolds == Spec => [](IndInv /\ HelloInv)
<1>1. IndInv /\ HelloInv /\ [Next]_vars => HelloInv'
  BY HelloNext
<1> QED
  BY <1>1, HelloInit, IndInvHolds, PTL DEF Spec

\* No connection begins with anything but a hello unless an earlier one has
\* had the hello of this process: whatever runs next to it, the switch gets
\* Initialize's message before any other.
THEOREM HelloIsFirst == Spec => []HelloFirst
<1>1. ASSUME IndInv, HelloInv PROVE HelloFirst
  <2> SUFFICES ASSUME NEW k \in Conns, greeting[k] \notin {"none", "hello"}
               PROVE  \E j \in 1..(k - 1) : greeting[j] = "hello"
    BY DEF HelloFirst
  <2>1. PICK j \in Conns : greeting[j] = "hello"
    BY <1>1 DEF HelloInv, Greeted
  <2>2. j <= k /\ j # k
    BY <1>1, <2>1 DEF HelloInv, Greeted
  <2> QED
    BY <2>1, <2>2, ChannelAssumption DEF Conns
<1> QED
  BY <1>1, HelloInvHolds, PTL

-----------------------------------------------------------------------------
(* Refinement of the channel                                                *)

\* Every step of the goroutines and of the switch is a step of the channel or
\* invisible to those who use it.
LEMMA ChannelStep ==
  ASSUME IndInv, HelloInv, [Next]_vars
  PROVE  [Channel!Next]_<<sent, received, Broken>>
<1>0. /\ TypeOK /\ WakeUps /\ FIFO /\ Wire /\ OneHello /\ Greeted
      /\ queue \in Seq(Messages) /\ received \in Seq(Messages)
      /\ greeting \in [Conns -> Messages \cup {"none"}]
      /\ link \in [Conns -> {"new", "open", "closed"}]
      /\ toSwitch \in [Conns -> Seq(Messages)]
  BY DEF IndInv, HelloInv, TypeOK
<1>1. CASE UNCHANGED <<sent, received, greeting, link>>
  BY <1>1 DEF Broken
<1>2. ASSUME NEW m \in Messages, Send(m), UNCHANGED <<received, greeting, link>>
      PROVE  Channel!Next
  <2>1. UNCHANGED Broken
    BY <1>2 DEF Broken
  <2> QED
    BY <1>2, <2>1 DEF Send, Channel!Next, Channel!Send
<1>3. ASSUME UNCHANGED <<sent, received>>, NEW k \in Conns,
             greeting'[k] = "hello" /\ link'[k] = "closed",
             \A j \in Conns : greeting[j] # "hello" \/ link[j] # "closed"
      PROVE  Channel!Next
  <2>1. ~Broken /\ Broken'
    BY <1>3 DEF Broken
  <2>2. Broken' = TRUE
    BY <2>1 DEF Broken
  <2> QED
    BY <1>3, <2>1, <2>2 DEF Channel!Next, Channel!Break
<1>4. ASSUME UNCHANGED <<sent, received>>,
             \A k \in Conns : (greeting'[k] = "hello" /\ link'[k] = "closed")
                                <=> (greeting[k] = "hello" /\ link[k] = "closed")
      PROVE  UNCHANGED <<sent, received, Broken>>
  BY <1>4 DEF Broken
<1>5. CASE Startup
  <2>1. PICK m \in {"hello", "default"} : Send(m)
    BY <1>5 DEF Startup
  <2> QED
    BY <1>2, <1>5, <2>1 DEF Startup, Messages
<1>6. CASE SendReply
  BY <1>0, <1>2, <1>6 DEF SendReply, TypeOK, Messages
<1>7. ASSUME NEW f \in Flows, HandlerSend(f)
      PROVE  Channel!Next
  BY <1>2, <1>7 DEF HandlerSend, Messages
<1>8. CASE ProcessQueue
  <2>1. UNCHANGED <<sent, conn, link, received>>
    BY <1>8 DEF ProcessQueue, AwaitConn, AwaitMessage, LockConn, WriteError, WriteOK
  <2>2. CASE ~WriteOK
    BY <1>1, <1>8, <2>1, <2>2 DEF ProcessQueue
  <2>3. CASE WriteOK
    <3>1. queue # <<>> /\ conn \in Conns
      BY <1>0, <2>3, ChannelAssumption DEF WriteOK, WakeUps, TypeOK, Conns
    <3>2. greeting' = [greeting EXCEPT ![conn] = IF @ = "none" THEN Head(queue) ELSE @]
      BY <2>3 DEF WriteOK
    <3>3. CASE Head(queue) = "hello" /\ link[conn] = "closed"
      <4>1. \A k \in Conns : greeting[k] = "none"
        BY <1>0, <3>1, <3>3, HelloWrittenFirst DEF Greeted
      <4>2. greeting'[conn] = "hello"
        BY <1>0, <3>1, <3>2, <3>3, <4>1
      <4> QED
        BY <1>3, <2>1, <3>1, <3>3, <4>1, <4>2
    <3>4. CASE Head(queue) # "hello" \/ link[conn] # "closed"
      BY <1>0, <1>4, <2>1, <3>1, <3>2, <3>4
    <3> QED
      BY <3>3, <3>4
  <2> QED
    BY <2>2, <2>3
<1>9. ASSUME NEW k \in Conns, Switch(k)
      PROVE  [Channel!Next]_<<sent, received, Broken>>
  <2>1. UNCHANGED <<sent, greeting>>
    BY <1>9 DEF Switch, Dial, EchoRequest, SwitchReads, Refuse, Close, SwitchStep
  <2>2. \A j \in Conns : greeting[j] = "hello" /\ greeting[k] = "hello" => j = k
    BY <1>0 DEF Greeted, Conns
  <2>3. CASE Dial(k)
    BY <1>0, <1>4, <2>1, <2>3 DEF Dial
  <2>4. CASE EchoRequest(k)
    BY <1>1, <2>1, <2>4 DEF EchoRequest
  <2>5. CASE SwitchReads(k)
    <3>1. /\ link[k] = "open" /\ toSwitch[k] # <<>> /\ greeting[k] = "hello"
          /\ received' = Append(received, Head(toSwitch[k])) /\ link' = link
      BY <2>5 DEF SwitchReads
    <3>2. received \o toSwitch[k] = written
      BY <1>0, <3>1 DEF Greeted
    <3>3. Len(received) < Len(sent) /\ sent[Len(received) + 1] = Head(toSwitch[k])
      BY <1>0, <3>1, <3>2, ReadHead DEF FIFO
    <3>4. ~Broken
      BY <2>2, <3>1 DEF Broken
    <3>5. UNCHANGED Broken
      BY <2>1, <3>1 DEF Broken
    <3> QED
      BY <2>1, <3>1, <3>3, <3>4, <3>5 DEF Channel!Next, Channel!Deliver
  <2>6. CASE Refuse(k)
    BY <1>0, <1>4, <2>1, <2>6 DEF Refuse
  <2>7. CASE Close(k)
    <3>1. link[k] = "open" /\ received' = received /\ link' = [link EXCEPT ![k] = "closed"]
      BY <2>7 DEF Close
    <3>2. CASE greeting[k] = "hello"
      <4>1. \A j \in Conns : greeting[j] # "hello" \/ link[j] # "closed"
        BY <2>2, <3>1, <3>2
      <4>2. greeting'[k] = "hello" /\ link'[k] = "closed"
        BY <1>0, <2>1, <3>1, <3>2
      <4> QED
        BY <1>3, <2>1, <3>1, <4>1, <4>2
    <3>3. CASE greeting[k] # "hello"
      BY <1>0, <1>4, <2>1, <3>1, <3>3
    <3> QED
      BY <3>2, <3>3
  <2> QED
    BY <1>9, <2>3, <2>4, <2>5, <2>6, <2>7 DEF Switch
<1>10. CASE Accept \/ SetConnection
  BY <1>1, <1>10 DEF Accept, SetConnection
<1>11. ASSUME NEW k \in Conns, Receive(k) \/ \E n \in 1..ReadBuffer : ReadMessage(k, n)
       PROVE  [Channel!Next]_<<sent, received, Broken>>
  BY <1>1, <1>11 DEF Receive, ReadMessage
<1>12. CASE UNCHANGED vars
  BY <1>1, <1>12 DEF vars
<1> QED
  BY <1>5, <1>6, <1>7, <1>8, <1>9, <1>10, <1>11, <1>12 DEF Next

\* OFConnect implements the channel its senders rely on: what the switch takes
\* is what was sent, in order, nothing twice and nothing left out, and ends
\* with the connection that has got the hello.
THEOREM RefinesChannel == Spec => ImplementsChannel
<1>1. Init => Channel!Init
  BY DEF Init, Channel!Init, Broken
<1>2. IndInv /\ HelloInv /\ [Next]_vars => [Channel!Next]_<<sent, received, Broken>>
  BY ChannelStep
<1> QED
  BY <1>1, <1>2, HelloInvHolds, PTL DEF Spec, ImplementsChannel, Channel!Spec

=============================================================================
