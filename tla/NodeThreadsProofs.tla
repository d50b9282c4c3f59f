------------------------- MODULE NodeThreadsProofs --------------------------
(***************************************************************************)
(* The write queue keeps its promises, and nobody uses the p2p node before *)
(* it is made or after it is gone, for any number of web threads, requests *)
(* and uses of the node.                                                   *)
(*                                                                         *)
(* A promise is safe because every holder of a reference can be told from  *)
(* the state of the caller: a context is held by the queue or the writer   *)
(* exactly while its caller waits, a task in the node's queue belongs to a *)
(* thread that has posted it and waits.  That the last caller has gone     *)
(* when the writer stops is the order of the shutdown: see Shutdown.       *)
(***************************************************************************)
EXTENDS NodeThreads, TLAPS

(* What the plugins need from the order in which they are initialised: the   *)
(* write thread stops last, and the web server's pool before the p2p node.   *)
ChainFirst == Order[1] = "chain"
Default == Order = <<"chain", "p2p", "webserver">> /\ ~Replay

Leaving == main.at \in {"stop", "join", "close", "delete", "exited"}

(* A context is held by the queue or by the writer, never by both, and only  *)
(* while its caller waits.                                                   *)
Contexts ==
  /\ IsInjective(queue)
  /\ \A k \in DOMAIN queue : call[queue[k]] = "wait" /\ queue[k] # writer.cxt
  /\ IF writer.at \in {"visit", "notify", "posted", "answer"}
       THEN writer.cxt \in Caller /\ call[writer.cxt] = "wait"
       ELSE writer.cxt = NoOne
  /\ writer.at \in {"notify", "posted", "answer"} => cxt[writer.cxt] # "none"
  /\ \A t \in Caller : call[t] = "answered" => cxt[t] # "none"

(* Whoever posted a task waits for it. *)
Poster(x) ==
  \/ x.what = "broadcast" /\ x.from = Writer /\ writer.at = "posted"
  \/ x.what = "broadcast" /\ x.from \in Caller /\ call[x.from] = "posted"
  \/ x.what = "close" /\ x.from = Main /\ main.at = "close" /\ node # "closed"
  \/ x.what = "delete" /\ x.from = Main /\ main.at = "delete"
Tasks == IsInjective(tasks) /\ \A k \in DOMAIN tasks : Poster(tasks[k])

(* Where the main thread is. *)
MainAt ==
  /\ main.at = "start" => main.plugin \in 1..3
  /\ main.at = "exec" => main.plugin = 3
  /\ main.at # "exec" => call[Main] = "none"
  /\ main.at \in {"join", "close", "delete"} => main.plugin \in 1..3
  /\ main.at = "join" => Plugin \in {"chain", "webserver"}
  /\ main.at = "join" /\ Plugin = "webserver" => web = "stopping"
  /\ main.at \in {"close", "delete"} => Plugin = "p2p"
  /\ main.at = "delete" => node = "null"
  /\ node = "closed" => main.at = "close"
  /\ main.plugin <= 3

(* What has not been started and what has been stopped. *)
Started ==
  main.at = "start" /\ main.plugin = 1 => writer.at = "off"

Shutdown ==
  /\ web = "stopped" => \A t \in Web : call[t] = "none"
  /\ \A k \in 1..3 : Leaving /\ main.plugin < k =>
       /\ Order[k] = "webserver" => web = "stopped"
       /\ Order[k] = "p2p" => node = "null" /\ call[Node] = "none"
  /\ writer.at = "stopped" => ~processing
  /\ ~processing => \/ main.at = "join" /\ main.plugin = 1
                    \/ Leaving /\ main.plugin = 0

IInv == TypeOK /\ Contexts /\ Tasks /\ MainAt /\ Started /\ Shutdown

(* While there is no open node there is no call. *)
NodeOpen ==
  /\ node # "open" => \A t \in Caller : call[t] = "none"
  /\ main.at = "start" => web = "off" /\ (main.plugin = 3 => node = "open")
  /\ main.at = "exec" => node = "open"
  /\ main.at \in {"stop", "join"} /\ main.plugin > 1 => node = "open"
  /\ main.at = "exited" => main.plugin = 0
  /\ ~crashed

-----------------------------------------------------------------------------
(* The threads are different, and there are three plugins. *)
LEMMA Threads ==
  /\ Main \in Caller /\ Node \in Caller /\ Writer \notin Caller /\ NoOne \notin Caller
  /\ Main # Node /\ Main \notin Web /\ Node \notin Web
  /\ \A t \in Web : t \in Caller
  /\ \A t \in Caller : t \in Web \/ t = Main \/ t = Node
BY ThreadsAssumption DEF Caller, NoOne

(* Each of the three plugins has one place in the order of initialisation. *)
LEMMA Plugins ==
  /\ Len(Order) = 3
  /\ \A k \in 1..3 : Order[k] \in {"chain", "p2p", "webserver"}
  /\ \A k, l \in 1..3 : Order[k] = Order[l] => k = l
BY OrderAssumption

(* Requests name one of the kinds of a write_request. *)
LEMMA Kinds ==
  ASSUME TypeOK
  PROVE  /\ use.web \subseteq {"trx", "block"} /\ use.peers \subseteq {"trx", "block", "confirm"}
BY ThreadsAssumption DEF TypeOK

(* A call of accept_...() by a thread that made none yet. *)
LEMMA AcceptType ==
  ASSUME TypeOK, NEW t \in Caller, NEW kind \in {"none", "trx", "block", "confirm", "generate"},
         Accept(t, kind)
  PROVE  /\ call' \in [Caller -> {"none", "read", "wait", "answered", "posted"}]
         /\ req' \in [Caller -> {"none", "trx", "block", "confirm", "generate"}]
         /\ cxt' \in [Caller -> {"none", "success", "except"}]
         /\ queue' \in Seq(Caller) /\ calls' \in 0..MaxCalls
<1>1. queue' \in Seq(Caller)
  BY DEF Accept, TypeOK
<1>2. calls' \in 0..MaxCalls
  BY ThreadsAssumption DEF Accept, TypeOK
<1>3. QED  BY <1>1, <1>2 DEF Accept, TypeOK

(* A task posted to the p2p thread is a task. *)
LEMMA PostType ==
  ASSUME TypeOK, NEW t \in Caller \cup {Writer}, NEW what \in {"broadcast", "close", "delete"},
         Post(t, what)
  PROVE  tasks' \in Seq([from : Caller \cup {Writer}, what : {"broadcast", "close", "delete"}])
BY DEF Post, TypeOK

(* A call of accept_block() and its siblings keeps the types, from whichever thread. *)
LEMMA RequestsType ==
  ASSUME IInv, Next, Requests
  PROVE  TypeOK'
<1> USE Threads
<1>1. TypeOK /\ UNCHANGED use
  BY DEF IInv, Next, Alive
<1>2. ASSUME NEW t \in Web, NEW kind \in use.web, web_request(t, kind) PROVE TypeOK'
  <2>1. kind \in {"none", "trx", "block", "confirm", "generate"}
    BY <1>1, Kinds
  <2>2. QED  BY <1>1, <1>2, <2>1, AcceptType DEF web_request, p2p, TypeOK
<1>3. ASSUME NEW kind \in use.peers, handle_block(kind) PROVE TypeOK'
  <2>1. kind \in {"trx", "block", "confirm"}
    BY <1>1, Kinds
  <2>2. QED  BY <1>1, <1>3, <2>1 DEF handle_block, p2p, TypeOK
<1>4. CASE handle_transaction
  BY <1>1, <1>4, AcceptType DEF handle_transaction, p2p, TypeOK
<1>5. CASE maybe_produce_block
  BY <1>1, <1>5, AcceptType DEF maybe_produce_block, p2p, TypeOK
<1>6. CASE quit
  BY <1>1, <1>6 DEF quit, p2p, TypeOK
<1>7. QED  BY <1>2, <1>3, <1>4, <1>5, <1>6 DEF Requests

(* A step of the p2p thread keeps the types. *)
LEMMA NodeStepsType ==
  ASSUME IInv, Next, NodeSteps
  PROVE  TypeOK'
<1> USE Threads
<1>1. TypeOK /\ UNCHANGED use
  BY DEF IInv, Next, Alive
<1>2. CASE read_head
  <2>1. req[Node] \in {"none", "trx", "block", "confirm", "generate"}
    BY <1>1 DEF TypeOK
  <2>2. CASE calls < MaxCalls
    BY <1>1, <1>2, <2>1, <2>2, AcceptType DEF read_head, p2p, TypeOK
  <2>3. CASE ~(calls < MaxCalls)
    BY <1>1, <1>2, <2>3 DEF read_head, p2p, TypeOK
  <2>4. QED  BY <2>2, <2>3
<1>3. CASE read_lock_timeout
  BY <1>1, <1>3 DEF read_lock_timeout, p2p, TypeOK
<1>4. CASE handler_returns
  BY <1>1, <1>4 DEF handler_returns, p2p, TypeOK
<1>5. CASE run_task
  <2> DEFINE task == Head(tasks)
             Task == [from : Caller \cup {Writer}, what : {"broadcast", "close", "delete"}]
  <2>1. tasks \in Seq(Task) /\ tasks # <<>> /\ tasks' = Tail(tasks)
    BY <1>1, <1>5 DEF run_task, TypeOK
  <2> HIDE DEF Task
  <2>2. task \in Task /\ task = tasks[1] /\ 1 \in DOMAIN tasks /\ tasks' \in Seq(Task)
    BY <2>1
  <2> USE DEF Task
  <2>3. node' \in {"null", "open", "closed"} /\ UNCHANGED <<req, cxt, queue, accepting, connected, processing, web, crashed, calls>>
    BY <1>1, <1>5 DEF run_task, TypeOK
  <2>4. writer' \in [at : {"off", "loop", "visit", "notify", "posted", "answer", "next", "stopped"},
                     cxt : Caller \cup {NoOne}]
    BY <1>1, <1>5 DEF run_task, TypeOK
  <2>5. call' \in [Caller -> {"none", "read", "wait", "answered", "posted"}]
    BY <1>1, <1>5, <2>2 DEF run_task, TypeOK
  <2>6. main' \in [at : {"start", "exec", "stop", "join", "close", "delete", "exited"},
                   plugin : 0..(Len(Order) + 1)]
    <3>1. CASE task.what = "delete"
      <4>1. main.at = "delete"
        BY <2>2, <3>1 DEF IInv, Tasks, Poster
      <4>2. main.plugin \in 1..3
        BY <4>1 DEF IInv, MainAt
      <4>3. main.plugin - 1 \in 0..(Len(Order) + 1)
        BY <4>2, Plugins
      <4>4. main' = [main EXCEPT !.at = "stop", !.plugin = main.plugin - 1]
        BY <1>5, <3>1 DEF run_task
      <4>5. QED  BY <1>1, <4>3, <4>4 DEF TypeOK
    <3>2. CASE task.what # "delete"
      BY <1>1, <1>5, <3>2 DEF run_task, TypeOK
    <3>3. QED  BY <3>1, <3>2
  <2>7. QED  BY <1>1, <2>2, <2>3, <2>4, <2>5, <2>6 DEF TypeOK
<1>6. QED  BY <1>2, <1>3, <1>4, <1>5 DEF NodeSteps

(* A step of the write thread keeps the types. *)
LEMMA WriterStepsType ==
  ASSUME IInv, Next, WriterSteps
  PROVE  TypeOK'
<1> USE Threads
<1>1. TypeOK /\ Contexts /\ UNCHANGED use
  BY DEF IInv, Next, Alive
<1>2. CASE pop
  <2>1. Head(queue) \in Caller /\ Tail(queue) \in Seq(Caller)
    BY <1>1, <1>2 DEF pop, TypeOK
  <2>2. QED  BY <1>1, <1>2, <2>1 DEF pop, p2p, TypeOK
<1>3. CASE release_lock
  BY <1>1, <1>3 DEF release_lock, p2p, TypeOK
<1>4. ASSUME NEW outcome \in {"success", "except"}, visit(outcome) PROVE TypeOK'
  BY <1>1, <1>4 DEF visit, p2p, TypeOK, Contexts
<1>5. CASE on_post_apply_block
  BY <1>1, <1>5, PostType DEF on_post_apply_block, Broadcast, p2p, TypeOK
<1>6. CASE set_value
  BY <1>1, <1>6 DEF set_value, p2p, TypeOK, Contexts
<1>7. CASE writer_ends
  BY <1>1, <1>7 DEF writer_ends, p2p, TypeOK
<1>8. QED  BY <1>2, <1>3, <1>4, <1>5, <1>6, <1>7 DEF WriterSteps

(* A step of startup() or shutdown() keeps the types. *)
LEMMA MainStepsType ==
  ASSUME IInv, Next, MainSteps
  PROVE  TypeOK'
<1> USE Threads, Plugins
<1>1. TypeOK /\ MainAt /\ UNCHANGED use
  BY DEF IInv, Next, Alive
<1> DEFINE Mains == [at : {"start", "exec", "stop", "join", "close", "delete", "exited"},
                     plugin : 0..(Len(Order) + 1)]
<1>2. ASSUME main.at = "start", NextPlugin PROVE main' \in Mains
  BY <1>1, <1>2 DEF NextPlugin, TypeOK, MainAt
<1>3. ASSUME main.plugin > 0, Stopped PROVE main' \in Mains
  <2>1. main.plugin - 1 \in 0..(Len(Order) + 1)
    BY <1>1, <1>3 DEF TypeOK
  <2>2. QED  BY <1>1, <1>3, <2>1 DEF Stopped, TypeOK
<1>4. CASE start_chain
  <2>1. main' \in Mains  BY <1>2, <1>4 DEF start_chain
  <2>2. crashed' \in BOOLEAN  BY <1>4 DEF start_chain
  <2>3. QED  BY <1>1, <1>4, <2>1, <2>2 DEF start_chain, p2p, TypeOK
<1>5. CASE start_p2p
  <2>1. main' \in Mains  BY <1>2, <1>5 DEF start_p2p
  <2>2. QED  BY <1>1, <1>5, <2>1 DEF start_p2p, TypeOK
<1>6. CASE start_webserver
  <2>1. main' \in Mains  BY <1>2, <1>6 DEF start_webserver
  <2>2. QED  BY <1>1, <1>6, <2>1 DEF start_webserver, p2p, TypeOK
<1>7. CASE stop_webserver
  BY <1>1, <1>7 DEF stop_webserver, p2p, TypeOK
<1>8. CASE pool_joined
  <2>1. main' \in Mains  BY <1>3, <1>8 DEF pool_joined, Stopping
  <2>2. QED  BY <1>1, <1>8, <2>1 DEF pool_joined, p2p, TypeOK
<1>9. CASE stop_p2p
  BY <1>1, <1>9, PostType DEF stop_p2p, TypeOK
<1>10. CASE reset_node
  BY <1>1, <1>10, PostType DEF reset_node, TypeOK
<1>11. CASE stop_chain
  BY <1>1, <1>11 DEF stop_chain, p2p, TypeOK
<1>12. CASE writer_joined
  <2>1. main' \in Mains  BY <1>3, <1>12 DEF writer_joined, Stopping
  <2>2. QED  BY <1>1, <1>12, <2>1 DEF writer_joined, p2p, TypeOK
<1>13. CASE exit
  BY <1>1, <1>13 DEF exit, p2p, TypeOK
<1>14. QED
  BY <1>4, <1>5, <1>6, <1>7, <1>8, <1>9, <1>10, <1>11, <1>12, <1>13 DEF MainSteps

(* A caller's return keeps the types. *)
LEMMA ReturnsType ==
  ASSUME IInv, Next, NEW t \in Caller, accept_returns(t)
  PROVE  TypeOK'
<1>1. TypeOK /\ UNCHANGED use
  BY DEF IInv, Next, Alive
<1>2. call' \in [Caller -> {"none", "read", "wait", "answered", "posted"}]
  BY <1>1 DEF accept_returns, TypeOK
<1>3. /\ tasks' \in Seq([from : Caller \cup {Writer}, what : {"broadcast", "close", "delete"}])
      /\ crashed' \in BOOLEAN
  <2>1. CASE UNCHANGED <<tasks, crashed>>
    BY <1>1, <2>1 DEF TypeOK
  <2>2. CASE Broadcast(t)
    BY <1>1, <2>2, PostType DEF Broadcast, TypeOK
  <2>3. QED  BY <2>1, <2>2 DEF accept_returns
<1>4. UNCHANGED <<main, req, cxt, queue, writer, node, accepting, connected, processing, web, calls>>
  BY DEF accept_returns, p2p
<1>5. QED  BY <1>1, <1>2, <1>3, <1>4 DEF TypeOK

(* No action breaks the types. *)
LEMMA NextType == ASSUME IInv, Next PROVE TypeOK'
BY RequestsType, NodeStepsType, WriterStepsType, MainStepsType, ReturnsType DEF Next

-----------------------------------------------------------------------------
(* Queues without repetitions. *)

(* A queue to which something is appended that it does not hold repeats nothing. *)
LEMMA AppendUnrepeated ==
  ASSUME NEW S, NEW q \in Seq(S), NEW x \in S, IsInjective(q), \A k \in DOMAIN q : q[k] # x
  PROVE  /\ IsInjective(Append(q, x))
         /\ \A k \in DOMAIN Append(q, x) : Append(q, x)[k] = x \/ \E j \in DOMAIN q : Append(q, x)[k] = q[j]
<1>1. /\ Len(q) \in Nat /\ DOMAIN q = 1..Len(q) /\ DOMAIN Append(q, x) = 1..(Len(q) + 1)
      /\ \A k \in 1..Len(q) : Append(q, x)[k] = q[k]
      /\ Append(q, x)[Len(q) + 1] = x
  OBVIOUS
<1>2. \A k \in DOMAIN Append(q, x) : k \in 1..Len(q) \/ k = Len(q) + 1
  BY <1>1
<1>3. QED  BY <1>1, <1>2 DEF IsInjective

(* The rest of a queue that repeats nothing does not hold what was popped. *)
LEMMA TailUnrepeated ==
  ASSUME NEW S, NEW q \in Seq(S), q # <<>>, IsInjective(q)
  PROVE  /\ IsInjective(Tail(q)) /\ Head(q) = q[1] /\ 1 \in DOMAIN q /\ Head(q) \in S
         /\ \A k \in DOMAIN Tail(q) : /\ k + 1 \in DOMAIN q /\ Tail(q)[k] = q[k + 1]
                                      /\ Tail(q)[k] # Head(q)
<1>1. /\ Len(q) \in Nat /\ DOMAIN q = 1..Len(q) /\ Len(q) >= 1
      /\ Head(q) = q[1] /\ Head(q) \in S
  OBVIOUS
<1>2. DOMAIN Tail(q) = 1..(Len(q) - 1) /\ \A k \in 1..(Len(q) - 1) : Tail(q)[k] = q[k + 1]
  OBVIOUS
<1>3. \A k \in 1..(Len(q) - 1) : k \in Nat /\ k + 1 \in DOMAIN q /\ k + 1 # 1
  BY <1>1
<1>4. IsInjective(Tail(q))
  <2> SUFFICES ASSUME NEW a \in DOMAIN Tail(q), NEW b \in DOMAIN Tail(q), Tail(q)[a] = Tail(q)[b]
               PROVE  a = b
    BY DEF IsInjective
  <2>1. a + 1 = b + 1 /\ a \in Nat /\ b \in Nat
    BY <1>1, <1>2, <1>3 DEF IsInjective
  <2>2. QED  BY <2>1
<1>5. QED  BY <1>1, <1>2, <1>3, <1>4 DEF IsInjective

-----------------------------------------------------------------------------
(* Contexts are held while their callers wait.                               *)

(* A caller with no request in flight pushes the address of its own, new context. *)
LEMMA AcceptContexts ==
  ASSUME TypeOK, Contexts, NEW t \in Caller, NEW kind, call[t] \in {"none", "read"},
         Accept(t, kind), UNCHANGED writer
  PROVE  Contexts'
<1> USE Threads
<1>1. /\ call' = [call EXCEPT ![t] = "wait"] /\ cxt' = [cxt EXCEPT ![t] = "none"]
      /\ queue' = Append(queue, t) /\ queue \in Seq(Caller)
  BY DEF Accept, TypeOK
<1>2. \A k \in DOMAIN queue : queue[k] # t /\ queue[k] \in Caller
  BY <1>1 DEF Contexts
<1>3. t # writer.cxt
  BY DEF Contexts
<1>4. /\ IsInjective(queue')
      /\ \A k \in DOMAIN queue' : queue'[k] = t \/ \E j \in DOMAIN queue : queue'[k] = queue[j]
  <2>1. IsInjective(queue) /\ \A k \in DOMAIN queue : queue[k] # t
    BY <1>2 DEF Contexts
  <2>2. QED  BY <1>1, <2>1, AppendUnrepeated
<1>5. \A u \in Caller : call'[u] = (IF u = t THEN "wait" ELSE call[u])
                        /\ cxt'[u] = (IF u = t THEN "none" ELSE cxt[u])
  BY <1>1 DEF TypeOK
<1>6. \A k \in DOMAIN queue' : call'[queue'[k]] = "wait" /\ queue'[k] # writer'.cxt
  BY <1>2, <1>3, <1>4, <1>5 DEF Contexts
<1>7. QED  BY <1>3, <1>4, <1>5, <1>6 DEF Contexts

(* The call of one thread that holds no promise moves on. *)
LEMMA CallContexts ==
  ASSUME TypeOK, Contexts, NEW t \in Caller, call[t] # "wait",
         NEW to \in {"none", "read", "posted"}, call' = [call EXCEPT ![t] = to],
         UNCHANGED <<cxt, queue, writer>>
  PROVE  Contexts'
<1>1. \A u \in Caller : call'[u] = IF u = t THEN to ELSE call[u]
  BY DEF TypeOK
<1>2. \A k \in DOMAIN queue : queue[k] \in Caller /\ queue[k] # t
  BY DEF Contexts, TypeOK
<1>3. QED  BY <1>1, <1>2 DEF Contexts

(* The calls of accept_block() and its siblings keep who holds which context. *)
LEMMA RequestsContexts ==
  ASSUME IInv, Requests
  PROVE  Contexts'
<1> USE Threads
<1>1. TypeOK /\ Contexts
  BY DEF IInv
<1>2. ASSUME NEW t \in Web, NEW kind \in use.web, web_request(t, kind) PROVE Contexts'
  BY <1>1, <1>2, AcceptContexts DEF web_request
<1>3. ASSUME NEW kind \in use.peers, handle_block(kind) PROVE Contexts'
  BY <1>1, <1>3, CallContexts DEF handle_block
<1>4. CASE handle_transaction
  BY <1>1, <1>4, AcceptContexts DEF handle_transaction
<1>5. CASE maybe_produce_block
  BY <1>1, <1>5, AcceptContexts DEF maybe_produce_block
<1>6. CASE quit
  BY <1>1, <1>6 DEF quit, Contexts
<1>7. QED  BY <1>2, <1>3, <1>4, <1>5, <1>6 DEF Requests

(* The p2p thread keeps who holds which context. *)
LEMMA NodeStepsContexts ==
  ASSUME IInv, NodeSteps
  PROVE  Contexts'
<1> USE Threads
<1>1. TypeOK /\ Contexts
  BY DEF IInv
<1>2. CASE read_head
  <2>1. CASE calls < MaxCalls
    BY <1>1, <1>2, <2>1, AcceptContexts DEF read_head
  <2>2. CASE ~(calls < MaxCalls)
    BY <1>1, <1>2, <2>2, CallContexts DEF read_head
  <2>3. QED  BY <2>1, <2>2
<1>3. CASE read_lock_timeout
  BY <1>1, <1>3, CallContexts DEF read_lock_timeout
<1>4. CASE handler_returns
  BY <1>1, <1>4, CallContexts DEF handler_returns
<1>5. CASE run_task
  <2> DEFINE task == Head(tasks)
  <2>1. task = tasks[1] /\ 1 \in DOMAIN tasks /\ UNCHANGED <<cxt, queue>>
    BY <1>1, <1>5 DEF run_task, TypeOK
  <2>2. Poster(task)
    BY <2>1 DEF IInv, Tasks
  <2> HIDE DEF task
  <2>3. CASE task.from = Writer
    <3>1. writer.at = "posted" /\ task.from \notin Caller
      BY <2>2, <2>3, ThreadsAssumption DEF Poster
    <3>2. writer' = [writer EXCEPT !.at = "answer"] /\ call' = call
      BY <1>5, <2>3 DEF run_task, task
    <3>3. writer'.at = "answer" /\ writer'.cxt = writer.cxt
      BY <1>1, <3>2 DEF TypeOK
    <3>4. QED  BY <1>1, <2>1, <3>1, <3>2, <3>3 DEF Contexts
  <2>4. CASE task.from # Writer /\ task.what = "broadcast"
    <3>1. call[task.from] = "posted" /\ task.from \in Caller
      BY <2>2, <2>4 DEF Poster
    <3>2. writer' = writer /\ call' = [call EXCEPT ![task.from] = "none"]
      BY <1>5, <2>4 DEF run_task, task
    <3>3. QED  BY <1>1, <2>1, <3>1, <3>2, CallContexts
  <2>5. CASE task.from # Writer /\ task.what # "broadcast"
    <3>1. writer' = writer /\ call' = call
      BY <1>5, <2>5 DEF run_task, task
    <3>2. QED  BY <1>1, <2>1, <3>1 DEF Contexts
  <2>6. QED  BY <2>3, <2>4, <2>5
<1>6. QED  BY <1>2, <1>3, <1>4, <1>5 DEF NodeSteps

(* The write thread takes a context out of the queue, answers it once and drops it. *)
LEMMA WriterStepsContexts ==
  ASSUME IInv, WriterSteps
  PROVE  Contexts'
<1> USE Threads
<1>1. TypeOK /\ Contexts
  BY DEF IInv
<1>2. CASE pop
  <2>1. queue \in Seq(Caller) /\ queue # <<>> /\ IsInjective(queue) /\ writer.cxt = NoOne
    BY <1>1, <1>2 DEF pop, TypeOK, Contexts
  <2>2. /\ queue' = Tail(queue) /\ writer' = [at |-> "visit", cxt |-> Head(queue)]
        /\ UNCHANGED <<call, cxt>>
    BY <1>2 DEF pop
  <2>3. /\ IsInjective(queue') /\ Head(queue) = queue[1] /\ 1 \in DOMAIN queue /\ Head(queue) \in Caller
        /\ \A k \in DOMAIN queue' : /\ k + 1 \in DOMAIN queue /\ queue'[k] = queue[k + 1]
                                    /\ queue'[k] # Head(queue)
    BY <2>1, <2>2, TailUnrepeated
  <2>4. QED  BY <1>1, <2>2, <2>3 DEF Contexts
<1>3. CASE release_lock
  BY <1>1, <1>3 DEF release_lock, Contexts, TypeOK
<1>4. ASSUME NEW outcome \in {"success", "except"}, visit(outcome) PROVE Contexts'
  <2>1. /\ writer.at = "visit" /\ writer.cxt \in Caller /\ UNCHANGED <<call, queue>>
        /\ cxt' = [cxt EXCEPT ![writer.cxt] = outcome]
        /\ writer'.cxt = writer.cxt /\ writer'.at \in {"notify", "answer"}
    BY <1>1, <1>4 DEF visit, Contexts, TypeOK
  <2>2. \A t \in Caller : cxt'[t] = IF t = writer.cxt THEN outcome ELSE cxt[t]
    BY <1>1, <2>1 DEF TypeOK
  <2>3. QED  BY <1>1, <2>1, <2>2 DEF Contexts
<1>5. CASE on_post_apply_block
  <2>1. /\ writer.at = "notify" /\ writer'.cxt = writer.cxt /\ writer'.at = "posted"
        /\ UNCHANGED <<call, queue, cxt>>
    BY <1>1, <1>5 DEF on_post_apply_block, TypeOK
  <2>2. QED  BY <1>1, <2>1 DEF Contexts
<1>6. CASE set_value
  <2>1. /\ writer.at = "answer" /\ writer.cxt \in Caller /\ call[writer.cxt] = "wait"
        /\ cxt[writer.cxt] # "none"
        /\ call' = [call EXCEPT ![writer.cxt] = "answered"]
        /\ writer' = [at |-> "next", cxt |-> NoOne] /\ UNCHANGED <<queue, cxt>>
    BY <1>1, <1>6 DEF set_value, Contexts
  <2>2. \A t \in Caller : call'[t] = IF t = writer.cxt THEN "answered" ELSE call[t]
    BY <1>1, <2>1 DEF TypeOK
  <2>3. \A k \in DOMAIN queue : queue[k] \in Caller /\ queue[k] # writer.cxt /\ queue[k] # NoOne
    BY <1>1 DEF Contexts, TypeOK
  <2>4. QED  BY <1>1, <2>1, <2>2, <2>3 DEF Contexts
<1>7. CASE writer_ends
  <2>1. /\ writer.at = "loop" /\ writer'.cxt = writer.cxt /\ writer'.at = "stopped"
        /\ UNCHANGED <<call, queue, cxt>>
    BY <1>1, <1>7 DEF writer_ends, TypeOK
  <2>2. QED  BY <1>1, <2>1 DEF Contexts
<1>8. QED  BY <1>2, <1>3, <1>4, <1>5, <1>6, <1>7 DEF WriterSteps

(* The write thread is started once. *)
LEMMA StartsOff ==
  ASSUME ChainFirst, IInv, start_chain
  PROVE  main.at = "start" /\ main.plugin = 1 /\ writer.at = "off" /\ writer.cxt = NoOne
<1>1. main.at = "start" /\ main.plugin \in 1..3 /\ Order[main.plugin] = "chain"
  BY DEF start_chain, Plugin, IInv, MainAt
<1>2. main.plugin = 1
  BY <1>1, Plugins DEF ChainFirst
<1>3. QED  BY <1>1, <1>2 DEF IInv, Started, Contexts

(* Starting and stopping plugins, and returning to the caller, leave held contexts alone. *)
LEMMA MainStepsContexts ==
  ASSUME ChainFirst, IInv, MainSteps \/ \E t \in Caller : accept_returns(t)
  PROVE  Contexts'
<1> USE Threads
<1>1. TypeOK /\ Contexts
  BY DEF IInv
<1>2. CASE start_chain
  <2>2. writer.at = "off" /\ writer.cxt = NoOne
    BY <1>2, StartsOff
  <2>3. writer'.at = "loop" /\ writer'.cxt = NoOne /\ UNCHANGED <<call, cxt, queue>>
    BY <1>1, <1>2, <2>2 DEF start_chain, TypeOK
  <2>4. QED  BY <1>1, <2>2, <2>3 DEF Contexts
<1>3. CASE /\ MainSteps /\ ~start_chain
  <2>1. UNCHANGED <<call, cxt, queue, writer>>
    BY <1>3 DEF MainSteps, start_p2p, start_webserver, stop_webserver, pool_joined, stop_p2p,
       reset_node, stop_chain, writer_joined, exit
  <2>2. QED  BY <1>1, <2>1 DEF Contexts
<1>4. ASSUME NEW t \in Caller, accept_returns(t) PROVE Contexts'
  BY <1>1, <1>4, CallContexts DEF accept_returns
<1>5. QED  BY <1>2, <1>3, <1>4

(* No action breaks who holds which context. *)
LEMMA NextContexts == ASSUME ChainFirst, IInv, Next PROVE Contexts'
BY RequestsContexts, NodeStepsContexts, WriterStepsContexts, MainStepsContexts DEF Next

-----------------------------------------------------------------------------
(* Tasks belong to threads that wait for them.                               *)

Task == [from : Caller \cup {Writer}, what : {"broadcast", "close", "delete"}]

(* A thread that posts a task and waits for it is the only one to have posted it. *)
LEMMA PostTasks ==
  ASSUME TypeOK, Tasks, NEW t \in Caller \cup {Writer},
         NEW what \in {"broadcast", "close", "delete"}, Post(t, what),
         ~Poster([from |-> t, what |-> what]), Poster([from |-> t, what |-> what])',
         \A y \in Task : Poster(y) => Poster(y)'
  PROVE  Tasks'
<1> DEFINE x == [from |-> t, what |-> what]
<1>1. tasks \in Seq(Task) /\ x \in Task /\ tasks' = Append(tasks, x)
  BY DEF TypeOK, Post, Task
<1>2. /\ IsInjective(tasks)
      /\ \A k \in DOMAIN tasks : tasks[k] # x /\ tasks[k] \in Task /\ Poster(tasks[k])
  BY <1>1 DEF Tasks
<1> HIDE DEF x
<1>3. /\ IsInjective(tasks')
      /\ \A k \in DOMAIN tasks' : tasks'[k] = x \/ \E j \in DOMAIN tasks : tasks'[k] = tasks[j]
  <2>1. \A k \in DOMAIN tasks : tasks[k] # x
    BY <1>2
  <2>2. IsInjective(tasks)
    BY <1>2
  <2>3. QED  BY <1>1, <2>1, <2>2, AppendUnrepeated
<1>4. Poster(x)'
  BY DEF x
<1>5. QED  BY <1>2, <1>3, <1>4 DEF Tasks

(* The p2p thread runs the first task, whose poster then waits no longer. *)
LEMMA RunTask ==
  ASSUME IInv, run_task
  PROVE  Tasks'
<1> USE Threads
<1> DEFINE task == Head(tasks)
<1>1. tasks \in Seq(Task) /\ tasks # <<>> /\ tasks' = Tail(tasks) /\ IsInjective(tasks)
  BY DEF IInv, run_task, TypeOK, Tasks, Task
<1>2. /\ IsInjective(tasks') /\ task = tasks[1] /\ 1 \in DOMAIN tasks /\ task \in Task
      /\ \A k \in DOMAIN tasks' : /\ k + 1 \in DOMAIN tasks /\ tasks'[k] = tasks[k + 1]
                                  /\ tasks'[k] # task
  BY <1>1, TailUnrepeated
<1>3. Poster(task)
  BY <1>2 DEF IInv, Tasks
<1>4. ASSUME NEW x \in Task, x # task, Poster(x) PROVE Poster(x)'
  <2>1. x.from = task.from => x.what # task.what
    BY <1>2, <1>4 DEF Task
  <2> HIDE DEF task
  <2>2. /\ node' = IF task.what = "close" THEN "closed" ELSE node
        /\ main' = IF task.what = "delete" THEN [main EXCEPT !.at = "stop", !.plugin = @ - 1] ELSE main
        /\ writer' = IF task.from = Writer THEN [writer EXCEPT !.at = "answer"] ELSE writer
        /\ call' = IF task.what = "broadcast" /\ task.from # Writer
                     THEN [call EXCEPT ![task.from] = "none"] ELSE call
    BY DEF run_task, task
  <2>3. CASE x.what = "broadcast" /\ x.from = Writer
    BY <1>3, <1>4, <2>1, <2>2, <2>3, ThreadsAssumption DEF Poster
  <2>4. CASE x.what = "broadcast" /\ x.from \in Caller
    BY <1>3, <1>4, <2>1, <2>2, <2>4 DEF Poster, IInv, TypeOK
  <2>5. CASE x.what \in {"close", "delete"}
    BY <1>3, <1>4, <2>1, <2>2, <2>5 DEF Poster
  <2>6. QED  BY <1>4, <2>3, <2>4, <2>5 DEF Poster
<1>5. \A k \in DOMAIN tasks : tasks[k] \in Task /\ Poster(tasks[k])
  BY <1>1 DEF IInv, Tasks
<1>6. QED  BY <1>2, <1>4, <1>5 DEF Tasks

(* Steps that let nobody out of a wait for a task. *)
LEMMA KeptTasks ==
  ASSUME Tasks, UNCHANGED tasks, TypeOK,
         writer.at = "posted" => writer'.at = "posted",
         \A t \in Caller : call[t] = "posted" => call'[t] = "posted",
         main.at \in {"close", "delete"} => main'.at = main.at /\ node' = node
  PROVE  Tasks'
BY DEF Tasks, Poster

(* Every other step leaves the posters of the tasks waiting. *)
LEMMA OtherTasks ==
  ASSUME ChainFirst, IInv, Next, ~run_task
  PROVE  Tasks'
<1> USE Threads
<1>1. TypeOK /\ Contexts /\ Tasks /\ MainAt
  BY DEF IInv
<1>2. ASSUME NEW t \in Caller, NEW kind, call[t] \in {"none", "read"}, Accept(t, kind)
      PROVE  \A u \in Caller : call[u] = "posted" => call'[u] = "posted"
  BY <1>1, <1>2 DEF Accept, TypeOK
<1>3. CASE Requests
  <2>1. UNCHANGED <<tasks, writer, node>>
    BY <1>3 DEF Requests, web_request, handle_block, handle_transaction, maybe_produce_block,
       quit, p2p
  <2>2. main.at \in {"close", "delete"} => main' = main
    BY <1>3 DEF Requests, web_request, handle_block, handle_transaction, maybe_produce_block, quit
  <2>3. \A u \in Caller : call[u] = "posted" => call'[u] = "posted"
    <3>1. ASSUME NEW t \in Web, NEW kind \in use.web, web_request(t, kind)
          PROVE  \A u \in Caller : call[u] = "posted" => call'[u] = "posted"
      BY <1>2, <3>1 DEF web_request
    <3>2. ASSUME NEW kind \in use.peers, handle_block(kind)
          PROVE  \A u \in Caller : call[u] = "posted" => call'[u] = "posted"
      BY <1>1, <3>2 DEF handle_block, TypeOK
    <3>3. CASE handle_transaction  BY <1>2, <3>3 DEF handle_transaction
    <3>4. CASE maybe_produce_block  BY <1>2, <3>4 DEF maybe_produce_block
    <3>5. CASE quit  BY <3>5 DEF quit
    <3>6. QED  BY <1>3, <3>1, <3>2, <3>3, <3>4, <3>5 DEF Requests
  <2>4. QED  BY <1>1, <2>1, <2>2, <2>3, KeptTasks
<1>4. CASE read_head \/ read_lock_timeout \/ handler_returns
  <2>1. UNCHANGED <<tasks, writer, node, main>>
    BY <1>4 DEF read_head, read_lock_timeout, handler_returns, p2p
  <2>2. \A u \in Caller : call[u] = "posted" => call'[u] = "posted"
    BY <1>1, <1>2, <1>4 DEF read_head, read_lock_timeout, handler_returns, TypeOK
  <2>3. QED  BY <1>1, <2>1, <2>2, KeptTasks
<1>5. CASE pop \/ release_lock \/ set_value \/ writer_ends \/ \E o \in {"success", "except"} : visit(o)
  <2>1. UNCHANGED <<tasks, node, main>> /\ writer.at # "posted"
    BY <1>5 DEF pop, release_lock, set_value, writer_ends, visit, p2p
  <2>2. \A u \in Caller : call[u] = "posted" => call'[u] = "posted"
    BY <1>1, <1>5 DEF pop, release_lock, set_value, writer_ends, visit, Contexts, TypeOK
  <2>3. QED  BY <1>1, <2>1, <2>2, KeptTasks
<1>6. CASE on_post_apply_block
  <2>1. writer.at = "notify" /\ writer'.at = "posted" /\ UNCHANGED <<call, main, node>>
    BY <1>1, <1>6 DEF on_post_apply_block, p2p, TypeOK
  <2>2. CASE node = "null"
    <3>1. UNCHANGED tasks
      BY <1>6, <2>2 DEF on_post_apply_block, Broadcast
    <3>2. QED  BY <1>1, <2>1, <3>1, KeptTasks
  <2>3. CASE node # "null"
    <3>1. Post(Writer, "broadcast")
      BY <1>6, <2>3 DEF on_post_apply_block, Broadcast
    <3>2. \A y \in Task : Poster(y) => Poster(y)'
      BY <2>1 DEF Poster
    <3>3. ~Poster([from |-> Writer, what |-> "broadcast"]) /\ Poster([from |-> Writer, what |-> "broadcast"])'
      BY <2>1 DEF Poster
    <3>4. QED  BY <1>1, <3>1, <3>2, <3>3, PostTasks
  <2>4. QED  BY <2>2, <2>3
<1>7. CASE start_chain \/ start_p2p \/ start_webserver \/ stop_webserver \/ pool_joined
           \/ stop_chain \/ writer_joined \/ exit
  <2>1. UNCHANGED <<tasks, call>> /\ main.at \notin {"close", "delete"}
    BY <1>7 DEF start_chain, start_p2p, start_webserver, stop_webserver, pool_joined, stop_chain,
       writer_joined, exit
  <2>2. writer.at = "posted" => writer'.at = "posted"
    <3>1. CASE start_chain
      BY <3>1, StartsOff
    <3>2. CASE ~start_chain
      BY <1>7, <3>2 DEF start_p2p, start_webserver, stop_webserver, pool_joined, stop_chain,
         writer_joined, exit
    <3>3. QED  BY <3>1, <3>2
  <2>3. QED  BY <1>1, <2>1, <2>2, KeptTasks
<1>8. CASE stop_p2p
  <2>1. /\ main.at = "stop" /\ main'.at = "close" /\ Post(Main, "close") /\ UNCHANGED <<call, writer, node>>
        /\ node # "closed"
    BY <1>1, <1>8 DEF stop_p2p, MainAt, TypeOK
  <2>2. \A y \in Task : Poster(y) => Poster(y)'
    BY <2>1 DEF Poster
  <2>3. ~Poster([from |-> Main, what |-> "close"]) /\ Poster([from |-> Main, what |-> "close"])'
    BY <2>1 DEF Poster
  <2>4. QED  BY <1>1, <2>1, <2>2, <2>3, PostTasks
<1>9. CASE reset_node
  <2>1. /\ main.at = "close" /\ main'.at = "delete" /\ Post(Main, "delete") /\ UNCHANGED <<call, writer>>
        /\ node = "closed"
    BY <1>1, <1>9 DEF reset_node, TypeOK
  <2>2. \A y \in Task : Poster(y) => Poster(y)'
    BY <2>1 DEF Poster
  <2>3. ~Poster([from |-> Main, what |-> "delete"]) /\ Poster([from |-> Main, what |-> "delete"])'
    BY <2>1 DEF Poster
  <2>4. QED  BY <1>1, <2>1, <2>2, <2>3, PostTasks
<1>10. ASSUME NEW t \in Caller, accept_returns(t) PROVE Tasks'
  <2>1. call[t] = "answered" /\ UNCHANGED <<main, writer, node>>
    BY <1>10 DEF accept_returns, p2p
  <2>2. CASE UNCHANGED tasks
    <3>1. \A u \in Caller : call[u] = "posted" => call'[u] = "posted"
      BY <1>1, <1>10 DEF accept_returns, TypeOK
    <3>2. QED  BY <1>1, <2>1, <2>2, <3>1, KeptTasks
  <2>3. CASE ~UNCHANGED tasks
    <3>1. call' = [call EXCEPT ![t] = "posted"] /\ Post(t, "broadcast")
      BY <1>10, <2>3 DEF accept_returns, Broadcast
    <3>2. \A u \in Caller : call'[u] = IF u = t THEN "posted" ELSE call[u]
      BY <1>1, <3>1 DEF TypeOK
    <3>3. \A y \in Task : Poster(y) => Poster(y)'
      BY <2>1, <3>2 DEF Poster
    <3>4. ~Poster([from |-> t, what |-> "broadcast"]) /\ Poster([from |-> t, what |-> "broadcast"])'
      BY <2>1, <3>2 DEF Poster
    <3>5. QED  BY <1>1, <3>1, <3>3, <3>4, PostTasks
  <2>4. QED  BY <2>2, <2>3
<1>11. QED
  BY <1>3, <1>4, <1>5, <1>6, <1>7, <1>8, <1>9, <1>10 DEF Next, NodeSteps, WriterSteps, MainSteps

(* No task is run for a thread that does not wait for it. *)
LEMMA NextTasks == ASSUME ChainFirst, IInv, Next PROVE Tasks'
BY RunTask, OtherTasks

-----------------------------------------------------------------------------
(* The main thread starts the plugins in order and stops them in reverse.    *)

(* The steps of the other threads. *)
Elsewhere ==
  \/ \E t \in Web, kind \in use.web : web_request(t, kind)
  \/ \E kind \in use.peers : handle_block(kind)
  \/ handle_transaction \/ maybe_produce_block
  \/ read_head \/ read_lock_timeout \/ handler_returns
  \/ WriterSteps \/ \E t \in Caller : accept_returns(t)

(* A call begins only where the main thread has not closed the way for it. *)
Opened(t) ==
  \/ t \in Web /\ web = "listening"
  \/ t = Main /\ main.at = "exec"
  \/ t = Node /\ node = "open"

(* What the threads other than main can do to calls and to the write thread. *)
LEMMA ElsewhereCalls ==
  ASSUME IInv, Elsewhere
  PROVE  /\ UNCHANGED <<main, web, node, processing>>
         /\ \A t \in Caller : call'[t] # "none" => call[t] # "none" \/ Opened(t)
         /\ writer'.at = "off" <=> writer.at = "off"
         /\ writer'.at = "stopped" => writer.at = "stopped" \/ ~processing
<1> USE Threads
<1>1. TypeOK /\ Contexts
  BY DEF IInv
<1>2. ASSUME NEW t \in Caller, NEW kind, Accept(t, kind), call[t] # "none" \/ Opened(t)
      PROVE  \A u \in Caller : call'[u] # "none" => call[u] # "none" \/ Opened(u)
  BY <1>1, <1>2 DEF Accept, TypeOK
<1>3. UNCHANGED <<main, web, node, processing>>
  BY DEF Elsewhere, WriterSteps, web_request, handle_block, handle_transaction,
     maybe_produce_block, read_head, read_lock_timeout, handler_returns, pop, release_lock, visit,
     on_post_apply_block, set_value, writer_ends, accept_returns, p2p
<1>4. CASE WriterSteps
  <2>1. \A t \in Caller : call'[t] # "none" => call[t] # "none"
    BY <1>1, <1>4 DEF WriterSteps, pop, release_lock, visit, on_post_apply_block, set_value,
       writer_ends, TypeOK, Contexts
  <2>2. /\ writer'.at = "off" <=> writer.at = "off"
        /\ writer'.at = "stopped" => writer.at = "stopped" \/ ~processing
    BY <1>1, <1>4 DEF WriterSteps, pop, release_lock, visit, on_post_apply_block, set_value,
       writer_ends, TypeOK
  <2>3. QED  BY <1>3, <2>1, <2>2
<1>5. CASE ~WriterSteps
  <2>1. UNCHANGED writer
    BY <1>5 DEF Elsewhere, web_request, handle_block, handle_transaction,
       maybe_produce_block, read_head, read_lock_timeout, handler_returns, accept_returns
  <2>2. \A t \in Caller : call'[t] # "none" => call[t] # "none" \/ Opened(t)
    <3> DEFINE Goal == \A t \in Caller : call'[t] # "none" => call[t] # "none" \/ Opened(t)
    <3>1. ASSUME NEW t \in Web, NEW kind \in use.web, web_request(t, kind) PROVE Goal
      BY <1>2, <3>1 DEF web_request, Opened
    <3>2. ASSUME NEW kind \in use.peers, handle_block(kind) PROVE Goal
      BY <1>1, <3>2 DEF handle_block, Opened, TypeOK
    <3>3. CASE handle_transaction  BY <1>2, <3>3 DEF handle_transaction, Opened
    <3>4. CASE maybe_produce_block  BY <1>2, <3>4 DEF maybe_produce_block, Opened
    <3>5. CASE read_head
      <4>1. CASE calls < MaxCalls  BY <1>2, <3>5, <4>1 DEF read_head
      <4>2. CASE ~(calls < MaxCalls)  BY <1>1, <3>5, <4>2 DEF read_head, TypeOK
      <4>3. QED  BY <4>1, <4>2
    <3>6. CASE read_lock_timeout \/ handler_returns
      BY <1>1, <3>6 DEF read_lock_timeout, handler_returns, TypeOK
    <3>7. ASSUME NEW t \in Caller, accept_returns(t) PROVE Goal
      BY <1>1, <3>7 DEF accept_returns, TypeOK
    <3>8. QED  BY <1>5, <3>1, <3>2, <3>3, <3>4, <3>5, <3>6, <3>7 DEF Elsewhere
  <2>3. QED  BY <1>3, <2>1, <2>2
<1>6. QED  BY <1>4, <1>5

(* The other threads do not disturb the order of startup and shutdown. *)
LEMMA ElsewhereMain ==
  ASSUME IInv, Elsewhere
  PROVE  (MainAt /\ Started /\ Shutdown)'
<1> USE Threads
<1>1. MainAt /\ Started /\ Shutdown
  BY DEF IInv
<1>2. MainAt'
  BY <1>1, ElsewhereCalls DEF MainAt, Opened, Plugin
<1>3. Started'
  BY <1>1, ElsewhereCalls DEF Started
<1>4. Shutdown'
  <2>1. web' = "stopped" => \A t \in Web : call'[t] = "none"
    BY <1>1, ElsewhereCalls DEF Shutdown, Opened
  <2>2. \A k \in 1..3 : Leaving' /\ main'.plugin < k =>
          /\ Order[k] = "webserver" => web' = "stopped"
          /\ Order[k] = "p2p" => node' = "null" /\ call'[Node] = "none"
    BY <1>1, ElsewhereCalls DEF Shutdown, Opened, Leaving
  <2>3. writer'.at = "stopped" => ~processing'
    BY <1>1, ElsewhereCalls DEF Shutdown
  <2>4. ~processing' => \/ main'.at = "join" /\ main'.plugin = 1
                        \/ Leaving' /\ main'.plugin = 0
    BY <1>1, ElsewhereCalls DEF Shutdown, Leaving
  <2>5. QED  BY <2>1, <2>2, <2>3, <2>4 DEF Shutdown
<1>5. QED  BY <1>2, <1>3, <1>4

(* close() and the deletion of the node, run as tasks, fit the order of the shutdown. *)
LEMMA RunTaskMain ==
  ASSUME IInv, run_task
  PROVE  (MainAt /\ Started /\ Shutdown)'
<1> USE Threads, Plugins
<1> DEFINE task == Head(tasks)
<1>1. TypeOK /\ MainAt /\ Started /\ Shutdown
  BY DEF IInv
<1>2. task = tasks[1] /\ 1 \in DOMAIN tasks /\ call[Node] = "none" /\ UNCHANGED <<processing, web>>
  BY <1>1 DEF run_task, TypeOK
<1>3. Poster(task)
  BY <1>2 DEF IInv, Tasks
<1>4. /\ node' = IF task.what = "close" THEN "closed" ELSE node
      /\ main' = IF task.what = "delete" THEN [main EXCEPT !.at = "stop", !.plugin = main.plugin - 1]
                 ELSE main
      /\ writer' = IF task.from = Writer THEN [writer EXCEPT !.at = "answer"] ELSE writer
      /\ call' = IF task.what = "broadcast" /\ task.from # Writer
                   THEN [call EXCEPT ![task.from] = "none"] ELSE call
  BY DEF run_task
<1> HIDE DEF task
<1>5. \A t \in Caller : call[t] = "none" => call'[t] = "none"
  BY <1>1, <1>3, <1>4 DEF Poster, TypeOK
<1>6. /\ writer'.at = "off" <=> writer.at = "off"
      /\ writer'.at = "stopped" => writer.at = "stopped"
  BY <1>1, <1>3, <1>4, ThreadsAssumption DEF Poster, TypeOK
<1>7. CASE task.what = "broadcast"
  <2>1. UNCHANGED <<main, node>>
    BY <1>4, <1>7
  <2>2. QED  BY <1>1, <1>2, <1>5, <1>6, <2>1 DEF MainAt, Started, Shutdown, Leaving, Plugin
<1>8. CASE task.what = "close"
  <2>1. UNCHANGED main /\ node' = "closed" /\ main.at = "close" /\ main.plugin \in 1..3
        /\ Order[main.plugin] = "p2p"
    BY <1>1, <1>3, <1>4, <1>8 DEF Poster, MainAt, Plugin
  <2>2. \A k \in 1..3 : main.plugin < k => Order[k] # "p2p"
    BY <2>1
  <2>3. QED  BY <1>1, <1>2, <1>5, <1>6, <2>1, <2>2 DEF MainAt, Started, Shutdown, Leaving, Plugin
<1>9. CASE task.what = "delete"
  <2>1. /\ main.at = "delete" /\ main.plugin \in 1..3 /\ node = "null" /\ UNCHANGED node
        /\ Order[main.plugin] = "p2p"
    BY <1>1, <1>3, <1>4, <1>9 DEF Poster, MainAt, Plugin
  <2>2. main'.at = "stop" /\ main'.plugin = main.plugin - 1
    BY <1>1, <1>4, <1>9 DEF TypeOK
  <2>3. MainAt' /\ Started'
    BY <1>1, <1>2, <1>5, <2>1, <2>2 DEF MainAt, Started
  <2>4. processing
    BY <1>1, <2>1 DEF Shutdown
  <2>5. \A k \in 1..3 : main'.plugin < k =>
          /\ Order[k] = "webserver" => web' = "stopped"
          /\ Order[k] = "p2p" => node' = "null" /\ call'[Node] = "none"
    <3>1. ASSUME NEW k \in 1..3, main.plugin - 1 < k PROVE k = main.plugin \/ main.plugin < k
      BY <2>1, <3>1
    <3>2. Leaving
      BY <2>1 DEF Leaving
    <3>3. QED  BY <1>1, <1>2, <1>5, <2>1, <2>2, <3>1, <3>2 DEF Shutdown
  <2>6. Shutdown'
    BY <1>1, <1>2, <1>5, <1>6, <2>4, <2>5 DEF Shutdown
  <2>7. QED  BY <2>3, <2>6
<1>10. QED  BY <1>3, <1>7, <1>8, <1>9 DEF Poster

(* plugin_startup() of each plugin, and the signal that ends it all, fit the order. *)
LEMMA StartMain ==
  ASSUME ChainFirst, IInv, start_chain \/ start_p2p \/ start_webserver \/ quit
  PROVE  (MainAt /\ Started /\ Shutdown)'
<1> USE Threads, Plugins
<1>1. TypeOK /\ MainAt /\ Started /\ Shutdown
  BY DEF IInv
<1>2. UNCHANGED <<call, processing>> /\ main.at \in {"start", "exec"} /\ processing
  BY <1>1 DEF start_chain, start_p2p, start_webserver, quit, Shutdown, Leaving
<1>3. CASE quit
  <2>1. main.plugin = 3 /\ main'.at = "stop" /\ main'.plugin = 3 /\ call[Main] = "none"
        /\ UNCHANGED <<writer, node, web>>
    BY <1>1, <1>3 DEF quit, p2p, TypeOK, MainAt
  <2>2. QED  BY <1>1, <1>2, <2>1 DEF MainAt, Started, Shutdown, Leaving
<1>4. CASE start_chain \/ start_p2p \/ start_webserver
  <2>1. main.at = "start" /\ main.plugin \in 1..3 /\ NextPlugin
    BY <1>1, <1>4 DEF start_chain, start_p2p, start_webserver, MainAt
  <2>2. \/ main.plugin = 3 /\ main'.at = "exec" /\ main'.plugin = 3
        \/ main.plugin < 3 /\ main'.at = "start" /\ main'.plugin = main.plugin + 1
    BY <1>1, <2>1 DEF NextPlugin, TypeOK
  <2>3. main'.at \in {"start", "exec"} /\ main'.plugin \in 2..3 /\ (main'.at = "exec" => main'.plugin = 3)
    BY <2>1, <2>2
  <2>4. node' # "closed"
    BY <1>1, <1>4, <2>1 DEF start_chain, start_p2p, start_webserver, p2p, MainAt
  <2>5. web' = "stopped" => web = "stopped"
    BY <1>4 DEF start_chain, start_p2p, start_webserver
  <2>6. writer'.at = "stopped" => writer.at = "stopped"
    BY <1>1, <1>4 DEF start_chain, start_p2p, start_webserver, TypeOK
  <2>7. MainAt' /\ Started'
    BY <1>1, <1>2, <2>1, <2>3, <2>4 DEF MainAt, Started
  <2>8. Shutdown'
    BY <1>1, <1>2, <2>3, <2>5, <2>6 DEF Shutdown, Leaving
  <2>9. QED  BY <2>7, <2>8
<1>5. QED  BY <1>3, <1>4

(* Each plugin is done with before the main thread goes on to the next. *)
LEMMA StopMain ==
  ASSUME ChainFirst, IInv,
         stop_webserver \/ pool_joined \/ stop_p2p \/ reset_node \/ stop_chain \/ writer_joined \/ exit
  PROVE  (MainAt /\ Started /\ Shutdown)'
<1> USE Threads, Plugins
<1>1. TypeOK /\ MainAt /\ Started /\ Shutdown
  BY DEF IInv
<1>2. UNCHANGED <<call, writer>> /\ Leaving /\ main.at # "start" /\ call[Main] = "none"
  BY <1>1 DEF stop_webserver, pool_joined, stop_p2p, reset_node, stop_chain, writer_joined, exit,
     Leaving, MainAt
<1>3. main.plugin \in 0..3
  BY <1>1 DEF MainAt, TypeOK
<1>4. CASE stop_webserver
  <2>1. /\ main.plugin \in 1..3 /\ Order[main.plugin] = "webserver" /\ web' = "stopping"
        /\ main.at = "stop" /\ main'.at = "join" /\ main'.plugin = main.plugin
        /\ UNCHANGED <<node, processing>>
    BY <1>1, <1>3, <1>4 DEF stop_webserver, Stopping, Plugin, TypeOK, p2p
  <2>2. \A k \in 1..3 : main.plugin < k => Order[k] # "webserver"
    BY <2>1
  <2>3. processing
    BY <1>1, <2>1 DEF Shutdown
  <2>4. QED  BY <1>1, <1>2, <2>1, <2>2, <2>3 DEF MainAt, Started, Shutdown, Leaving, Plugin
<1>5. CASE pool_joined
  <2>1. /\ main.plugin \in 1..3 /\ Order[main.plugin] = "webserver" /\ web' = "stopped"
        /\ main.at = "join" /\ main'.at = "stop" /\ main'.plugin = main.plugin - 1
        /\ UNCHANGED <<node, processing>> /\ \A t \in Web : call[t] = "none"
    BY <1>1, <1>3, <1>5 DEF pool_joined, Stopping, Stopped, Plugin, TypeOK, p2p
  <2>2. processing /\ node # "closed"
    BY <1>1, <2>1 DEF Shutdown, ChainFirst, MainAt
  <2>3. \A k \in 1..3 : main'.plugin < k => main.plugin = k \/ main.plugin < k
    BY <2>1
  <2>4. MainAt' /\ Started'
    BY <1>1, <1>2, <2>1, <2>2 DEF MainAt, Started
  <2>5. \A k \in 1..3 : main'.plugin < k =>
          /\ Order[k] = "webserver" => web' = "stopped"
          /\ Order[k] = "p2p" => node' = "null" /\ call'[Node] = "none"
    BY <1>1, <1>2, <2>1, <2>3 DEF Shutdown
  <2>6. Shutdown'
    BY <1>1, <1>2, <2>1, <2>2, <2>5 DEF Shutdown
  <2>7. QED  BY <2>4, <2>6
<1>6. CASE stop_p2p
  <2>1. /\ main.plugin \in 1..3 /\ Order[main.plugin] = "p2p"
        /\ main.at = "stop" /\ main'.at = "close" /\ main'.plugin = main.plugin
        /\ UNCHANGED <<node, processing, web>>
    BY <1>1, <1>3, <1>6 DEF stop_p2p, Stopping, Plugin, TypeOK
  <2>2. processing
    BY <1>1, <2>1 DEF Shutdown
  <2>3. QED  BY <1>1, <1>2, <2>1, <2>2 DEF MainAt, Started, Shutdown, Leaving, Plugin
<1>7. CASE reset_node
  <2>1. /\ main.plugin \in 1..3 /\ Order[main.plugin] = "p2p" /\ node' = "null"
        /\ main.at = "close" /\ main'.at = "delete" /\ main'.plugin = main.plugin
        /\ UNCHANGED <<processing, web>>
    BY <1>1, <1>3, <1>7 DEF reset_node, Plugin, TypeOK, MainAt
  <2>2. processing /\ \A k \in 1..3 : main.plugin < k => Order[k] # "p2p"
    BY <1>1, <2>1 DEF Shutdown
  <2>3. QED  BY <1>1, <1>2, <2>1, <2>2 DEF MainAt, Started, Shutdown, Leaving, Plugin
<1>8. CASE stop_chain
  <2>1. /\ main.plugin \in 1..3 /\ Order[main.plugin] = "chain"
        /\ main.at = "stop" /\ main'.at = "join" /\ main'.plugin = main.plugin
        /\ UNCHANGED <<node, web>> /\ ~processing'
    BY <1>1, <1>3, <1>8 DEF stop_chain, Stopping, Plugin, TypeOK, p2p
  <2>2. main.plugin = 1
    BY <2>1 DEF ChainFirst
  <2>3. QED  BY <1>1, <1>2, <2>1, <2>2 DEF MainAt, Started, Shutdown, Leaving, Plugin
<1>9. CASE writer_joined
  <2>1. /\ main.plugin \in 1..3 /\ Order[main.plugin] = "chain"
        /\ main.at = "join" /\ main'.at = "stop" /\ main'.plugin = main.plugin - 1
        /\ UNCHANGED <<node, web, processing>>
    BY <1>1, <1>3, <1>9 DEF writer_joined, Stopping, Stopped, Plugin, TypeOK, p2p
  <2>2. main.plugin = 1 /\ main'.plugin = 0 /\ node # "closed"
    BY <1>1, <2>1 DEF ChainFirst, MainAt
  <2>3. \A k \in 1..3 : main'.plugin < k => k = 1 \/ main.plugin < k
    BY <2>2
  <2>4. QED  BY <1>1, <1>2, <2>1, <2>2, <2>3 DEF MainAt, Started, Shutdown, Leaving, ChainFirst
<1>10. CASE exit
  <2>1. /\ main.plugin = 0 /\ main.at = "stop" /\ main'.at = "exited" /\ main'.plugin = 0
        /\ UNCHANGED <<node, web, processing>>
    BY <1>1, <1>10 DEF exit, TypeOK, p2p
  <2>2. QED  BY <1>1, <1>2, <2>1 DEF MainAt, Started, Shutdown, Leaving
<1>11. QED  BY <1>4, <1>5, <1>6, <1>7, <1>8, <1>9, <1>10

(* No action breaks the order of startup and shutdown. *)
LEMMA NextMain == ASSUME ChainFirst, IInv, Next PROVE (MainAt /\ Started /\ Shutdown)'
BY ElsewhereMain, RunTaskMain, StartMain, StopMain
   DEF Next, Requests, NodeSteps, MainSteps, Elsewhere

-----------------------------------------------------------------------------
(* The process starts in the invariant. *)
LEMMA InitHolds == Init => IInv
<1> SUFFICES ASSUME Init PROVE IInv
  OBVIOUS
<1> USE Threads, Plugins
<1>1. queue = <<>> /\ tasks = <<>> /\ DOMAIN queue = {} /\ DOMAIN tasks = {}
  BY DEF Init
<1>2. TypeOK
  <2>1. main \in [at : {"start", "exec", "stop", "join", "close", "delete", "exited"},
                  plugin : 0..(Len(Order) + 1)]
    BY DEF Init
  <2>2. queue \in Seq(Caller) /\ calls \in 0..MaxCalls
        /\ tasks \in Seq([from : Caller \cup {Writer}, what : {"broadcast", "close", "delete"}])
    BY <1>1, ThreadsAssumption DEF Init
  <2>3. /\ call \in [Caller -> {"none", "read", "wait", "answered", "posted"}]
        /\ req \in [Caller -> {"none", "trx", "block", "confirm", "generate"}]
        /\ cxt \in [Caller -> {"none", "success", "except"}]
    BY DEF Init
  <2>4. writer \in [at : {"off", "loop", "visit", "notify", "posted", "answer", "next", "stopped"},
                    cxt : Caller \cup {NoOne}]
    BY DEF Init
  <2>5. use \in Uses /\ {accepting, connected, processing, crashed} \subseteq BOOLEAN
        /\ node \in {"null", "open", "closed"} /\ web \in {"off", "listening", "stopping", "stopped"}
    BY DEF Init
  <2>6. QED  BY <2>1, <2>2, <2>3, <2>4, <2>5 DEF TypeOK
<1>3. Contexts /\ Tasks
  BY <1>1 DEF Init, Contexts, Tasks, IsInjective
<1>4. MainAt /\ Started /\ Shutdown
  BY DEF Init, MainAt, Started, Shutdown, Leaving
<1>5. QED  BY <1>2, <1>3, <1>4 DEF IInv

(* Every step of every thread keeps the invariant, the chain plugin being initialised first. *)
LEMMA StepKeeps == ASSUME ChainFirst PROVE IInv /\ [Next]_vars => IInv'
<1> SUFFICES ASSUME IInv, [Next]_vars PROVE IInv'
  OBVIOUS
<1>1. CASE Next
  BY <1>1, NextType, NextContexts, NextTasks, NextMain DEF IInv
<1>2. CASE UNCHANGED vars
  BY <1>2 DEF vars, p2p, IInv, TypeOK, Contexts, Tasks, Poster, MainAt, Plugin, Started, Shutdown, Leaving
<1>3. QED  BY <1>1, <1>2

(* For any number of web threads and calls, when the chain plugin is          *)
(* initialised first (as the default plugins are): no context outlives its   *)
(* caller or is held twice, and the write thread ends with nobody waiting.   *)
THEOREM QueueAlwaysSound == ASSUME ChainFirst PROVE Spec => []QueueSound
<1>1. IInv => QueueSound
  <2> SUFFICES ASSUME IInv PROVE ContextsValid /\ NobodyLeftWaiting
    BY DEF IInv, QueueSound
  <2>1. ContextsValid
    BY Threads DEF IInv, Contexts, ContextsValid, Range
  <2>2. NobodyLeftWaiting
    <3> SUFFICES ASSUME writer.at = "stopped", NEW t \in Caller PROVE call[t] = "none"
      BY DEF NobodyLeftWaiting
    <3>1. main.at # "exec" /\ Leaving /\ main.plugin < 2
      BY DEF IInv, Shutdown, Leaving
    <3>2. call[Main] = "none"
      BY <3>1 DEF IInv, MainAt
    <3>3. PICK k \in 2..3 : Order[k] = "webserver"
      BY OrderAssumption DEF ChainFirst
    <3>4. PICK l \in 2..3 : Order[l] = "p2p"
      BY OrderAssumption DEF ChainFirst
    <3>5. k \in 1..3 /\ l \in 1..3 /\ main.plugin < k /\ main.plugin < l
      BY <3>1, Plugins DEF IInv, TypeOK
    <3>6. call[Node] = "none" /\ \A u \in Web : call[u] = "none"
      BY <3>1, <3>3, <3>4, <3>5 DEF IInv, Shutdown
    <3>7. QED  BY <3>2, <3>6, Threads
  <2>3. QED  BY <2>1, <2>2
<1>2. QED  BY InitHolds, StepKeeps, <1>1, PTL DEF Spec

-----------------------------------------------------------------------------
(* The default order: the write thread first, then the node, then the pool.  *)
LEMMA DefaultOrder ==
  ASSUME Default
  PROVE  /\ ChainFirst /\ ~Replay
         /\ Order[1] = "chain" /\ Order[2] = "p2p" /\ Order[3] = "webserver"
         /\ \A k \in 1..3 : /\ Order[k] = "chain" => k = 1
                            /\ Order[k] = "p2p" => k = 2
                            /\ Order[k] = "webserver" => k = 3
<1>1. Order = <<"chain", "p2p", "webserver">>
  BY DEF Default
<1>2. Order[1] = "chain" /\ Order[2] = "p2p" /\ Order[3] = "webserver"
  BY <1>1
<1>3. QED  BY <1>2 DEF Default, ChainFirst

(* A web server that takes requests, and one whose pool is being joined,     *)
(* runs beside an open node.                                                 *)
LEMMA WebNeedsNode ==
  ASSUME Default, IInv, NodeOpen
  PROVE  /\ web = "listening" => node = "open"
         /\ main.at \in {"close", "delete"} => main.plugin = 2 /\ web = "stopped"
         /\ main.plugin \in 0..3
<1> USE Threads, Plugins, DefaultOrder
<1>1. main.plugin \in 0..3 /\ main.at \in {"start", "exec", "stop", "join", "close", "delete", "exited"}
  BY DEF IInv, TypeOK, MainAt
<1>2. Leaving /\ main.plugin < 3 => web = "stopped"
  BY DEF IInv, Shutdown
<1>3. main.at \in {"close", "delete"} => main.plugin = 2
  BY DEF IInv, MainAt, Plugin
<1>4. CASE main.at \in {"start", "exec"}
  BY <1>1, <1>4 DEF NodeOpen
<1>5. CASE main.at \in {"stop", "join"}
  <2>1. CASE main.plugin = 3  BY <1>1, <1>5, <2>1 DEF NodeOpen
  <2>2. CASE main.plugin < 3  BY <1>1, <1>2, <1>5, <2>2 DEF Leaving
  <2>3. QED  BY <1>1, <2>1, <2>2
<1>6. CASE main.at \in {"close", "delete"}
  BY <1>1, <1>2, <1>3, <1>6 DEF Leaving
<1>7. CASE main.at = "exited"
  BY <1>1, <1>2, <1>7 DEF NodeOpen, Leaving
<1>8. QED  BY <1>1, <1>4, <1>5, <1>6, <1>7

(* Calls and the write thread: a call begins beside an open node, and who    *)
(* broadcasts has a call.                                                    *)
LEMMA ElsewhereOpen ==
  ASSUME Default, IInv, NodeOpen, Elsewhere
  PROVE  NodeOpen'
<1> USE Threads
<1>1. UNCHANGED <<main, web, node>>
      /\ \A t \in Caller : call'[t] # "none" => call[t] # "none" \/ Opened(t)
  BY ElsewhereCalls
<1>2. \A t \in Caller : Opened(t) => node = "open"
  BY WebNeedsNode DEF Opened, NodeOpen
<1>3. ~crashed'
  <2>1. ASSUME NEW t \in Caller, accept_returns(t) PROVE ~crashed'
    <3>1. node = "open"
      BY <2>1 DEF accept_returns, NodeOpen
    <3>2. QED  BY <2>1, <3>1 DEF accept_returns, Broadcast, NodeOpen
  <2>2. CASE on_post_apply_block
    <3>1. writer.at = "notify" /\ writer.cxt \in Caller /\ call[writer.cxt] = "wait"
      BY <2>2 DEF on_post_apply_block, IInv, Contexts
    <3>2. node = "open"
      BY <3>1 DEF NodeOpen
    <3>3. QED  BY <2>2, <3>2 DEF on_post_apply_block, Broadcast, NodeOpen
  <2>3. CASE ~on_post_apply_block /\ ~\E t \in Caller : accept_returns(t)
    <3>1. UNCHANGED crashed
      BY <2>3 DEF Elsewhere, WriterSteps, web_request, handle_block, handle_transaction,
         maybe_produce_block, read_head, read_lock_timeout, handler_returns, pop, release_lock,
         visit, set_value, writer_ends
    <3>2. QED  BY <3>1 DEF NodeOpen
  <2>4. QED  BY <2>1, <2>2, <2>3
<1>4. QED  BY <1>1, <1>2, <1>3 DEF NodeOpen

(* The node is closed when the pool has been joined and the main thread and  *)
(* the node's own handlers are done.                                         *)
LEMMA RunTaskOpen ==
  ASSUME Default, IInv, NodeOpen, run_task
  PROVE  NodeOpen'
<1> USE Threads
<1> DEFINE task == Head(tasks)
<1>1. task = tasks[1] /\ 1 \in DOMAIN tasks /\ call[Node] = "none" /\ UNCHANGED <<web, crashed>>
  BY DEF run_task, IInv, TypeOK
<1>2. Poster(task)
  BY <1>1 DEF IInv, Tasks
<1>3. /\ node' = IF task.what = "close" THEN "closed" ELSE node
      /\ main' = IF task.what = "delete" THEN [main EXCEPT !.at = "stop", !.plugin = main.plugin - 1]
                 ELSE main
      /\ call' = IF task.what = "broadcast" /\ task.from # Writer
                   THEN [call EXCEPT ![task.from] = "none"] ELSE call
  BY DEF run_task
<1> HIDE DEF task
<1>4. \A t \in Caller : call[t] = "none" => call'[t] = "none"
  BY <1>2, <1>3 DEF Poster, IInv, TypeOK
<1>5. CASE task.what = "broadcast"
  BY <1>1, <1>3, <1>4, <1>5 DEF NodeOpen
<1>6. CASE task.what = "close"
  <2>1. main.at = "close" /\ UNCHANGED main /\ node' = "closed" /\ web = "stopped"
    BY <1>2, <1>3, <1>6, WebNeedsNode DEF Poster
  <2>2. \A t \in Caller : call[t] = "none"
    BY <1>1, <2>1 DEF IInv, MainAt, Shutdown
  <2>3. QED  BY <1>1, <1>4, <2>1, <2>2 DEF NodeOpen
<1>7. CASE task.what = "delete"
  <2>1. main.at = "delete" /\ main.plugin = 2 /\ UNCHANGED node
    BY <1>2, <1>3, <1>7, WebNeedsNode DEF Poster
  <2>2. main'.at = "stop" /\ main'.plugin = 1
    BY <1>3, <1>7, <2>1 DEF IInv, TypeOK
  <2>3. QED  BY <1>1, <1>4, <2>1, <2>2 DEF NodeOpen
<1>8. QED  BY <1>2, <1>5, <1>6, <1>7 DEF Poster

(* The node is there before the main loop begins. *)
LEMMA StartOpen ==
  ASSUME Default, IInv, NodeOpen, start_chain \/ start_p2p \/ start_webserver \/ quit
  PROVE  NodeOpen'
<1> USE Threads, Plugins, DefaultOrder
<1>1. TypeOK /\ MainAt /\ UNCHANGED call
  BY DEF IInv, start_chain, start_p2p, start_webserver, quit
<1>2. CASE start_chain
  <2>1. main.plugin = 1 /\ main.at = "start"
    BY <1>2, StartsOff
  <2>2. main'.plugin = 2 /\ main'.at = "start"
    BY <1>1, <1>2, <2>1 DEF start_chain, NextPlugin, TypeOK
  <2>3. UNCHANGED <<node, web>> /\ ~crashed'
    <3>1. ~IsStarted("webserver")
      BY <2>1 DEF IsStarted
    <3>2. web' = web
      BY <1>2, <3>1 DEF start_chain
    <3>3. crashed' = (crashed \/ (Replay /\ connected /\ node = "null")) /\ UNCHANGED node
      BY <1>2 DEF start_chain, p2p
    <3>4. QED  BY <3>2, <3>3 DEF NodeOpen
  <2>4. QED  BY <1>1, <2>1, <2>2, <2>3 DEF NodeOpen
<1>3. CASE start_p2p
  <2>1. main.plugin = 2 /\ main.at = "start"
    BY <1>1, <1>3 DEF start_p2p, Plugin, MainAt
  <2>2. main'.plugin = 3 /\ main'.at = "start"
    BY <1>1, <1>3, <2>1 DEF start_p2p, NextPlugin, TypeOK
  <2>3. UNCHANGED <<web, crashed>> /\ node' = "open"
    BY <1>3 DEF start_p2p
  <2>4. QED  BY <2>1, <2>2, <2>3 DEF NodeOpen
<1>4. CASE start_webserver
  <2>1. main.plugin = 3 /\ main.at = "start"
    BY <1>1, <1>4 DEF start_webserver, Plugin, MainAt
  <2>2. main'.plugin = 3 /\ main'.at = "exec"
    BY <1>4, <2>1 DEF start_webserver, NextPlugin
  <2>3. UNCHANGED <<node, crashed>>
    BY <1>4 DEF start_webserver, p2p
  <2>4. QED  BY <2>1, <2>2, <2>3 DEF NodeOpen
<1>5. CASE quit
  <2>1. main.at = "exec" /\ main'.at = "stop" /\ UNCHANGED <<node, crashed>>
    BY <1>1, <1>5 DEF quit, p2p, TypeOK
  <2>2. QED  BY <1>1, <2>1 DEF NodeOpen
<1>6. QED  BY <1>2, <1>3, <1>4, <1>5

(* The node is gone when only the write thread is left. *)
LEMMA StopOpen ==
  ASSUME Default, IInv, NodeOpen,
         stop_webserver \/ pool_joined \/ stop_p2p \/ reset_node \/ stop_chain \/ writer_joined \/ exit
  PROVE  NodeOpen'
<1> USE Threads, Plugins, DefaultOrder
<1>1. TypeOK /\ MainAt /\ UNCHANGED <<call, crashed>> /\ ~crashed /\ main.plugin \in 0..3
  BY WebNeedsNode DEF IInv, stop_webserver, pool_joined, stop_p2p, reset_node, stop_chain,
     writer_joined, exit, NodeOpen
<1>2. CASE stop_webserver
  <2>1. main.at = "stop" /\ main'.at = "join" /\ main'.plugin = main.plugin /\ UNCHANGED node
    BY <1>1, <1>2 DEF stop_webserver, TypeOK, p2p
  <2>2. QED  BY <1>1, <2>1 DEF NodeOpen
<1>3. CASE pool_joined
  <2>1. main.at = "join" /\ main.plugin = 3 /\ UNCHANGED node
    BY <1>1, <1>3 DEF pool_joined, Stopping, Plugin, p2p
  <2>2. main'.at = "stop" /\ node = "open"
    BY <1>1, <1>3, <2>1 DEF pool_joined, Stopped, TypeOK, NodeOpen
  <2>3. QED  BY <1>1, <2>1, <2>2 DEF NodeOpen
<1>4. CASE stop_p2p
  <2>1. main'.at = "close" /\ UNCHANGED node
    BY <1>1, <1>4 DEF stop_p2p, TypeOK
  <2>2. QED  BY <1>1, <2>1 DEF NodeOpen
<1>5. CASE reset_node
  <2>1. main'.at = "delete" /\ node = "closed" /\ node' = "null"
    BY <1>1, <1>5 DEF reset_node, TypeOK
  <2>2. QED  BY <1>1, <2>1 DEF NodeOpen
<1>6. CASE stop_chain
  <2>1. main.plugin = 1 /\ main'.at = "join" /\ main'.plugin = 1 /\ UNCHANGED node
    BY <1>1, <1>6 DEF stop_chain, Stopping, Plugin, TypeOK, p2p
  <2>2. QED  BY <1>1, <2>1 DEF NodeOpen
<1>7. CASE writer_joined
  <2>1. main.plugin = 1 /\ UNCHANGED node
    BY <1>1, <1>7 DEF writer_joined, Stopping, Plugin, p2p
  <2>2. main'.at = "stop" /\ main'.plugin = 0
    BY <1>1, <1>7, <2>1 DEF writer_joined, Stopped, TypeOK
  <2>3. QED  BY <1>1, <2>1, <2>2 DEF NodeOpen
<1>8. CASE exit
  <2>1. main.plugin = 0 /\ main'.at = "exited" /\ main'.plugin = 0 /\ UNCHANGED node
    BY <1>1, <1>8 DEF exit, TypeOK, p2p
  <2>2. QED  BY <1>1, <2>1 DEF NodeOpen
<1>9. QED  BY <1>2, <1>3, <1>4, <1>5, <1>6, <1>7, <1>8

(* For any number of web threads and calls, when the plugins are initialised *)
(* in the default order and no block log has to be replayed: no thread uses  *)
(* the p2p node before it has been made or after it has been deleted.        *)
THEOREM NodeAlwaysOutlivesUse == ASSUME Default PROVE Spec => []NodeOutlivesUse
<1>1. Init => IInv /\ NodeOpen
  BY InitHolds DEF Init, NodeOpen
<1>2. IInv /\ NodeOpen /\ [Next]_vars => IInv' /\ NodeOpen'
  <2> SUFFICES ASSUME IInv, NodeOpen, [Next]_vars PROVE IInv' /\ NodeOpen'
    OBVIOUS
  <2>1. IInv'
    BY StepKeeps, DefaultOrder
  <2>2. CASE Next
    <3>1. NodeOpen'
      BY <2>2, ElsewhereOpen, RunTaskOpen, StartOpen, StopOpen
         DEF Next, Requests, NodeSteps, MainSteps, Elsewhere
    <3>2. QED  BY <2>1, <3>1
  <2>3. CASE UNCHANGED vars
    <3>1. NodeOpen'
      BY <2>3 DEF vars, p2p, NodeOpen
    <3>2. QED  BY <2>1, <3>1
  <2>4. QED  BY <2>2, <2>3
<1>3. IInv /\ NodeOpen => NodeOutlivesUse
  BY DEF NodeOpen, NodeOutlivesUse
<1>4. QED  BY <1>1, <1>2, <1>3, PTL DEF Spec
=============================================================================
