---------------------------- MODULE NodeThreads ----------------------------
(***************************************************************************)
(* The threads of gamebankd and what they wait for.  Every write to the    *)
(* chain database goes through chain_plugin's queue to one write thread;   *)
(* the caller blocks on a promise.  The callers are the p2p node's thread  *)
(* (messages of peers), the web server's pool (network_broadcast_api) and  *)
(* the main thread (block production, then the shutdown).  A call of       *)
(* node->broadcast() from any other thread is posted to the node's thread  *)
(* and waited for; the write thread makes one after every applied block.   *)
(*                                                                         *)
(* Blocks and transactions are abstracted to their kind: whether one is    *)
(* accepted is a choice.                                                   *)
(***************************************************************************)
EXTENDS Naturals, Sequences, FiniteSets, SequencesExt

CONSTANTS Web,        \* the threads of the web server's pool
          Main, Node, Writer, \* the other threads
          Uses,       \* what the node may be used for: see use
          Replay,     \* chain_plugin has to reindex a block log when it starts
          Order,      \* the plugins in the order in which they are initialised
          MaxCalls    \* bound on the writes asked for

Caller == Web \cup {Main, Node}

ASSUME ThreadsAssumption ==
  /\ Web \cap {Main, Node, Writer} = {} /\ Main # Node /\ Main # Writer /\ Node # Writer
  /\ "none" \notin Web \cup {Main, Node, Writer}
  /\ Uses \subseteq [web : SUBSET {"trx", "block"}, peers : SUBSET {"trx", "block", "confirm"},
                      produces : BOOLEAN]
  /\ Replay \in BOOLEAN /\ MaxCalls \in Nat
(* APPBASE_PLUGIN_REQUIRES: p2p initialises chain before itself, the web    *)
(* server asks only for json_rpc.                                           *)
ASSUME OrderAssumption ==
  Order \in {<<"chain", "p2p", "webserver">>, <<"chain", "webserver", "p2p">>,
             <<"webserver", "chain", "p2p">>}

VARIABLES use,        \* what web clients and peers send, and whether a witness is configured
          main,       \* what the main thread does, and for which plugin of Order
          call,       \* caller -> where its call is
          req,        \* caller -> what its write_context asks for
          cxt,        \* caller -> the outcome stored in its write_context
          queue,      \* write_queue: the callers' contexts
          writer,     \* the write thread, and the context it works on
          tasks,      \* tasks posted to the node's thread
          node,       \* p2p_plugin_impl::node
          accepting,  \* p2p_plugin_impl::running
          connected,  \* _post_apply_block_conn
          processing, \* chain_plugin_impl::running
          web,        \* the web server
          crashed,    \* a null node was dereferenced
          calls       \* writes asked for

vars == <<use, main, call, req, cxt, queue, writer, tasks, node, accepting, connected,
          processing, web, crashed, calls>>
p2p == <<node, accepting, connected>>

NoOne == "none"

TypeOK ==
  /\ use \in Uses
  /\ main \in [at : {"start", "exec", "stop", "join", "close", "delete", "exited"},
               plugin : 0..(Len(Order) + 1)]
  /\ call \in [Caller -> {"none", "read", "wait", "answered", "posted"}]
  /\ req \in [Caller -> {"none", "trx", "block", "confirm", "generate"}]
  /\ cxt \in [Caller -> {"none", "success", "except"}]
  /\ queue \in Seq(Caller)
  /\ writer \in [at : {"off", "loop", "visit", "notify", "posted", "answer", "next", "stopped"},
                 cxt : Caller \cup {NoOne}]
  /\ tasks \in Seq([from : Caller \cup {Writer}, what : {"broadcast", "close", "delete"}])
  /\ node \in {"null", "open", "closed"}
  /\ {accepting, connected, processing, crashed} \subseteq BOOLEAN
  /\ web \in {"off", "listening", "stopping", "stopped"} /\ calls \in 0..MaxCalls

Init ==
  /\ use \in Uses
  /\ main = [at |-> "start", plugin |-> 1]
  /\ call = [t \in Caller |-> "none"] /\ req = [t \in Caller |-> "none"]
  /\ cxt = [t \in Caller |-> "none"] /\ queue = <<>>
  /\ writer = [at |-> "off", cxt |-> NoOne]
  /\ tasks = <<>> /\ node = "null" /\ accepting = TRUE /\ connected = TRUE
  /\ processing = TRUE /\ web = "off" /\ crashed = FALSE /\ calls = 0

Post(t, what) == tasks' = Append(tasks, [from |-> t, what |-> what])

(* my->node->broadcast(): the node's thread runs it, t waits. *)
Broadcast(t) ==
  IF node = "null" THEN crashed' = TRUE /\ UNCHANGED tasks
  ELSE Post(t, "broadcast") /\ UNCHANGED crashed

-----------------------------------------------------------------------------
(* The callers: accept_block(), accept_confirm(), accept_transaction(),     *)
(* generate_block()                                                         *)

Accept(t, kind) ==
  /\ calls < MaxCalls /\ calls' = calls + 1
  /\ call' = [call EXCEPT ![t] = "wait"]
  /\ req' = [req EXCEPT ![t] = kind] /\ cxt' = [cxt EXCEPT ![t] = "none"]
  /\ queue' = Append(queue, t)

(* network_broadcast_api, in a thread of the pool. *)
web_request(t, kind) ==
  /\ web = "listening" /\ call[t] = "none"
  /\ Accept(t, kind)
  /\ UNCHANGED <<main, writer, tasks, p2p, processing, web, crashed>>

(* The witness plugin's timer, in the main thread. *)
maybe_produce_block ==
  /\ main.at = "exec" /\ use.produces /\ call[Main] = "none"
  /\ Accept(Main, "generate")
  /\ UNCHANGED <<main, writer, tasks, p2p, processing, web, crashed>>

(* The promise is set.  An exception is thrown on; otherwise the web API    *)
(* and the witness plugin broadcast what was accepted.                      *)
accept_returns(t) ==
  /\ t # Node /\ call[t] = "answered"
  /\ IF cxt[t] = "except" THEN call' = [call EXCEPT ![t] = "none"] /\ UNCHANGED <<tasks, crashed>>
     ELSE call' = [call EXCEPT ![t] = "posted"] /\ Broadcast(t)
  /\ UNCHANGED <<main, req, cxt, queue, writer, p2p, processing, web, calls>>

-----------------------------------------------------------------------------
(* The node's thread                                                       *)

(* handle_transaction() *)
handle_transaction ==
  /\ node = "open" /\ accepting /\ call[Node] = "none" /\ "trx" \in use.peers
  /\ Accept(Node, "trx")
  /\ UNCHANGED <<main, writer, tasks, p2p, processing, web, crashed>>

(* handle_block(), handle_confirm(): the head block number is read first. *)
handle_block(kind) ==
  /\ node = "open" /\ accepting /\ call[Node] = "none" /\ kind # "trx" /\ calls < MaxCalls
  /\ call' = [call EXCEPT ![Node] = "read"]
  /\ req' = [req EXCEPT ![Node] = kind]
  /\ UNCHANGED <<main, cxt, queue, writer, tasks, p2p, processing, web, crashed, calls>>

WriteLocked == writer.at \in {"visit", "notify", "posted", "answer", "next"}

(* with_read_lock() and then accept_block() or accept_confirm(). *)
read_head ==
  /\ call[Node] = "read" /\ ~WriteLocked
  /\ IF calls < MaxCalls THEN Accept(Node, req[Node])
     ELSE call' = [call EXCEPT ![Node] = "none"] /\ UNCHANGED <<req, cxt, queue, calls>>
  /\ UNCHANGED <<main, writer, tasks, p2p, processing, web, crashed>>

(* lock_exception after a second: the handler throws. *)
read_lock_timeout ==
  /\ call[Node] = "read" /\ WriteLocked
  /\ call' = [call EXCEPT ![Node] = "none"]
  /\ UNCHANGED <<main, req, cxt, queue, writer, tasks, p2p, processing, web, crashed, calls>>

handler_returns ==
  /\ call[Node] = "answered"
  /\ call' = [call EXCEPT ![Node] = "none"]
  /\ UNCHANGED <<main, req, cxt, queue, writer, tasks, p2p, processing, web, crashed, calls>>

(* A posted task: only if the thread is not blocked in a handler. *)
run_task ==
  /\ call[Node] = "none" /\ tasks # <<>>
  /\ tasks' = Tail(tasks)
  /\ LET task == Head(tasks)
     IN /\ node' = IF task.what = "close" THEN "closed" ELSE node
        /\ main' = IF task.what = "delete" THEN [main EXCEPT !.at = "stop", !.plugin = @ - 1]
                   ELSE main
        /\ writer' = IF task.from = Writer THEN [writer EXCEPT !.at = "answer"] ELSE writer
        /\ call' = IF task.what = "broadcast" /\ task.from # Writer
                     THEN [call EXCEPT ![task.from] = "none"] ELSE call
  /\ UNCHANGED <<req, cxt, queue, accepting, connected, processing, web, crashed, calls>>

-----------------------------------------------------------------------------
(* The write thread: start_write_processing()                              *)

(* Mutant: the promise is set before the request is carried out. *)
pop_and_answer ==
  /\ \/ writer.at = "loop" /\ processing
     \/ writer.at = "next"
  /\ queue # <<>> /\ queue' = Tail(queue)
  /\ writer' = [at |-> "visit", cxt |-> Head(queue)]
  /\ call' = [call EXCEPT ![Head(queue)] = "answered"]
  /\ UNCHANGED <<main, req, cxt, tasks, p2p, processing, web, crashed, calls>>

(* Both loops take the next request; the inner one keeps the write lock. *)
pop ==
  /\ \/ writer.at = "loop" /\ processing
     \/ writer.at = "next"
  /\ queue # <<>> /\ queue' = Tail(queue)
  /\ writer' = [at |-> "visit", cxt |-> Head(queue)]
  /\ UNCHANGED <<main, call, req, cxt, tasks, p2p, processing, web, crashed, calls>>

(* The inner loop ends: the queue is empty or the lock was held too long. *)
release_lock ==
  /\ writer.at = "next"
  /\ writer' = [at |-> "loop", cxt |-> NoOne]
  /\ UNCHANGED <<main, call, req, cxt, queue, tasks, p2p, processing, web, crashed, calls>>

(* write_request_visitor: the outcome of the write, which nobody reads       *)
(* before the promise is set.  A block that is applied is announced to the  *)
(* post_apply_block handlers first; a switch announces several, one after   *)
(* the other, and one stands for them.                                      *)
visit(outcome) ==
  /\ writer.at = "visit"
  /\ cxt' = [cxt EXCEPT ![writer.cxt] = outcome]
  /\ writer' = [writer EXCEPT !.at =
       IF connected /\ outcome = "success" /\ req[writer.cxt] \in {"block", "generate"}
       THEN "notify" ELSE "answer"]
  /\ UNCHANGED <<main, call, req, queue, tasks, p2p, processing, web, crashed, calls>>

(* p2p_plugin_impl::on_post_apply_block() *)
on_post_apply_block ==
  /\ writer.at = "notify"
  /\ Broadcast(Writer)
  /\ writer' = [writer EXCEPT !.at = "posted"]
  /\ UNCHANGED <<main, call, req, cxt, queue, p2p, processing, web, calls>>

(* Mutant: a request that threw is not answered. *)
set_value_on_success ==
  /\ writer.at = "answer"
  /\ call' = IF cxt[writer.cxt] = "success" THEN [call EXCEPT ![writer.cxt] = "answered"] ELSE call
  /\ writer' = [at |-> "next", cxt |-> NoOne]
  /\ UNCHANGED <<main, req, cxt, queue, tasks, p2p, processing, web, crashed, calls>>

(* request_promise_visitor *)
set_value ==
  /\ writer.at = "answer"
  /\ call' = [call EXCEPT ![writer.cxt] = "answered"]
  /\ writer' = [at |-> "next", cxt |-> NoOne]
  /\ UNCHANGED <<main, req, cxt, queue, tasks, p2p, processing, web, crashed, calls>>

writer_ends ==
  /\ writer.at = "loop" /\ ~processing
  /\ writer' = [writer EXCEPT !.at = "stopped"]
  /\ UNCHANGED <<main, call, req, cxt, queue, tasks, p2p, processing, web, crashed, calls>>

-----------------------------------------------------------------------------
(* The main thread: application::startup(), exec(), shutdown()             *)

Plugin == Order[main.plugin]
IsStarted(plugin) == \E k \in 1..(main.plugin - 1) : Order[k] = plugin

NextPlugin ==
  main' = IF main.plugin = Len(Order) THEN [at |-> "exec", plugin |-> Len(Order)]
          ELSE [main EXCEPT !.plugin = @ + 1]

(* The write thread is started first.  A reindex applies blocks, and the    *)
(* p2p plugin has been connected to post_apply_block since it was           *)
(* initialised.  on_sync() starts a web server that waited for the chain.   *)
start_chain ==
  /\ main.at = "start" /\ Plugin = "chain"
  /\ writer' = [writer EXCEPT !.at = "loop"]
  /\ crashed' = (crashed \/ (Replay /\ connected /\ node = "null"))
  /\ web' = IF IsStarted("webserver") THEN "listening" ELSE web
  /\ NextPlugin
  /\ UNCHANGED <<call, req, cxt, queue, tasks, p2p, processing, calls>>

start_p2p ==
  /\ main.at = "start" /\ Plugin = "p2p"
  /\ node' = "open"
  /\ NextPlugin
  /\ UNCHANGED <<call, req, cxt, queue, writer, tasks, accepting, connected, processing, web, crashed, calls>>

start_webserver ==
  /\ main.at = "start" /\ Plugin = "webserver"
  /\ web' = IF IsStarted("chain") THEN "listening" ELSE web
  /\ NextPlugin
  /\ UNCHANGED <<call, req, cxt, queue, writer, tasks, p2p, processing, crashed, calls>>

(* A signal stops the main loop, between two of its handlers. *)
quit ==
  /\ main.at = "exec" /\ call[Main] = "none"
  /\ main' = [main EXCEPT !.at = "stop"]
  /\ UNCHANGED <<call, req, cxt, queue, writer, tasks, p2p, processing, web, crashed, calls>>

Stopping(plugin) == main.plugin > 0 /\ Plugin = plugin
(* Mutant: a plugin is passed over. *)
StoppedTwo == main' = [main EXCEPT !.at = "stop", !.plugin = @ - 2]

Stopped == main' = [main EXCEPT !.at = "stop", !.plugin = @ - 1]

(* Mutant: the pool is told to stop and not joined. *)
stop_webserver_unjoined ==
  /\ main.at = "stop" /\ Stopping("webserver")
  /\ web' = "stopped" /\ Stopped
  /\ UNCHANGED <<call, req, cxt, queue, writer, tasks, p2p, processing, crashed, calls>>

stop_webserver ==
  /\ main.at = "stop" /\ Stopping("webserver")
  /\ web' = "stopping"
  /\ main' = [main EXCEPT !.at = "join"]
  /\ UNCHANGED <<call, req, cxt, queue, writer, tasks, p2p, processing, crashed, calls>>

(* thread_pool.join_all() *)
pool_joined ==
  /\ main.at = "join" /\ Stopping("webserver") /\ \A t \in Web : call[t] = "none"
  /\ web' = "stopped" /\ Stopped
  /\ UNCHANGED <<call, req, cxt, queue, writer, tasks, p2p, processing, crashed, calls>>

(* Mutant: the node is not closed. *)
stop_p2p_detached ==
  /\ main.at = "stop" /\ Stopping("p2p")
  /\ accepting' = FALSE /\ connected' = FALSE
  /\ Stopped
  /\ UNCHANGED <<call, req, cxt, queue, writer, tasks, node, processing, web, crashed, calls>>

(* The loop that waits for the handlers ends when one of the two is not     *)
(* active.  Both run in the node's thread, which the other one blocks: the  *)
(* loop is left at once.                                                    *)
stop_p2p ==
  /\ main.at = "stop" /\ Stopping("p2p")
  /\ accepting' = FALSE /\ connected' = FALSE
  /\ main' = [main EXCEPT !.at = "close"]
  /\ Post(Main, "close")
  /\ UNCHANGED <<call, req, cxt, queue, writer, node, processing, web, crashed, calls>>

(* node.reset(): the pointer is null before the node's thread deletes it. *)
reset_node ==
  /\ main.at = "close" /\ node = "closed"
  /\ node' = "null"
  /\ main' = [main EXCEPT !.at = "delete"]
  /\ Post(Main, "delete")
  /\ UNCHANGED <<call, req, cxt, queue, writer, accepting, connected, processing, web, crashed, calls>>

(* Mutant: the flag is left alone. *)
stop_chain_unflagged ==
  /\ main.at = "stop" /\ Stopping("chain")
  /\ main' = [main EXCEPT !.at = "join"]
  /\ UNCHANGED <<call, req, cxt, queue, writer, tasks, p2p, processing, web, crashed, calls>>

(* stop_write_processing() *)
stop_chain ==
  /\ main.at = "stop" /\ Stopping("chain")
  /\ processing' = FALSE
  /\ main' = [main EXCEPT !.at = "join"]
  /\ UNCHANGED <<call, req, cxt, queue, writer, tasks, p2p, web, crashed, calls>>

writer_joined ==
  /\ main.at = "join" /\ Stopping("chain") /\ writer.at = "stopped"
  /\ Stopped
  /\ UNCHANGED <<call, req, cxt, queue, writer, tasks, p2p, processing, web, crashed, calls>>

exit ==
  /\ main.at = "stop" /\ main.plugin = 0
  /\ main' = [main EXCEPT !.at = "exited"]
  /\ UNCHANGED <<call, req, cxt, queue, writer, tasks, p2p, processing, web, crashed, calls>>

-----------------------------------------------------------------------------
Requests ==
  \/ \E t \in Web, kind \in use.web : web_request(t, kind)
  \/ \E kind \in use.peers : handle_block(kind)
  \/ handle_transaction \/ maybe_produce_block \/ quit

NodeSteps == read_head \/ read_lock_timeout \/ handler_returns \/ run_task

WriterSteps ==
  \/ pop \/ release_lock \/ on_post_apply_block \/ set_value \/ writer_ends
  \/ \E outcome \in {"success", "except"} : visit(outcome)

MainSteps ==
  \/ start_chain \/ start_p2p \/ start_webserver \/ stop_webserver \/ pool_joined
  \/ stop_p2p \/ reset_node \/ stop_chain \/ writer_joined \/ exit

(* A crash ends the process; what the node is used for does not change. *)
Alive == ~crashed /\ UNCHANGED use

Next ==
  /\ Alive
  /\ Requests \/ NodeSteps \/ WriterSteps \/ MainSteps \/ \E t \in Caller : accept_returns(t)

(* Every thread runs; nobody has to send a request or a signal. *)
Fairness ==
  /\ WF_vars(Alive /\ NodeSteps) /\ WF_vars(Alive /\ WriterSteps) /\ WF_vars(Alive /\ MainSteps)
  /\ \A t \in Caller : WF_vars(Alive /\ accept_returns(t))

Spec == Init /\ [][Next]_vars /\ Fairness

-----------------------------------------------------------------------------
(* "It is the caller's responsibility to ensure the pointer to the write    *)
(* context remains valid until the contained promise is complete"           *)
(* (chain_plugin.cpp:257): a context the queue or the write thread holds is  *)
(* on the stack of a caller that still waits, no context is held twice, and *)
(* a caller that goes on finds the outcome stored.                          *)
ContextsValid ==
  /\ IsInjective(queue) /\ writer.cxt \notin Range(queue)
  /\ \A t \in Range(queue) \cup ({writer.cxt} \ {NoOne}) : call[t] = "wait"
  /\ \A t \in Caller : call[t] = "answered" => cxt[t] # "none"

(* No thread uses the p2p node before it has been made or after it has been *)
(* deleted, from the first block applied at startup to the last request.    *)
NodeOutlivesUse == ~crashed

(* The write thread answers every request before it ends: nobody is left on *)
(* a promise that no thread will keep.                                      *)
NobodyLeftWaiting == writer.at = "stopped" => \A t \in Caller : call[t] # "wait"

(* "the caller needs to know the success of the write ..., a write context  *)
(* is passed in the queue to the processing thread which it will use to     *)
(* store the results of the write" (chain_plugin.cpp:253): every caller     *)
(* that has queued a write gets its result.                                 *)
RequestsAnswered == \A t \in Caller : call[t] = "wait" ~> (call[t] # "wait" \/ crashed)

(* "Wait until quit(), SIGINT or SIGTERM and then shutdown"                 *)
(* (application.hpp:39): a shutdown that has begun comes to its end.        *)
ShutdownCompletes == main.at = "stop" ~> (main.at = "exited" \/ crashed)

(* The write queue keeps its promises to its callers, to the last of them.   *)
QueueSound == TypeOK /\ ContextsValid /\ NobodyLeftWaiting
=============================================================================
