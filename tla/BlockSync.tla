----------------------------- MODULE BlockSync ------------------------------
(***************************************************************************)
(* A node that is behind fetches blocks from its peers                     *)
(* (libraries/net/node.cpp): lists of ids, blocks asked for from several   *)
(* peers at once, the backlog they wait in, connections that end.          *)
(*                                                                         *)
(* Handlers and tasks share one thread, call the delegate from it and give *)
(* it up only at their ends. The peers run the same program; of it, only   *)
(* their answers are here, and they have all this node has. Nothing        *)
(* becomes irreversible meanwhile. Blocks that are broadcast, and hello,   *)
(* address and firewall messages, are left out.                            *)
(***************************************************************************)
EXTENDS Synopsis, SequencesExt, FiniteSetsExt

CONSTANTS Peer,
          Block, Genesis, NoBlock,
          Prev, Num,      \* block -> its previous, its number
          Bad,            \* blocks that do not apply
          Order,          \* the peers in the order of _active_connections
          Worlds,         \* the settings; each of the following has one value per world
          Heads,          \* [Peer -> Seq(Block)]: the heads a peer has in turn; none: no such peer
          Ignores,        \* [Peer -> SUBSET {"ids", "blocks"}]: the requests it never answers
          Limits,         \* [LimitNames -> Nat]
          MaxBreaks       \* bound: connections that break

LimitNames == {"ids",         \* ids in one answer
               "minPrefetch", \* GRAPHENE_NET_MIN_BLOCK_IDS_TO_PREFETCH
               "perPeer",     \* maximum_blocks_per_peer_during_syncing
               "atOneTime",   \* maximum_number_of_blocks_to_handle_at_one_time
               "prefetch",    \* maximum_number_of_sync_blocks_to_prefetch
               "recent"}      \* capacity of _most_recent_blocks_accepted

ASSUME SyncAssumption ==
  /\ Genesis \notin Block /\ NoBlock \notin Block /\ Range(Order) = Peer
  /\ \A w \in Worlds : Limits[w] \in [LimitNames -> Nat]
  /\ \A b \in Block : Num[b] = Num[Prev[b]] + 1

VARIABLES world,          \* the setting
          have,           \* the blocks the delegate has
          head,           \* its head block
          recent,         \* _most_recent_blocks_accepted
          peer,           \* the connections, with the messages under way
          asked,          \* _active_sync_requests
          received,       \* _received_sync_items and _new_received_sync_items
          calls,          \* the tasks that hand a block to the delegate
          backlog,        \* process_backlog_of_sync_blocks() is to run
          fetch,          \* _sync_items_to_fetch_updated
          suspended,      \* _suspend_fetching_sync_blocks
          at,             \* where each peer is in its Heads
          breaks          \* bound: the connections that broke

delegateVars == <<have, head, recent>>
queueVars == <<asked, received, calls, backlog, fetch, suspended>>
worldVars == <<world, at, breaks>>
vars == <<delegateVars, peer, queueVars, worldVars>>

ChainOf[b \in Block \cup {Genesis}] ==
  IF b = Genesis THEN <<>> ELSE Append(ChainOf[Prev[b]], b)

(* A connection: the fields of peer_connection, and the messages under way.  *)
Connection ==
  [conn : {"active", "closing", "closed"},
   need : BOOLEAN,                    \* we_need_sync_items_from_peer
   toget : Seq(Block),                \* ids_of_items_to_get
   unfetched : Nat,                   \* number_of_unfetched_item_ids
   processing : SUBSET Block,         \* ids_of_items_being_processed
   ids : Seq(Seq(Block)),             \* item_ids_requested_from_peer: none, or the synopsis
   requested : SUBSET Block,          \* sync_items_requested_from_peer
   seen : Block \cup {NoBlock},       \* last_block_delegate_has_seen
   out : Seq([kind : {"ids", "blocks"}, items : Seq(Block)])]  \* what it is asked for

TypeOK ==
  /\ have \subseteq Block /\ head \in have \cup {Genesis} /\ recent \in Seq(Block)
  /\ \A p \in Peer : peer[p].conn = "active" =>
       /\ peer[p].toget \in Seq(Block) /\ peer[p].unfetched \in Nat
       /\ peer[p].requested \subseteq asked
  /\ asked \cup received \subseteq Block /\ calls \in Seq(Block) /\ Len(calls) <= Limits[world].atOneTime
  /\ {backlog, fetch, suspended} \subseteq BOOLEAN

-----------------------------------------------------------------------------
(* Asking for ids.                                                           *)

(* create_blockchain_synopsis_for_peer(): the chain up to the last block     *)
(* seen, or all of it, and the ids this node means to get after it.          *)
create_blockchain_synopsis_for_peer(c, top) ==
  LET ref == IF c.seen = NoBlock THEN top ELSE c.seen
      n == Len(c.toget)
      first == Num[c.toget[1]]
      old == SelectSeq(Halving(1, Num[ref] + n), LAMBDA k : k <= Num[ref])
      new == IF n = 0 THEN <<>> ELSE SelectSeq(Halving(1, first + n - 1), LAMBDA k : k >= first)
  IN  [i \in DOMAIN old |-> ChainOf[ref][old[i]]] \o [i \in DOMAIN new |-> c.toget[new[i] - first + 1]]

fetch_next_batch_of_item_ids_from_peer(c, top) ==
  LET synopsis == create_blockchain_synopsis_for_peer(c, top)
  IN  [c EXCEPT !.ids = <<synopsis>>, !.out = Append(@, [kind |-> "ids", items |-> synopsis])]

start_synchronizing_with_peer(c, top) ==
  fetch_next_batch_of_item_ids_from_peer(
    [c EXCEPT !.toget = <<>>, !.unfetched = 0, !.need = TRUE, !.seen = NoBlock], top)

NewConnection ==
  [conn |-> "active", need |-> FALSE, toget |-> <<>>, unfetched |-> 0, processing |-> {},
   ids |-> <<>>, requested |-> {}, seen |-> NoBlock, out |-> <<>>]

Init ==
  /\ world \in Worlds
  /\ have = {} /\ head = Genesis /\ recent = <<>>
  /\ peer = [p \in Peer |-> IF Heads[world][p] = <<>> THEN [NewConnection EXCEPT !.conn = "closed"]
                             ELSE start_synchronizing_with_peer(NewConnection, Genesis)]
  /\ asked = {} /\ received = {} /\ calls = <<>>
  /\ backlog = FALSE /\ fetch = FALSE /\ suspended = FALSE
  /\ at = [p \in Peer |-> 1] /\ breaks = 0

Active == {p \in Peer : peer[p].conn = "active"}
busy(c) == c.requested # {} \/ c.ids # <<>>

-----------------------------------------------------------------------------
(* The peers.                                                                *)

(* get_block_ids() *)
Ids(p, synopsis) ==
  LET chain == ChainOf[Heads[world][p][at[p]]]
      known == {i \in DOMAIN synopsis : Num[synopsis[i]] <= Len(chain)
                                          /\ chain[Num[synopsis[i]]] = synopsis[i]}
      first == IF synopsis = <<>> THEN 1 ELSE Num[synopsis[Max(known)]]
      last == Min({Len(chain), first + Limits[world].ids - 1})
  IN  IF synopsis # <<>> /\ known = {} THEN [items |-> <<>>, left |-> 0]
      ELSE [items |-> SubSeq(chain, first, last), left |-> Len(chain) - last]

(* on_fetch_blockchain_item_ids_message(), on_fetch_items_message(): a peer  *)
(* answers requests one by one, and an answer counts when it arrives.        *)
Answered(p) == SelectSeq(peer[p].out, LAMBDA m : m.kind \notin Ignores[world][p])

Arrives(p, kind) ==
  /\ peer[p].conn # "closed"
  /\ Answered(p) # <<>> /\ Head(Answered(p)).kind = kind

(* The connection without the request, or without its first block. *)
Received(p) ==
  LET m == Head(Answered(p))
      i == Min({j \in DOMAIN peer[p].out : peer[p].out[j] = m})
  IN  [peer[p] EXCEPT !.out = IF m.kind = "blocks" /\ Len(m.items) > 1
                                THEN [@ EXCEPT ![i].items = Tail(@)] ELSE RemoveAt(@, i)]

(* A peer gets blocks, or switches forks.  Once this node is in sync with it *)
(* it would be told of them by broadcast.                                    *)
Advance(p) ==
  /\ at[p] < Len(Heads[world][p]) /\ peer[p].need
  /\ at' = [at EXCEPT ![p] = @ + 1]
  /\ UNCHANGED <<delegateVars, peer, queueVars, world, breaks>>

-----------------------------------------------------------------------------
(* on_blockchain_item_ids_inventory_message()                                *)

(* "a list of blocks that builds off of one of the blocks in the synopsis" *)
ValidReply(c, m) ==
  m.items # <<>> => IF c.ids[1] = <<>> THEN Num[m.items[1]] = 1 ELSE m.items[1] \in Range(c.ids[1])

UpToDate(c, m) ==
  /\ m.left = 0 /\ c.toget = <<>> /\ c.unfetched = 0
  /\ m.items = <<>> \/ (Len(m.items) = 1 /\ m.items[1] \in have)

(* The items that are left when those the delegate has are flushed, unless   *)
(* another peer's list begins with the same one.                             *)
Unseen(p, items) ==
  IF \E q \in Active \ {p} : peer[q].toget # <<>> /\ peer[q].toget[1] = items[1] THEN items
  ELSE LET n == Max({k \in 0..Len(items) : Range(SubSeq(items, 1, k)) \subseteq have})
       IN  SubSeq(items, n + 1, Len(items))

(* The list with the new ids: they begin with the last one it has, or, when  *)
(* the peer has switched forks, with an earlier one or one that is not there.*)
Extended(p, c, items) ==
  LET unseen == Unseen(p, items)
      n == Max({0} \cup {k \in DOMAIN c.toget : c.toget[k] = items[1]})
  IN  IF items = <<>> THEN c
      ELSE IF c.toget = <<>>
        THEN [c EXCEPT !.toget = unseen,
                       !.seen = IF Len(unseen) = Len(items) THEN @ ELSE items[Len(items) - Len(unseen)]]
      ELSE IF n = 0 THEN [c EXCEPT !.toget = Tail(items), !.seen = items[1]]
      ELSE [c EXCEPT !.toget = SubSeq(@, 1, n - 1) \o items]

(* "we have a good number of item ids", or all of them: fetch blocks. *)
EnoughIds(c) == c.toget # <<>> /\ (c.unfetched = 0 \/ Len(c.toget) > Limits[world].minPrefetch)

on_blockchain_item_ids_inventory_message(p) ==
  /\ Arrives(p, "ids")
  /\ \E asking \in {Received(p)}, m \in {Ids(p, Head(Answered(p)).items)} :
       IF asking.ids = <<>> THEN peer' = [peer EXCEPT ![p] = asking] /\ UNCHANGED fetch
       ELSE IF ~ValidReply(asking, m)
         THEN peer' = [peer EXCEPT ![p] = [asking EXCEPT !.conn = "closing"]] /\ UNCHANGED fetch
       ELSE IF UpToDate(asking, m)
         THEN peer' = [peer EXCEPT ![p] = [asking EXCEPT !.ids = <<>>, !.need = FALSE]] /\ UNCHANGED fetch
       ELSE \E c \in {Extended(p, [asking EXCEPT !.ids = <<>>, !.unfetched = m.left], m.items)} :
         /\ peer' = [peer EXCEPT ![p] = IF EnoughIds(c) THEN c
                                         ELSE fetch_next_batch_of_item_ids_from_peer(c, head)]
         /\ fetch' = (fetch \/ EnoughIds(c))
  /\ UNCHANGED <<delegateVars, asked, received, calls, backlog, suspended, worldVars>>

-----------------------------------------------------------------------------
(* Asking for blocks.                                                        *)

(* What to ask this peer for: the first blocks of its list nobody is asked   *)
(* for and that are not here.                                                *)
Wanted(c, others) ==
  LET open == SelectSeq(c.toget, LAMBDA b : b \notin received \cup asked \cup others)
  IN  SubSeq(open, 1, Min({Limits[world].perPeer, Len(open)}))

(* One round over the connections, in their order. *)
Round ==
  LET f[i \in 0..Len(Order)] ==
        IF i = 0 THEN [p \in Peer |-> <<>>]
        ELSE LET p == Order[i]
                 others == UNION {Range(f[i - 1][q]) : q \in Peer}
             IN  IF p \in Active /\ peer[p].need /\ ~busy(peer[p])
                   THEN [f[i - 1] EXCEPT ![p] = Wanted(peer[p], others)]
                   ELSE f[i - 1]
  IN  f[Len(Order)]

request_sync_items_from_peer(c, blocks) ==
  IF blocks = <<>> THEN c
  ELSE [c EXCEPT !.requested = @ \cup Range(blocks),
                 !.out = Append(@, [kind |-> "blocks", items |-> blocks])]

fetch_sync_items_loop ==
  /\ fetch /\ fetch' = FALSE
  /\ LET want == IF suspended THEN [p \in Peer |-> <<>>] ELSE Round
     IN  /\ peer' = [p \in Peer |-> request_sync_items_from_peer(peer[p], want[p])]
         /\ asked' = asked \cup UNION {Range(want[p]) : p \in Peer}
  /\ UNCHANGED <<delegateVars, received, calls, backlog, suspended, worldVars>>

(* process_block_message() *)
process_block_message(p) ==
  /\ Arrives(p, "blocks")
  /\ \E c \in {Received(p)}, b \in {Head(Head(Answered(p)).items)} :
       IF b \notin c.requested
         THEN /\ peer' = [peer EXCEPT ![p] = [c EXCEPT !.conn = "closing"]]
              /\ UNCHANGED <<asked, received, backlog, fetch>>
       ELSE /\ asked' = asked \ {b} /\ received' = received \cup {b} /\ backlog' = TRUE
            /\ \E d \in {[c EXCEPT !.requested = @ \ {b}]} :
                 IF ~busy(d) /\ d.unfetched > 0 /\ Len(d.toget) < Limits[world].minPrefetch
                   THEN /\ peer' = [peer EXCEPT ![p] = fetch_next_batch_of_item_ids_from_peer(d, head)]
                        /\ UNCHANGED fetch
                   ELSE peer' = [peer EXCEPT ![p] = d] /\ fetch' = (fetch \/ ~busy(d))
  /\ UNCHANGED <<delegateVars, calls, suspended, worldVars>>

-----------------------------------------------------------------------------
(* process_backlog_of_sync_blocks()                                          *)
(* Mutant: a block anywhere in the list, not at its front. *)
NextForAnywhere(conns, b) == {p \in Peer : conns[p].conn = "active" /\ b \in Range(conns[p].toget)}
NextFor(conns, b) == {p \in Peer : conns[p].conn = "active" /\ conns[p].toget # <<>> /\ conns[p].toget[1] = b}
Drained(c) == c.toget = <<>> /\ c.unfetched = 0 /\ c.processing = {}
Taken(conns, b) ==
  [p \in Peer |-> IF p \in NextFor(conns, b)
                    THEN [conns[p] EXCEPT !.toget = Tail(@), !.processing = @ \cup {b}] ELSE conns[p]]

(* It has been accepted already: the block stays, and the pass ends. *)
Skip(s, b) ==
  [s EXCEPT !.more = FALSE,
            !.peer = [p \in Peer |->
              LET c == Taken(s.peer, b)[p]
                  done == [c EXCEPT !.processing = @ \ {b}]
              IN  IF c.conn # "active" \/ b \notin c.processing THEN c
                  ELSE IF Drained(done) THEN fetch_next_batch_of_item_ids_from_peer(done, head) ELSE done]]

(* The next block of somebody's list is here: to the delegate with it. *)
Dispatch(s, b) ==
  LET full == Len(s.calls) + 1 >= Limits[world].atOneTime
  IN  [peer |-> Taken(s.peer, b), received |-> s.received \ {b}, calls |-> Append(s.calls, b),
       suspended |-> full /\ Cardinality(s.received) > Limits[world].prefetch, more |-> ~full]

(* One turn of the loop: any of the blocks that are next for a peer may be   *)
(* the first of them in the list they wait in, whose order is not kept.      *)
Turn(s) ==
  LET due == {b \in s.received : NextFor(s.peer, b) # {}}
  IN  IF ~s.more THEN {s}
      ELSE IF due = {} THEN {[s EXCEPT !.more = FALSE]}
      ELSE {IF b \in Range(recent) THEN Skip(s, b) ELSE Dispatch(s, b) : b \in due}

Pass ==
  LET f[n \in 0..(Limits[world].atOneTime + 1)] ==
        IF n = 0
          THEN {[peer |-> peer, received |-> received, calls |-> calls, suspended |-> FALSE, more |-> TRUE]}
          ELSE UNION {Turn(s) : s \in f[n - 1]}
  IN  f[Limits[world].atOneTime + 1]

process_backlog_of_sync_blocks ==
  /\ backlog /\ backlog' = FALSE
  /\ \/ /\ Len(calls) >= Limits[world].atOneTime
        /\ UNCHANGED <<peer, received, calls, suspended, fetch>>
     \/ /\ Len(calls) < Limits[world].atOneTime
        /\ \E s \in Pass :
             /\ peer' = s.peer /\ received' = s.received /\ calls' = s.calls
             /\ suspended' = s.suspended /\ fetch' = (fetch \/ ~s.suspended)
  /\ UNCHANGED <<delegateVars, asked, worldVars>>

-----------------------------------------------------------------------------
(* send_sync_block_to_node_delegate()                                        *)
Spoilt(b) == Range(ChainOf[b]) \cap Bad # {}

(* handle_block(): a block is applied when its chain is the longest; on a    *)
(* shorter one it only goes into the fork database.                          *)
Accepts(b) ==
  /\ Prev[b] \in have \cup {Genesis}
  /\ Num[b] > Num[head] => ~Spoilt(b)

(* Mutant: a sync that is under way begins again. *)
AfterAcceptedAgain(c, b, top, behind) ==
  LET done == [c EXCEPT !.seen = b, !.processing = @ \ {b}]
  IN  IF c.toget = <<>> /\ c.processing = {} THEN start_synchronizing_with_peer(c, top)
      ELSE IF b \notin c.processing THEN c
      ELSE IF Drained(done) THEN fetch_next_batch_of_item_ids_from_peer(done, top)
      ELSE done

(* A peer in sync is told of the block by a new round, unless it is behind   *)
(* (peer_needs_sync_items_from_us) and will ask by itself.                   *)
AfterAccepted(c, b, top, behind) ==
  LET done == [c EXCEPT !.seen = b, !.processing = @ \ {b}]
  IN  IF c.toget = <<>> /\ c.processing = {}
        THEN IF behind \/ c.need THEN c ELSE start_synchronizing_with_peer(c, top)
      ELSE IF b \notin c.processing THEN c
      ELSE IF Drained(done) THEN fetch_next_batch_of_item_ids_from_peer(done, top)
      ELSE done

(* The task holds the thread until the delegate has answered. *)
send_sync_block_to_node_delegate ==
  /\ calls # <<>> /\ calls' = Tail(calls)
  /\ LET b == Head(calls)
     IN  \/ /\ Accepts(b)
            /\ have' = have \cup {b} /\ head' = (IF Num[b] > Num[head] THEN b ELSE head)
            /\ recent' = SubSeq(Append(recent, b), Max({1, Len(recent) + 2 - Limits[world].recent}),
                                Len(recent) + 1)
            /\ \E behind \in SUBSET {p \in Active : ~peer[p].need} :
                 peer' = [p \in Peer |-> IF p \in Active THEN AfterAccepted(peer[p], b, head', p \in behind)
                                         ELSE peer[p]]
         \/ /\ ~Accepts(b)
            /\ peer' = [p \in Peer |-> IF p \in Active /\ b \in peer[p].processing
                                         THEN [peer[p] EXCEPT !.conn = "closing"] ELSE peer[p]]
            /\ have' = {x \in have : ~Spoilt(x) \/ x \notin Range(ChainOf[b])}
            /\ UNCHANGED <<head, recent>>
  /\ backlog' = TRUE
  /\ UNCHANGED <<asked, received, fetch, suspended, worldVars>>

-----------------------------------------------------------------------------
(* Connections end and begin.                                                *)

(* Mutant: what the peer had been asked for stays asked for. *)
on_connection_closed_forgetful(p) ==
  /\ peer' = [peer EXCEPT ![p] = [NewConnection EXCEPT !.conn = "closed"]]
  /\ fetch' = (fetch \/ peer[p].requested # {})
  /\ UNCHANGED <<delegateVars, asked, received, calls, backlog, suspended, world, at>>

(* Mutant: all requests are dropped, those to other peers, too. *)
on_connection_closed_thorough(p) ==
  /\ peer' = [peer EXCEPT ![p] = [NewConnection EXCEPT !.conn = "closed"]]
  /\ asked' = {} /\ fetch' = TRUE
  /\ UNCHANGED <<delegateVars, received, calls, backlog, suspended, world, at>>

on_connection_closed(p) ==
  /\ peer' = [peer EXCEPT ![p] = [NewConnection EXCEPT !.conn = "closed"]]
  /\ asked' = asked \ peer[p].requested
  /\ fetch' = (fetch \/ peer[p].requested # {})
  /\ UNCHANGED <<delegateVars, received, calls, backlog, suspended, world, at>>

Close(p) == peer[p].conn = "closing" /\ on_connection_closed(p) /\ UNCHANGED breaks

Break(p) ==
  /\ peer[p].conn = "active" /\ breaks < MaxBreaks[world]
  /\ on_connection_closed(p) /\ breaks' = breaks + 1

(* new_peer_just_added(): a connection is tried again after                  *)
(* peer_connection_retry_timeout (30 s), when the tasks at hand are done.    *)
Connect(p) ==
  /\ peer[p].conn = "closed" /\ Heads[world][p] # <<>>
  /\ calls = <<>> /\ ~backlog /\ ~fetch
  /\ peer' = [peer EXCEPT ![p] = start_synchronizing_with_peer(NewConnection, head)]
  /\ UNCHANGED <<delegateVars, queueVars, worldVars>>

(* A request that has not been answered in time: the peer ignores it. *)
Overdue(p, kind) ==
  /\ kind \in Ignores[world][p]
  /\ IF kind = "ids" THEN peer[p].ids # <<>> ELSE peer[p].requested # {}

Stalled(c) == c.need /\ c.ids = <<>> /\ c.toget = <<>>

(* terminate_inactive_connections_loop(): a peer whose blocks are overdue    *)
(* ends the loop over the connections.                                       *)
terminate_inactive_connections_loop ==
  LET stop == {i \in DOMAIN Order : Order[i] \in Active /\ Overdue(Order[i], "blocks")}
      seen == {Order[i] : i \in {j \in DOMAIN Order : \A k \in stop : j < k}} \cap Active
      gone == {p \in seen : Overdue(p, "ids") \/ Stalled(peer[p])}
  IN  /\ gone # {}
      /\ peer' = [p \in Peer |-> IF p \in gone THEN [peer[p] EXCEPT !.conn = "closing"] ELSE peer[p]]
      /\ UNCHANGED <<delegateVars, queueVars, worldVars>>

-----------------------------------------------------------------------------
Messages(p) == on_blockchain_item_ids_inventory_message(p) \/ process_block_message(p)

Next ==
  \/ fetch_sync_items_loop \/ process_backlog_of_sync_blocks \/ send_sync_block_to_node_delegate
  \/ terminate_inactive_connections_loop
  \/ \E p \in Peer : Advance(p) \/ Messages(p) \/ Close(p) \/ Break(p) \/ Connect(p)

Fairness ==
  /\ WF_vars(fetch_sync_items_loop) /\ WF_vars(process_backlog_of_sync_blocks)
  /\ WF_vars(send_sync_block_to_node_delegate)
  /\ WF_vars(terminate_inactive_connections_loop)
  /\ \A p \in Peer : WF_vars(Messages(p)) /\ WF_vars(Close(p)) /\ SF_vars(Connect(p))

Spec == Init /\ [][Next]_vars /\ Fairness

-----------------------------------------------------------------------------
(* The delegate never gets a block before the one it builds on, whatever the *)
(* order in which peers deliver: so only a peer that offers a bad block is   *)
(* told "You offered us a block that we reject as invalid" (node.cpp:3270).  *)
InOrder ==
  \A i \in DOMAIN calls :
    Spoilt(calls[i]) \/ Prev[calls[i]] \in have \cup {Genesis} \cup {calls[j] : j \in 1..(i - 1)}

(* No block is lost between two peers: what is asked for is asked of a       *)
(* connection that still can deliver it (node.cpp:3089).                     *)
AskedOfSomebody ==
  asked \subseteq UNION {peer[p].requested : p \in Peer}

(* The assertion of node.cpp:2674 *)
ListLinks(c, items) ==
  c.toget # <<>> /\ items # <<>> /\ items[1] \notin Range(c.toget) => items[1] \in have

(* Every answer of a peer that runs this program is one this node waits for  *)
(* and accepts, whatever was asked before it or became of the list meanwhile:*)
(* none is told "You gave an invalid response to my request for sync blocks" *)
(* (node.cpp:2525) or "You sent me a block that I didn't ask for"            *)
(* (node.cpp:3699).                                                          *)
AnswersExpected ==
  \A p \in Peer :
    /\ Arrives(p, "ids") => peer[p].ids # <<>> /\ ValidReply(peer[p], Ids(p, Head(Answered(p)).items))
    /\ Arrives(p, "ids") => ListLinks(peer[p], Ids(p, Head(Answered(p)).items).items)
    /\ Arrives(p, "blocks") => Head(Head(Answered(p)).items) \in peer[p].requested

(* The peers that answer and have no bad blocks. *)
Good == {p \in Peer : /\ Heads[world][p] # <<>> /\ Ignores[world][p] = {}
                      /\ \A i \in DOMAIN Heads[world][p] : ~Spoilt(Heads[world][p][i])}

InSync == \A p \in Good : /\ peer[p].conn = "active" /\ ~peer[p].need
                         /\ Range(ChainOf[Heads[world][p][at[p]]]) \subseteq have

(* The stall: a block is here and next in some list, and nothing is left     *)
(* that would look at it.                                                    *)
LeftBehind == ~backlog /\ calls = <<>> /\ \E b \in received : NextFor(peer, b) # {}

(* Where it comes from.  A block is fetched once more although the delegate  *)
(* has it or is being given it: Skip() leaves it and ends the pass, and does *)
(* not "start iterating _received_sync_items from the beginning"             *)
(* (node.cpp:3419).                                                          *)
FetchedAgain == \E b \in asked \cup received : b \in have \cup Range(calls)

(* Or a block is here and the connections it was wanted for are gone: it is  *)
(* not asked for again, and a new list of ids starts no pass.                *)
Orphaned == \E b \in received : \A p \in Active : b \notin Range(peer[p].toget)

(* The sync with every good peer ends, and with all its blocks, whatever     *)
(* connections break, forks are switched and other peers do, as long as each *)
(* block is fetched once and handed on before the connection ends.  When one *)
(* is not, it ends in the same way or in the stall; nothing else stops it.   *)
SyncCompletes ==
  <>[]InSync \/ (<>(FetchedAgain \/ Orphaned) /\ <>[](InSync \/ LeftBehind))

(* Requests and answers match, whatever becomes of connections and forks. *)
RequestsSound == TypeOK /\ AskedOfSomebody /\ AnswersExpected
=============================================================================
