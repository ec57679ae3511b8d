------------------------------ MODULE PeerSync ------------------------------
(***************************************************************************)
(* How a node gets the blocks of its peers: it sends a synopsis of its     *)
(* chain, receives the ids of the blocks that follow, fetches the blocks   *)
(* from whoever has them, hands them to the chain in order, and goes over  *)
(* to normal operation, in which peers advertise their blocks one by one.  *)
(* All handlers and tasks run on one thread and call the chain directly,   *)
(* so each of them is one step.  A peer is an honest node of the same      *)
(* kind, seen through its answers; it gets its blocks elsewhere.  Blocks   *)
(* are valid: the chain refuses one only when it does not link.            *)
(***************************************************************************)
EXTENDS Integers, Sequences, SequencesExt, FiniteSets, FiniteSetsExt

CONSTANTS Peers,
          Parent,        \* Parent[b] of the blocks 1 .. n, 0 before the first
          InitHead, PeerHeads,  \* the heads at the start
          Lib,           \* last irreversible block number
          Limit,         \* ids in an answer
          MinPrefetch,   \* GRAPHENE_NET_MIN_BLOCK_IDS_TO_PREFETCH
          MaxPerPeer,    \* maximum_blocks_per_peer_during_syncing
          MaxHandled,    \* maximum_number_of_blocks_to_handle_at_one_time
          MaxReceived,   \* maximum_number_of_sync_blocks_to_prefetch
          MaxDrops, MaxExtends \* bounds: connections lost or timed out, blocks the
                         \* peers get elsewhere

Blocks == DOMAIN Parent

ASSUME PeerSyncAssumption ==
  /\ IsFiniteSet(Peers) /\ Parent \in Seq(Nat) /\ \A b \in Blocks : Parent[b] < b
  /\ InitHead \in Blocks \cup {0} /\ PeerHeads \in [Peers -> Blocks \cup {0}]
  /\ {Lib, MinPrefetch, MaxReceived, MaxDrops, MaxExtends} \subseteq Nat
  /\ {Limit, MaxPerPeer, MaxHandled} \subseteq Nat \ {0}

\* the chain that ends in a block, and its number
Chain[b \in {0} \cup Blocks] == IF b = 0 THEN <<>> ELSE Append(Chain[Parent[b]], b)
Num(b) == Len(Chain[b])
Of(b)  == Range(Chain[b])

\* Irreversible blocks are on every chain: no fork begins below them, the case
\* in which get_blockchain_synopsis gives up
ASSUME IrreversibleShared ==
  Lib <= Num(InitHead) /\ \A b \in Blocks : Num(b) <= Lib => b \in Of(InitHead)

VARIABLES
  have, head,    \* the blocks the chain knows, the head of the chain
  peer,          \* peer_connection of each peer with the messages on their way
  active,        \* _active_sync_requests
  fresh, received, \* _new_received_sync_items, _received_sync_items
  handled,       \* send_sync_block_to_node_delegate tasks that wait to run
  recent,        \* _most_recent_blocks_accepted
  suspended,     \* _suspend_fetching_sync_blocks
  backlog, fetchSync, fetchItems, \* process_backlog_of_sync_blocks is scheduled,
                 \* the two fetch loops are triggered
  toFetch, told, \* _items_to_fetch; blocks advertised to peers
  peerHead, peerNeeds, \* of a peer: its head, its peer_needs_sync_items_from_us
  drops, extends, \* history: losses and new blocks of peers so far
  accused        \* history: what peers were accused of

chainVars == <<have, head, recent>>
syncVars  == <<active, fresh, received, handled, suspended, backlog, fetchSync>>
itemVars  == <<fetchItems, toFetch, told>>
peerVars  == <<peerHead, peerNeeds>>
bounds    == <<drops, extends>>
vars == <<chainVars, syncVars, itemVars, peerVars, peer, bounds, accused>>

\* a new connection; the peer asks for our blocks first
NewPeer(h) ==
  [conn |-> "active", toGet |-> <<>>, processing |-> {}, unfetched |-> 0, needs |-> TRUE, theyNeed |-> TRUE,
   asked |-> {}, requested |-> {}, lastSeen |-> 0, normal |-> {}, offered |-> {},
   in |-> << <<"ask", h>> >>, out |-> <<>>]

Closed == [NewPeer(0) EXCEPT !.conn = "closed", !.in = <<>>]

Init == /\ have = Of(InitHead) /\ head = InitHead /\ recent = {InitHead}
        /\ active = {} /\ fresh = <<>> /\ received = <<>> /\ handled = <<>> /\ suspended = FALSE
        /\ backlog = FALSE /\ fetchSync = FALSE /\ fetchItems = FALSE /\ toFetch = <<>> /\ told = {}
        /\ peerHead = PeerHeads /\ peerNeeds = [p \in Peers |-> TRUE]
        /\ peer = [p \in Peers |-> Closed]
        /\ drops = 0 /\ extends = 0 /\ accused = {}

Active(ps) == {p \in Peers : ps[p].conn = "active"}
NextId(r)  == IF r.toGet = <<>> THEN 0 ELSE r.toGet[1]
Idle(r)    == r.normal = {} /\ r.requested = {} /\ r.asked = {}
Done(r)    == r.toGet = <<>> /\ r.unfetched = 0 /\ r.processing = {}

-----------------------------------------------------------------------------
(* Requests                                                                *)

\* the numbers low, ... that halve the way to high
Halving(low, high) ==
  LET f[n \in Nat] == IF n > high THEN {} ELSE {n} \cup f[n + (high - n + 2) \div 2]
  IN  f[low]

\* get_block_ids: from the last block of the synopsis on the peer's chain
Available(synopsis, h) ==
  LET common == {Num(b) : b \in synopsis \cap Of(h)}
      first  == IF synopsis = {} THEN 1 ELSE Max(common)
  IN  IF h = 0 \/ (synopsis # {} /\ common = {}) THEN <<>>
      ELSE SubSeq(Chain[h], first, Min({first + Limit - 1, Num(h)}))

\* on_fetch_blockchain_item_ids_message: the list is more than the last block
\* of the synopsis
NeedsMore(list, synopsis) == list # <<>> /\ ~(Len(list) = 1 /\ list[1] \in synopsis)

\* create_blockchain_synopsis_for_peer with get_blockchain_synopsis: of the
\* chain up to the reference point, then of the ids of the peer
Synopsis(r, h) ==
  LET top    == IF r.lastSeen = 0 THEN h ELSE r.lastSeen
      low    == Max({1, IF r.lastSeen \in Of(h) THEN Min({Lib, Num(r.lastSeen)}) ELSE Lib})
      n      == Len(r.toGet)
      chain  == IF top = 0 THEN {} ELSE {i \in Halving(low, Num(top) + n) : i <= Num(top)}
      first  == Num(NextId(r))
      ids    == IF n = 0 THEN {} ELSE {i \in Halving(IF top = 0 THEN 1 ELSE low, first + n - 1) : i >= first}
  IN  {Chain[top][i] : i \in chain} \cup {r.toGet[i - first + 1] : i \in ids}

\* fetch_next_batch_of_item_ids_from_peer, h the head of the chain
FetchIds(r, h) == [r EXCEPT !.asked = {Synopsis(r, h)}, !.out = Append(@, <<"ids", Synopsis(r, h)>>)]

\* start_synchronizing_with_peer
StartSync(r, h) ==
  FetchIds([r EXCEPT !.toGet = <<>>, !.unfetched = 0, !.needs = TRUE, !.lastSeen = 0], h)

\* disconnect_from_peer because of an error of the peer
Accuse(ps, who) == [p \in Peers |-> IF p \in who THEN [ps[p] EXCEPT !.conn = "closing"] ELSE ps[p]]

\* handle_block
Accepts(b)   == b \in have \/ Parent[b] = 0 \/ Parent[b] \in have
NewHead(b)   == IF Num(b) > Num(head) THEN b ELSE head

-----------------------------------------------------------------------------
(* Messages from a peer                                                    *)

Receives(p, kind) == peer[p].conn # "closed" /\ peer[p].in # <<>> /\ Head(peer[p].in)[1] = kind
Msg(p)  == Head(peer[p].in)[2]
Read(p) == [peer[p] EXCEPT !.in = Tail(@)]

\* what the peer has is not looked at
OnAsk_NoRound(p) ==
  /\ Receives(p, "ask")
  /\ peer' = [peer EXCEPT ![p] = [Read(p) EXCEPT !.theyNeed = FALSE]]
  /\ UNCHANGED <<chainVars, syncVars, itemVars, peerVars, bounds, accused>>

\* on_fetch_blockchain_item_ids_message of a peer whose chain ends in the block
\* asked from, and another round if we do not know that block
OnAsk(p) ==
  /\ Receives(p, "ask")
  /\ LET last   == Msg(p)
         theirs == Synopsis(Closed, last)
         r      == [Read(p) EXCEPT !.theyNeed = NeedsMore(Available(theirs, head), theirs)]
     IN  peer' = [peer EXCEPT ![p] =
           IF ~r.needs /\ last # 0 /\ last \notin have THEN StartSync(r, head) ELSE r]
  /\ UNCHANGED <<chainVars, syncVars, itemVars, peerVars, bounds, accused>>

\* on_blockchain_item_ids_inventory_message: the list a peer should have sent
Fits(list, synopsis) == \/ list = <<>>
                        \/ IF synopsis = {} THEN Num(list[1]) = 1 ELSE list[1] \in synopsis

UpToDate(r, list, rest) ==
  /\ rest = 0 /\ (list = <<>> \/ (Len(list) = 1 /\ list[1] \in have))
  /\ r.toGet = <<>> /\ r.unfetched = 0

\* one block more than the chain has
Unknown_OneMore(list) == SubSeq(list, SelectInSeq(Append(list, 0), LAMBDA b : b \notin have) + 1, Len(list))

\* what is left of a list after the blocks that the chain has
Unknown(list) == SubSeq(list, SelectInSeq(Append(list, 0), LAMBDA b : b \notin have), Len(list))

\* the list behind the ids there are already
Extended(r, list, others) ==
  LET k     == Len(r.toGet) + 1 - SelectInSeq(Reverse(r.toGet), LAMBDA b : b = list[1])
      new   == Unknown(list)
      known == Len(list) - Len(new)
  IN  IF list = <<>> \/ (r.toGet = <<>> /\ list[1] \in others) THEN [r EXCEPT !.toGet = @ \o list]
      ELSE IF r.toGet = <<>>
        THEN [r EXCEPT !.toGet = new, !.lastSeen = IF known > 0 THEN list[known] ELSE @]
      ELSE IF k > Len(r.toGet)
        THEN [r EXCEPT !.toGet = Tail(list), !.lastSeen = list[1]]
      ELSE [r EXCEPT !.toGet = SubSeq(@, 1, k - 1) \o list]

OnIds(p) ==
  /\ Receives(p, "list")
  /\ LET list == Msg(p)
         rest == Head(peer[p].in)[3]
         r    == [Read(p) EXCEPT !.asked = {}]
         others == {NextId(peer[q]) : q \in Active(peer) \ {p}}
         s    == Extended([r EXCEPT !.unfetched = rest], list, others)
         enough == IF rest # 0 THEN Len(s.toGet) > MinPrefetch ELSE s.toGet # <<>>
     IN  \/ /\ peer[p].asked = {}
            /\ peer' = [peer EXCEPT ![p] = r] /\ UNCHANGED <<fetchSync, accused>>
         \/ /\ peer[p].asked # {} /\ ~Fits(list, CHOOSE y \in peer[p].asked : TRUE)
            /\ peer' = Accuse([peer EXCEPT ![p] = Read(p)], {p}) /\ accused' = accused \cup {"list"}
            /\ UNCHANGED fetchSync
         \/ /\ peer[p].asked # {} /\ Fits(list, CHOOSE y \in peer[p].asked : TRUE) /\ UpToDate(r, list, rest)
            /\ peer' = [peer EXCEPT ![p] = [r EXCEPT !.needs = FALSE]] /\ UNCHANGED <<fetchSync, accused>>
         \/ /\ peer[p].asked # {} /\ Fits(list, CHOOSE y \in peer[p].asked : TRUE) /\ ~UpToDate(r, list, rest)
            /\ peer' = [peer EXCEPT ![p] = IF enough THEN s ELSE FetchIds(s, head)]
            /\ fetchSync' = (fetchSync \/ enough)
            /\ UNCHANGED accused
  /\ UNCHANGED <<chainVars, active, fresh, received, handled, suspended, backlog, itemVars, peerVars, bounds>>

\* on_item_ids_inventory_message: a block that we have broadcast is not looked
\* at as long as the inventory of some peer still remembers it
OnInv(p) ==
  /\ Receives(p, "inv")
  /\ LET b == Msg(p)
         known == \E q \in Active(peer) : b \in peer[q].normal
     IN  \/ b \in told /\ peer' = [peer EXCEPT ![p] = Read(p)] /\ UNCHANGED <<toFetch, fetchItems>>
         \/ /\ peer' = [peer EXCEPT ![p] = [Read(p) EXCEPT !.offered = @ \cup {b}]]
            /\ IF known \/ b \in Range(toFetch) THEN UNCHANGED <<toFetch, fetchItems>>
               ELSE toFetch' = Append(toFetch, b) /\ fetchItems' = TRUE
  /\ UNCHANGED <<chainVars, syncVars, told, peerVars, bounds, accused>>

\* process_block_during_normal_operation
OnNormalBlock(p) ==
  /\ Receives(p, "block") /\ Msg(p) \in peer[p].normal
  /\ LET b  == Msg(p)
         r  == [Read(p) EXCEPT !.normal = @ \ {b}]
         ps == [peer EXCEPT ![p] = r]
     IN  \/ /\ b \in recent \/ Accepts(b)
            /\ recent' = recent \cup {b}
            /\ IF b \in recent THEN UNCHANGED <<have, head>>
               ELSE have' = have \cup {b} /\ head' = NewHead(b)
            /\ peer' = [q \in Peers |-> IF q \in Active(ps) /\ b \in ps[q].offered
                                        THEN [ps[q] EXCEPT !.lastSeen = b] ELSE ps[q]]
            /\ told' = told \cup {b}
            /\ fetchItems' = (fetchItems \/ Idle(r))
         \/ /\ b \notin recent /\ ~Accepts(b)
            /\ peer' = [ps EXCEPT ![p] = StartSync(r, head)]
            /\ UNCHANGED <<have, head, recent, told, fetchItems>>
  /\ UNCHANGED <<syncVars, toFetch, peerVars, bounds, accused>>

\* process_block_message of a block of the synchronization, or of one that
\* nobody asked for
OnSyncBlock(p) ==
  /\ Receives(p, "block") /\ Msg(p) \notin peer[p].normal
  /\ LET r    == [Read(p) EXCEPT !.requested = @ \ {Msg(p)}]
         more == r.unfetched > 0 /\ Len(r.toGet) < MinPrefetch
     IN  IF Msg(p) \in peer[p].requested
           THEN /\ peer' = [peer EXCEPT ![p] = IF Idle(r) /\ more THEN FetchIds(r, head) ELSE r]
                /\ fetchSync' = (fetchSync \/ (Idle(r) /\ ~more))
                /\ active' = active \ {Msg(p)} /\ fresh' = Append(fresh, Msg(p)) /\ backlog' = TRUE
                /\ UNCHANGED accused
         ELSE /\ peer' = Accuse([peer EXCEPT ![p] = Read(p)], {p}) /\ accused' = accused \cup {"unrequested"}
              /\ UNCHANGED <<fetchSync, active, fresh, backlog>>
  /\ UNCHANGED <<chainVars, received, handled, suspended, itemVars, peerVars, bounds>>

-----------------------------------------------------------------------------
(* Tasks of the node                                                       *)

Orders == {f \in [1 .. Cardinality(Peers) -> Peers] : IsInjective(f)}

\* fetch_sync_items_loop: the first ids of a peer that are not on their way
Wanted(r, taken) ==
  LET busy == taken \cup active \cup Range(fresh) \cup Range(received)
      items[k \in 0 .. Len(r.toGet)] ==
        IF k = 0 THEN <<>>
        ELSE LET w == items[k - 1]
             IN  IF Len(w) >= MaxPerPeer \/ r.toGet[k] \in busy \cup Range(w) THEN w ELSE Append(w, r.toGet[k])
  IN  IF r.conn = "active" /\ r.needs /\ Idle(r) THEN items[Len(r.toGet)] ELSE <<>>

RequestFrom(ps, p) ==
  LET items == Wanted(ps.peer[p], ps.taken)
  IN  IF items = <<>> THEN ps
      ELSE [taken |-> ps.taken \cup Range(items),
            peer  |-> [ps.peer EXCEPT ![p] = [ps.peer[p] EXCEPT !.requested = @ \cup Range(items),
                                                                !.out = Append(@, <<"get", items>>)]]]

\* one peer after the other, in the order of _active_connections
RequestAll(order) ==
  LET after[k \in 0 .. Cardinality(Peers)] ==
        IF k = 0 THEN [peer |-> peer, taken |-> {}] ELSE RequestFrom(after[k - 1], order[k])
  IN  after[Cardinality(Peers)]

FetchSyncItems ==
  /\ fetchSync /\ fetchSync' = FALSE
  /\ IF suspended THEN UNCHANGED <<peer, active>>
     ELSE \E order \in Orders :
            LET s == RequestAll(order)
            IN  peer' = s.peer /\ active' = active \cup s.taken
  /\ UNCHANGED <<chainVars, fresh, received, handled, suspended, backlog, itemVars, peerVars, bounds, accused>>

\* fetch_items_loop: each idle peer is asked for one of its blocks
FetchItem(s, b, order) ==
  LET i == SelectInSeq(order, LAMBDA p : p \in Active(s.peer) /\ Idle(s.peer[p]) /\ b \in s.peer[p].offered)
  IN  IF i = 0 THEN s
      ELSE [left |-> RemoveFirst(s.left, b),
            peer |-> [s.peer EXCEPT ![order[i]] = [s.peer[order[i]] EXCEPT !.normal = {b},
                                                                           !.out = Append(@, <<"get", <<b>> >>)]]]

FetchEach(order) ==
  LET after[k \in 0 .. Len(toFetch)] ==
        IF k = 0 THEN [left |-> toFetch, peer |-> peer] ELSE FetchItem(after[k - 1], toFetch[k], order)
  IN  after[Len(toFetch)]

FetchItems ==
  /\ fetchItems /\ fetchItems' = FALSE
  /\ \E order \in Orders :
       LET s == FetchEach(order)
       IN  toFetch' = s.left /\ peer' = s.peer
  /\ UNCHANGED <<chainVars, syncVars, told, peerVars, bounds, accused>>

\* one pass of process_backlog_of_sync_blocks over the blocks received: the
\* first one that some peer has next
Taken(ps, b) == [p \in Peers |-> IF p \in Active(ps) /\ NextId(ps[p]) = b
                   THEN [ps[p] EXCEPT !.toGet = Tail(@), !.processing = @ \cup {b}] ELSE ps[p]]

Finished(r, b, h) == LET s == [r EXCEPT !.processing = @ \ {b}]
                     IN  IF b \in r.processing /\ Done(s) THEN FetchIds(s, h) ELSE s

Pass(s) ==
  LET i == SelectInSeq(s.blocks, LAMBDA b : \E p \in Active(s.peer) : NextId(s.peer[p]) = b)
      b == s.blocks[i]
      t == Taken(s.peer, b)
  IN  IF i = 0 THEN [s EXCEPT !.go = FALSE]
      ELSE IF b \notin recent
        THEN LET h == Append(s.handled, b)
                 left == RemoveAt(s.blocks, i)
                 full == Len(h) >= MaxHandled
             IN  [peer |-> t, blocks |-> left, handled |-> h, go |-> ~full,
                  suspended |-> full /\ Len(left) >= MaxReceived]
      ELSE [s EXCEPT !.go = FALSE,
              !.peer = [p \in Peers |-> IF p \in Active(t) THEN Finished(t[p], b, head) ELSE t[p]]]

\* passes until one finds nothing or enough is being handled
Passes(all) ==
  LET after[k \in 0 .. Len(all) + 1] ==
        IF k = 0 THEN [peer |-> peer, blocks |-> all, handled |-> handled, go |-> TRUE, suspended |-> FALSE]
        ELSE LET s == after[k - 1] IN IF s.go THEN Pass(s) ELSE s
  IN  after[Len(all) + 1]

ProcessBacklog ==
  /\ backlog /\ backlog' = FALSE
  /\ LET s == Passes(fresh \o received)
     IN  IF Len(handled) >= MaxHandled
           THEN UNCHANGED <<peer, fresh, received, handled, suspended, fetchSync>>
         ELSE /\ peer' = s.peer /\ fresh' = <<>> /\ received' = s.blocks /\ handled' = s.handled
              /\ suspended' = s.suspended /\ fetchSync' = (fetchSync \/ ~s.suspended)
  /\ UNCHANGED <<chainVars, active, itemVars, peerVars, bounds, accused>>

\* send_sync_block_to_node_delegate; a peer with nothing left to give is told
\* of the block by another round
Accepted(r, b, h) ==
  IF r.toGet = <<>> /\ r.processing = {}
    THEN IF ~r.theyNeed /\ ~r.needs THEN StartSync(r, h) ELSE r
  ELSE IF b \in r.processing THEN Finished([r EXCEPT !.lastSeen = b], b, h) ELSE r

HandleSyncBlock ==
  /\ handled # <<>> /\ handled' = Tail(handled) /\ backlog' = TRUE
  /\ LET b == Head(handled)
     IN  \/ /\ Accepts(b)
            /\ have' = have \cup {b} /\ head' = NewHead(b) /\ recent' = recent \cup {b}
            /\ peer' = [p \in Peers |-> IF p \in Active(peer) THEN Accepted(peer[p], b, NewHead(b)) ELSE peer[p]]
            /\ UNCHANGED accused
         \/ /\ ~Accepts(b)
            /\ LET who == {p \in Active(peer) : b \in peer[p].processing}
               IN  peer' = Accuse(peer, who) /\ accused' = accused \cup (IF who = {} THEN {} ELSE {"block"})
            /\ UNCHANGED <<have, head, recent>>
  /\ UNCHANGED <<active, fresh, received, suspended, fetchSync, itemVars, peerVars, bounds>>

-----------------------------------------------------------------------------
(* Connections                                                             *)

\* new_peer_just_added
Connect(p) ==
  /\ peer[p].conn = "closed"
  /\ peer' = [peer EXCEPT ![p] = StartSync(NewPeer(peerHead[p]), head)]
  /\ peerNeeds' = [peerNeeds EXCEPT ![p] = TRUE]
  /\ UNCHANGED <<chainVars, syncVars, itemVars, peerHead, bounds, accused>>

\* what a lost peer owes, does not wait to be fetched and another peer has
Again(p) == {b \in peer[p].normal \ Range(toFetch) : \E q \in Active(peer) \ {p} : b \in peer[q].offered}

\* requests of a lost peer are forgotten with it
OnConnectionClosed_Forgets(p) ==
  /\ peer[p].conn # "closed"
  /\ peer[p].conn = "active" => drops < MaxDrops
  /\ drops' = IF peer[p].conn = "active" THEN drops + 1 ELSE drops
  /\ fetchSync' = (fetchSync \/ peer[p].requested # {}) /\ peer' = [peer EXCEPT ![p] = Closed]
  /\ toFetch' = toFetch \o SetToSeq(Again(p))
  /\ fetchItems' = (fetchItems \/ peer[p].normal # {})
  /\ UNCHANGED <<chainVars, active, fresh, received, handled, suspended, backlog, told, peerVars, extends, accused>>

\* on_connection_closed, by the peer or the network, or after we closed it
OnConnectionClosed(p) ==
  /\ peer[p].conn # "closed"
  /\ peer[p].conn = "active" => drops < MaxDrops
  /\ drops' = IF peer[p].conn = "active" THEN drops + 1 ELSE drops
  /\ active' = active \ peer[p].requested /\ fetchSync' = (fetchSync \/ peer[p].requested # {})
  /\ peer' = [peer EXCEPT ![p] = Closed]
  /\ toFetch' = toFetch \o SetToSeq(Again(p))
  /\ fetchItems' = (fetchItems \/ peer[p].normal # {})
  /\ UNCHANGED <<chainVars, fresh, received, handled, suspended, backlog, told, peerVars, extends, accused>>

\* terminate_inactive_connections_loop: a request is not answered in time
Timeout(p) ==
  /\ peer[p].conn = "active" /\ ~Idle(peer[p]) /\ drops < MaxDrops /\ drops' = drops + 1
  /\ peer' = [peer EXCEPT ![p] = [@ EXCEPT !.conn = "closing", !.in = <<>>, !.out = <<>>]]
  /\ UNCHANGED <<chainVars, syncVars, itemVars, peerVars, extends, accused>>

\* ... or synchronization with the peer has stalled
Stalled(r) == r.conn = "active" /\ r.needs /\ r.asked = {} /\ r.toGet = <<>>

TerminateStalled(p) ==
  /\ Stalled(peer[p])
  /\ peer' = [peer EXCEPT ![p] = [@ EXCEPT !.conn = "closing", !.in = <<>>, !.out = <<>>]]
  /\ UNCHANGED <<chainVars, syncVars, itemVars, peerVars, bounds, accused>>

-----------------------------------------------------------------------------
(* A peer                                                                  *)

Gets(p, kind) == peer[p].conn # "closed" /\ peer[p].out # <<>> /\ Head(peer[p].out)[1] = kind
Reply(p, msgs) == [peer EXCEPT ![p] = [peer[p] EXCEPT !.out = Tail(@), !.in = @ \o msgs]]

AnswerIds(p) ==
  /\ Gets(p, "ids")
  /\ LET synopsis == Head(peer[p].out)[2]
         list == Available(synopsis, peerHead[p])
         rest == IF list = <<>> THEN 0 ELSE Num(peerHead[p]) - Num(Last(list))
     IN  /\ peer' = Reply(p, << <<"list", list, rest>> >>)
         /\ peerNeeds' = [peerNeeds EXCEPT ![p] = NeedsMore(list, synopsis)]
  /\ UNCHANGED <<chainVars, syncVars, itemVars, peerHead, bounds, accused>>

\* on_fetch_items_message
AnswerItems(p) ==
  /\ Gets(p, "get")
  /\ LET items == Head(peer[p].out)[2]
     IN  peer' = Reply(p, [i \in 1 .. Len(items) |-> <<"block", items[i]>>])
  /\ UNCHANGED <<chainVars, syncVars, itemVars, peerVars, bounds, accused>>

\* A peer that thinks we are in sync advertises a block it received alone, and
\* starts another round after blocks it got by synchronization
PeerExtends(p, b) ==
  /\ extends < MaxExtends /\ extends' = extends + 1
  /\ Num(b) > Num(peerHead[p]) /\ peerHead' = [peerHead EXCEPT ![p] = b]
  /\ \/ (peer[p].conn = "closed" \/ peerNeeds[p]) /\ UNCHANGED peer
     \/ /\ peer[p].conn # "closed" /\ ~peerNeeds[p]
        /\ \E m \in {"ask"} \cup (IF Parent[b] = peerHead[p] THEN {"inv"} ELSE {}) :
             peer' = [peer EXCEPT ![p].in = Append(@, <<m, b>>)]
  /\ UNCHANGED <<chainVars, syncVars, itemVars, peerNeeds, drops, accused>>

-----------------------------------------------------------------------------
Handles(p) == OnAsk(p) \/ OnIds(p) \/ OnInv(p) \/ OnNormalBlock(p) \/ OnSyncBlock(p)
Answers(p) == AnswerIds(p) \/ AnswerItems(p)

Next == \/ \E p \in Peers : Handles(p) \/ Answers(p) \/ Connect(p) \/ OnConnectionClosed(p)
                              \/ Timeout(p) \/ TerminateStalled(p)
        \/ \E p \in Peers, b \in Blocks : PeerExtends(p, b)
        \/ FetchSyncItems \/ FetchItems \/ ProcessBacklog \/ HandleSyncBlock

Spec == Init /\ [][Next]_vars

-----------------------------------------------------------------------------
(* Properties                                                              *)

\* A block is never taken to be on its way (and so never requested again)
\* when no connection owes it.
RequestsLive == active \subseteq UNION {peer[p].requested : p \in Peers}

\* An honest peer is never accused over a block: whatever was requested
\* arrives while it is expected, and is handed to the chain after its parent.
HonestBlocksKept == accused \subseteq {"list"}

\* Nothing is on its way or scheduled, every peer is connected, and the loop
\* that ends stalled connections finds none.
Quiet == /\ ~backlog /\ ~fetchSync /\ ~fetchItems /\ handled = <<>>
         /\ \A p \in Peers : /\ peer[p].conn = "active" /\ peer[p].in = <<>> /\ peer[p].out = <<>>
                             /\ ~Stalled(peer[p])

\* The node comes to rest below the head of an honest peer only with ids of
\* blocks left to get: what a lost connection, a late answer or a switch of
\* forks took away is asked for again.
RestsInSync == Quiet => \/ \A p \in Peers : Num(head) >= Num(peerHead[p])
                        \/ \E p \in Peers : peer[p].toGet # <<>>
=============================================================================
