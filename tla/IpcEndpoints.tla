---------------------------- MODULE IpcEndpoints ----------------------------
(***************************************************************************)
(* The endpoint registry and the channels of a Core-1 service              *)
(* (Core-1/ipc/ipc.c) on the service's heap (Core-1/mm/physical_mem.c).    *)
(* The registry is a linked list under g_ipc_lock whose nodes are heap     *)
(* blocks; channels are heap blocks as well, created without that lock.    *)
(* These are all the users of the Core-1 heap.                             *)
(*                                                                         *)
(* Registering and unregistering hold g_ipc_lock, and inside it the heap's *)
(* lock, and are one step each.  ipc_send holds g_ipc_lock while it runs   *)
(* the endpoint's handler: what other threads do meanwhile, and what the   *)
(* handler itself calls, comes in between.                                 *)
(*                                                                         *)
(* Abstracted: message ids and headers, which decide nothing; the type,    *)
(* service and handler of an endpoint; ipc_find_endpoint, which only       *)
(* reads; ipc_recv and ipc_try_recv, which return -1.                      *)
(***************************************************************************)
EXTENDS Heap, Sequences, SequencesExt

CONSTANTS
  Names,          \* the names callers use
  LongNames,      \* the ones of 64 characters or more
  Truncated,      \* what is left of a long name: its first 63 characters
  EndpointSize,   \* sizeof(struct ipc_endpoint)
  ChannelSize,    \* sizeof(ipc_channel_t)
  MaxEndpointId   \* bound: endpoint ids generated in a behaviour

ASSUME EndpointConstants ==
  /\ EndpointSize \in Nat \ {0} /\ Fits64(EndpointSize)
  /\ ChannelSize \in Nat \ {0} /\ Fits64(ChannelSize)
  /\ MaxEndpointId \in Nat
  /\ LongNames \subseteq Names /\ Truncated \notin LongNames

VARIABLES
  g_endpoints,       \* the registry's list; at is the node's block
  g_num_endpoints,
  g_next_endpoint_id,
  channels,          \* blocks of the channels that exist
  g_ipc_lock,
  pc,                \* where a thread is: idle, in a handler, or spinning
  sending            \* the node whose handler a thread is running

evars == <<blocks, g_endpoints, g_num_endpoints, g_next_endpoint_id, channels,
          g_ipc_lock, pc, sending>>
registry == <<g_endpoints, g_num_endpoints, g_next_endpoint_id>>

\* strncpy into the name field of a node.
Stored(name) == IF name \in LongNames THEN Truncated ELSE name

Endpoint ==
  [endpoint_id: 1 .. MaxEndpointId, name: {Stored(n) : n \in Names}, at: Addr]
NotSending == [endpoint_id |-> 0, at |-> 0]

\* core1_init: pmm_init, then ipc_init.
EndpointsInit ==
  /\ blocks = InitBlocks
  /\ g_endpoints = <<>> /\ g_num_endpoints = 0 /\ g_next_endpoint_id = 1
  /\ channels = {}
  /\ g_ipc_lock = 0
  /\ pc = [t \in Threads |-> "idle"]
  /\ sending = [t \in Threads |-> NotSending]

\* The walk over the list: the places of a name and of an id, and the first
\* of several places.
Named(name) == {i \in DOMAIN g_endpoints : g_endpoints[i].name = name}
WithId(id) == {i \in DOMAIN g_endpoints : g_endpoints[i].endpoint_id = id}
First(places) == {i \in places : \A j \in places : i <= j}

\* pmm_alloc(size), answered with block a.
pmm_alloc(size, a) ==
  /\ a \in Fit(blocks, TotalSize(size))
  /\ blocks' = Take(blocks, a, TotalSize(size))

\* pmm_free of the block.
pmm_free(a) == blocks' = Release(blocks, a)

\* Mutant: the lock is not waited for.
Enter_NoWait(t) == pc[t] = "idle"

\* A thread outside of this component that gets g_ipc_lock.
Enter(t) == pc[t] = "idle" /\ g_ipc_lock = 0

\* Mutant: no check for the name.
ipc_register_endpoint_NoCheck(t, name) ==
  /\ Enter(t)
  /\ g_next_endpoint_id <= MaxEndpointId
  /\ \E a \in Addr :
       /\ pmm_alloc(EndpointSize, a)
       /\ g_endpoints' = <<[endpoint_id |-> g_next_endpoint_id,
                            name |-> Stored(name), at |-> a]>> \o g_endpoints
  /\ g_num_endpoints' = g_num_endpoints + 1
  /\ g_next_endpoint_id' = g_next_endpoint_id + 1
  /\ UNCHANGED <<channels, g_ipc_lock, pc, sending>>

\* A name that is registered or a full heap is refused; otherwise a new node
\* goes to the front of the list.  The name is compared before it is
\* truncated, so a long one is never found.
ipc_register_endpoint(t, name) ==
  /\ Enter(t)
  /\ Named(name) = {}
  /\ g_next_endpoint_id <= MaxEndpointId
  /\ \E a \in Addr :
       /\ pmm_alloc(EndpointSize, a)
       /\ g_endpoints' = <<[endpoint_id |-> g_next_endpoint_id,
                            name |-> Stored(name), at |-> a]>> \o g_endpoints
  /\ g_num_endpoints' = g_num_endpoints + 1
  /\ g_next_endpoint_id' = g_next_endpoint_id + 1
  /\ UNCHANGED <<channels, g_ipc_lock, pc, sending>>

\* Mutant: the node is unlinked and not freed.
ipc_unregister_endpoint_NoFree(t, name) ==
  /\ Enter(t)
  /\ \E i \in First(Named(name)) :
       /\ g_endpoints' = RemoveAt(g_endpoints, i)
       /\ UNCHANGED blocks
  /\ g_num_endpoints' = g_num_endpoints - 1
  /\ UNCHANGED <<g_next_endpoint_id, channels, g_ipc_lock, pc, sending>>

\* The node is unlinked and freed.
ipc_unregister_endpoint(t, name) ==
  /\ Enter(t)
  /\ \E i \in First(Named(name)) :
       /\ g_endpoints' = RemoveAt(g_endpoints, i)
       /\ pmm_free(g_endpoints[i].at)
  /\ g_num_endpoints' = g_num_endpoints - 1
  /\ UNCHANGED <<g_next_endpoint_id, channels, g_ipc_lock, pc, sending>>

\* ipc_send finds the endpoint and calls its handler with the lock held.
ipc_send(t, id) ==
  /\ Enter(t)
  /\ \E i \in First(WithId(id)) :
       sending' = [sending EXCEPT ![t] =
                     [endpoint_id |-> id, at |-> g_endpoints[i].at]]
  /\ g_ipc_lock' = 1
  /\ pc' = [pc EXCEPT ![t] = "handler"]
  /\ UNCHANGED <<blocks, registry, channels>>

\* The handler returns and ipc_send releases the lock.
HandlerReturns(t) ==
  /\ pc[t] = "handler"
  /\ g_ipc_lock' = 0
  /\ pc' = [pc EXCEPT ![t] = "idle"]
  /\ sending' = [sending EXCEPT ![t] = NotSending]
  /\ UNCHANGED <<blocks, registry, channels>>

\* The handler sends, registers, unregisters or looks up an endpoint: it waits
\* for the lock its own thread holds.
HandlerCalls(t) ==
  /\ pc[t] = "handler"
  /\ pc' = [pc EXCEPT ![t] = "spin"]
  /\ UNCHANGED <<blocks, registry, channels, g_ipc_lock, sending>>

\* Channels come and go without g_ipc_lock, from handlers too.
ipc_create_channel(t) ==
  /\ pc[t] # "spin"
  /\ \E a \in Addr : pmm_alloc(ChannelSize, a) /\ channels' = channels \cup {a}
  /\ UNCHANGED <<registry, g_ipc_lock, pc, sending>>

ipc_destroy_channel(t, ch) ==
  /\ pc[t] # "spin"
  /\ pmm_free(ch)
  /\ channels' = channels \ {ch}
  /\ UNCHANGED <<registry, g_ipc_lock, pc, sending>>

EndpointsNext ==
  \E t \in Threads :
    \/ \E name \in Names : ipc_register_endpoint(t, name)
    \/ \E name \in Names : ipc_unregister_endpoint(t, name)
    \/ \E id \in 1 .. MaxEndpointId : ipc_send(t, id)
    \/ HandlerReturns(t)
    \/ HandlerCalls(t)
    \/ ipc_create_channel(t)
    \/ \E ch \in channels : ipc_destroy_channel(t, ch)

EndpointsSpec == EndpointsInit /\ [][EndpointsNext]_evars
-----------------------------------------------------------------------------
(* Properties. *)

\* The list, the heap and the threads have their types.
EndpointsTypeOK ==
  /\ DOMAIN blocks \subseteq Addr
  /\ \A a \in DOMAIN blocks : blocks[a] \in Header
  /\ g_endpoints \in Seq(Endpoint)
  /\ g_num_endpoints \in Nat /\ g_next_endpoint_id \in 1 .. MaxEndpointId + 1
  /\ channels \subseteq Addr
  /\ g_ipc_lock \in {0, 1}
  /\ pc \in [Threads -> {"idle", "handler", "spin"}]
  /\ sending \in [Threads -> [endpoint_id: 0 .. MaxEndpointId, at: Addr]]

\* pmm_free leaves no two free neighbours: contiguous free memory is one block,
\* so a registration that would fit into it is not refused.
NoAdjacentFree ==
  \A a \in DOMAIN blocks :
    ~blocks[a].used /\ blocks[a].next # NULL => blocks[blocks[a].next].used

\* pmm_validate returns 0 whenever it is called, and the list has lost none of
\* the heap's memory: splitting and merging keep links and sizes in step and
\* leave no two free neighbours.
ServiceHeapSound == EndpointsTypeOK /\ Validates(blocks) /\ Covers(blocks) /\ NoAdjacentFree

\* The blocks of the registry's nodes.
Nodes == {g_endpoints[i].at : i \in DOMAIN g_endpoints}

\* Every node and every channel has a block of its own that is large enough,
\* and every used block is one of them: nothing dangles and nothing leaks,
\* whatever is registered, removed, created and destroyed concurrently.
MemoryOwned ==
  /\ \A a \in Nodes : Usable(blocks, a, EndpointSize)
  /\ \A a \in channels : Usable(blocks, a, ChannelSize)
  /\ \A i, j \in DOMAIN g_endpoints : g_endpoints[i].at = g_endpoints[j].at => i = j
  /\ Nodes \cap channels = {}
  /\ {a \in DOMAIN blocks : blocks[a].used} = Nodes \cup channels

\* ipc_register_endpoint's promise: an id denotes one endpoint, and so does a
\* name that no long name is truncated to; g_num_endpoints is the length of
\* the list.  (Long names are registered any number of times.)
RegistrySound ==
  /\ \A i, j \in DOMAIN g_endpoints :
       (\/ g_endpoints[i].name = g_endpoints[j].name /\ g_endpoints[i].name # Truncated
        \/ g_endpoints[i].endpoint_id = g_endpoints[j].endpoint_id) => i = j
  /\ g_num_endpoints = Len(g_endpoints)

\* While ipc_send runs a handler the endpoint stays registered, at the same
\* place: the node that ipc_send still points to is not freed under it.
HandlerEndpointStays ==
  \A t \in Threads : pc[t] # "idle" =>
    \E i \in DOMAIN g_endpoints : /\ g_endpoints[i].endpoint_id = sending[t].endpoint_id
                                  /\ g_endpoints[i].at = sending[t].at
=============================================================================
