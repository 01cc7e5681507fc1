# MEADcast: a TLA+ model of the sender and its routers

MEADcast is sender-based multicast. A sender keeps a list of receivers, finds
out by discovery requests which MEADcast routers are on the way to each of them,
builds a topology tree from the answers, groups the receivers into packets that
carry a list of router and receiver addresses, and sends every datagram of a TUN
device to the group. Routers with the kernel patch split such a packet, forward
the parts and convert them to unicast; receivers know nothing of MEADcast.

The model is written from `src/mdc_sender/src` (the sender) and
`src/linux-6.5.y.patch` (the router). Definitions keep the names of the C
functions. `PROJECT.json` maps every definition to the lines it stands for.

## 1. Inventory

| Part | State | Operations | Correct if |
|---|---|---|---|
| Topology tree, lists (`tree.c`, `list.c`) | parent pointers; per router two lists, hops, and the counters `nchild`, `nleaf`, `fchild`, `fleaf` | `create_*`, `adopt`, `insert`, `cut_router`, `rec_reset_tree`, `reduce_tree`, `get_path_pos` | lists, parents and counters agree; nothing points to a freed router; every receiver stays below the root |
| Group (`group.c`) | hash table, receiver list, the published group `txg` | `init_group`, `join`, `init_txg`, `set_txg` | a published group always serves everyone |
| Command line (`argp.c`) | `args` | `parse_opt` for every option, `_parse_peer`, the checks at the end | the settings satisfy what the rest assumes, in any order of the options |
| Start up, TUN device (`main.c`, `core.c`, `tun.c`) | descriptors, device, route, sockets | `init_fds`, `init_tun`, `bind`, their error paths | the threads start with a working device and sockets, or everything is closed |
| Discovery thread (`discover.c`, `rx.c`) | two timers, the event loop | `start_dx`, `tint_handler`, `rx_dcvr`, `update_topo`, `tout_handler`, `flip_timers` | phases alternate and end; the tree tells the truth about the network, in any order of the answers |
| Grouping (`tree.c`) | free counters, address list, bitmap, merging state (static variables) | `greedy_grouping`, `get_start`, `add2txg`, `set_txg_router`, `back_propagate`, `finish_txg` | ends; every receiver in one packet, once; no overrun; a receiver follows a router that is above it |
| Transmission thread (`tx.c`) | the buffer it shares with discovery, the group taken for a datagram | `tx_loop`, `wait_init_input`, `tx`, `tx_uni`, `tx_mdc` | every receiver gets each datagram once, at its port, with its bytes untouched |
| Checksums (`checksum.c`, `get_sa` in `tx.c`) | – | `net_checksum_add`, `_finish`, `_tcpudp` | receivers find them right, also after routers have rewritten addresses |
| Router (kernel patch, `mdcast.c`) | none but the packet: delivery bitmap, destination | `md_rcv`, `md_dcv_rcv`, `dcv_rsp`, `md_data_rcv`, `md_data_fwd`, `m2u` | every section is handled once, by the right router |
| `util.c`, `test.c`, `mk_topo` | – | printing, test set up, test networks | not modelled |

Interaction: `main` parses, builds the group, opens device and sockets and starts
two threads. The discovery thread owns the tree and publishes groups through one
atomic pointer; the transmission thread loads it once per datagram. The two share
the raw socket and, without a lock, the send buffer, and with `--wait` a condition
variable. The network carries requests, answers and data, and may lose, delay,
repeat and reorder them, and change its routing.

What is hard here: answers are applied whenever they arrive, also outside a
phase and from before a routing change; the free counters are used up by grouping
and made good by the reset, over and over; the reduction changes the lists it
walks; the merging state is static and carried between routers; two walks
(`get_path_pos`, `get_start`) end only because of what the tree looks like; a group
is replaced while a datagram is being sent; two threads write to one buffer; a
timer expires while the handler of the other one runs; a signal is sent before
anybody waits for it; a router or a `sendto` fails halfway through a list; one of
a dozen system calls fails at start up. The hazards are listed, each with its
line and the properties that cover it, in `PROJECT.json`.

## 2. Modules

| Module | Models | Notes |
|---|---|---|
| `Nodes` | the routers of the tree (`tree.h`), the root and NULL | what `Topology` and `Grouping` share |
| `Topology` | `tree.c`, `list.c` as operators on a record | lists are sets here, the four counters are exact |
| `Discovery` | group, event loop, answers, end of a phase | extends `Topology`; walks are step by step; `greedy_grouping` is one step, by its result |
| `DiscoveryHistory` | `Discovery` and the answers applied since the last reset | a history variable; changes no step |
| `Grouping` | `greedy_grouping`, one action per branch | lists are sequences; own instance of the tree |
| `ReceiverPacking` | what grouping promises | abstract specification `Grouping` implements |
| `DiscoveryGrouping` | `Discovery` and `Grouping` composed | the steps of the one take the place of one step of the other |
| `DataPlane` | `tx`, `tx_uni`, `tx_mdc`, and `md_data_rcv`, `md_data_fwd`, `m2u` of the routers, with their error paths | groups as `Grouping` leaves them |
| `Sender` | the three threads, the timers, `--wait` | what the threads do with a datagram or an answer is one step |
| `TxBuffer` | the send buffer, byte by byte | written to by both threads |
| `NetChecksum`, `Checksum` | `checksum.c` on bytes; a checksum from sender to receiver | `Checksum` has sums as parameters, so that it can be proved for all |
| `CommandLine`, `Startup` | `argp.c`; `core.c` and `tun.c` up to the threads | |
| `Launch` | `main.c`: `CommandLine`, then `Startup` | |
| `DiscoveryProofs`, `GroupingProofs`, `DiscoveryGroupingProofs`, `DataPlaneProofs`, `SenderProofs`, `TxBufferProofs`, `ChecksumProofs`, `LaunchProofs` | lemmas and theorems | TLAPS |
| `MC...` | instances for TLC | |

**Topology.** A tree is a record: `parent`, `hops`, and by slot (router, kind of
list) the list, its length `n` and its free count `f`. An operator returns the
changed record and stands for the function of its name with everything it calls:
`cut_router` includes `free_router` and both `add_childs`.

**Discovery.** One action per handler, or per step of a walk:
`tint_handler` (`send_dcvr`, `flip_timers`), `rx_dcvr` (the checks and, for a known
router, `r->hops = hops`), `get_path_pos` (one turn of the loop), `update_topo`
(insert or link and adopt), `tout_handler`, `reduce_tree` (one router, children
first), `greedy_grouping` with `set_txg`, `rec_reset_tree` (one router, children
first), `ResetDone`. `net` keeps every answer ever sent and any may arrive at any
time, any number of times, or never. The order among siblings in the two recursions
is left open, so the runs cover the order of the C lists. A router answers for a
receiver with the number of its place on the path, modulo `HopMod` (the field
has six bits). A receiver may itself forward and answer, as a host with
the patch does.

**Grouping.** The variables are those of `greedy_grouping` and the four static
ones (`merge`). `addrs` is the part of the array in use, so the variable `n` of
the code is its length. `get_start` is a search of its own steps, since it may
not end. `get_free` is modelled by index, so a wrong counter finds a wrong router.

**DiscoveryGrouping.** `Discovery` without its one step `greedy_grouping`; instead
`BeginGrouping` hands the reduced tree to `Grouping`, with any order of its lists,
and `EndGrouping` publishes the group and leaves the used-up counters in the tree
for the reset. `TreeWith` is that tree as `Grouping` has it; routers that are not in
the tree, which no step gets to, count as hanging below the root there. The constant
`Trees` of `Grouping` is empty here: the trees are those of `Discovery`.
`ImplementsDiscovery` says that this is `Discovery` again, so what is
checked and proved of `Discovery` holds of the code with the real grouping in it.

**DataPlane.** A packet has its place, destination, header, delivery bitmap and
port. `md_data_rcv` at a MEADcast router replaces a packet by the packets
`md_data_fwd` makes for each undelivered section; it runs without interruption in
the kernel, and copies that leave one after another do not influence each other,
so it is one step. Copies have identities of their own, so duplicates count.
`sendto`, `dst_output` and the route lookup may fail at every packet, up to
`MaxFaults` times: the router then sends the packet on as it came in, or drops the
rest of a list, as the code does. The groups are related to the routing by
`WaysAssumption`: the first MEADcast router a packet meets has the router of every
section on the way to that section, as in a tree that tells the truth about the
routing (`Sound`, `CommonAncestor`). TLC evaluates it on the instance.

**Sender.** `main` creates the transmission thread, then the discovery thread, and
joins them. A timer is armed or not, periodic or not, and has unread expirations
or not; `settime` is `timerfd_settime` (0 disarms, unread expirations are
forgotten). There is no clock: an armed timer may expire at any step, also between
`epoll_wait` and the handler it calls, and while the other handler runs.
`HandlerNeverBlocks` is about exactly that: the handler's `read` would block. With
`--wait`, `pthread_cond_wait` blocks whatever was read before, and
`pthread_cond_signal` wakes only a thread that waits already.

**TxBuffer.** Each byte of `txbuf` holds a tag: who wrote it, and for which packet,
receiver or header. `set_dcvr_hdr`, `memcpy`, `read`, the address, port and checksum
of `tx_uni`, and the header copy of `tx_mdc` are writes of their own, and the
steps between writing and `sendto` of the two threads interleave. Sizes are those
of the C structures.

**Checksum.** `NetChecksum` has the loop of `net_checksum_add` over bytes and a
reference, the sum of 16 bit words. In `Checksum` what a buffer adds up to is a
constant; the actions are the sender's two ways to compute a checksum and the
router's correction for a new destination, as often as there are routers.

**CommandLine, Startup, Launch.** A word of the command line is what the code sees
of it: whether `inet_pton` takes it, what `atoi` makes of it (with the truncation to
`uint16_t`), and its length. `_parse_peer` leaves the last pointer of the list
unset, as the code does. Where the words of `-t` and `-i` lie in memory matters:
`tun_alloc` copies IFNAMSIZ bytes back over the name of the device. In `Startup`
each function with its system calls is one step that may fail; descriptors are
numbers, the lowest free one comes next, and the standard ones may be closed.

## 3. Runs

| Run | Instance | Shows |
|---|---|---|
| `discovery_reroute` | 2 receivers, 3 routers, 2 routings that keep every router's distance; 75,964 states | structure, memory safety, free counters good before every grouping, no receiver lost or unserved |
| `discovery_tree` | 3 receivers, 4 routers, one routing with a receiver on a path and a wrapping hop count; 152,767 states | the tree never contradicts the routing, a receiver hangs below the most distant router that answered in this phase, reduction is complete |
| `grouping_trees` | all ordered trees of 4 routers, distances growing by 1 or 2, or by nothing between some routers, up to 5 receivers, plus a tree with 33 at one router; 7 settings; 1,398,916 states | bounds, exact free counters, sections below the right router and at most twice the merge range away, `split`, and the refinement of `ReceiverPacking` with termination |
| `phase` | 2 receivers, 3 routers, a receiver that moves between two routers of one distance, 2 settings; 165,572 states | the real grouping in the discovery loop: it gets a tree it can end on, implements the step of `Discovery`, lists receivers under a common ancestor, and every phase ends |
| `delivery` | 4 receivers, 3 MEADcast routers and a plain one, 4 groups, 2 routings, 2 settings of `min_dsts`, one error at any step; 132,624 states | each receiver gets the datagram at most once whatever changes on the way (once more per router error), and exactly once, as plain unicast, if the routing holds and nothing fails; a failing `sendto` costs the rest of its list and nothing else |
| `sender_threads` | every mix of usual, zero and negative times, with and without `--wait`, 2 reads; 7,051 states | no handler ever blocks, requests and groupings alternate, discovery is periodic, traffic is sent whatever the discovery thread does |
| `tx_buffer` | MTU 1280, 10 addresses, 3 packets, 2 groups, 2 receivers; 3,990 states | what the threads send from the shared buffer is whole, nothing leaves the buffer |
| `checksum` | 4 addresses, data of up to 3 bytes, 3 rewrites; 5,377 states | receivers find the checksum right by the code's sums and by a sum of words |
| `launch` | up to 3 options of 15, 5 words at the limits of the checks, up to 3 positional arguments, every failure of start up; 2,631,665 states | the settings are what the other modules assume, the threads start ready or everything is closed |
| `discovery_swap` (violation) | 2 routers that swap places | receivers drop out of the group |
| `sender_wait` (violation) | `--wait` with the default times | traffic that comes early never starts discovery |
| `tx_buffer_full_size` (violation) | MTU 1500, a packet as long as the MTU of the TUN device | the last four bytes are cut off |

**Bounds.** Two receivers and three routers suffice for every branch of
`update_topo`: a new, a detached and an attached router, at the leaf and above it.
The state space is finite without a bound on rounds, so the runs cover any number
of them. `HopMod` is 64, or 5 where the wrap is wanted. For grouping, four routers
give every move of the walk (down, up, up twice, to a sibling), with settings
where a header is exactly full, too small for any router, finished early, split or
merged; 33 leafs with `max` 40 reach the limit of the bitmap. In `phase`, trees
with routers of one distance below each other occur, and grouping with and without
merging. `Datagrams` is 1: no state but the port, which `read` overwrites, is
carried from one datagram to the next. `MaxFaults` is 1. `MaxReads` is 2: the
first packet may end the wait, the second meets the loop; the timers turn any
number of times. The smallest MTU makes `tx_buffer` check packets longer than the
buffer, with one header as long as allowed. `MaxRewrites` is 3, so that an error
of one carry can add up. `MaxOptions` is 3: two that contradict each other and one
between them.

**Fairness.** In `Discovery` and `DiscoveryGrouping` the thread goes on with the
handler it is in (`Work`, weak), and the timers are served although answers keep
arriving (strong on the two handlers): `epoll_wait` reports all ready descriptors,
the event array has ten places for three descriptors, and every reported one is
handled. `Sender` shows this loop in detail with weak fairness only: each thread
that can take a step does, and an armed timer expires. Nothing is assumed of
packets and answers to come. In `Grouping` the function runs on. In `DataPlane`
the thread goes on, and the network moves the packets it has: `EveryReceiverGets`
says that the code drops nothing, not that a network never does. Deadlock is
checked in all runs; a program that has exited, a finished grouping and an idle
network stutter explicitly.

**Findings.**

1. `discovery_swap`: an answer with a new distance can make a router adopt its own
   ancestor; the cycle hangs in the air, and its receivers get nothing until a
   later answer breaks it.
2. `sender_wait`: `start_dx` calls `pthread_cond_wait` without looking whether
   traffic has come, and the signal is sent once. Traffic before the thread waits
   is forgotten, and discovery never starts; all data stays unicast. A failing
   `read` in `wait_init_input` has the same end.
3. `tx_buffer_full_size`: the MTU of the TUN device leaves room for the header, but
   the read area also holds `struct tun_pi`. A packet of full size loses its last
   four bytes.

Limits of the properties, each met while stating it:

- The tree depends on the order of the answers: routers behind each other may end
  up side by side. `Sound` and `AttachedToDeepest` hold regardless.
- `set_txg_router` does not compare the router it chooses with all leafs it merges:
  they may be up to twice the merge range away (`SectionCovers`).
- A receiver that moves between routers of one distance can put these below each
  other. Merging may then list it under a router that is not above it;
  `CommonAncestor` is stated for trees whose distances grow.
- A router that fails halfway sends on the packet as it came: sections that were
  delivered are named again, and a receiver may get one copy more.
- All receivers of a datagram see one port; it is the receivers' port only if
  there is a unicast receiver, since only `tx_uni` writes it.
- A failing `sendto` drops the rest of the list, not only one receiver.
- A first delay of 0 disarms the first timer: discovery never starts.
- `tx_mdc` corrects a checksum also in payloads that are not UDP. The sender may
  write 0 for a checksum that comes out as 0; routers do not (`RouterKeepsChecksum`).
- The checksum of MEADcast packets is for the address `get_sa` finds; `--address`
  may bind another. `Verifies` assumes they are the same (section 4).
- The last word of the command line is the port even if it is an address that
  begins with a number; ports are truncated to 16 bits before they are checked.
- Behind the second receiver and all later ones the list has a pointer that is never
  set; the next `_parse_peer`, or the loop of `main`, follows it.
- `-t tun9 -i eth0`: `strncpy` to the first name erases the second, and the sockets
  are bound to no device. `ThreadsReady` says when the interface is used.
- `init_fds` takes descriptor 0 for an error and returns it as success. That the
  TUN device never gets 0 is due to the socket that `get_mtu` does not close.

## 4. Proofs

All theorems hold for every value of the constants within the named assumptions, and
each invariant named here was a result of a run before it was proved.

**Discovery** (`DiscoveryProofs`): any finite sets of receivers and routers, any
routings and parameters (`RouterAssumption`, `LeafAssumption`, `MembersAssumption`,
`RoutesAssumption`, `ParameterAssumption`).

| Theorem | Property | Needs |
|---|---|---|
| `TypeCorrect`, `TreeConsistent`, `MemorySafe`, `WalkSafe` | `TypeOK`, `ListsMatchParents`, `NoDangling`, `ClimbStaysInTree` | – |
| `GroupingFindsAllFree` | `FreeBeforeGrouping` | – |
| `TreeReduced` | `Reduced` | – |
| `ReceiversKept`, `ReceiversServed` | `NoReceiverLost`, `EveryReceiverServed` | `HopStable` |
| `ReceiversAtDeepest` | `AttachedToDeepest` | `HopStable` |
| `PlacedOnPath` | `Sound` | `TreeLike` |

`HopStable` says that every router reports one distance in all routings;
`discovery_swap` shows that it is needed. `TreeLike` says that the network keeps one
routing whose paths form a tree; with per-receiver paths that cross, a
router would have two parents on the paths and the tree only one.
`discovery_tree` has a routing with both.

The invariant behind the first four is `Structure`: types, `Linked` (lists are
the inverse of parent pointers), `Counted` (`n` is the length of the list),
`Table` (what is linked is in the hash table, every receiver has a parent, a
router outside the tree has empty lists), the root's hops are 0, and the node of
`get_path_pos` is a receiver or a router with a parent. None of its parts is
inductive alone: `adopt` keeps the lists apart only because the node is in exactly
the list its parent pointer names, `cut_router` keeps the count only because its
lists are disjoint from the parent's, and the walk stops at the root only because
its hops are 0 and no accepted answer has 0. The first part of the module
has one lemma for each operator of `Topology`: what it does to `Linked`, `Counted` and
the types.

`GroupingFindsAllFree` adds `Free`: outside the reset every free counter is the length
of its list, and during the reset it is that, or 0 at a router that is still in the
tree, where the recursion comes by. `TreeReduced` adds `Reducing`: a router the
recursion has left has only such routers below it and is, if still in the tree, not too
small; a cut changes the counters of the parent only, which comes later.

`ReceiversKept` adds `Ordered(hop)`: every answer, and every router in the tree,
carries the distance `hop` of its router, a parent is not further away than its
child, and `Acyclic`: every set of nodes without the root has a member whose
parent is outside. Acyclicity is stated over sets; adopting keeps it because the new
parent is a fresh node, or by its distance cannot be below the node that moves. That
every receiver is reachable follows by choosing the set of the nodes that are not.
`ReceiversAtDeepest` adds `Deepest(hop)`: the parent of a receiver is the most distant
router that has answered for it, the root if none has; and `get_path_pos` has left the
receiver only if its parent is further away than the router that answered now.
`PlacedOnPath` adds `Placed(rt)`: every answer is a true one, a walk keeps to the path
of its receiver, and for every path a node is on, its parent router is on it too.

**Grouping** (`GroupingProofs`): any finite set of routers (`RouterAssumption`), any
settings the command line lets through (`ArgsAssumption`), any number of receivers, and
any tree whose lists match its parent pointers, where going up ends at the root, every
branch ends at a receiver and no router is closer than its parent (`TreesAssumption`).
The steps of the walk are proved from any tree of that kind, not from those of `Trees`
only, so that the next part can use them for the trees discovery builds.

| Theorem | Property | Needs |
|---|---|---|
| `HeadersInBounds` | `InBounds` | – |
| `CountersTellTruth` | `FreeExact` | – |
| `SectionsCover` | `SectionCovers` | – |
| `KeepsTogether` | `KeptTogether` | – |
| `StepsOfPacking` | the safety of `ImplementsPacking` | – |

`Bounded` is types and `Room`: while the walk is below the root the header has two
places left, and `p` is 1 exactly if the next receivers open a section.
`CountersTellTruth` is about the search only, and not inductive: while a header is
filled, the counters of the routers above the one at hand are not yet lowered.
`ExactNow` says that then the router at hand and all above it count as having something
free, and are the first free children of their parents, so that `back_propagate` lowers
the counter of the right place. That the loop of `rec_back_propagate` gets far enough in
as many turns as there are routers, and that the recursive function `Above` is the set
of the routers on the way up, is proved without induction, with closed sets of routers
(`Way`).

`SectionsNow` says that every router in an open section, its own and the parent that may
take it over are within the range of the router that opened it, and, if distances grow
from parent to child (`Growing`), that the walk is still at or below one of the two
(`Reaches`). `Growing` is a condition of `SectionCovers` itself: in a tree with two
routers of one distance below each other, as a change of the routing may leave it,
`set_txg_router` keeps the lower one for receivers that are not below it.

`Ledger` accounts for the receivers: what a router has given away is in a header
(`Kept`), in one only and once (`Once`), and no header is without a receiver
(`Useful`); `Whole` says that without `split` a router that fits a header gives all its
receivers to one header or keeps them. `StepsOfPacking` is that with this invariant
`finish_txg` is the step `Pack` of `ReceiverPacking`, the end of the search is `Rest`, as
no router is left with a free receiver then, and all other steps stutter.

**Discovery with grouping** (`DiscoveryGroupingProofs`): all of the assumptions of the
two parts above, except that nothing is assumed of `Trees`.

| Theorem | Property | Needs |
|---|---|---|
| `GroupsATree` | `GroupingInput` | `HopStable` |
| `WalkRefinesDiscovery` | `ImplementsDiscovery` | `HopStable` |
| `MergedUnderAncestor` | `CommonAncestor` | `HopStable` |
| `WalksServeAll` | `EveryReceiverServed` | `HopStable` |

The invariant `Both(hop)` is that of `Discovery` (`Structure`, `Free`, `Reducing`,
`Reduced`, `Ordered(hop)`) and `Link`: no walk is under way, or `pc` is `"group"`, `T` is
the tree of `Discovery` with its lists in some order (`Built`), and the invariant of the
walk, `Walk`, holds, with `Ended` (what the counters and the unicast list are when it is
done). A step of the walk changes nothing `Discovery` sees, so the first part is kept;
of the steps of `Discovery`, only a change of the routing is taken meanwhile, so `Built`
is kept.

- `TreeToGroup`: the tree at the start of a walk is a `GroupTree`. That lists match
  parents is `Structure`; that every branch ends at a receiver is `Reduced`, as a router
  without any would have been cut; that going up ends at the root is the acyclicity in
  `Ordered`, which is why `HopStable` is needed: with a cycle there is no such tree.
- `BeginLink`: the counters the walk starts with are the lengths of the lists, which is
  `Free`.
- `EndGroups`: what `EndGrouping` publishes is what the step `greedy_grouping` of
  `Discovery` says. A receiver is in a header if its router had given it away, by
  `Ledger`; at the end all counters are 0, so every receiver below a router has been
  given away, and the unicast list has the root's.
- `AboveAncestors`, `SectionOf`: the routers above a section in the walk's tree are the
  ancestors in that of `Discovery`, so `SectionCovers` becomes `CommonAncestor`.

`WalksServeAll` is the promise of the whole discovery thread: with the real grouping,
the lists in any order, and answers lost, late, repeated and out of order, every group
that is published serves every receiver once.

**The way of the data** (`DataPlaneProofs`): any receivers, routers, groups that
`Grouping` may leave (`GroupsAssumption`), routings, settings and numbers of datagrams
and errors (`NetworkAssumption`, `BoundsAssumption`).

| Theorem | Property | Needs |
|---|---|---|
| `PacketsWellFormed` | `TypeOK` | – |
| `DeliveredAtMostOnce` | `AtMostOnce` | – |
| `MapTellsTruth` | `DeliveryMapTruthful` | – |
| `UnicastSeen` | `ReceiversSeeUnicast` | `WaysAssumption` |
| `TailIsTheCost` | `ErrorCostsTail` | `WaysAssumption` |

A packet has a `Duty`, the receivers it has to reach. `LeavingPackets` shows that what
`md_data_rcv` makes of a packet shares its duty out: nothing twice, nothing left out;
`ErrorHandles` that an error adds at most one packet. The invariant `Inv` says
for every datagram and receiver how many packets there are for it (`AllCounted`: none
as long as the sender still has to send it, then one, and one more per router error),
which port they have (`Ported`), where those with a header are (`Straight`: whole before
the first MEADcast router, after it with the router of their only section ahead) and
who has lost a packet (`Accounted`). `AtMostOnce` alone is not inductive, since it
speaks of packets that have arrived only; the count has to include the packets on
their way and what the sender has not sent yet, of the group it took for this
datagram. The proofs show that it is enough to take the group once.

**The threads** (`SenderProofs`): `TypeCorrect`, `HandlersNeverBlock` and
`PhasesTakeTurns` for any times and numbers of packets. The invariant `Inv` adds to the
types: before the event loop no timer is pending and none reported (`Fresh`), `main`
creates the discovery thread once (`Once`), only the timer whose turn it is can be
pending, and the interval timer never again after a phase if its time is 0 (`Turns`), a
reported timer keeps its expiration until its handler reads it (`Reported`), and with
`--wait` the loop is behind the first traffic (`Waited`).

**The buffer** (`TxBufferProofs`): `RequestsIntact`, `UnicastsIntact`, `MeadcastsIntact`
and `Bounded` for every MTU, every `--max` that fits it (`SizeAssumption`: the command
line has no upper limit), all packets, groups and numbers of receivers
(`PacketAssumption`, `GroupAssumption`). The invariant `Inv` says, besides types,
what each thread has written so far: `Request` (the bytes of the request at the
start of the buffer), `Received` (the packet, as far as `tx_uni` and `tx_mdc` have
not overwritten it) and `Written` (what these put in its place). It is inductive
since a request ends at byte 32 and the largest header starts at byte 44 or later
(lemmas `Layout`, `HeaderRoom`).

**Checksums** (`ChecksumProofs`): `ChecksumsVerify` and `RoutersKeepChecksums` for all
addresses and data and any number of rewrites. The invariant `Inv` is that the sum of
everything the receiver adds up is a positive multiple of 65535, the zero of one's
complement arithmetic (`Zero`); folding and the router's correction change a sum by such
multiples only. It is proved for packets with the source address the checksum was
computed for.

**Start up** (`LaunchProofs`): `SettingsAreSound` for any words and any number of
options, `ThreadsStartReady` and `FailuresClose` for any descriptors open at the start.
`StartInv` keeps, at every step of start up, what each open descriptor is for
(`Descriptors`; 0 is taken by standard input or by the socket `get_mtu` leaves open
before the TUN device is opened), what later steps rely on (`Device`) and their order
(`Order`). `ArgsInv` keeps the types, the bounds of the options while they are parsed, and
how far the receiver list has been filled.

Model-checked only: liveness (`PhaseEnds`, `PeriodicDiscovery`, `TrafficSent`,
the termination in `ImplementsPacking`, `EveryReceiverGets`), which TLAPS cannot prove;
what `net_checksum_add` computes for every buffer, which needs induction over its length
(`VerifiesByWords`).

## 5. Not modelled

- `util.c` and everything printed; `test.c`, which `main` does not call; the
  scripts of `mk_topo`.
- In the kernel: `sysctl` registration, memory of packets (`skb` copies and their
  release), the fields of an answer other than router, receiver and distance.
  `hopcount` of data packets is left out, as nothing reads it.
- Failures of `malloc`, of `epoll` and of timer calls other than refused times.
- Spurious wakeups of `pthread_cond_wait`: they would only start discovery early.
- Replaced groups are never freed in the code, so no property is about it.
- Values of `--max` for which the header leaves no room in the MTU: an unsigned
  difference wraps, and what follows is undefined.
- A data packet without an undelivered router, which no sender makes, and a
  receiver with the kernel patch, which would not hand a MEADcast packet to its
  application; by `ReceiversSeeUnicast` it gets none while the routing holds.

## 6. Plan

Done: `Topology`, `Discovery`, `Grouping`, `DataPlane`; `Sender`, `TxBuffer`,
`Checksum`, `CommandLine`, `Startup` and their composition `Launch`; the composition
`DiscoveryGrouping`; the proofs of section 4. All safety and refinement properties of the passing runs but
`VerifiesByWords` are theorems. What is left to TLC is the liveness properties and that
one, for the reasons given at the end of section 4.
