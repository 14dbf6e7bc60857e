---------------------------- MODULE BlockLocator ----------------------------
(***************************************************************************)
(* BlockLocator, the thread that knows which storage manager has which     *)
(* block in memory, and the part of the storage managers of the            *)
(* distributed version that talks to it: blocks are announced when they    *)
(* are created or loaded and before they are evicted, and a block of       *)
(* another domain is pulled from a peer the locator names, or read from    *)
(* disk when no peer has it.                                               *)
(*                                                                         *)
(* The shard lock a thread holds while it loads or evicts a block (see     *)
(* StorageManager) is the guard that no other thread of the host loads or  *)
(* evicts it; a thread that creates a block has no such lock.  A           *)
(* receiver's messages are delivered in the order sent.                    *)
(***************************************************************************)
EXTENDS Integers, Sequences, FiniteSets

CONSTANTS
    Hosts,        \* each registers one block domain and has a storage manager
    NumThreads,   \* threads of each host
    MaxBlocks,    \* bound: blocks created in each domain
    MaxLoads,     \* bound: blocks loaded, over all hosts
    MaxInbox      \* bound: messages the locator has not received

Domains == 1 .. Cardinality(Hosts)

BlockLocatorAssumption ==
    /\ IsFiniteSet(Hosts) /\ Hosts \subseteq Nat \ {0}
    /\ NumThreads \in [Hosts -> Nat] /\ MaxBlocks \in [Domains -> Nat]
    /\ MaxLoads \in Nat /\ MaxInbox \in Nat

Blocks  == UNION {{d} \X (1 .. MaxBlocks[d]) : d \in Domains}   \* the domain is part of a block id
Threads == UNION {{h} \X (1 .. NumThreads[h]) : h \in Hosts}
None    == <<0, 0>>
NoHost  == 0                             \* the address of no domain

VARIABLES
    block_domain,              \* the last domain given out
    domain_network_addresses,  \* domain -> host
    block_locations,           \* block -> domains
    domain_blocks,             \* domain -> blocks
    inbox,                     \* messages to the locator
    answers,                   \* messages of the locator to each host
    domain,                    \* block_domain_ of each host, 0 before it has one
    up,                        \* hosts that have a storage manager
    loaded,                    \* blocks_ of each host
    disk,                      \* blocks whose file has been written
    known,                     \* blocks whose creation has been completed
    pc, block, peers,          \* of each thread
    loads,
    late,       \* history: blocks evicted by their host before it announced them
    dropped,    \* history: blocks nobody had saved when their host shut down
    crossed     \* history: threads whose answer was about another block

locator == <<block_domain, domain_network_addresses, block_locations, domain_blocks>>
hosts   == <<domain, up>>
history == <<late, dropped, crossed>>
vars    == <<locator, inbox, answers, hosts, loaded, disk, known, pc, block, peers, loads, history>>

Message == [type : {"register"}, host : Hosts]
    \cup [type : {"add", "delete"}, block : Blocks, domain : Domains]
    \cup [type : {"getPeers"}, host : Hosts, block : Blocks]
    \cup [type : {"unregister"}, domain : Domains]

Init ==
    /\ block_domain = 0
    /\ domain_network_addresses = [d \in Domains |-> NoHost]
    /\ block_locations = [b \in Blocks |-> {}]
    /\ domain_blocks = [d \in Domains |-> {}]
    /\ inbox = <<>>
    /\ answers = [h \in Hosts |-> <<>>]
    /\ domain = [h \in Hosts |-> 0]
    /\ up = {}
    /\ loaded = [h \in Hosts |-> {}]
    /\ disk = {} /\ known = {}
    /\ pc = [t \in Threads |-> "idle"]
    /\ block = [t \in Threads |-> None]
    /\ peers = [t \in Threads |-> {}]
    /\ loads = 0
    /\ late = {} /\ dropped = {} /\ crossed = {}

-----------------------------------------------------------------------------
(* The locator *)

\* The first message, of the given type, is received.
Receives(type) ==
    /\ inbox # <<>> /\ Head(inbox).type = type
    /\ inbox' = Tail(inbox)
    /\ UNCHANGED <<hosts, loaded, disk, known, pc, block, peers, loads, history>>

processBlockDomainRegistration ==
    /\ Receives("register")
    /\ block_domain' = block_domain + 1
    /\ domain_network_addresses' =
         [domain_network_addresses EXCEPT ![block_domain'] = Head(inbox).host]
    /\ domain_blocks' = [domain_blocks EXCEPT ![block_domain'] = {}]
    /\ answers' = [answers EXCEPT ![Head(inbox).host] = Append(@, block_domain')]
    /\ UNCHANGED block_locations

addBlockLocation ==
    /\ Receives("add")
    /\ LET m == Head(inbox)
       IN  /\ block_locations' = [block_locations EXCEPT ![m.block] = @ \cup {m.domain}]
           /\ domain_blocks' = [domain_blocks EXCEPT ![m.domain] = @ \cup {m.block}]
    /\ UNCHANGED <<block_domain, domain_network_addresses, answers>>

deleteBlockLocation ==
    /\ Receives("delete")
    /\ LET m == Head(inbox)
       IN  /\ block_locations' = [block_locations EXCEPT ![m.block] = @ \ {m.domain}]
           /\ domain_blocks' = [domain_blocks EXCEPT ![m.domain] = @ \ {m.block}]
    /\ UNCHANGED <<block_domain, domain_network_addresses, answers>>

Addresses(b) == {domain_network_addresses[d] : d \in block_locations[b]}

\* The answer does not say which block it is about: its first part is there for
\* the properties only.
processGetPeerDomainNetworkAddresses ==
    /\ Receives("getPeers")
    /\ LET m == Head(inbox)
       IN  answers' = [answers EXCEPT ![m.host] = Append(@, <<m.block, Addresses(m.block)>>)]
    /\ UNCHANGED locator

unregisterBlockDomain ==
    /\ Receives("unregister")
    /\ LET d == Head(inbox).domain
       IN  /\ block_locations' = [b \in Blocks |-> IF b \in domain_blocks[d]
                                                   THEN block_locations[b] \ {d}
                                                   ELSE block_locations[b]]
           /\ domain_network_addresses' = [domain_network_addresses EXCEPT ![d] = NoHost]
           /\ domain_blocks' = [domain_blocks EXCEPT ![d] = {}]
    /\ UNCHANGED <<block_domain, answers>>

-----------------------------------------------------------------------------
(* The hosts *)

Send(m) == Len(inbox) < MaxInbox /\ inbox' = Append(inbox, m)
Host(t) == t[1]

\* A worker asks for a domain, once.
sendRegistration(h) ==
    /\ domain[h] = 0 /\ h \notin up
    /\ \A i \in DOMAIN inbox : inbox[i] # [type |-> "register", host |-> h]
    /\ answers[h] = <<>>
    /\ Send([type |-> "register", host |-> h])
    /\ UNCHANGED <<locator, answers, hosts, loaded, disk, known, pc, block, peers, loads, history>>

\* With the domain in the answer the storage manager is constructed.
constructStorageManager(h) ==
    /\ domain[h] = 0 /\ answers[h] # <<>>
    /\ domain' = [domain EXCEPT ![h] = Head(answers[h])]
    /\ answers' = [answers EXCEPT ![h] = Tail(@)]
    /\ up' = up \cup {h}
    /\ UNCHANGED <<locator, inbox, loaded, disk, known, pc, block, peers, loads, history>>

\* The blocks a host has created and nobody has saved; they are dirty.
Unsaved(h) == {b \in loaded[h] : b[1] = domain[h]} \ disk

\* The destructor, when no thread uses the storage manager any more.  It warns
\* of the blocks that are dirty, and drops them.
destroyStorageManager(h) ==
    /\ h \in up
    /\ \A t \in Threads : Host(t) = h => pc[t] = "idle"
    /\ up' = up \ {h}
    /\ loaded' = [loaded EXCEPT ![h] = {}]
    /\ dropped' = dropped \cup Unsaved(h)
    /\ Send([type |-> "unregister", domain |-> domain[h]])
    /\ UNCHANGED <<locator, answers, domain, disk, known, pc, block, peers, loads, late, crossed>>

Go(t, from, to) == pc[t] = from /\ pc' = [pc EXCEPT ![t] = to]

\* Nobody at the host has the lock of the block's shard.
Free(t, b) == \A u \in Threads : Host(u) = Host(t) /\ block[u] = b => pc[u] = "announce"

sendBlockLocation(type, t) ==
    Send([type |-> type, block |-> block[t], domain |-> domain[Host(t)]])

\* The ids that have been given out.
Used(t) ==
    {n \in 1 .. MaxBlocks[domain[Host(t)]] :
        <<domain[Host(t)], n>> \in known \cup loaded[Host(t)] \cup {block[u] : u \in Threads}}

\* createBlock(), createBlob(): the block is in memory and may be evicted, then
\* it is announced.
createBlock(t) ==
    /\ Go(t, "idle", "announce")
    /\ Host(t) \in up
    /\ \E n \in (1 .. MaxBlocks[domain[Host(t)]]) \ Used(t) :
         /\ 1 .. n - 1 \subseteq Used(t)
         /\ block' = [block EXCEPT ![t] = <<domain[Host(t)], n>>]
    /\ loaded' = [loaded EXCEPT ![Host(t)] = @ \cup {block'[t]}]
    /\ UNCHANGED <<locator, inbox, answers, hosts, disk, known, peers, loads, history>>

announce(t) ==
    /\ Go(t, "announce", "idle")
    /\ sendBlockLocation("add", t)
    /\ known' = known \cup {block[t]}
    /\ block' = [block EXCEPT ![t] = None]
    /\ UNCHANGED <<locator, answers, hosts, loaded, disk, peers, loads, history>>

\* loadBlockOrBlob(): a block of this domain is read from disk.
loadBlock(t, b) ==
    /\ loads < MaxLoads
    /\ Host(t) \in up /\ b \in known \ loaded[Host(t)] /\ Free(t, b)
    /\ block' = [block EXCEPT ![t] = b]
    /\ loads' = loads + 1
    /\ crossed' = crossed \ {t}
    /\ IF b[1] = domain[Host(t)]
       THEN Go(t, "idle", "disk") /\ UNCHANGED inbox
       ELSE /\ Go(t, "idle", "wait")
            /\ Send([type |-> "getPeers", host |-> Host(t), block |-> b])
    /\ UNCHANGED <<locator, answers, hosts, loaded, disk, known, peers, late, dropped>>

\* The answer is received with the client id of the host, which its threads
\* share: any thread that waits may get it.
receivePeers(t) ==
    /\ Go(t, "wait", "pull")
    /\ answers[Host(t)] # <<>>
    /\ peers' = [peers EXCEPT ![t] = Head(answers[Host(t)])[2]]
    /\ crossed' = IF Head(answers[Host(t)])[1] = block[t] THEN crossed ELSE crossed \cup {t}
    /\ answers' = [answers EXCEPT ![Host(t)] = Tail(@)]
    /\ UNCHANGED <<locator, inbox, hosts, loaded, disk, known, block, loads, late, dropped>>

\* One peer is asked for the block; it sends it if it has it.
pull(t) ==
    /\ pc[t] = "pull"
    /\ \/ /\ peers[t] = {}
          /\ Go(t, "pull", "disk")
          /\ UNCHANGED <<inbox, peers>>
       \/ \E h \in peers[t] :
            IF h # NoHost /\ block[t] \in loaded[h]
            THEN /\ Go(t, "pull", "insert")
                 /\ sendBlockLocation("add", t)
                 /\ peers' = [peers EXCEPT ![t] = {}]
            ELSE /\ peers' = [peers EXCEPT ![t] = @ \ {h}]
                 /\ UNCHANGED <<pc, inbox>>
    /\ UNCHANGED <<locator, answers, hosts, loaded, disk, known, block, loads, history>>

\* readBlockOrBlob(), which must succeed.
readBlock(t) ==
    /\ Go(t, "disk", IF block[t] \in disk THEN "insert" ELSE "failed")
    /\ IF block[t] \in disk THEN sendBlockLocation("add", t) ELSE UNCHANGED inbox
    /\ UNCHANGED <<locator, answers, hosts, loaded, disk, known, block, peers, loads, history>>

insertBlockHandleAfterLoad(t) ==
    /\ Go(t, "insert", "idle")
    /\ loaded' = [loaded EXCEPT ![Host(t)] = @ \cup {block[t]}]
    /\ block' = [block EXCEPT ![t] = None]
    /\ UNCHANGED <<locator, inbox, answers, hosts, disk, known, peers, loads, history>>

\* saveBlockOrBlob(), called for a block somebody wants on disk.
saveBlockOrBlob(t, b) ==
    /\ pc[t] = "idle"
    /\ b \in known \cap loaded[Host(t)]
    /\ disk' = disk \cup {b}
    /\ UNCHANGED <<locator, inbox, answers, hosts, loaded, known, pc, block, peers, loads, history>>

\* Mutant: a dirty block is evicted without being saved.
EvictUnsaved(t, b) ==
    /\ Go(t, "idle", "delete")
    /\ b \in loaded[Host(t)] /\ Free(t, b)
    /\ block' = [block EXCEPT ![t] = b]
    /\ UNCHANGED <<locator, inbox, answers, hosts, loaded, disk, known, peers, loads, history>>

\* makeRoomForBlockOrBlob() saves a victim that is dirty before it evicts it: a
\* block it has created is until it is saved, another one if it was modified.
\* The creation of the block need not have been completed.
saveVictim(t, b) ==
    /\ Go(t, "idle", "delete")
    /\ b \in loaded[Host(t)] /\ Free(t, b)
    /\ block' = [block EXCEPT ![t] = b]
    /\ disk' \in IF b \in Unsaved(Host(t)) THEN {disk \cup {b}} ELSE {disk, disk \cup {b}}
    /\ UNCHANGED <<locator, inbox, answers, hosts, loaded, known, peers, loads, history>>

\* evictBlockOrBlob(): the locator is told, then the block leaves the memory.
evictBlock(t) ==
    /\ Go(t, "delete", "erase")
    /\ sendBlockLocation("delete", t)
    /\ late' = IF \E u \in Threads : pc[u] = "announce" /\ block[u] = block[t] THEN late \cup {block[t]}
               ELSE IF block[t][1] = domain[Host(t)] THEN late \ {block[t]} ELSE late
    /\ UNCHANGED <<locator, answers, hosts, loaded, disk, known, block, peers, loads, dropped, crossed>>

eraseBlock(t) ==
    /\ Go(t, "erase", "idle")
    /\ loaded' = [loaded EXCEPT ![Host(t)] = @ \ {block[t]}]
    /\ block' = [block EXCEPT ![t] = None]
    /\ UNCHANGED <<locator, inbox, answers, hosts, disk, known, peers, loads, history>>

-----------------------------------------------------------------------------
LocatorStep ==
    \/ processBlockDomainRegistration
    \/ addBlockLocation
    \/ deleteBlockLocation
    \/ processGetPeerDomainNetworkAddresses
    \/ unregisterBlockDomain

ThreadStep(t) ==
    \/ announce(t) \/ receivePeers(t) \/ pull(t) \/ readBlock(t)
    \/ insertBlockHandleAfterLoad(t) \/ evictBlock(t) \/ eraseBlock(t)

\* The model ends with a read that fails, as the process of that host does.
Next ==
    /\ \A t \in Threads : pc[t] # "failed"
    /\ \/ LocatorStep
       \/ \E h \in Hosts : \/ sendRegistration(h)
                           \/ constructStorageManager(h)
                           \/ destroyStorageManager(h)
       \/ \E t \in Threads : \/ createBlock(t)
                             \/ ThreadStep(t)
                             \/ \E b \in Blocks : \/ loadBlock(t, b)
                                                 \/ saveBlockOrBlob(t, b)
                                                 \/ saveVictim(t, b)

Spec == Init /\ [][Next]_vars

-----------------------------------------------------------------------------
(* Properties *)

\* The types of the variables.
TypeOK ==
    /\ block_domain \in 0 .. Cardinality(Hosts)
    /\ domain_network_addresses \in [Domains -> Hosts \cup {NoHost}]
    /\ block_locations \in [Blocks -> SUBSET Domains]
    /\ domain_blocks \in [Domains -> SUBSET Blocks]
    /\ inbox \in Seq(Message)
    /\ domain \in [Hosts -> 0 .. Cardinality(Hosts)] /\ up \subseteq Hosts
    /\ loaded \in [Hosts -> SUBSET Blocks] /\ disk \subseteq Blocks /\ known \subseteq Blocks
    /\ pc \in [Threads -> {"idle", "announce", "wait", "pull", "disk", "insert", "failed",
                           "delete", "erase"}]
    /\ block \in [Threads -> Blocks \cup {None}]
    /\ peers \in [Threads -> SUBSET (Hosts \cup {NoHost})]
    /\ late \subseteq Blocks /\ dropped \subseteq Blocks /\ crossed \subseteq Threads

\* The locator's two maps mirror each other, as the DCHECK_EQ on the results of
\* the two insertions expects, and every domain that is named as a location has
\* an address: unregistering a domain leaves none of its blocks.
MapsMirror ==
    \A b \in Blocks : \A d \in Domains :
      /\ d \in block_locations[b] <=> b \in domain_blocks[d]
      /\ d \in block_locations[b] => domain_network_addresses[d] # NoHost

\* What the locator knows of every block that nobody is at work on and about
\* which no message is on its way is right, but for the given blocks, which it
\* may list for their own domain.
AgreeBut(stale) ==
    \A h \in Hosts : \A b \in Blocks :
      LET onTheWay == \E i \in DOMAIN inbox :
                        /\ inbox[i].type \in {"add", "delete", "unregister"}
                        /\ inbox[i].domain = domain[h]
                        /\ inbox[i].type # "unregister" => inbox[i].block = b
      IN  domain[h] # 0 /\ ~onTheWay /\ (\A t \in Threads : Host(t) = h => block[t] # b)
            => /\ b \in loaded[h] => domain[h] \in block_locations[b]
               /\ domain[h] \in block_locations[b] => b \in loaded[h] \/ (b[1] = domain[h] /\ b \in stale)

\* Announcements are sent before a block is there and while it still is, from
\* several threads, and yet add up.  The one exception is a block that is
\* evicted before the thread that creates it has announced it.
LocationsAgree == AgreeBut(late)

\* "A class for keeping trace of blocks loaded in a Worker's buffer pool": a
\* location is that of a block that is loaded.
NothingStale == AgreeBut({})

\* A block that exists can be loaded: the peers may have evicted it since the
\* locator answered, but then it has been saved.  The code checks the read:
\* CHECK(status) << "Failed to read block from persistent storage".  It fails
\* only for a block that was dropped unsaved by the destructor of its storage
\* manager, and for a thread that took the answer meant for another one.
LoadSucceeds == \A t \in Threads : pc[t] = "failed" => block[t] \in dropped \/ t \in crossed

\* CHECK(status) << "Failed to read block from persistent storage": every read
\* succeeds.
ReadsSucceed == \A t \in Threads : pc[t] # "failed"
=============================================================================
