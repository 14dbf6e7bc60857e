------------------------- MODULE DistributedProofs -------------------------
(***************************************************************************)
(* Proofs about the block locator, as MCDistributed has it beside the      *)
(* distributed scheduler: for any number of hosts, threads and blocks.     *)
(***************************************************************************)
EXTENDS MCDistributed, Counting


-----------------------------------------------------------------------------
(* The inductive invariant *)

\* Messages that tell the locator where a block is, and those about a block.
Told(m)        == m.type \in {"add", "delete", "unregister"}
About(m, d, b) == Told(m) /\ m.domain = d /\ (m.type # "unregister" => m.block = b)

\* The addresses for a block that was asked for.
Located == Locator!Blocks \X SUBSET (Hosts \cup {Locator!NoHost})
Answer  == Locator!Domains \cup Located

\* The first answer a host gets is its domain, and the others are addresses.
AnswersSound ==
    /\ answers \in [Hosts -> Seq(Answer)]
    /\ \A h \in Hosts :
         IF domain[h] = 0 THEN answers[h] = <<>> \/ \E d \in Locator!Domains : answers[h] = <<d>>
         ELSE answers[h] \in Seq(Located)

\* d is the domain of h, which may not have heard of it yet.
Has(h, d) == domain[h] = d \/ (domain[h] = 0 /\ answers[h] = <<d>>)

\* A domain is given out once, and a host asks for one once.
Assigned == {h \in Hosts : domain[h] # 0 \/ answers[h] # <<>>}
DomainsSound ==
    /\ block_domain = Cardinality(Assigned)
    /\ \A h \in Hosts, d \in Locator!Domains :
         Has(h, d) => d <= block_domain /\ \A k \in Hosts : Has(k, d) => k = h
    /\ \A h \in Hosts, d \in Locator!Domains :
         Has(h, d) /\ (domain[h] = 0 \/ h \in up) => domain_network_addresses[d] = h
    /\ \A h \in up : domain[h] # 0

\* Every message is from a host that may send it, and an unregistration is the
\* last of its host.
MessageSound(m) ==
    /\ m.type = "register" => domain[m.host] = 0 /\ answers[m.host] = <<>>
    /\ Told(m) => /\ \E h \in Hosts : domain[h] = m.domain
                  /\ domain_network_addresses[m.domain] # Locator!NoHost
    /\ m.type = "unregister" => \A h \in up : domain[h] # m.domain
    /\ m.type = "getPeers" => domain[m.host] # 0
InOrder(m, n) ==
    /\ ~(m.type = "register" /\ n.type = "register" /\ m.host = n.host)
    /\ m.type = "unregister" /\ Told(n) => m.domain # n.domain
InboxSound ==
    \A i \in DOMAIN inbox :
        MessageSound(inbox[i]) /\ \A j \in DOMAIN inbox : i < j => InOrder(inbox[i], inbox[j])

\* The locator knows nothing of a domain that no host has.
NothingElse ==
    \A d \in Locator!Domains : (\A h \in Hosts : domain[h] # d) => \A b \in Locator!Blocks : d \notin block_locations[b]

\* A thread creates a block; the others that have one have its shard's lock.
Creates(t, b) == pc[t] = "announce" /\ block[t] = b

ThreadSound(t) ==
    /\ pc[t] = "idle" <=> block[t] = Locator!None
    /\ pc[t] # "idle" => Locator!Host(t) \in up
    /\ pc[t] = "announce" => /\ block[t][1] = domain[Locator!Host(t)] /\ block[t] \notin known
                             /\ block[t] \in late \cup loaded[Locator!Host(t)]
    /\ pc[t] \in {"wait", "pull", "disk", "insert", "failed"} =>
           block[t] \in known \ loaded[Locator!Host(t)]
    /\ pc[t] \in {"delete", "erase"} =>
           /\ block[t] \in loaded[Locator!Host(t)]
           /\ block[t][1] = domain[Locator!Host(t)] => block[t] \in disk

\* One thread of a host creates a block, and one at most has its lock.
ThreadsSound ==
    /\ \A t \in Locator!Threads : ThreadSound(t)
    /\ \A t, u \in Locator!Threads : Locator!Host(t) = Locator!Host(u) /\ block[t] = block[u] /\ block[t] # Locator!None
                               /\ (pc[t] = "announce" <=> pc[u] = "announce") => t = u
    /\ \A t, u \in Locator!Threads : pc[t] = "announce" /\ pc[u] = "erase" /\ Locator!Host(t) = Locator!Host(u) /\ block[t] = block[u]
                                       => block[t] \in late
    /\ \A h \in Hosts \ up : loaded[h] = {}

\* A block is in the memory of the host that created it until it is saved or
\* dropped, and the block that was evicted first was saved.
KnownSound ==
    /\ \A b \in known :
        /\ \E h \in Hosts : domain[h] = b[1]
        /\ \A h \in Hosts : domain[h] = b[1] => b \in disk \cup dropped \cup loaded[h]
    /\ \A h \in Hosts : \A b \in loaded[h] :
        b \in known \/ \E t \in Locator!Threads : Locator!Host(t) = h /\ Creates(t, b)
    /\ late \subseteq disk
    /\ \A b \in late : b \in known \/ \E t \in Locator!Threads : Creates(t, b)

\* What host h has told, or is about to, of block b: a thread tells of it
\* before the block is there, and of its end before it is gone, or not at all
\* if it evicts the block before it is announced.
Present(h, b) ==
    /\ h \in up /\ \A t \in Locator!Threads : Locator!Host(t) = h => ~Creates(t, b)
    /\ \/ b[1] = domain[h] /\ b \in late
       \/ b \in loaded[h] /\ \A t \in Locator!Threads : Locator!Host(t) = h => block[t] # b
       \/ \E t \in Locator!Threads : Locator!Host(t) = h /\ block[t] = b /\ pc[t] \in {"insert", "delete"}

\* The last message on the way says so, or the locator does if there is none.
Says(d, b, now) ==
    \/ \E i \in DOMAIN inbox :
         /\ About(inbox[i], d, b) /\ \A j \in DOMAIN inbox : i < j => ~About(inbox[j], d, b)
         /\ inbox[i].type = "add" <=> now
    \/ /\ \A i \in DOMAIN inbox : ~About(inbox[i], d, b)
       /\ d \in block_locations[b] <=> now
ToldSound == \A h \in Hosts, b \in Locator!Blocks : domain[h] # 0 => Says(domain[h], b, Present(h, b))

IInv ==
    /\ Locator!TypeOK /\ Locator!MapsMirror /\ AnswersSound /\ DomainsSound /\ InboxSound /\ NothingElse
    /\ ThreadsSound /\ KnownSound /\ ToldSound

\* A block is saved, or its creator is among the hosts that are asked for it.
Saved(b) == b \in disk \cup dropped
Safe(b, addresses) == Saved(b) \/ \E h \in Hosts : h \in addresses /\ domain[h] = b[1]

\* A question is about a block that stays where it is until it is saved, and
\* so is the answer, if the thread that gets it has asked for that block.
QuestionSound(i) ==
    LET b == inbox[i].block
    IN  /\ b \in known
        /\ Saved(b) \/ \A j \in DOMAIN inbox : i < j => ~About(inbox[j], b[1], b)
AnswerSound(a) == a[1] \in known /\ Safe(a[1], a[2])
ReadSound(t) ==
    /\ pc[t] = "pull" => t \in crossed \/ Safe(block[t], peers[t])
    /\ pc[t] = "disk" => t \in crossed \/ Saved(block[t])
    /\ pc[t] = "failed" => t \in crossed \/ block[t] \in dropped
PullsSound ==
    /\ \A i \in DOMAIN inbox : inbox[i].type = "getPeers" => QuestionSound(i)
    /\ \A h \in Hosts : domain[h] # 0 => \A i \in DOMAIN answers[h] : AnswerSound(answers[h][i])
    /\ \A t \in Locator!Threads : ReadSound(t)

-----------------------------------------------------------------------------
(* Constants and messages *)

\* The operators of FiniteSets are the same ones in the instance.
LEMMA SameCounts ==
    /\ \A S : Locator!IsFiniteSet(S) <=> IsFiniteSet(S)
    /\ \A S : Locator!Cardinality(S) = Cardinality(S)
<1>1. \A S : Locator!IsFiniteSet(S) <=> IsFiniteSet(S) BY DEF Locator!IsFiniteSet, IsFiniteSet
<1>2. \A S : Locator!Cardinality(S) = Cardinality(S) BY DEF Locator!Cardinality, Cardinality
<1> QED BY <1>1, <1>2

LEMMA Ids ==
    ASSUME Locator!BlockLocatorAssumption
    PROVE  /\ Cardinality(Hosts) \in Nat /\ Locator!Domains = 1 .. Cardinality(Hosts)
           /\ 0 \notin Locator!Domains /\ Locator!NoHost \notin Hosts /\ Locator!None \notin Locator!Blocks
           /\ \A b \in Locator!Blocks : b[1] \in Locator!Domains
           /\ \A t \in Locator!Threads : Locator!Host(t) \in Hosts
<1>1. Cardinality(Hosts) \in Nat BY FS_CardinalityType, SameCounts DEF Locator!BlockLocatorAssumption
<1>2. 0 \notin Locator!Domains BY <1>1, SameCounts DEF Locator!Domains
<1>3. \A b \in Locator!Blocks : b[1] \in Locator!Domains BY DEF Locator!Blocks
<1>4. Locator!None \notin Locator!Blocks BY <1>2, <1>3 DEF Locator!None
<1>5. \A t \in Locator!Threads : Locator!Host(t) \in Hosts BY DEF Locator!Threads, Locator!Host
<1>6. Locator!Domains = 1 .. Cardinality(Hosts) BY SameCounts DEF Locator!Domains
<1>7. Locator!NoHost \notin Hosts BY DEF Locator!BlockLocatorAssumption, Locator!NoHost
<1> QED BY <1>1, <1>2, <1>3, <1>4, <1>5, <1>6, <1>7

LEMMA Fields ==
    ASSUME NEW m \in Locator!Message
    PROVE  /\ m.type \in {"register", "add", "delete", "getPeers", "unregister"}
           /\ m.type \in {"register", "getPeers"} => m.host \in Hosts
           /\ m.type \in {"add", "delete", "getPeers"} => m.block \in Locator!Blocks
           /\ m.type \in {"add", "delete", "unregister"} => m.domain \in Locator!Domains
BY DEF Locator!Message

LEMMA Mailed ==
    ASSUME NEW m \in Locator!Message, inbox \in Seq(Locator!Message), inbox' = Append(inbox, m)
    PROVE  /\ inbox' \in Seq(Locator!Message) /\ Len(inbox) \in Nat /\ DOMAIN inbox = 1 .. Len(inbox)
           /\ DOMAIN inbox' = DOMAIN inbox \cup {Len(inbox) + 1}
           /\ \A i \in DOMAIN inbox : inbox'[i] = inbox[i] /\ i \in Nat /\ i < Len(inbox) + 1
           /\ inbox'[Len(inbox) + 1] = m
<1>1. /\ inbox' \in Seq(Locator!Message) /\ Len(inbox') = Len(inbox) + 1
      /\ \A i \in 1 .. Len(inbox) : inbox'[i] = inbox[i]
      /\ inbox'[Len(inbox) + 1] = m
  BY AppendProperties
<1>2. Len(inbox) \in Nat /\ DOMAIN inbox = 1 .. Len(inbox) /\ DOMAIN inbox' = 1 .. Len(inbox) + 1
  BY <1>1
<1>3. DOMAIN inbox' = DOMAIN inbox \cup {Len(inbox) + 1} BY <1>2
<1> QED BY <1>1, <1>2, <1>3

LEMMA Fetched ==
    ASSUME inbox \in Seq(Locator!Message), inbox # <<>>, inbox' = Tail(inbox)
    PROVE  /\ inbox' \in Seq(Locator!Message) /\ 1 \in DOMAIN inbox /\ Head(inbox) = inbox[1]
           /\ DOMAIN inbox \subseteq Nat /\ DOMAIN inbox' \subseteq Nat
           /\ Head(inbox) \in Locator!Message
           /\ \A i \in DOMAIN inbox' : i + 1 \in DOMAIN inbox /\ inbox'[i] = inbox[i + 1] /\ 1 < i + 1
           /\ \A i \in DOMAIN inbox : i # 1 => i - 1 \in DOMAIN inbox' /\ inbox'[i - 1] = inbox[i]
<1>1. Len(inbox) \in Nat /\ Len(inbox) > 0 /\ DOMAIN inbox = 1 .. Len(inbox) BY EmptySeq
<1>2. /\ inbox' \in Seq(Locator!Message) /\ Len(inbox') = Len(inbox) - 1
      /\ \A i \in 1 .. Len(inbox) - 1 : inbox'[i] = inbox[i + 1]
      /\ Head(inbox) = inbox[1]
  BY <1>1, HeadTailProperties
<1>3. DOMAIN inbox' = 1 .. Len(inbox) - 1 BY <1>1, <1>2
<1>4. \A i \in DOMAIN inbox' : i + 1 \in DOMAIN inbox /\ inbox'[i] = inbox[i + 1] /\ 1 < i + 1
  BY <1>1, <1>2, <1>3
<1>5. ASSUME NEW i \in DOMAIN inbox, i # 1
      PROVE  i - 1 \in DOMAIN inbox' /\ inbox'[i - 1] = inbox[i]
  <2>1. i - 1 \in 1 .. Len(inbox) - 1 /\ (i - 1) + 1 = i BY <1>1, <1>5
  <2> QED BY <1>2, <1>3, <2>1
<1> QED BY <1>1, <1>2, <1>3, <1>4, <1>5

-----------------------------------------------------------------------------
(* What the last message says *)

\* A message that is not about the block is sent, ...
LEMMA StillSaid ==
    ASSUME NEW m \in Locator!Message, inbox \in Seq(Locator!Message), inbox' = Append(inbox, m), UNCHANGED block_locations,
           NEW h \in Hosts, NEW b \in Locator!Blocks, domain'[h] = domain[h], ~About(m, domain[h], b),
           Present(h, b)' <=> Present(h, b), Says(domain[h], b, Present(h, b))
    PROVE  Says(domain[h], b, Present(h, b))'
<1>1. /\ DOMAIN inbox' = DOMAIN inbox \cup {Len(inbox) + 1}
      /\ \A i \in DOMAIN inbox : inbox'[i] = inbox[i]
      /\ inbox'[Len(inbox) + 1] = m
  BY Mailed
<1>2. CASE \E i \in DOMAIN inbox :
             /\ About(inbox[i], domain[h], b)
             /\ \A j \in DOMAIN inbox : i < j => ~About(inbox[j], domain[h], b)
             /\ inbox[i].type = "add" <=> Present(h, b)
  <2>1. PICK i \in DOMAIN inbox :
             /\ About(inbox[i], domain[h], b)
             /\ \A j \in DOMAIN inbox : i < j => ~About(inbox[j], domain[h], b)
             /\ inbox[i].type = "add" <=> Present(h, b)
    BY <1>2
  <2>2. /\ i \in DOMAIN inbox' /\ About(inbox'[i], domain'[h], b)
        /\ \A j \in DOMAIN inbox' : i < j => ~About(inbox'[j], domain'[h], b)
        /\ inbox'[i].type = "add" <=> Present(h, b)'
    BY <1>1, <2>1
  <2> QED BY <2>2 DEF Says
<1>3. CASE /\ \A i \in DOMAIN inbox : ~About(inbox[i], domain[h], b)
           /\ domain[h] \in block_locations[b] <=> Present(h, b)
  <2>1. \A i \in DOMAIN inbox' : ~About(inbox'[i], domain'[h], b) BY <1>1, <1>3
  <2> QED BY <1>3, <2>1 DEF Says
<1> QED BY <1>2, <1>3 DEF Says

\* ... or one that is about it, ...
LEMMA NowSaid ==
    ASSUME NEW m \in Locator!Message, inbox \in Seq(Locator!Message), inbox' = Append(inbox, m),
           NEW h \in Hosts, NEW b \in Locator!Blocks, domain'[h] = domain[h], About(m, domain[h], b),
           m.type = "add" <=> Present(h, b)'
    PROVE  Says(domain[h], b, Present(h, b))'
<1>1. /\ DOMAIN inbox' = DOMAIN inbox \cup {Len(inbox) + 1} /\ Len(inbox) \in Nat
      /\ \A i \in DOMAIN inbox : i \in Nat /\ i < Len(inbox) + 1
      /\ inbox'[Len(inbox) + 1] = m
  BY Mailed
<1> DEFINE i == Len(inbox) + 1
<1>2. \A j \in DOMAIN inbox' : ~(i < j) BY <1>1
<1>3. i \in DOMAIN inbox' /\ inbox'[i] = m BY <1>1
<1> HIDE DEF i
<1> QED BY <1>2, <1>3 DEF Says

\* ... or the first message is received.
LEMMA LessSaid ==
    ASSUME inbox \in Seq(Locator!Message), inbox # <<>>, inbox' = Tail(inbox),
           NEW h \in Hosts, NEW b \in Locator!Blocks, domain'[h] = domain[h],
           IF About(Head(inbox), domain[h], b)
           THEN domain[h] \in block_locations'[b] <=> Head(inbox).type = "add"
           ELSE domain[h] \in block_locations'[b] <=> domain[h] \in block_locations[b],
           Present(h, b)' <=> Present(h, b), Says(domain[h], b, Present(h, b))
    PROVE  Says(domain[h], b, Present(h, b))'
<1>1. /\ 1 \in DOMAIN inbox /\ Head(inbox) = inbox[1]
      /\ DOMAIN inbox \subseteq Nat /\ DOMAIN inbox' \subseteq Nat
      /\ \A i \in DOMAIN inbox' : i + 1 \in DOMAIN inbox /\ inbox'[i] = inbox[i + 1] /\ 1 < i + 1
      /\ \A i \in DOMAIN inbox : i # 1 => i - 1 \in DOMAIN inbox' /\ inbox'[i - 1] = inbox[i]
  BY Fetched
<1>2. ASSUME NEW i \in DOMAIN inbox, About(inbox[i], domain[h], b),
             \A j \in DOMAIN inbox : i < j => ~About(inbox[j], domain[h], b),
             inbox[i].type = "add" <=> Present(h, b)
      PROVE  Says(domain[h], b, Present(h, b))'
  <2>1. CASE i = 1
    <3>1. \A j \in DOMAIN inbox' : ~About(inbox'[j], domain'[h], b) BY <1>1, <1>2, <2>1
    <3>2. domain'[h] \in block_locations'[b] <=> Present(h, b)' BY <1>1, <1>2, <2>1
    <3> QED BY <3>1, <3>2 DEF Says
  <2>2. CASE i # 1
    <3>1. i - 1 \in DOMAIN inbox' /\ inbox'[i - 1] = inbox[i] BY <1>1, <2>2
    <3>2. \A j \in DOMAIN inbox' : i - 1 < j => ~About(inbox'[j], domain'[h], b)
      <4> SUFFICES ASSUME NEW j \in DOMAIN inbox', i - 1 < j PROVE ~About(inbox'[j], domain'[h], b)
        OBVIOUS
      <4>1. i < j + 1 BY <1>1
      <4> QED BY <1>1, <1>2, <4>1
    <3> QED BY <1>2, <3>1, <3>2 DEF Says
  <2> QED BY <2>1, <2>2
<1>3. ASSUME \A i \in DOMAIN inbox : ~About(inbox[i], domain[h], b),
             domain[h] \in block_locations[b] <=> Present(h, b)
      PROVE  Says(domain[h], b, Present(h, b))'
  <2>1. \A j \in DOMAIN inbox' : ~About(inbox'[j], domain'[h], b) BY <1>1, <1>3
  <2>2. domain'[h] \in block_locations'[b] <=> Present(h, b)' BY <1>1, <1>3
  <2> QED BY <2>1, <2>2 DEF Says
<1> QED BY <1>2, <1>3 DEF Says

LEMMA SameSaid ==
    ASSUME UNCHANGED <<inbox, block_locations>>, NEW h \in Hosts, NEW b \in Locator!Blocks,
           domain'[h] = domain[h], Present(h, b)' <=> Present(h, b), Says(domain[h], b, Present(h, b))
    PROVE  Says(domain[h], b, Present(h, b))'
BY DEF Says

-----------------------------------------------------------------------------
(* The inbox *)

LEMMA SoundSent ==
    ASSUME NEW m \in Locator!Message, inbox \in Seq(Locator!Message), inbox' = Append(inbox, m), InboxSound,
           \A x \in Locator!Message : MessageSound(x) => MessageSound(x)', MessageSound(m)',
           \A i \in DOMAIN inbox : InOrder(inbox[i], m)
    PROVE  InboxSound'
<1>1. /\ DOMAIN inbox' = DOMAIN inbox \cup {Len(inbox) + 1} /\ Len(inbox) \in Nat
      /\ \A i \in DOMAIN inbox : inbox'[i] = inbox[i] /\ i \in Nat /\ i < Len(inbox) + 1
      /\ inbox'[Len(inbox) + 1] = m
  BY Mailed
<1>2. \A i \in DOMAIN inbox : inbox[i] \in Locator!Message /\ MessageSound(inbox[i]) BY DEF InboxSound
<1>3. \A i \in DOMAIN inbox' : MessageSound(inbox[i])'
  <2> SUFFICES ASSUME NEW i \in DOMAIN inbox' PROVE MessageSound(inbox[i])' OBVIOUS
  <2>1. PICK x \in Locator!Message : inbox'[i] = x /\ MessageSound(x)' BY <1>1, <1>2
  <2> QED BY <2>1 DEF MessageSound
<1>4. ASSUME NEW i \in DOMAIN inbox', NEW j \in DOMAIN inbox', i < j PROVE InOrder(inbox'[i], inbox'[j])
  <2>1. CASE j \in DOMAIN inbox
    <3>1. i \in DOMAIN inbox BY <1>1, <1>4, <2>1
    <3> QED BY <1>1, <1>4, <2>1, <3>1 DEF InboxSound
  <2>2. CASE j = Len(inbox) + 1
    <3>1. i \in DOMAIN inbox BY <1>1, <1>4, <2>2
    <3> QED BY <1>1, <2>2, <3>1
  <2> QED BY <1>1, <2>1, <2>2
<1> QED BY <1>3, <1>4 DEF InboxSound

LEMMA SoundReceived ==
    ASSUME inbox \in Seq(Locator!Message), inbox # <<>>, inbox' = Tail(inbox), InboxSound,
           \A x \in Locator!Message : MessageSound(x) /\ InOrder(Head(inbox), x) => MessageSound(x)'
    PROVE  InboxSound'
<1>1. /\ 1 \in DOMAIN inbox /\ Head(inbox) = inbox[1]
      /\ DOMAIN inbox \subseteq Nat /\ DOMAIN inbox' \subseteq Nat
      /\ \A i \in DOMAIN inbox' : i + 1 \in DOMAIN inbox /\ inbox'[i] = inbox[i + 1] /\ 1 < i + 1
  BY Fetched
<1>2. \A i \in DOMAIN inbox : inbox[i] \in Locator!Message /\ MessageSound(inbox[i]) BY DEF InboxSound
<1>3. \A i \in DOMAIN inbox' : MessageSound(inbox[i])'
  <2> SUFFICES ASSUME NEW i \in DOMAIN inbox' PROVE MessageSound(inbox[i])' OBVIOUS
  <2>1. InOrder(inbox[1], inbox[i + 1]) BY <1>1 DEF InboxSound
  <2>2. PICK x \in Locator!Message : inbox'[i] = x /\ MessageSound(x)' BY <1>1, <1>2, <2>1
  <2> QED BY <2>2 DEF MessageSound
<1>4. ASSUME NEW i \in DOMAIN inbox', NEW j \in DOMAIN inbox', i < j PROVE InOrder(inbox'[i], inbox'[j])
  <2>1. i + 1 < j + 1 BY <1>1, <1>4
  <2> QED BY <1>1, <2>1 DEF InboxSound
<1> QED BY <1>3, <1>4 DEF InboxSound

LEMMA SoundKept ==
    ASSUME inbox \in Seq(Locator!Message), UNCHANGED inbox, InboxSound,
           \A x \in Locator!Message : MessageSound(x) => MessageSound(x)'
    PROVE  InboxSound'
<1>1. \A i \in DOMAIN inbox' : MessageSound(inbox[i])'
  <2> SUFFICES ASSUME NEW i \in DOMAIN inbox' PROVE MessageSound(inbox[i])' OBVIOUS
  <2>1. PICK x \in Locator!Message : inbox'[i] = x /\ MessageSound(x)' BY DEF InboxSound
  <2> QED BY <2>1 DEF MessageSound
<1> QED BY <1>1 DEF InboxSound

-----------------------------------------------------------------------------
(* The locator's steps *)

LEMMA InitInv == Locator!BlockLocatorAssumption /\ Locator!Init => IInv
<1> SUFFICES ASSUME Locator!BlockLocatorAssumption, Locator!Init PROVE IInv OBVIOUS
<1>1. Locator!TypeOK
  <2>1. <<>> \in Seq(Locator!Message) BY EmptySeq
  <2>2. 0 \in 0 .. Cardinality(Hosts) BY Ids
  <2> QED BY <2>1, <2>2, SameCounts DEF Locator!Init, Locator!TypeOK
<1>2. AnswersSound
  <2>1. <<>> \in Seq(Answer) BY EmptySeq
  <2> QED BY <2>1 DEF Locator!Init, AnswersSound
<1>3. DomainsSound
  <2>1. Assigned = {} BY DEF Locator!Init, Assigned
  <2>2. Cardinality(Assigned) = 0 BY <2>1, FS_EmptySet
  <2>3. \A h \in Hosts, d \in Locator!Domains : ~Has(h, d)
    <3>1. \A d \in Locator!Domains : d # 0 /\ <<>> # <<d>> BY Ids
    <3> QED BY <3>1 DEF Locator!Init, Has
  <2> QED BY <2>2, <2>3 DEF Locator!Init, DomainsSound
<1>4. InboxSound BY DEF Locator!Init, InboxSound
<1>5. ThreadsSound BY Ids DEF Locator!Init, ThreadsSound, ThreadSound
<1>6. Locator!MapsMirror /\ NothingElse /\ KnownSound /\ ToldSound
  BY DEF Locator!Init, Locator!MapsMirror, NothingElse, KnownSound, ToldSound
<1> QED BY <1>1, <1>2, <1>3, <1>4, <1>5, <1>6 DEF IInv

\* The locator leaves the hosts alone.
LEMMA HostsAlone ==
    ASSUME IInv, UNCHANGED <<Locator!hosts, loaded, disk, known, pc, block, peers, late, dropped, crossed>>
    PROVE  /\ ThreadsSound' /\ KnownSound'
           /\ \A h \in Hosts, b \in Locator!Blocks : Present(h, b)' <=> Present(h, b)
<1>1. UNCHANGED <<domain, up, loaded, disk, known, pc, block, peers, late, dropped, crossed>> BY DEF Locator!hosts
<1> QED BY <1>1 DEF IInv, ThreadsSound, ThreadSound, KnownSound, Creates, Present

LEMMA Received ==
    ASSUME IInv, NEW type, Locator!Receives(type)
    PROVE  /\ inbox \in Seq(Locator!Message) /\ inbox # <<>> /\ inbox' = Tail(inbox) /\ inbox' \in Seq(Locator!Message)
           /\ Head(inbox) \in Locator!Message /\ Head(inbox).type = type
           /\ MessageSound(Head(inbox))
           /\ UNCHANGED <<Locator!hosts, loaded, disk, known, pc, block, peers, late, dropped, crossed>>
           /\ UNCHANGED <<domain, up>>
<1>1. /\ inbox # <<>> /\ Head(inbox).type = type /\ inbox' = Tail(inbox)
      /\ UNCHANGED <<Locator!hosts, loaded, disk, known, pc, block, peers, late, dropped, crossed>>
  BY DEF Locator!Receives, Locator!history
<1>2. inbox \in Seq(Locator!Message) BY DEF IInv, Locator!TypeOK
<1>3. 1 \in DOMAIN inbox /\ Head(inbox) = inbox[1] /\ Head(inbox) \in Locator!Message /\ inbox' \in Seq(Locator!Message)
  BY <1>1, <1>2, Fetched
<1>4. MessageSound(inbox[1]) BY <1>3 DEF IInv, InboxSound
<1> QED BY <1>1, <1>2, <1>3, <1>4 DEF Locator!hosts

\* A domain is given out, the next.
LEMMA Registers ==
    ASSUME Locator!BlockLocatorAssumption, IInv, Locator!processBlockDomainRegistration
    PROVE  IInv'
<1> DEFINE m == Head(inbox)
           h == m.host
           d == block_domain + 1
<1>0. Locator!Receives("register") BY DEF Locator!processBlockDomainRegistration
<1>1. /\ inbox \in Seq(Locator!Message) /\ inbox # <<>> /\ inbox' = Tail(inbox) /\ inbox' \in Seq(Locator!Message)
      /\ m \in Locator!Message /\ m.type = "register" /\ MessageSound(m)
      /\ UNCHANGED <<Locator!hosts, loaded, disk, known, pc, block, peers, late, dropped, crossed>> /\ UNCHANGED <<domain, up>>
  BY <1>0, Received
<1>2. /\ block_domain' = d
      /\ domain_network_addresses' = [domain_network_addresses EXCEPT ![d] = h]
      /\ domain_blocks' = [domain_blocks EXCEPT ![d] = {}]
      /\ answers' = [answers EXCEPT ![h] = Append(@, d)]
      /\ UNCHANGED block_locations
  BY DEF Locator!processBlockDomainRegistration
<1>3. h \in Hosts /\ domain[h] = 0 /\ answers[h] = <<>> BY <1>1, Fields DEF MessageSound
<1>b. block_domain \in Nat BY Ids DEF IInv, Locator!TypeOK
<1> HIDE DEF m, h, d
<1>4. d \in Locator!Domains /\ d \in 0 .. Cardinality(Hosts) /\ d \in Nat /\ ~(d <= block_domain) /\ block_domain <= d
  <2>1. h \in Hosts /\ h \notin Assigned /\ Assigned \subseteq Hosts BY <1>3 DEF Assigned
  <2>2. IsFiniteSet(Hosts) BY SameCounts DEF Locator!BlockLocatorAssumption
  <2>3. /\ IsFiniteSet(Assigned) /\ IsFiniteSet(Assigned \cup {h})
        /\ Cardinality(Assigned \cup {h}) = Cardinality(Assigned) + 1
    BY <2>1, <2>2, FS_Subset, FS_AddElement
  <2>4. Cardinality(Assigned \cup {h}) <= Cardinality(Hosts) BY <2>1, <2>2, FS_Subset
  <2>5. d = Cardinality(Assigned \cup {h}) BY <2>3 DEF IInv, DomainsSound, d
  <2>6. Cardinality(Hosts) \in Nat /\ Locator!Domains = 1 .. Cardinality(Hosts) BY Ids
  <2> QED BY <1>b, <2>4, <2>5, <2>6 DEF d
<1>5. answers \in [Hosts -> Seq(Answer)] BY DEF IInv, AnswersSound
<1>6. /\ \A k \in Hosts : answers'[k] = IF k = h THEN <<d>> ELSE answers[k]
      /\ answers' \in [Hosts -> Seq(Answer)]
  <2>1. Append(answers[h], d) = <<d>> BY <1>3
  <2>2. <<d>> \in Seq(Answer) BY <1>4 DEF Answer
  <2> QED BY <1>2, <1>3, <1>5, <2>1, <2>2
<1>7. \A k \in Hosts : ~Has(k, d) BY <1>4 DEF IInv, DomainsSound
<1>8. Locator!TypeOK'
  <2>1. domain_network_addresses' \in [Locator!Domains -> Hosts \cup {Locator!NoHost}]
    BY <1>2, <1>3, <1>4 DEF IInv, Locator!TypeOK
  <2>2. domain_blocks' \in [Locator!Domains -> SUBSET Locator!Blocks] BY <1>2, <1>4 DEF IInv, Locator!TypeOK
  <2>3. block_domain' \in 0 .. Locator!Cardinality(Hosts) BY <1>2, <1>4, SameCounts
  <2> QED BY <1>1, <1>2, <2>1, <2>2, <2>3 DEF IInv, Locator!TypeOK
<1>9. Locator!MapsMirror'
  <2>1. \A b \in Locator!Blocks : d \notin block_locations[b] BY <1>4, <1>7 DEF IInv, NothingElse, Has
  <2>2. h # Locator!NoHost BY <1>3, Ids
  <2>3. \A e \in Locator!Domains : /\ domain_blocks'[e] = IF e = d THEN {} ELSE domain_blocks[e]
                                   /\ domain_network_addresses'[e] = IF e = d THEN h ELSE domain_network_addresses[e]
    BY <1>2, <1>4 DEF IInv, Locator!TypeOK
  <2> QED BY <1>2, <2>1, <2>2, <2>3 DEF IInv, Locator!MapsMirror
<1>10. AnswersSound' BY <1>1, <1>3, <1>4, <1>6 DEF IInv, AnswersSound
<1>11. \A k \in Hosts, e \in Locator!Domains : Has(k, e)' <=> Has(k, e) \/ (k = h /\ e = d)
  <2>1. \A k \in Hosts, e \in Locator!Domains : k = h => ~Has(k, e)
    <3>1. \A e \in Locator!Domains : e # 0 /\ <<>> # <<e>> BY Ids
    <3> QED BY <1>3, <3>1 DEF Has
  <2>2. \A e : <<d>> = <<e>> <=> d = e OBVIOUS
  <2>3. \A k \in Hosts, e \in Locator!Domains : k # h => (Has(k, e)' <=> Has(k, e)) BY <1>1, <1>6 DEF Has
  <2>4. \A k \in Hosts, e \in Locator!Domains : k = h => (Has(k, e)' <=> e = d)
    <3>1. \A e \in Locator!Domains : e # 0 BY Ids
    <3> QED BY <1>1, <1>3, <1>6, <2>2, <3>1 DEF Has
  <2> QED BY <2>1, <2>3, <2>4
<1>12. DomainsSound'
  <2>1. block_domain' = Cardinality(Assigned')
    <3>1. Assigned' = Assigned \cup {h}
      <4>1. <<d>> # <<>> OBVIOUS
      <4> QED BY <1>1, <1>3, <1>6, <4>1 DEF Assigned
    <3>2. h \notin Assigned /\ Assigned \subseteq Hosts /\ IsFiniteSet(Hosts)
      BY <1>3, SameCounts DEF Assigned, Locator!BlockLocatorAssumption
    <3>3. Cardinality(Assigned \cup {h}) = Cardinality(Assigned) + 1 BY <3>2, FS_Subset, FS_AddElement
    <3> QED BY <1>2, <3>1, <3>3 DEF IInv, DomainsSound, d
  <2>2. ASSUME NEW k \in Hosts, NEW e \in Locator!Domains, Has(k, e)'
        PROVE  e <= block_domain' /\ \A l \in Hosts : Has(l, e)' => l = k
    <3>1. e \in Nat BY Ids
    <3>2. CASE Has(k, e)
      <4>1. e <= block_domain BY <3>2 DEF IInv, DomainsSound
      <4>2. e # d BY <1>4, <4>1
      <4> QED BY <1>2, <1>4, <1>b, <1>11, <3>1, <3>2, <4>1, <4>2 DEF IInv, DomainsSound
    <3>3. CASE k = h /\ e = d BY <1>2, <1>4, <1>7, <1>11, <3>3
    <3> QED BY <1>11, <2>2, <3>2, <3>3
  <2>3. ASSUME NEW k \in Hosts, NEW e \in Locator!Domains, Has(k, e)', domain'[k] = 0 \/ k \in up'
        PROVE  domain_network_addresses'[e] = k
    <3>1. CASE k = h /\ e = d BY <1>2, <1>4, <3>1 DEF IInv, Locator!TypeOK
    <3>2. CASE Has(k, e)
      <4>1. e # d BY <1>7, <3>2
      <4>2. domain_network_addresses'[e] = domain_network_addresses[e] BY <1>2, <4>1 DEF IInv, Locator!TypeOK
      <4> QED BY <1>1, <2>3, <3>2, <4>2 DEF IInv, DomainsSound
    <3> QED BY <1>11, <2>3, <3>1, <3>2
  <2> QED BY <1>1, <2>1, <2>2, <2>3 DEF IInv, DomainsSound
<1>13. InboxSound'
  <2>1. ASSUME NEW x \in Locator!Message, MessageSound(x), InOrder(m, x) PROVE MessageSound(x)'
    <3>1. x.type = "register" => x.host \in Hosts /\ x.host # h BY <1>1, <2>1, Fields DEF InOrder, h
    <3>2. Told(x) => x.domain \in Locator!Domains BY Fields DEF Told
    <3>3. Told(x) => domain_network_addresses'[x.domain] # Locator!NoHost
      <4>1. \A e \in Locator!Domains : domain_network_addresses'[e] = IF e = d THEN h ELSE domain_network_addresses[e]
        BY <1>2, <1>4 DEF IInv, Locator!TypeOK
      <4>2. h # Locator!NoHost BY <1>3, Ids
      <4> QED BY <2>1, <3>2, <4>1, <4>2 DEF MessageSound
    <3> QED BY <1>1, <1>6, <2>1, <3>1, <3>3 DEF MessageSound
  <2> QED BY <1>1, <2>1, SoundReceived DEF IInv, m
<1>14. NothingElse' BY <1>1, <1>2 DEF IInv, NothingElse
<1>15. /\ ThreadsSound' /\ KnownSound'
       /\ \A k \in Hosts, b \in Locator!Blocks : Present(k, b)' <=> Present(k, b)
  BY <1>1, HostsAlone
<1>16. ToldSound'
  <2> SUFFICES ASSUME NEW k \in Hosts, NEW b \in Locator!Blocks, domain'[k] # 0
               PROVE  Says(domain[k], b, Present(k, b))'
    BY DEF ToldSound
  <2>1. ~About(Head(inbox), domain[k], b) BY <1>1 DEF About, Told, m
  <2>2. Says(domain[k], b, Present(k, b)) BY <1>1 DEF IInv, ToldSound
  <2> QED BY <1>1, <1>2, <1>15, <2>1, <2>2, LessSaid
<1> QED BY <1>8, <1>9, <1>10, <1>12, <1>13, <1>14, <1>15, <1>16 DEF IInv

\* Nothing changes in who has which domain.
LEMMA SameDomains ==
    ASSUME IInv, UNCHANGED <<block_domain, domain, up>>,
           \A h \in Hosts : domain[h] = 0 => answers'[h] = answers[h],
           \A h \in Hosts, d \in Locator!Domains :
               Has(h, d) /\ (domain[h] = 0 \/ h \in up) =>
                   domain_network_addresses'[d] = domain_network_addresses[d]
    PROVE  DomainsSound'
<1>1. Assigned' = Assigned BY DEF Assigned
<1>2. \A h \in Hosts, d \in Locator!Domains : Has(h, d)' <=> Has(h, d) BY DEF Has
<1> QED BY <1>1, <1>2 DEF IInv, DomainsSound

\* A host tells where a block is, or that it is gone.
LEMMA Locates ==
    ASSUME Locator!BlockLocatorAssumption, IInv, Locator!addBlockLocation \/ Locator!deleteBlockLocation
    PROVE  IInv'
<1> DEFINE m == Head(inbox)
<1>1. /\ inbox \in Seq(Locator!Message) /\ inbox # <<>> /\ inbox' = Tail(inbox) /\ inbox' \in Seq(Locator!Message)
      /\ m \in Locator!Message /\ m.type \in {"add", "delete"} /\ MessageSound(m)
      /\ UNCHANGED <<Locator!hosts, loaded, disk, known, pc, block, peers, late, dropped, crossed>> /\ UNCHANGED <<domain, up>>
  <2>1. Locator!Receives("add") \/ Locator!Receives("delete")
    BY DEF Locator!addBlockLocation, Locator!deleteBlockLocation
  <2> QED BY <2>1, Received
<1>2. /\ UNCHANGED <<block_domain, domain_network_addresses, answers>>
      /\ \/ /\ m.type = "add"
            /\ block_locations' = [block_locations EXCEPT ![m.block] = @ \cup {m.domain}]
            /\ domain_blocks' = [domain_blocks EXCEPT ![m.domain] = @ \cup {m.block}]
         \/ /\ m.type = "delete"
            /\ block_locations' = [block_locations EXCEPT ![m.block] = @ \ {m.domain}]
            /\ domain_blocks' = [domain_blocks EXCEPT ![m.domain] = @ \ {m.block}]
  BY DEF Locator!addBlockLocation, Locator!deleteBlockLocation, Locator!Receives
<1>3. m.block \in Locator!Blocks /\ m.domain \in Locator!Domains BY <1>1, Fields
<1> HIDE DEF m
<1>4. /\ \A b \in Locator!Blocks : block_locations'[b] =
            IF b # m.block THEN block_locations[b]
            ELSE IF m.type = "add" THEN block_locations[b] \cup {m.domain}
            ELSE block_locations[b] \ {m.domain}
      /\ \A d \in Locator!Domains : domain_blocks'[d] =
            IF d # m.domain THEN domain_blocks[d]
            ELSE IF m.type = "add" THEN domain_blocks[d] \cup {m.block}
            ELSE domain_blocks[d] \ {m.block}
      /\ block_locations' \in [Locator!Blocks -> SUBSET Locator!Domains]
      /\ domain_blocks' \in [Locator!Domains -> SUBSET Locator!Blocks]
  <2>0. block_locations \in [Locator!Blocks -> SUBSET Locator!Domains] /\ domain_blocks \in [Locator!Domains -> SUBSET Locator!Blocks]
    BY DEF IInv, Locator!TypeOK
  <2>1. CASE m.type = "add"
    <3>1. /\ block_locations' = [block_locations EXCEPT ![m.block] = @ \cup {m.domain}]
          /\ domain_blocks' = [domain_blocks EXCEPT ![m.domain] = @ \cup {m.block}]
      BY <1>2, <2>1
    <3> QED BY <1>3, <2>0, <2>1, <3>1
  <2>2. CASE m.type # "add"
    <3>1. /\ block_locations' = [block_locations EXCEPT ![m.block] = @ \ {m.domain}]
          /\ domain_blocks' = [domain_blocks EXCEPT ![m.domain] = @ \ {m.block}]
      BY <1>2, <2>2
    <3> QED BY <1>3, <2>0, <2>2, <3>1
  <2> QED BY <2>1, <2>2
<1>5. domain_network_addresses[m.domain] # Locator!NoHost /\ \E h \in Hosts : domain[h] = m.domain
  BY <1>1 DEF MessageSound, Told
<1>6. Locator!TypeOK' BY <1>1, <1>2, <1>4 DEF IInv, Locator!TypeOK
<1>7. Locator!MapsMirror' BY <1>2, <1>4, <1>5 DEF IInv, Locator!MapsMirror
<1>8. AnswersSound' BY <1>1, <1>2 DEF IInv, AnswersSound
<1>9. DomainsSound' BY <1>1, <1>2, SameDomains
<1>10. InboxSound'
  <2>1. \A x \in Locator!Message : MessageSound(x) => MessageSound(x)' BY <1>1, <1>2 DEF MessageSound
  <2> QED BY <1>1, <2>1, SoundReceived DEF IInv
<1>11. NothingElse' BY <1>1, <1>4, <1>5 DEF IInv, NothingElse
<1>12. /\ ThreadsSound' /\ KnownSound'
       /\ \A k \in Hosts, b \in Locator!Blocks : Present(k, b)' <=> Present(k, b)
  BY <1>1, HostsAlone
<1>13. ToldSound'
  <2> SUFFICES ASSUME NEW k \in Hosts, NEW b \in Locator!Blocks, domain'[k] # 0
               PROVE  Says(domain[k], b, Present(k, b))'
    BY DEF ToldSound
  <2>1. Says(domain[k], b, Present(k, b)) BY <1>1 DEF IInv, ToldSound
  <2>2. About(m, domain[k], b) <=> domain[k] = m.domain /\ b = m.block BY <1>1 DEF About, Told
  <2>3. IF About(m, domain[k], b)
        THEN domain[k] \in block_locations'[b] <=> m.type = "add"
        ELSE domain[k] \in block_locations'[b] <=> domain[k] \in block_locations[b]
    <3>1. CASE About(m, domain[k], b) BY <1>4, <2>2, <3>1
    <3>2. CASE ~About(m, domain[k], b) BY <1>4, <2>2, <3>2
    <3> QED BY <3>1, <3>2
  <2> QED BY <1>1, <1>12, <2>1, <2>3, LessSaid DEF m
<1> QED BY <1>6, <1>7, <1>8, <1>9, <1>10, <1>11, <1>12, <1>13 DEF IInv

\* The question of a host is answered.
LEMMA AnswersPeers ==
    ASSUME Locator!BlockLocatorAssumption, IInv, Locator!processGetPeerDomainNetworkAddresses
    PROVE  IInv'
<1> DEFINE m == Head(inbox)
<1>0. Locator!Receives("getPeers") BY DEF Locator!processGetPeerDomainNetworkAddresses
<1>1. /\ inbox \in Seq(Locator!Message) /\ inbox # <<>> /\ inbox' = Tail(inbox) /\ inbox' \in Seq(Locator!Message)
      /\ m \in Locator!Message /\ m.type = "getPeers" /\ MessageSound(m)
      /\ UNCHANGED <<Locator!hosts, loaded, disk, known, pc, block, peers, late, dropped, crossed>> /\ UNCHANGED <<domain, up>>
  BY <1>0, Received
<1>2. /\ answers' = [answers EXCEPT ![m.host] = Append(@, <<m.block, Locator!Addresses(m.block)>>)]
      /\ UNCHANGED <<block_domain, domain_network_addresses, block_locations, domain_blocks>>
  BY DEF Locator!processGetPeerDomainNetworkAddresses, Locator!locator
<1>3. m.host \in Hosts /\ m.block \in Locator!Blocks /\ domain[m.host] # 0 BY <1>1, Fields DEF MessageSound
<1> HIDE DEF m
<1>4. <<m.block, Locator!Addresses(m.block)>> \in Located
  <2>1. Locator!Addresses(m.block) \in SUBSET (Hosts \cup {Locator!NoHost})
    BY <1>3 DEF IInv, Locator!TypeOK, Locator!Addresses
  <2> QED BY <1>3, <2>1 DEF Located
<1>5. answers \in [Hosts -> Seq(Answer)] /\ answers[m.host] \in Seq(Located)
  BY <1>3 DEF IInv, AnswersSound
<1>6. /\ \A k \in Hosts : k # m.host => answers'[k] = answers[k]
      /\ answers'[m.host] \in Seq(Located)
      /\ answers' \in [Hosts -> Seq(Answer)]
  <2> DEFINE s == Append(answers[m.host], <<m.block, Locator!Addresses(m.block)>>)
  <2>1. s \in Seq(Located) BY <1>4, <1>5, AppendProperties
  <2>2. <<m.block, Locator!Addresses(m.block)>> \in Answer /\ answers[m.host] \in Seq(Answer)
    BY <1>3, <1>4, <1>5 DEF Answer
  <2>3. s \in Seq(Answer) BY <2>2, AppendProperties
  <2>4. answers' = [answers EXCEPT ![m.host] = s] BY <1>2
  <2> HIDE DEF s
  <2> QED BY <1>3, <1>5, <2>1, <2>3, <2>4
<1>7. Locator!TypeOK' BY <1>1, <1>2 DEF IInv, Locator!TypeOK
<1>8. Locator!MapsMirror' BY <1>2 DEF IInv, Locator!MapsMirror
<1>9. AnswersSound' BY <1>1, <1>3, <1>6 DEF IInv, AnswersSound
<1>10. DomainsSound' BY <1>1, <1>2, <1>3, <1>6, SameDomains
<1>11. InboxSound'
  <2>1. ASSUME NEW x \in Locator!Message, MessageSound(x) PROVE MessageSound(x)'
    <3>1. x.type = "register" => x.host \in Hosts BY Fields
    <3> QED BY <1>1, <1>2, <1>3, <1>6, <2>1, <3>1 DEF MessageSound
  <2> QED BY <1>1, <2>1, SoundReceived DEF IInv
<1>12. NothingElse' BY <1>1, <1>2 DEF IInv, NothingElse
<1>13. /\ ThreadsSound' /\ KnownSound'
       /\ \A k \in Hosts, b \in Locator!Blocks : Present(k, b)' <=> Present(k, b)
  BY <1>1, HostsAlone
<1>14. ToldSound'
  <2> SUFFICES ASSUME NEW k \in Hosts, NEW b \in Locator!Blocks, domain'[k] # 0
               PROVE  Says(domain[k], b, Present(k, b))'
    BY DEF ToldSound
  <2>1. ~About(Head(inbox), domain[k], b) BY <1>1 DEF About, Told, m
  <2>2. Says(domain[k], b, Present(k, b)) BY <1>1 DEF IInv, ToldSound
  <2> QED BY <1>1, <1>2, <1>13, <2>1, <2>2, LessSaid
<1> QED BY <1>7, <1>8, <1>9, <1>10, <1>11, <1>12, <1>13, <1>14 DEF IInv

\* A domain is given up, with all its blocks.
LEMMA Unregisters ==
    ASSUME Locator!BlockLocatorAssumption, IInv, Locator!unregisterBlockDomain
    PROVE  IInv'
<1> DEFINE m == Head(inbox)
           d == m.domain
<1>0. Locator!Receives("unregister") BY DEF Locator!unregisterBlockDomain
<1>1. /\ inbox \in Seq(Locator!Message) /\ inbox # <<>> /\ inbox' = Tail(inbox) /\ inbox' \in Seq(Locator!Message)
      /\ m \in Locator!Message /\ m.type = "unregister" /\ MessageSound(m)
      /\ UNCHANGED <<Locator!hosts, loaded, disk, known, pc, block, peers, late, dropped, crossed>> /\ UNCHANGED <<domain, up>>
  BY <1>0, Received
<1>2. /\ block_locations' = [b \in Locator!Blocks |-> IF b \in domain_blocks[d] THEN block_locations[b] \ {d}
                                                      ELSE block_locations[b]]
      /\ domain_network_addresses' = [domain_network_addresses EXCEPT ![d] = Locator!NoHost]
      /\ domain_blocks' = [domain_blocks EXCEPT ![d] = {}]
      /\ UNCHANGED <<block_domain, answers>>
  BY DEF Locator!unregisterBlockDomain
<1>3. d \in Locator!Domains /\ (\E h \in Hosts : domain[h] = d) /\ \A h \in up : domain[h] # d
  BY <1>1, Fields DEF MessageSound, Told
<1>t. m.type = "unregister" /\ m.domain = d BY <1>1
<1> HIDE DEF m, d
<1>4. \A b \in Locator!Blocks : block_locations'[b] = block_locations[b] \ {d}
  BY <1>2, <1>3 DEF IInv, Locator!MapsMirror
<1>5. \A e \in Locator!Domains : /\ domain_blocks'[e] = IF e = d THEN {} ELSE domain_blocks[e]
                                 /\ e # d => domain_network_addresses'[e] = domain_network_addresses[e]
  BY <1>2, <1>3 DEF IInv, Locator!TypeOK
<1>6. Locator!TypeOK'
  <2>1. domain_network_addresses' \in [Locator!Domains -> Hosts \cup {Locator!NoHost}]
    BY <1>2, <1>3 DEF IInv, Locator!TypeOK
  <2>2. block_locations' \in [Locator!Blocks -> SUBSET Locator!Domains] BY <1>2 DEF IInv, Locator!TypeOK
  <2>3. domain_blocks' \in [Locator!Domains -> SUBSET Locator!Blocks] BY <1>2, <1>3 DEF IInv, Locator!TypeOK
  <2> QED BY <1>1, <1>2, <2>1, <2>2, <2>3 DEF IInv, Locator!TypeOK
<1>7. Locator!MapsMirror' BY <1>4, <1>5 DEF IInv, Locator!MapsMirror
<1>8. AnswersSound' BY <1>1, <1>2 DEF IInv, AnswersSound
<1>9. DomainsSound'
  <2>1. ASSUME NEW h \in Hosts, NEW e \in Locator!Domains, Has(h, e), domain[h] = 0 \/ h \in up PROVE e # d
    <3> SUFFICES ASSUME e = d PROVE FALSE OBVIOUS
    <3>1. PICK k \in Hosts : domain[k] = d BY <1>3
    <3>2. Has(k, d) BY <3>1 DEF Has
    <3>3. k = h BY <1>3, <2>1, <3>2 DEF IInv, DomainsSound
    <3>4. d # 0 BY <1>3, Ids
    <3> QED BY <1>3, <2>1, <3>1, <3>3, <3>4
  <2> QED BY <1>1, <1>2, <1>5, <2>1, SameDomains
<1>10. InboxSound'
  <2>1. ASSUME NEW x \in Locator!Message, MessageSound(x), InOrder(m, x) PROVE MessageSound(x)'
    <3>1. Told(x) => x.domain \in Locator!Domains /\ x.domain # d BY <1>t, <2>1, Fields DEF Told, InOrder
    <3> QED BY <1>1, <1>2, <1>5, <2>1, <3>1 DEF MessageSound
  <2> QED BY <1>1, <2>1, SoundReceived DEF IInv, m
<1>11. NothingElse' BY <1>1, <1>4 DEF IInv, NothingElse
<1>12. /\ ThreadsSound' /\ KnownSound'
       /\ \A k \in Hosts, b \in Locator!Blocks : Present(k, b)' <=> Present(k, b)
  BY <1>1, HostsAlone
<1>13. ToldSound'
  <2> SUFFICES ASSUME NEW k \in Hosts, NEW b \in Locator!Blocks, domain'[k] # 0
               PROVE  Says(domain[k], b, Present(k, b))'
    BY DEF ToldSound
  <2>1. Says(domain[k], b, Present(k, b)) BY <1>1 DEF IInv, ToldSound
  <2>2. About(m, domain[k], b) <=> domain[k] = d BY <1>t DEF About, Told
  <2>3. IF About(m, domain[k], b)
        THEN domain[k] \in block_locations'[b] <=> m.type = "add"
        ELSE domain[k] \in block_locations'[b] <=> domain[k] \in block_locations[b]
    <3>1. CASE About(m, domain[k], b) BY <1>t, <1>4, <2>2, <3>1
    <3>2. CASE ~About(m, domain[k], b) BY <1>4, <2>2, <3>2
    <3> QED BY <3>1, <3>2
  <2> QED BY <1>1, <1>12, <2>1, <2>3, LessSaid DEF m
<1> QED BY <1>6, <1>7, <1>8, <1>9, <1>10, <1>11, <1>12, <1>13 DEF IInv

-----------------------------------------------------------------------------
(* The hosts' steps *)

\* A domain has one host, and a host that is up has one.
LEMMA OneHost ==
    ASSUME Locator!BlockLocatorAssumption, IInv
    PROVE  /\ \A h, k \in Hosts : domain[h] # 0 /\ domain[h] = domain[k] => h = k
           /\ \A h \in Hosts : domain[h] # 0 => domain[h] \in Locator!Domains
           /\ \A h \in up : /\ h \in Hosts /\ domain[h] \in Locator!Domains /\ domain[h] # 0
                            /\ domain_network_addresses[domain[h]] = h
<1>1. \A h \in Hosts : domain[h] # 0 => domain[h] \in Locator!Domains
  <2>1. \A h \in Hosts : domain[h] \in 0 .. Cardinality(Hosts) BY SameCounts DEF IInv, Locator!TypeOK
  <2>2. Cardinality(Hosts) \in Nat /\ Locator!Domains = 1 .. Cardinality(Hosts) BY Ids
  <2> QED BY <2>1, <2>2
<1>2. \A h \in Hosts : domain[h] # 0 => Has(h, domain[h]) BY DEF Has
<1>3. ASSUME NEW h \in Hosts, NEW k \in Hosts, domain[h] # 0, domain[h] = domain[k] PROVE h = k
  <2>1. Has(h, domain[h]) /\ Has(k, domain[h]) /\ domain[h] \in Locator!Domains BY <1>1, <1>2, <1>3
  <2> QED BY <2>1 DEF IInv, DomainsSound
<1>4. \A h \in up : h \in Hosts /\ domain[h] # 0 BY DEF IInv, Locator!TypeOK, DomainsSound
<1>5. \A h \in up : domain_network_addresses[domain[h]] = h BY <1>1, <1>2, <1>4 DEF IInv, DomainsSound
<1> QED BY <1>1, <1>3, <1>4, <1>5

\* A domain is asked for.
LEMMA AsksForDomain ==
    ASSUME Locator!BlockLocatorAssumption, IInv, NEW h \in Hosts, Locator!sendRegistration(h)
    PROVE  IInv'
<1> DEFINE m == [type |-> "register", host |-> h]
<1>1. /\ domain[h] = 0 /\ answers[h] = <<>> /\ inbox' = Append(inbox, m)
      /\ \A i \in DOMAIN inbox : inbox[i] # m
      /\ UNCHANGED <<block_domain, domain_network_addresses, block_locations, domain_blocks>>
      /\ UNCHANGED <<answers, Locator!hosts, domain, up, loaded, disk, known, pc, block, peers, late, dropped, crossed>>
  BY DEF Locator!sendRegistration, Locator!Send, Locator!locator, Locator!hosts, Locator!history
<1>2. m \in Locator!Message /\ m.type = "register" /\ m.host = h BY DEF Locator!Message
<1>3. \A x \in Locator!Message : x.type = "register" /\ x.host = h => x = m BY DEF Locator!Message
<1>4. inbox \in Seq(Locator!Message) BY DEF IInv, Locator!TypeOK
<1> HIDE DEF m
<1>5. inbox' \in Seq(Locator!Message) BY <1>1, <1>2, <1>4, Mailed
<1>6. Locator!TypeOK' BY <1>1, <1>5 DEF IInv, Locator!TypeOK
<1>7. Locator!MapsMirror' /\ AnswersSound' /\ NothingElse'
  BY <1>1 DEF IInv, Locator!MapsMirror, AnswersSound, NothingElse
<1>8. DomainsSound' BY <1>1, SameDomains
<1>9. InboxSound'
  <2>1. \A x \in Locator!Message : MessageSound(x) => MessageSound(x)' BY <1>1 DEF MessageSound
  <2>2. MessageSound(m)' BY <1>1, <1>2 DEF MessageSound, Told
  <2>3. \A i \in DOMAIN inbox : InOrder(inbox[i], m) BY <1>1, <1>2, <1>3, <1>4 DEF InOrder, Told
  <2> QED BY <1>1, <1>2, <1>4, <2>1, <2>2, <2>3, SoundSent DEF IInv
<1>10. /\ ThreadsSound' /\ KnownSound'
       /\ \A k \in Hosts, b \in Locator!Blocks : Present(k, b)' <=> Present(k, b)
  BY <1>1, HostsAlone
<1>11. ToldSound'
  <2> SUFFICES ASSUME NEW k \in Hosts, NEW b \in Locator!Blocks, domain'[k] # 0
               PROVE  Says(domain[k], b, Present(k, b))'
    BY DEF ToldSound
  <2>1. ~About(m, domain[k], b) BY <1>2 DEF About, Told
  <2>2. Says(domain[k], b, Present(k, b)) BY <1>1 DEF IInv, ToldSound
  <2> QED BY <1>1, <1>2, <1>4, <1>10, <2>1, <2>2, StillSaid
<1> QED BY <1>6, <1>7, <1>8, <1>9, <1>10, <1>11 DEF IInv

\* A host that is not up has no block.
LEMMA NothingThere ==
    ASSUME Locator!BlockLocatorAssumption, IInv, NEW h \in Hosts, h \notin up
    PROVE  /\ loaded[h] = {} /\ \A t \in Locator!Threads : Locator!Host(t) = h => pc[t] = "idle" /\ block[t] = Locator!None
           /\ \A b \in Locator!Blocks : ~Present(h, b)
<1>1. loaded[h] = {} BY DEF IInv, ThreadsSound
<1>2. \A t \in Locator!Threads : Locator!Host(t) = h => pc[t] = "idle" /\ block[t] = Locator!None
  BY DEF IInv, ThreadsSound, ThreadSound
<1> QED BY <1>1, <1>2 DEF Present

\* The domain arrives.
LEMMA Constructs ==
    ASSUME Locator!BlockLocatorAssumption, IInv, NEW h \in Hosts, Locator!constructStorageManager(h)
    PROVE  IInv'
<1>1. /\ domain[h] = 0 /\ answers[h] # <<>>
      /\ domain' = [domain EXCEPT ![h] = Head(answers[h])]
      /\ answers' = [answers EXCEPT ![h] = Tail(@)]
      /\ up' = up \cup {h}
      /\ UNCHANGED <<block_domain, domain_network_addresses, block_locations, domain_blocks>>
      /\ UNCHANGED <<inbox, loaded, disk, known, pc, block, peers, late, dropped, crossed>>
  BY DEF Locator!constructStorageManager, Locator!locator, Locator!history
<1>2. PICK d \in Locator!Domains : answers[h] = <<d>> BY <1>1 DEF IInv, AnswersSound
<1>3. Head(answers[h]) = d /\ Tail(answers[h]) = <<>> BY <1>2
<1>4. /\ \A k \in Hosts : domain'[k] = IF k = h THEN d ELSE domain[k]
      /\ \A k \in Hosts : answers'[k] = IF k = h THEN <<>> ELSE answers[k]
  BY <1>1, <1>3 DEF IInv, Locator!TypeOK, AnswersSound
<1>5. d # 0 /\ d \in 0 .. Cardinality(Hosts) BY Ids
<1>6. Has(h, d) BY <1>1, <1>2 DEF Has
<1>7. \A k \in Hosts : domain[k] # d
  <2> SUFFICES ASSUME NEW k \in Hosts, domain[k] = d PROVE FALSE OBVIOUS
  <2>1. Has(k, d) BY DEF Has
  <2>2. k = h BY <1>6, <2>1 DEF IInv, DomainsSound
  <2> QED BY <1>1, <1>5, <2>2
<1>8. h \notin up BY <1>1 DEF IInv, DomainsSound
<1>9. Locator!TypeOK'
  <2>0. d \in 0 .. Locator!Cardinality(Hosts) BY <1>5, SameCounts
  <2>1. domain' \in [Hosts -> 0 .. Locator!Cardinality(Hosts)] BY <1>1, <1>3, <2>0 DEF IInv, Locator!TypeOK
  <2> QED BY <1>1, <2>1 DEF IInv, Locator!TypeOK
<1>10. Locator!MapsMirror' BY <1>1 DEF IInv, Locator!MapsMirror
<1>11. AnswersSound'
  <2>1. <<>> \in Seq(Answer) /\ <<>> \in Seq(Located) BY EmptySeq
  <2>2. answers' \in [Hosts -> Seq(Answer)] BY <1>1, <1>3, <2>1 DEF IInv, AnswersSound
  <2> QED BY <1>4, <1>5, <2>1, <2>2 DEF IInv, AnswersSound
<1>12. \A k \in Hosts, e \in Locator!Domains : Has(k, e)' <=> Has(k, e)
  <2>1. \A k \in Hosts, e \in Locator!Domains : k # h => (Has(k, e)' <=> Has(k, e)) BY <1>4 DEF Has
  <2>2. \A e : <<d>> = <<e>> <=> d = e OBVIOUS
  <2>3. \A e \in Locator!Domains : e # 0 BY Ids
  <2>4. \A e \in Locator!Domains : Has(h, e)' <=> Has(h, e) BY <1>1, <1>2, <1>4, <1>5, <2>2, <2>3 DEF Has
  <2> QED BY <2>1, <2>4
<1>13. DomainsSound'
  <2>1. Assigned' = Assigned BY <1>1, <1>4, <1>5 DEF Assigned
  <2>2. \A k \in Hosts, e \in Locator!Domains :
            Has(k, e)' /\ (domain'[k] = 0 \/ k \in up') => domain_network_addresses'[e] = k
    BY <1>1, <1>4, <1>12 DEF IInv, DomainsSound
  <2>3. \A k \in up' : domain'[k] # 0 BY <1>1, <1>4, <1>5 DEF IInv, DomainsSound, Locator!TypeOK
  <2> QED BY <1>1, <1>12, <2>1, <2>2, <2>3 DEF IInv, DomainsSound
<1>14. InboxSound'
  <2>1. ASSUME NEW x \in Locator!Message, MessageSound(x) PROVE MessageSound(x)'
    <3>1. x.type \in {"register", "getPeers"} => x.host \in Hosts BY Fields
    <3>2. x.type = "register" => x.host # h BY <1>1, <2>1 DEF MessageSound
    <3>3. ASSUME Told(x)
          PROVE  /\ \E k \in Hosts : domain'[k] = x.domain
                 /\ domain_network_addresses'[x.domain] # Locator!NoHost /\ x.domain # d
      <4>1. x.domain \in Locator!Domains BY <3>3, Fields DEF Told
      <4>2. PICK k \in Hosts : domain[k] = x.domain BY <2>1, <3>3 DEF MessageSound
      <4>3. k # h BY <1>1, <4>1, <4>2, Ids
      <4>4. domain_network_addresses[x.domain] # Locator!NoHost BY <2>1, <3>3 DEF MessageSound
      <4> QED BY <1>1, <1>4, <1>7, <4>2, <4>3, <4>4
    <3>4. x.type = "unregister" => \A k \in up' : domain'[k] # x.domain
      <4>1. x.type = "unregister" => Told(x) BY DEF Told
      <4>2. up \subseteq Hosts BY DEF IInv, Locator!TypeOK
      <4> QED BY <1>1, <1>4, <2>1, <3>3, <4>1, <4>2 DEF MessageSound
    <3> QED BY <1>4, <1>5, <2>1, <3>1, <3>2, <3>3, <3>4 DEF MessageSound
  <2>2. inbox \in Seq(Locator!Message) BY DEF IInv, Locator!TypeOK
  <2> QED BY <1>1, <2>1, <2>2, SoundKept DEF IInv
<1>15. NothingElse'
  <2>1. ASSUME NEW e \in Locator!Domains, \A k \in Hosts : domain'[k] # e PROVE \A k \in Hosts : domain[k] # e
    <3>1. e # 0 BY Ids
    <3> QED BY <1>1, <1>4, <2>1, <3>1
  <2> QED BY <1>1, <2>1 DEF IInv, NothingElse
<1>n. \A t \in Locator!Threads : pc[t] # "idle" => Locator!Host(t) # h /\ Locator!Host(t) \in Hosts
  BY <1>8, Ids, NothingThere
<1>16. ThreadsSound'
  <2>3. ASSUME NEW t \in Locator!Threads PROVE ThreadSound(t)'
    <3>1. ThreadSound(t) BY DEF IInv, ThreadsSound
    <3>2. pc[t] # "idle" => domain'[Locator!Host(t)] = domain[Locator!Host(t)] BY <1>4, <1>n
    <3> QED BY <1>1, <3>1, <3>2 DEF ThreadSound, Locator!Host
  <2> QED BY <1>1, <2>3 DEF IInv, ThreadsSound, Locator!Host
<1>o. ASSUME NEW b \in Locator!Blocks, b \in known \/ \E t \in Locator!Threads : Creates(t, b)
      PROVE  b[1] # d /\ \E k \in Hosts : domain'[k] = b[1] /\ domain[k] = b[1]
  <2>1. b[1] \in Locator!Domains /\ b[1] # 0 BY Ids
  <2>2. PICK k \in Hosts : domain[k] = b[1]
    <3>1. CASE b \in known BY <3>1 DEF IInv, KnownSound
    <3>2. ASSUME NEW t \in Locator!Threads, Creates(t, b) PROVE \E k \in Hosts : domain[k] = b[1]
      BY <1>n, <3>2 DEF IInv, ThreadsSound, ThreadSound, Creates
    <3> QED BY <1>o, <3>1, <3>2
  <2>3. k # h BY <1>1, <2>1, <2>2, Ids
  <2>4. b[1] # d BY <1>7, <2>2
  <2> QED BY <1>4, <2>2, <2>3, <2>4
<1>17. KnownSound'
  <2>0. known \subseteq Locator!Blocks BY DEF IInv, Locator!TypeOK
  <2>1. \A b \in known : /\ \E k \in Hosts : domain'[k] = b[1]
                         /\ \A k \in Hosts : domain'[k] = b[1] => b \in disk \cup dropped \cup loaded[k]
    BY <1>4, <1>o, <2>0 DEF IInv, KnownSound
  <2> QED BY <1>1, <2>1 DEF IInv, KnownSound, Creates, Locator!Host
<1>18. ToldSound'
  <2> SUFFICES ASSUME NEW k \in Hosts, NEW b \in Locator!Blocks, domain'[k] # 0
               PROVE  Says(domain[k], b, Present(k, b))'
    BY DEF ToldSound
  <2>2. CASE k # h
    <3>1. domain'[k] = domain[k] BY <1>4, <2>2
    <3>2. Says(domain[k], b, Present(k, b)) BY <3>1 DEF IInv, ToldSound
    <3>3. Present(k, b)' <=> Present(k, b) BY <1>1, <2>2, <3>1 DEF Present, Creates, Locator!Host
    <3> QED BY <1>1, <3>1, <3>2, <3>3, SameSaid
  <2>3. CASE k = h
    <3>1. \A i \in DOMAIN inbox : ~About(inbox[i], d, b)
      <4> SUFFICES ASSUME NEW i \in DOMAIN inbox, About(inbox[i], d, b) PROVE FALSE OBVIOUS
      <4>1. MessageSound(inbox[i]) BY DEF IInv, InboxSound
      <4>2. Told(inbox[i]) /\ inbox[i].domain = d BY DEF About
      <4> QED BY <1>7, <4>1, <4>2 DEF MessageSound
    <3>2. d \notin block_locations[b] BY <1>7 DEF IInv, NothingElse
    <3>3. ~Present(h, b)'
      <4>1. b \notin loaded[h] /\ \A t \in Locator!Threads : Locator!Host(t) = h => pc[t] = "idle"
        BY <1>8, NothingThere
      <4>2. b \in late => b[1] # d BY <1>o DEF IInv, KnownSound
      <4> QED BY <1>1, <1>4, <4>1, <4>2 DEF Present, Locator!Host
    <3> QED BY <1>1, <1>4, <2>3, <3>1, <3>2, <3>3 DEF Says
  <2> QED BY <2>2, <2>3
<1> QED BY <1>9, <1>10, <1>11, <1>13, <1>14, <1>15, <1>16, <1>17, <1>18 DEF IInv

\* The storage manager goes down, and drops what is not saved.
LEMMA Destroys ==
    ASSUME Locator!BlockLocatorAssumption, IInv, NEW h \in Hosts, Locator!destroyStorageManager(h)
    PROVE  IInv'
<1>1. /\ h \in up /\ \A t \in Locator!Threads : Locator!Host(t) = h => pc[t] = "idle"
      /\ dropped' = dropped \cup Locator!Unsaved(h)
      /\ up' = up \ {h} /\ loaded' = [loaded EXCEPT ![h] = {}]
      /\ inbox' = Append(inbox, [type |-> "unregister", domain |-> domain[h]])
      /\ UNCHANGED <<block_domain, domain_network_addresses, block_locations, domain_blocks>>
      /\ UNCHANGED <<answers, domain, disk, known, pc, block, peers, late, crossed>>
  BY DEF Locator!destroyStorageManager, Locator!Send, Locator!locator
<1>2. domain[h] \in Locator!Domains /\ domain[h] # 0 /\ domain_network_addresses[domain[h]] = h BY <1>1, OneHost
<1>3. PICK m \in Locator!Message : m.type = "unregister" /\ m.domain = domain[h] /\ inbox' = Append(inbox, m)
  BY <1>1, <1>2 DEF Locator!Message
<1>4. inbox \in Seq(Locator!Message) BY DEF IInv, Locator!TypeOK
<1>5. \A k \in Hosts : k # h => domain[k] # domain[h] BY <1>2, OneHost
<1>6. \A k \in Hosts : loaded'[k] = IF k = h THEN {} ELSE loaded[k] BY <1>1 DEF IInv, Locator!TypeOK
<1>7. inbox' \in Seq(Locator!Message) BY <1>1, <1>3, <1>4, Mailed
<1>8. Locator!TypeOK'
  <2>1. loaded' \in [Hosts -> SUBSET Locator!Blocks] BY <1>1 DEF IInv, Locator!TypeOK
  <2>2. dropped' \subseteq Locator!Blocks BY <1>1 DEF IInv, Locator!TypeOK, Locator!Unsaved
  <2> QED BY <1>1, <1>7, <2>1, <2>2 DEF IInv, Locator!TypeOK
<1>9. Locator!MapsMirror' /\ AnswersSound' /\ NothingElse'
  BY <1>1 DEF IInv, Locator!MapsMirror, AnswersSound, NothingElse
<1>10. DomainsSound'
  <2>1. Assigned' = Assigned BY <1>1 DEF Assigned
  <2>2. \A k \in Hosts, e \in Locator!Domains : Has(k, e)' <=> Has(k, e) BY <1>1 DEF Has
  <2> QED BY <1>1, <2>1, <2>2 DEF IInv, DomainsSound
<1>11. InboxSound'
  <2>1. \A x \in Locator!Message : MessageSound(x) => MessageSound(x)' BY <1>1 DEF MessageSound
  <2>2. MessageSound(m)'
    <3>1. \A k \in up' : domain[k] # domain[h] BY <1>1, <1>5 DEF IInv, Locator!TypeOK
    <3>2. h # Locator!NoHost BY Ids
    <3> QED BY <1>1, <1>2, <1>3, <3>1, <3>2 DEF MessageSound
  <2>3. ASSUME NEW i \in DOMAIN inbox PROVE InOrder(inbox[i], m)
    <3>1. MessageSound(inbox[i]) BY DEF IInv, InboxSound
    <3> QED BY <1>1, <1>3, <3>1 DEF InOrder, MessageSound
  <2> QED BY <1>1, <1>3, <1>4, <2>1, <2>2, <2>3, SoundSent DEF IInv
<1>12. ThreadsSound'
  <2>1. \A t \in Locator!Threads : Locator!Host(t) \in Hosts BY Ids
  <2>2. ASSUME NEW t \in Locator!Threads PROVE ThreadSound(t)'
    <3>1. ThreadSound(t) BY DEF IInv, ThreadsSound
    <3>2. CASE pc[t] = "idle" BY <1>1, <3>1, <3>2 DEF ThreadSound
    <3>3. CASE pc[t] # "idle"
      <4>1. Locator!Host(t) # h BY <1>1, <3>3
      <4> QED BY <1>1, <1>6, <2>1, <3>1, <4>1 DEF ThreadSound, Locator!Host
    <3> QED BY <3>2, <3>3
  <2>3. \A k \in Hosts \ up' : loaded'[k] = {} BY <1>1, <1>6 DEF IInv, ThreadsSound
  <2> QED BY <1>1, <2>2, <2>3 DEF IInv, ThreadsSound, Locator!Host
<1>13. KnownSound'
  <2>1. ASSUME NEW b \in known
        PROVE  /\ \E k \in Hosts : domain[k] = b[1]
               /\ \A k \in Hosts : domain[k] = b[1] => b \in disk \cup dropped' \cup loaded'[k]
    <3>1. /\ \E k \in Hosts : domain[k] = b[1]
          /\ \A k \in Hosts : domain[k] = b[1] => b \in disk \cup dropped \cup loaded[k]
      BY DEF IInv, KnownSound
    <3> QED BY <1>1, <1>6, <3>1 DEF Locator!Unsaved
  <2>2. \A k \in Hosts : \A b \in loaded'[k] : b \in known \/ \E t \in Locator!Threads : Locator!Host(t) = k /\ Creates(t, b)
    BY <1>6 DEF IInv, KnownSound
  <2> QED BY <1>1, <2>1, <2>2 DEF IInv, KnownSound, Creates, Locator!Host
<1>14. ToldSound'
  <2> SUFFICES ASSUME NEW k \in Hosts, NEW b \in Locator!Blocks, domain'[k] # 0
               PROVE  Says(domain[k], b, Present(k, b))'
    BY DEF ToldSound
  <2>1. CASE k # h
    <3>1. Present(k, b)' <=> Present(k, b) BY <1>1, <1>6, <2>1 DEF Present, Creates, Locator!Host
    <3>2. ~About(m, domain[k], b) BY <1>3, <1>5, <2>1 DEF About
    <3>3. Says(domain[k], b, Present(k, b)) BY <1>1 DEF IInv, ToldSound
    <3> QED BY <1>1, <1>3, <1>4, <3>1, <3>2, <3>3, StillSaid
  <2>2. CASE k = h
    <3>1. ~Present(h, b)' BY <1>1 DEF Present, Locator!Host
    <3>2. About(m, domain[h], b) BY <1>3 DEF About, Told
    <3> QED BY <1>1, <1>3, <1>4, <2>2, <3>1, <3>2, NowSaid
  <2> QED BY <2>1, <2>2
<1> QED BY <1>8, <1>9, <1>10, <1>11, <1>12, <1>13, <1>14 DEF IInv

----------------------------------------------------------------------------------------------------------------------------------------------------------
(* The threads' steps *)

\* What the invariant says of one block at one host.
HeldSound(h, c) ==
    /\ \A u \in Locator!Threads : Locator!Host(u) = h /\ block[u] = c => ThreadSound(u)
    /\ \A u, v \in Locator!Threads : /\ Locator!Host(u) = h /\ Locator!Host(v) = h /\ block[u] = c /\ block[v] = c
                                     /\ (pc[u] = "announce" <=> pc[v] = "announce")
          => u = v
    /\ \A u, v \in Locator!Threads : /\ Locator!Host(u) = h /\ Locator!Host(v) = h /\ block[u] = c /\ block[v] = c
                                     /\ pc[u] = "announce" /\ pc[v] = "erase"
          => c \in late
    /\ c \in loaded[h] => c \in known \/ \E u \in Locator!Threads : Locator!Host(u) = h /\ Creates(u, c)
    /\ c \in late => c \in disk /\ (c \in known \/ \E u \in Locator!Threads : Creates(u, c))
    /\ c \in known => /\ \E k \in Hosts : domain[k] = c[1]
                      /\ \A k \in Hosts : domain[k] = c[1] => c \in disk \cup dropped \cup loaded[k]

LEMMA Held ==
    ASSUME Locator!BlockLocatorAssumption, IInv, NEW h \in Hosts, NEW c \in Locator!Blocks
    PROVE  HeldSound(h, c)
<1>1. c # Locator!None BY Ids
<1>2. ThreadsSound /\ KnownSound BY DEF IInv
<1>3. \A u \in Locator!Threads : Locator!Host(u) = h /\ block[u] = c => ThreadSound(u) BY <1>2 DEF ThreadsSound
<1>4. \A u, v \in Locator!Threads : /\ Locator!Host(u) = h /\ Locator!Host(v) = h /\ block[u] = c /\ block[v] = c
                                    /\ (pc[u] = "announce" <=> pc[v] = "announce")
          => u = v
  <2> SUFFICES ASSUME NEW u \in Locator!Threads, NEW v \in Locator!Threads, Locator!Host(u) = h, Locator!Host(v) = h, block[u] = c, block[v] = c,
                      pc[u] = "announce" <=> pc[v] = "announce"
               PROVE  u = v
    OBVIOUS
  <2> QED BY <1>1, <1>2 DEF ThreadsSound
<1>5. \A u, v \in Locator!Threads : /\ Locator!Host(u) = h /\ Locator!Host(v) = h /\ block[u] = c /\ block[v] = c
                                    /\ pc[u] = "announce" /\ pc[v] = "erase"
          => c \in late
  <2> SUFFICES ASSUME NEW u \in Locator!Threads, NEW v \in Locator!Threads, Locator!Host(u) = h, Locator!Host(v) = h, block[u] = c, block[v] = c,
                      pc[u] = "announce", pc[v] = "erase"
               PROVE  c \in late
    OBVIOUS
  <2> QED BY <1>2 DEF ThreadsSound
<1>6. c \in loaded[h] => c \in known \/ \E u \in Locator!Threads : Locator!Host(u) = h /\ Creates(u, c)
  BY <1>2 DEF KnownSound
<1>7. c \in late => c \in disk /\ (c \in known \/ \E u \in Locator!Threads : Creates(u, c)) BY <1>2 DEF KnownSound
<1>8. c \in known => /\ \E k \in Hosts : domain[k] = c[1]
                     /\ \A k \in Hosts : domain[k] = c[1] => c \in disk \cup dropped \cup loaded[k]
  BY <1>2 DEF KnownSound
<1> QED BY <1>3, <1>4, <1>5, <1>6, <1>7, <1>8 DEF HeldSound

\* A step of thread t that is about block c, which it may have, take or leave.
Frame(t, c) ==
    /\ UNCHANGED <<block_domain, domain_network_addresses, block_locations, domain_blocks, domain, up>>
    /\ \A u \in Locator!Threads : u # t => pc'[u] = pc[u] /\ block'[u] = block[u]
    /\ block[t] \in {c, Locator!None} /\ block'[t] \in {c, Locator!None}
    /\ \A h \in Hosts, b \in Locator!Blocks : h # Locator!Host(t) \/ b # c => (b \in loaded'[h] <=> b \in loaded[h])
    /\ Locator!Host(t) \in up
    /\ disk \subseteq disk' /\ UNCHANGED dropped
    /\ known' = known \/ (known' = known \cup {c} /\ Creates(t, c))
    /\ \A b \in Locator!Blocks : b # c \/ c[1] # domain[Locator!Host(t)] => (b \in late' <=> b \in late)

Tells(t, c, m) ==
    /\ m \in Locator!Message /\ inbox' = Append(inbox, m)
    /\ m.type \in {"add", "delete"} /\ m.block = c /\ m.domain = domain[Locator!Host(t)]
    /\ m.type = "add" <=> Present(Locator!Host(t), c)'

\* Blocks of a creator are of its domain, and have one.
LEMMA Creator ==
    ASSUME Locator!BlockLocatorAssumption, IInv, NEW u \in Locator!Threads, NEW c \in Locator!Blocks, Creates(u, c)
    PROVE  /\ c[1] = domain[Locator!Host(u)] /\ c \notin known /\ Locator!Host(u) \in up /\ Locator!Host(u) \in Hosts
           /\ \A h \in Hosts : domain[h] = c[1] => h = Locator!Host(u)
           /\ \A v \in Locator!Threads : Creates(v, c) => v = u
<1>1. ASSUME NEW v \in Locator!Threads, Creates(v, c)
      PROVE  c[1] = domain[Locator!Host(v)] /\ c \notin known /\ Locator!Host(v) \in up /\ Locator!Host(v) \in Hosts
  BY <1>1, Ids DEF Creates, IInv, ThreadsSound, ThreadSound
<1>2. c[1] = domain[Locator!Host(u)] /\ c \notin known /\ Locator!Host(u) \in up /\ Locator!Host(u) \in Hosts
  BY <1>1
<1>3. \A h \in Hosts : domain[h] = c[1] => h = Locator!Host(u) BY <1>2, OneHost
<1>4. ASSUME NEW v \in Locator!Threads, Creates(v, c) PROVE v = u
  <2>1. Locator!Host(v) = Locator!Host(u) BY <1>1, <1>3, <1>4
  <2>2. c # Locator!None BY Ids
  <2> QED BY <1>4, <2>1, <2>2 DEF Creates, IInv, ThreadsSound
<1> QED BY <1>2, <1>3, <1>4

LEMMA FrameThreads ==
    ASSUME Locator!BlockLocatorAssumption, IInv, Locator!TypeOK', NEW t \in Locator!Threads, NEW c \in Locator!Blocks, Frame(t, c),
           ThreadSound(t)', HeldSound(Locator!Host(t), c)'
    PROVE  ThreadsSound'
<1>1. \A u \in Locator!Threads : Locator!Host(u) \in Hosts BY Ids
<1>2. Locator!None \notin Locator!Blocks BY Ids
<1>f. /\ UNCHANGED <<domain, up>> /\ disk \subseteq disk' /\ known \subseteq known'
      /\ block[t] \in {c, Locator!None} /\ block'[t] \in {c, Locator!None} /\ Locator!Host(t) \in up
      /\ \A u \in Locator!Threads : u # t => pc'[u] = pc[u] /\ block'[u] = block[u]
      /\ \A b \in Locator!Blocks : b # c \/ c[1] # domain[Locator!Host(t)] => (b \in late' <=> b \in late)
  BY DEF Frame
<1>3. ASSUME NEW u \in Locator!Threads PROVE ThreadSound(u)'
  <2>1. CASE u = t BY <2>1
  <2>2. CASE u # t /\ Locator!Host(u) = Locator!Host(t) /\ block[u] = c BY <1>f, <2>2 DEF HeldSound, Locator!Host
  <2>3. CASE u # t /\ (Locator!Host(u) # Locator!Host(t) \/ block[u] # c)
    <3>1. ThreadSound(u) BY DEF IInv, ThreadsSound
    <3>2. pc'[u] = pc[u] /\ block'[u] = block[u] BY <1>f, <2>3
    <3>3. pc[u] # "idle" => block[u] \in Locator!Blocks BY <3>1 DEF IInv, Locator!TypeOK, ThreadSound
    <3>4. pc[u] # "idle" => (block[u] \in loaded'[Locator!Host(u)] <=> block[u] \in loaded[Locator!Host(u)])
      BY <1>1, <2>3, <3>3 DEF Frame
    <3>5. ASSUME pc[u] = "announce" PROVE block[u] \notin known' /\ (block[u] \in late' <=> block[u] \in late)
      <4>0. block[u] \in Locator!Blocks /\ Creates(u, block[u]) BY <3>3, <3>5 DEF Creates
      <4>1. CASE block[u] # c
        <5>1. block[u] \in late' <=> block[u] \in late BY <1>f, <4>0, <4>1
        <5>2. block[u] \notin known BY <4>0, Creator
        <5> QED BY <4>1, <5>1, <5>2 DEF Frame
      <4>2. CASE block[u] = c
        <5>1. c[1] = domain[Locator!Host(u)] /\ c \notin known /\ ~Creates(t, c) BY <2>3, <4>0, <4>2, Creator
        <5>2. Locator!Host(u) # Locator!Host(t) /\ Locator!Host(u) \in up BY <2>3, <4>0, <4>2, Creator
        <5>3. domain[Locator!Host(u)] # domain[Locator!Host(t)] BY <1>1, <1>f, <5>2, OneHost
        <5>4. c \in late' <=> c \in late BY <1>f, <5>1, <5>3
        <5>5. c \notin known' BY <5>1 DEF Frame
        <5> QED BY <4>2, <5>4, <5>5
      <4> QED BY <4>1, <4>2
    <3> QED BY <1>f, <3>1, <3>2, <3>4, <3>5 DEF ThreadSound, Locator!Host
  <2> QED BY <2>1, <2>2, <2>3
<1>4. ASSUME NEW u \in Locator!Threads, NEW v \in Locator!Threads, Locator!Host(u) = Locator!Host(v), block'[u] = block'[v], block'[u] # Locator!None,
             pc'[u] = "announce" <=> pc'[v] = "announce"
      PROVE  u = v
  <2>1. CASE Locator!Host(u) = Locator!Host(t) /\ block'[u] = c BY <1>4, <2>1 DEF HeldSound, Locator!Host
  <2>2. CASE ~(Locator!Host(u) = Locator!Host(t) /\ block'[u] = c)
    <3>1. u # t /\ v # t BY <1>4, <1>f, <2>2
    <3> QED BY <1>4, <1>f, <3>1 DEF IInv, ThreadsSound
  <2> QED BY <2>1, <2>2
<1>5. ASSUME NEW u \in Locator!Threads, NEW v \in Locator!Threads, Locator!Host(u) = Locator!Host(v), block'[u] = block'[v],
             pc'[u] = "announce", pc'[v] = "erase"
      PROVE  block'[u] \in late'
  <2>1. CASE Locator!Host(u) = Locator!Host(t) /\ block'[u] = c BY <1>4, <1>5, <2>1 DEF HeldSound, Locator!Host
  <2>2. CASE ~(Locator!Host(u) = Locator!Host(t) /\ block'[u] = c)
    <3>1. ThreadSound(u)' /\ block'[u] \in Locator!Blocks \cup {Locator!None} BY <1>3 DEF Locator!TypeOK
    <3>2. block'[u] \in Locator!Blocks BY <1>5, <3>1 DEF ThreadSound
    <3>3. u # t /\ v # t BY <1>2, <1>5, <1>f, <2>2, <3>2
    <3>4. block[u] = block'[u] /\ block[u] \in late /\ Creates(u, block[u])
      BY <1>5, <1>f, <3>3 DEF IInv, ThreadsSound, Creates
    <3>5. block[u] # c \/ c[1] # domain[Locator!Host(t)]
      <4> SUFFICES ASSUME block[u] = c, c[1] = domain[Locator!Host(t)] PROVE FALSE OBVIOUS
      <4>1. Locator!Host(t) = Locator!Host(u) BY <1>1, <3>2, <3>4, Creator
      <4> QED BY <2>2, <3>4, <4>1
    <3> QED BY <1>f, <3>2, <3>4, <3>5
  <2> QED BY <2>1, <2>2
<1>6. ASSUME NEW h \in Hosts \ up' PROVE loaded'[h] = {}
  <2>1. h \notin up /\ h # Locator!Host(t) BY <1>f
  <2>2. loaded[h] = {} BY <2>1 DEF IInv, ThreadsSound
  <2>3. loaded'[h] \subseteq Locator!Blocks BY DEF Locator!TypeOK
  <2> QED BY <2>1, <2>2, <2>3 DEF Frame
<1> QED BY <1>3, <1>4, <1>5, <1>6 DEF ThreadsSound, Locator!Host

LEMMA FrameKnown ==
    ASSUME Locator!BlockLocatorAssumption, IInv, Locator!TypeOK', NEW t \in Locator!Threads, NEW c \in Locator!Blocks, Frame(t, c),
           HeldSound(Locator!Host(t), c)'
    PROVE  KnownSound'
<1>1. known' \subseteq Locator!Blocks /\ late' \subseteq Locator!Blocks BY DEF Locator!TypeOK
<1>2. Locator!None \notin Locator!Blocks BY Ids
<1>f. /\ UNCHANGED <<domain, dropped>> /\ disk \subseteq disk' /\ known \subseteq known'
      /\ \A b \in known' : b # c => b \in known
      /\ block[t] \in {c, Locator!None}
      /\ \A u \in Locator!Threads : u # t => pc'[u] = pc[u] /\ block'[u] = block[u]
      /\ \A b \in Locator!Blocks : b # c => (b \in late' <=> b \in late)
      /\ \A h \in Hosts, b \in Locator!Blocks : h # Locator!Host(t) \/ b # c => (b \in loaded'[h] <=> b \in loaded[h])
  BY DEF Frame
<1>k. /\ \A b \in known : /\ \E h \in Hosts : domain[h] = b[1]
                          /\ \A h \in Hosts : domain[h] = b[1] => b \in disk \cup dropped \cup loaded[h]
      /\ \A h \in Hosts : \A b \in loaded[h] : b \in known \/ \E u \in Locator!Threads : Locator!Host(u) = h /\ Creates(u, b)
      /\ late \subseteq disk
      /\ \A b \in late : b \in known \/ \E u \in Locator!Threads : Creates(u, b)
  BY DEF IInv, KnownSound
<1>3. ASSUME NEW u \in Locator!Threads, NEW b \in Locator!Blocks, Creates(u, b), b # c \/ Locator!Host(u) # Locator!Host(t) PROVE Creates(u, b)'
  BY <1>2, <1>3, <1>f DEF Creates
<1>4. ASSUME NEW b \in known'
      PROVE  /\ \E h \in Hosts : domain'[h] = b[1]
             /\ \A h \in Hosts : domain'[h] = b[1] => b \in disk' \cup dropped' \cup loaded'[h]
  <2>1. CASE b = c BY <1>4, <2>1 DEF HeldSound
  <2>2. CASE b # c BY <1>1, <1>4, <1>f, <1>k, <2>2
  <2> QED BY <2>1, <2>2
<1>5. ASSUME NEW h \in Hosts, NEW b \in loaded'[h]
      PROVE  b \in known' \/ \E u \in Locator!Threads : Locator!Host(u) = h /\ Creates(u, b)'
  <2>0. b \in Locator!Blocks BY DEF Locator!TypeOK
  <2>1. CASE h = Locator!Host(t) /\ b = c BY <1>5, <2>1 DEF HeldSound, Locator!Host
  <2>2. CASE h # Locator!Host(t) \/ b # c
    <3>1. b \in loaded[h] BY <1>5, <1>f, <2>0, <2>2
    <3>2. CASE b \in known BY <1>f, <3>2
    <3>3. CASE \E u \in Locator!Threads : Locator!Host(u) = h /\ Creates(u, b) BY <1>3, <2>0, <2>2, <3>3
    <3> QED BY <1>k, <3>1, <3>2, <3>3
  <2> QED BY <2>1, <2>2
<1>6. ASSUME NEW b \in late' PROVE b \in disk' /\ (b \in known' \/ \E u \in Locator!Threads : Creates(u, b)')
  <2>1. CASE b = c BY <1>6, <2>1 DEF HeldSound
  <2>2. CASE b # c
    <3>1. b \in late /\ b \in Locator!Blocks BY <1>1, <1>6, <1>f, <2>2
    <3>2. CASE b \in known BY <1>f, <1>k, <3>1, <3>2
    <3>3. CASE \E u \in Locator!Threads : Creates(u, b) BY <1>3, <1>f, <1>k, <2>2, <3>1, <3>3
    <3> QED BY <1>k, <3>1, <3>2, <3>3
  <2> QED BY <2>1, <2>2
<1> QED BY <1>4, <1>5, <1>6 DEF KnownSound, Locator!Host

LEMMA Worked ==
    ASSUME Locator!BlockLocatorAssumption, IInv, NEW t \in Locator!Threads, NEW c \in Locator!Blocks, Frame(t, c),
           Locator!TypeOK', AnswersSound', ThreadSound(t)', HeldSound(Locator!Host(t), c)',
           \A h \in Hosts : domain[h] = 0 => answers'[h] = answers[h],
           \/ UNCHANGED inbox /\ (Present(Locator!Host(t), c)' <=> Present(Locator!Host(t), c))
           \/ \E b \in Locator!Blocks :
                /\ inbox' = Append(inbox, [type |-> "getPeers", host |-> Locator!Host(t), block |-> b])
                /\ Present(Locator!Host(t), c)' <=> Present(Locator!Host(t), c)
           \/ \E m \in Locator!Message : Tells(t, c, m)
    PROVE  IInv'
<1>h. Locator!Host(t) \in Hosts /\ domain[Locator!Host(t)] \in Locator!Domains /\ domain[Locator!Host(t)] # 0
      /\ domain_network_addresses[domain[Locator!Host(t)]] = Locator!Host(t) /\ Locator!Host(t) # Locator!NoHost
  BY Ids, OneHost DEF Frame
<1>u. /\ UNCHANGED <<block_domain, domain_network_addresses, block_locations, domain_blocks, domain, up>>
      /\ Locator!Host(t) \in up
  BY DEF Frame
<1>i. inbox \in Seq(Locator!Message) BY DEF IInv, Locator!TypeOK
<1>1. Locator!MapsMirror' /\ NothingElse' BY <1>u DEF IInv, Locator!MapsMirror, NothingElse
<1>2. DomainsSound' BY <1>u, SameDomains
<1>3. ThreadsSound' BY FrameThreads
<1>4. KnownSound' BY FrameKnown
<1>5. \A x \in Locator!Message : MessageSound(x) => MessageSound(x)'
  <2> SUFFICES ASSUME NEW x \in Locator!Message, MessageSound(x) PROVE MessageSound(x)' OBVIOUS
  <2>1. x.type = "register" => x.host \in Hosts BY Fields
  <2> QED BY <1>u, <2>1 DEF MessageSound
<1>6. ASSUME NEW h \in Hosts, NEW b \in Locator!Blocks, h # Locator!Host(t) \/ b # c PROVE Present(h, b)' <=> Present(h, b)
  <2>1. b \in loaded'[h] <=> b \in loaded[h] BY <1>6 DEF Frame
  <2>2. ASSUME NEW u \in Locator!Threads, Locator!Host(u) = h
        PROVE  (block'[u] = b <=> block[u] = b) /\ (block[u] = b => pc'[u] = pc[u])
    <3>1. CASE u # t BY <3>1 DEF Frame
    <3>2. CASE u = t
      <4>1. b # c /\ b # Locator!None BY <1>6, <2>2, <3>2, Ids
      <4> QED BY <3>2, <4>1 DEF Frame
    <3> QED BY <3>1, <3>2
  <2>3. b[1] = domain[h] => (b \in late' <=> b \in late)
    <3> SUFFICES ASSUME b[1] = domain[h] PROVE b \in late' <=> b \in late OBVIOUS
    <3>1. CASE b # c BY <3>1 DEF Frame
    <3>2. CASE b = c
      <4>1. domain[h] # domain[Locator!Host(t)] BY <1>6, <1>h, <3>2, OneHost
      <4> QED BY <3>2, <4>1 DEF Frame
    <3> QED BY <3>1, <3>2
  <2>4. (\A u \in Locator!Threads : Locator!Host(u) = h => ~Creates(u, b)') <=> (\A u \in Locator!Threads : Locator!Host(u) = h => ~Creates(u, b))
    BY <2>2 DEF Creates
  <2>5. (\A u \in Locator!Threads : Locator!Host(u) = h => block'[u] # b) <=> (\A u \in Locator!Threads : Locator!Host(u) = h => block[u] # b)
    BY <2>2
  <2>6. (\E u \in Locator!Threads : Locator!Host(u) = h /\ block'[u] = b /\ pc'[u] \in {"insert", "delete"})
          <=> (\E u \in Locator!Threads : Locator!Host(u) = h /\ block[u] = b /\ pc[u] \in {"insert", "delete"})
    BY <2>2
  <2> QED BY <1>u, <2>1, <2>3, <2>4, <2>5, <2>6 DEF Present, Locator!Host
<1>7. \A h \in Hosts, b \in Locator!Blocks : domain[h] # 0 => Says(domain[h], b, Present(h, b))
  BY DEF IInv, ToldSound
<1>8. CASE UNCHANGED inbox /\ (Present(Locator!Host(t), c)' <=> Present(Locator!Host(t), c))
  <2>1. InboxSound' BY <1>5, <1>8, <1>i, SoundKept DEF IInv
  <2>2. ToldSound'
    <3> SUFFICES ASSUME NEW h \in Hosts, NEW b \in Locator!Blocks, domain'[h] # 0
                 PROVE  Says(domain[h], b, Present(h, b))'
      BY DEF ToldSound
    <3>1. Present(h, b)' <=> Present(h, b) BY <1>6, <1>8
    <3>2. Says(domain[h], b, Present(h, b)) BY <1>7, <1>u
    <3> QED BY <1>8, <1>u, <3>1, <3>2, SameSaid
  <2> QED BY <1>1, <1>2, <1>3, <1>4, <2>1, <2>2 DEF IInv
<1>9. CASE \E b \in Locator!Blocks :
             /\ inbox' = Append(inbox, [type |-> "getPeers", host |-> Locator!Host(t), block |-> b])
             /\ Present(Locator!Host(t), c)' <=> Present(Locator!Host(t), c)
  <2>1. PICK b \in Locator!Blocks :
             /\ inbox' = Append(inbox, [type |-> "getPeers", host |-> Locator!Host(t), block |-> b])
             /\ Present(Locator!Host(t), c)' <=> Present(Locator!Host(t), c)
    BY <1>9
  <2> DEFINE m == [type |-> "getPeers", host |-> Locator!Host(t), block |-> b]
  <2>2. m \in Locator!Message /\ m.type = "getPeers" /\ m.host = Locator!Host(t) /\ inbox' = Append(inbox, m)
    BY <1>h, <2>1 DEF Locator!Message
  <2> HIDE DEF m
  <2>3. InboxSound'
    <3>1. MessageSound(m)' BY <1>h, <1>u, <2>2 DEF MessageSound, Told
    <3>2. \A i \in DOMAIN inbox : InOrder(inbox[i], m) BY <2>2 DEF InOrder, Told
    <3> QED BY <1>5, <1>i, <2>2, <3>1, <3>2, SoundSent DEF IInv
  <2>4. ToldSound'
    <3> SUFFICES ASSUME NEW h \in Hosts, NEW e \in Locator!Blocks, domain'[h] # 0
                 PROVE  Says(domain[h], e, Present(h, e))'
      BY DEF ToldSound
    <3>1. Present(h, e)' <=> Present(h, e) BY <1>6, <2>1
    <3>2. Says(domain[h], e, Present(h, e)) BY <1>7, <1>u
    <3>3. ~About(m, domain[h], e) BY <2>2 DEF About, Told
    <3> QED BY <1>i, <1>u, <2>2, <3>1, <3>2, <3>3, StillSaid
  <2> QED BY <1>1, <1>2, <1>3, <1>4, <2>3, <2>4 DEF IInv
<1>10. CASE \E m \in Locator!Message : Tells(t, c, m)
  <2>1. PICK m \in Locator!Message : Tells(t, c, m) BY <1>10
  <2>2. /\ inbox' = Append(inbox, m) /\ m.type \in {"add", "delete"} /\ m.block = c
        /\ m.domain = domain[Locator!Host(t)] /\ (m.type = "add" <=> Present(Locator!Host(t), c)')
    BY <2>1 DEF Tells
  <2>3. InboxSound'
    <3>1. MessageSound(m)' BY <1>h, <1>u, <2>2 DEF MessageSound, Told
    <3>2. ASSUME NEW i \in DOMAIN inbox PROVE InOrder(inbox[i], m)
      <4>1. MessageSound(inbox[i]) BY DEF IInv, InboxSound
      <4> QED BY <1>u, <2>2, <4>1 DEF InOrder, MessageSound
    <3> QED BY <1>5, <1>i, <2>2, <3>1, <3>2, SoundSent DEF IInv
  <2>4. ToldSound'
    <3> SUFFICES ASSUME NEW h \in Hosts, NEW e \in Locator!Blocks, domain'[h] # 0
                 PROVE  Says(domain[h], e, Present(h, e))'
      BY DEF ToldSound
    <3>1. CASE h = Locator!Host(t) /\ e = c
      <4>1. About(m, domain[h], e) BY <2>2, <3>1 DEF About, Told
      <4> QED BY <1>i, <1>u, <2>2, <3>1, <4>1, NowSaid
    <3>2. CASE h # Locator!Host(t) \/ e # c
      <4>1. Present(h, e)' <=> Present(h, e) BY <1>6, <3>2
      <4>2. Says(domain[h], e, Present(h, e)) BY <1>7, <1>u
      <4>3. h # Locator!Host(t) => domain[h] # domain[Locator!Host(t)] BY <1>h, OneHost
      <4>4. ~About(m, domain[h], e) BY <2>2, <3>2, <4>3 DEF About, Told
      <4> QED BY <1>i, <1>u, <2>2, <4>1, <4>2, <4>4, StillSaid
    <3> QED BY <3>1, <3>2
  <2> QED BY <1>1, <1>2, <1>3, <1>4, <2>3, <2>4 DEF IInv
<1> QED BY <1>8, <1>9, <1>10

\* A thread at work has a block, which another thread may be creating, and
\* then it evicts it.
LEMMA AtWork ==
    ASSUME Locator!BlockLocatorAssumption, IInv, NEW t \in Locator!Threads, pc[t] # "idle"
    PROVE  /\ block[t] \in Locator!Blocks /\ Locator!Host(t) \in up /\ Locator!Host(t) \in Hosts /\ ThreadSound(t)
           /\ domain[Locator!Host(t)] \in Locator!Domains
           /\ \A u \in Locator!Threads : u # t /\ Locator!Host(u) = Locator!Host(t) /\ block[u] = block[t] =>
                IF pc[t] = "announce" THEN pc[u] \in {"delete", "erase"}
                ELSE pc[u] = "announce" /\ pc[t] \in {"delete", "erase"}
<1>1. ThreadSound(t) BY DEF IInv, ThreadsSound
<1>2. block[t] # Locator!None /\ Locator!Host(t) \in up BY <1>1 DEF ThreadSound
<1>3. block[t] \in Locator!Blocks BY <1>2 DEF IInv, Locator!TypeOK
<1>4. Locator!Host(t) \in Hosts /\ domain[Locator!Host(t)] \in Locator!Domains BY <1>2, OneHost
<1>p. \A u \in Locator!Threads : pc[u] \in {"idle", "announce", "wait", "pull", "disk", "insert", "failed", "delete", "erase"}
  BY DEF IInv, Locator!TypeOK
<1>5. ASSUME NEW u \in Locator!Threads, u # t, Locator!Host(u) = Locator!Host(t), block[u] = block[t]
      PROVE  IF pc[t] = "announce" THEN pc[u] \in {"delete", "erase"}
             ELSE pc[u] = "announce" /\ pc[t] \in {"delete", "erase"}
  <2>1. ThreadSound(u) BY DEF IInv, ThreadsSound
  <2>2. ~(pc[t] = "announce" <=> pc[u] = "announce") BY <1>2, <1>5 DEF IInv, ThreadsSound
  <2>3. CASE pc[t] = "announce"
    <3>1. block[u] \notin known BY <1>1, <1>5, <2>3 DEF ThreadSound
    <3> QED BY <1>2, <1>5, <1>p, <2>1, <2>2, <2>3, <3>1 DEF ThreadSound
  <2>4. CASE pc[u] = "announce"
    <3>1. block[t] \notin known BY <1>5, <2>1, <2>4 DEF ThreadSound
    <3> QED BY <1>p, <2>2, <2>4, <1>1, <1>2, <3>1 DEF ThreadSound
  <2> QED BY <2>2, <2>3, <2>4
<1> QED BY <1>1, <1>2, <1>3, <1>4, <1>5

\* A block that is known is not being created.
LEMMA NotCreated ==
    ASSUME Locator!BlockLocatorAssumption, IInv, NEW c \in known
    PROVE  \A u \in Locator!Threads : ~Creates(u, c)
BY DEF IInv, ThreadsSound, ThreadSound, Creates

\* A message of a thread.
LEMMA LocationMessage ==
    ASSUME NEW type \in {"add", "delete"}, NEW c \in Locator!Blocks, NEW d \in Locator!Domains
    PROVE  LET m == [type |-> type, block |-> c, domain |-> d]
           IN  m \in Locator!Message /\ m.type = type /\ m.block = c /\ m.domain = d
BY DEF Locator!Message

LEMMA Tell ==
    ASSUME Locator!BlockLocatorAssumption, IInv, NEW t \in Locator!Threads, pc[t] # "idle", NEW type \in {"add", "delete"},
           Locator!sendBlockLocation(type, t)
    PROVE  \E m \in Locator!Message : /\ m.type = type /\ m.block = block[t] /\ m.domain = domain[Locator!Host(t)]
                                      /\ inbox' = Append(inbox, m) /\ inbox' \in Seq(Locator!Message)
<1> DEFINE m == [type |-> type, block |-> block[t], domain |-> domain[Locator!Host(t)]]
<1>1. block[t] \in Locator!Blocks /\ domain[Locator!Host(t)] \in Locator!Domains BY AtWork
<1>2. m \in Locator!Message /\ m.type = type /\ m.block = block[t] /\ m.domain = domain[Locator!Host(t)]
  BY <1>1, LocationMessage
<1>3. inbox' = Append(inbox, m) BY DEF Locator!sendBlockLocation, Locator!Send
<1>4. inbox \in Seq(Locator!Message) BY DEF IInv, Locator!TypeOK
<1> HIDE DEF m
<1>5. inbox' \in Seq(Locator!Message) BY <1>2, <1>3, <1>4, Mailed
<1> QED BY <1>2, <1>3, <1>5

\* A thread that loads a block goes on.
LEMMA Moves ==
    ASSUME Locator!BlockLocatorAssumption, IInv, NEW t \in Locator!Threads, NEW to,
           UNCHANGED <<Locator!locator, Locator!hosts, loaded, disk, known, block, late, dropped>>, pc' = [pc EXCEPT ![t] = to],
           crossed' \subseteq Locator!Threads, peers' \in [Locator!Threads -> SUBSET (Hosts \cup {Locator!NoHost})],
           AnswersSound', \A h \in Hosts : domain[h] = 0 => answers'[h] = answers[h],
           \/ pc[t] \in {"wait", "pull", "disk"} /\ to \in {"pull", "disk", "failed"} /\ UNCHANGED inbox
           \/ pc[t] \in {"pull", "disk"} /\ to = "insert" /\ Locator!sendBlockLocation("add", t)
    PROVE  IInv'
<1>0. pc[t] # "idle" /\ pc[t] \in {"wait", "pull", "disk"} OBVIOUS
<1>c. PICK c : c = block[t] OBVIOUS
<1>1. /\ c \in Locator!Blocks /\ Locator!Host(t) \in up /\ Locator!Host(t) \in Hosts /\ ThreadSound(t)
      /\ \A u \in Locator!Threads : u # t /\ Locator!Host(u) = Locator!Host(t) => block[u] # c
  BY <1>0, <1>c, AtWork
<1>2. UNCHANGED <<block_domain, domain_network_addresses, block_locations, domain_blocks, domain, up>>
  BY DEF Locator!locator, Locator!hosts
<1>3. pc'[t] = to /\ \A u \in Locator!Threads : u # t => pc'[u] = pc[u] BY DEF IInv, Locator!TypeOK
<1>4. block'[t] = c /\ block[t] = c /\ c \in known /\ c \notin loaded[Locator!Host(t)]
  BY <1>0, <1>1, <1>c DEF ThreadSound
<1>5. Frame(t, c) BY <1>1, <1>2, <1>3, <1>4 DEF Frame
<1>6. inbox' \in Seq(Locator!Message)
  <2>1. CASE UNCHANGED inbox BY <2>1 DEF IInv, Locator!TypeOK
  <2>2. CASE Locator!sendBlockLocation("add", t) BY <1>0, <2>2, Tell
  <2> QED BY <2>1, <2>2
<1>7. Locator!TypeOK'
  <2>1. pc' \in [Locator!Threads -> {"idle", "announce", "wait", "pull", "disk", "insert", "failed", "delete", "erase"}]
    BY DEF IInv, Locator!TypeOK
  <2> QED BY <1>2, <1>6, <2>1 DEF IInv, Locator!TypeOK
<1>8. ThreadSound(t)' BY <1>0, <1>1, <1>2, <1>3, <1>4 DEF ThreadSound, Locator!Host
<1>9. HeldSound(Locator!Host(t), c)'
  <2>1. HeldSound(Locator!Host(t), c) BY <1>1, Held
  <2>2. \A u \in Locator!Threads : Locator!Host(u) = Locator!Host(t) /\ block'[u] = c => u = t BY <1>1
  <2> QED BY <1>2, <1>3, <1>4, <1>8, <2>1, <2>2 DEF HeldSound, Locator!Host, Creates
<1>10. Present(Locator!Host(t), c) <=> c[1] = domain[Locator!Host(t)] /\ c \in late
  <2>1. \A u \in Locator!Threads : Locator!Host(u) = Locator!Host(t) => ~Creates(u, c)
    BY <1>0, <1>1, <1>4 DEF Creates
  <2> QED BY <1>0, <1>1, <1>4, <2>1 DEF Present
<1>11. Present(Locator!Host(t), c)' <=> (c[1] = domain[Locator!Host(t)] /\ c \in late) \/ to = "insert"
  <2>1. \A u \in Locator!Threads : Locator!Host(u) = Locator!Host(t) /\ block'[u] = c => u = t BY <1>1
  <2>2. to # "announce" /\ to # "delete" OBVIOUS
  <2> QED BY <1>1, <1>2, <1>3, <1>4, <2>1, <2>2 DEF Present, Creates, Locator!Host
<1>12. CASE UNCHANGED inbox /\ to \in {"pull", "disk", "failed"}
  <2>1. UNCHANGED inbox /\ (Present(Locator!Host(t), c)' <=> Present(Locator!Host(t), c)) BY <1>10, <1>11, <1>12
  <2> QED BY <1>1, <1>5, <1>7, <1>8, <1>9, <2>1, Worked
<1>13. CASE to = "insert" /\ Locator!sendBlockLocation("add", t)
  <2>1. PICK m \in Locator!Message : /\ m.type = "add" /\ m.block = c /\ m.domain = domain[Locator!Host(t)]
                                     /\ inbox' = Append(inbox, m)
    BY <1>0, <1>c, <1>13, Tell
  <2>2. Tells(t, c, m) BY <1>11, <1>13, <2>1 DEF Tells
  <2> QED BY <1>1, <1>5, <1>7, <1>8, <1>9, <2>2, Worked
<1> QED BY <1>12, <1>13

\* A thread tells that it evicts a block, which may not have been announced.
LEMMA Evicts ==
    ASSUME Locator!BlockLocatorAssumption, IInv, NEW t \in Locator!Threads, Locator!evictBlock(t)
    PROVE  IInv'
<1>c. PICK c : c = block[t] OBVIOUS
<1>0. /\ pc[t] = "delete" /\ pc[t] # "idle" /\ pc' = [pc EXCEPT ![t] = "erase"] /\ Locator!sendBlockLocation("delete", t)
      /\ late' = IF \E u \in Locator!Threads : pc[u] = "announce" /\ block[u] = c THEN late \cup {c}
                 ELSE IF c[1] = domain[Locator!Host(t)] THEN late \ {c} ELSE late
      /\ UNCHANGED <<block_domain, domain_network_addresses, block_locations, domain_blocks, domain, up>>
      /\ UNCHANGED <<Locator!hosts, answers, loaded, disk, known, block, peers, dropped, crossed>>
  BY <1>c DEF Locator!evictBlock, Locator!Go, Locator!locator, Locator!hosts
<1>1. /\ c \in Locator!Blocks /\ Locator!Host(t) \in up /\ Locator!Host(t) \in Hosts /\ ThreadSound(t)
      /\ \A u \in Locator!Threads : u # t /\ Locator!Host(u) = Locator!Host(t) /\ block[u] = c => pc[u] = "announce"
  BY <1>0, <1>c, AtWork
<1>2. HeldSound(Locator!Host(t), c) BY <1>1, Held
<1>3. pc'[t] = "erase" /\ \A u \in Locator!Threads : u # t => pc'[u] = pc[u] BY <1>0 DEF IInv, Locator!TypeOK
<1>4. block[t] = c /\ block'[t] = c /\ c \in loaded[Locator!Host(t)] /\ (c[1] = domain[Locator!Host(t)] => c \in disk)
  BY <1>0, <1>1, <1>c DEF ThreadSound
<1>5. ASSUME NEW u \in Locator!Threads, Creates(u, c) PROVE Locator!Host(u) = Locator!Host(t) /\ c[1] = domain[Locator!Host(t)] /\ c \notin known
  <2>1. c \notin known BY <1>1, <1>5, Creator
  <2>2. PICK v \in Locator!Threads : Locator!Host(v) = Locator!Host(t) /\ Creates(v, c)
    BY <1>2, <1>4, <2>1 DEF HeldSound
  <2>3. v = u BY <1>1, <1>5, <2>2, Creator
  <2> QED BY <1>1, <1>5, <2>1, <2>2, <2>3, Creator
<1>6. /\ c \in late' => (c[1] # domain[Locator!Host(t)] /\ c \in late) \/ \E u \in Locator!Threads : Creates(u, c)
      /\ (\E u \in Locator!Threads : Creates(u, c)) => c \in late'
      /\ \A b \in Locator!Blocks : b # c \/ c[1] # domain[Locator!Host(t)] => (b \in late' <=> b \in late)
      /\ late' \subseteq Locator!Blocks
  <2>0. late \subseteq Locator!Blocks BY DEF IInv, Locator!TypeOK
  <2>1. CASE \E u \in Locator!Threads : Creates(u, c)
    <3>1. late' = late \cup {c} /\ c[1] = domain[Locator!Host(t)] BY <1>0, <1>5, <2>1 DEF Creates
    <3> QED BY <1>1, <2>0, <2>1, <3>1
  <2>2. CASE ~ \E u \in Locator!Threads : Creates(u, c)
    <3>1. late' = IF c[1] = domain[Locator!Host(t)] THEN late \ {c} ELSE late BY <1>0, <2>2 DEF Creates
    <3> QED BY <2>0, <2>2, <3>1
  <2> QED BY <2>1, <2>2
<1>7. Frame(t, c) BY <1>0, <1>1, <1>3, <1>4, <1>6 DEF Frame
<1>8. PICK m \in Locator!Message : /\ m.type = "delete" /\ m.block = c /\ m.domain = domain[Locator!Host(t)]
                                   /\ inbox' = Append(inbox, m) /\ inbox' \in Seq(Locator!Message)
  BY <1>0, <1>c, Tell
<1>9. Locator!TypeOK'
  <2>1. pc' \in [Locator!Threads -> {"idle", "announce", "wait", "pull", "disk", "insert", "failed", "delete", "erase"}]
    BY <1>0 DEF IInv, Locator!TypeOK
  <2> QED BY <1>0, <1>6, <1>8, <2>1 DEF IInv, Locator!TypeOK
<1>10. AnswersSound' BY <1>0 DEF IInv, AnswersSound
<1>11. ThreadSound(t)' BY <1>0, <1>1, <1>3, <1>4 DEF ThreadSound, Locator!Host
<1>12. \A u \in Locator!Threads : Creates(u, c)' <=> Creates(u, c) BY <1>0, <1>3 DEF Creates
<1>13. HeldSound(Locator!Host(t), c)'
  <2>1. ASSUME NEW u \in Locator!Threads, u # t, Locator!Host(u) = Locator!Host(t), block[u] = c
        PROVE  ThreadSound(u)' /\ pc'[u] = "announce" /\ Creates(u, c)
    <3>1. pc[u] = "announce" /\ Creates(u, c) BY <1>1, <2>1 DEF Creates
    <3>2. ThreadSound(u) BY DEF IInv, ThreadsSound
    <3>3. c \in late' BY <1>6, <3>1
    <3> QED BY <1>0, <1>3, <2>1, <3>1, <3>2, <3>3 DEF ThreadSound, Locator!Host
  <2>2. c \in late' => c \in disk' /\ (c \in known' \/ \E u \in Locator!Threads : Creates(u, c)')
    BY <1>0, <1>2, <1>4, <1>5, <1>6, <1>12 DEF HeldSound
  <2>3. \A u, v \in Locator!Threads : /\ Locator!Host(u) = Locator!Host(t) /\ Locator!Host(v) = Locator!Host(t) /\ block[u] = c /\ block[v] = c
                                      /\ (pc'[u] = "announce" <=> pc'[v] = "announce")
            => u = v
    BY <1>2, <1>3, <1>4, <2>1, <1>0 DEF HeldSound
  <2>4. \A u \in Locator!Threads : Locator!Host(u) = Locator!Host(t) /\ block[u] = c => ThreadSound(u)'
    BY <1>11, <2>1
  <2>5. \A u \in Locator!Threads : Locator!Host(u) = Locator!Host(t) /\ block[u] = c /\ pc'[u] = "announce" => c \in late'
    BY <1>3, <1>6, <2>1
  <2> QED BY <1>0, <1>2, <1>12, <2>2, <2>3, <2>4, <2>5 DEF HeldSound, Locator!Host
<1>14. ~Present(Locator!Host(t), c)'
  <2> SUFFICES ASSUME \A u \in Locator!Threads : Locator!Host(u) = Locator!Host(t) => ~Creates(u, c)'
               PROVE  /\ ~(c[1] = domain'[Locator!Host(t)] /\ c \in late')
                      /\ ~(\A u \in Locator!Threads : Locator!Host(u) = Locator!Host(t) => block'[u] # c)
                      /\ ~ \E u \in Locator!Threads : Locator!Host(u) = Locator!Host(t) /\ block'[u] = c /\ pc'[u] \in {"insert", "delete"}
    BY DEF Present, Locator!Host
  <2>1. \A u \in Locator!Threads : ~Creates(u, c) BY <1>5, <1>12
  <2>2. \A u \in Locator!Threads : Locator!Host(u) = Locator!Host(t) /\ block[u] = c => u = t
    BY <1>1, <2>1 DEF Creates
  <2> QED BY <1>0, <1>3, <1>4, <1>6, <2>1, <2>2
<1>15. Tells(t, c, m) BY <1>8, <1>14 DEF Tells
<1> QED BY <1>0, <1>1, <1>7, <1>9, <1>10, <1>11, <1>13, <1>15, Worked

LEMMA Pulls ==
    ASSUME Locator!BlockLocatorAssumption, IInv, NEW t \in Locator!Threads, Locator!receivePeers(t) \/ Locator!pull(t) \/ Locator!readBlock(t)
    PROVE  IInv'
<1>p. peers \in [Locator!Threads -> SUBSET (Hosts \cup {Locator!NoHost})] /\ crossed \subseteq Locator!Threads
  BY DEF IInv, Locator!TypeOK
<1>1. CASE Locator!receivePeers(t)
  <2>1. /\ pc[t] = "wait" /\ pc' = [pc EXCEPT ![t] = "pull"] /\ answers[Locator!Host(t)] # <<>>
        /\ peers' = [peers EXCEPT ![t] = Head(answers[Locator!Host(t)])[2]]
        /\ crossed' \subseteq Locator!Threads
        /\ answers' = [answers EXCEPT ![Locator!Host(t)] = Tail(@)]
        /\ UNCHANGED <<Locator!locator, Locator!hosts, inbox, loaded, disk, known, block, late, dropped>>
    BY <1>1, <1>p DEF Locator!receivePeers, Locator!Go
  <2>2. Locator!Host(t) \in Hosts /\ Locator!Host(t) \in up /\ domain[Locator!Host(t)] # 0 /\ UNCHANGED domain
    BY <2>1, AtWork, OneHost DEF Locator!hosts
  <2>3. answers[Locator!Host(t)] \in Seq(Located) /\ answers \in [Hosts -> Seq(Answer)]
    BY <2>2 DEF IInv, AnswersSound
  <2> DEFINE s == answers[Locator!Host(t)]
  <2>4. Head(s) \in Located /\ Tail(s) \in Seq(Located) BY <2>1, <2>3, HeadTailProperties
  <2>5. Tail(s) \in Seq(Answer)
    <3>1. s \in Seq(Answer) /\ s # <<>> BY <2>1, <2>2, <2>3
    <3> HIDE DEF s
    <3> QED BY <3>1, HeadTailProperties
  <2>6. answers' = [answers EXCEPT ![Locator!Host(t)] = Tail(s)] BY <2>1
  <2>a. Head(s)[2] \in SUBSET (Hosts \cup {Locator!NoHost}) BY <2>4 DEF Located
  <2>7. peers' \in [Locator!Threads -> SUBSET (Hosts \cup {Locator!NoHost})] BY <1>p, <2>1, <2>a
  <2> HIDE DEF s
  <2>8. /\ answers' \in [Hosts -> Seq(Answer)] /\ answers'[Locator!Host(t)] = Tail(s)
        /\ \A h \in Hosts : h # Locator!Host(t) => answers'[h] = answers[h]
    BY <2>2, <2>3, <2>5, <2>6
  <2>9. AnswersSound' BY <2>2, <2>4, <2>8 DEF IInv, AnswersSound
  <2> QED BY <2>1, <2>2, <2>7, <2>8, <2>9, Moves
<1>2. ASSUME UNCHANGED <<Locator!locator, Locator!hosts, answers>>
      PROVE  AnswersSound' /\ \A h \in Hosts : domain[h] = 0 => answers'[h] = answers[h]
  <2>1. UNCHANGED <<domain, answers>> BY <1>2 DEF Locator!hosts
  <2> QED BY <2>1 DEF IInv, AnswersSound
<1>3. CASE Locator!pull(t)
  <2>1. pc[t] = "pull" /\ UNCHANGED <<Locator!locator, answers, Locator!hosts, loaded, disk, known, block, late, dropped, crossed>>
    BY <1>3 DEF Locator!pull, Locator!history
  <2>2. AnswersSound' /\ \A h \in Hosts : domain[h] = 0 => answers'[h] = answers[h] BY <1>2, <2>1
  <2>3. CASE pc' = [pc EXCEPT ![t] = "disk"] /\ UNCHANGED <<inbox, peers>> BY <1>p, <2>1, <2>2, <2>3, Moves
  <2>4. CASE /\ pc' = [pc EXCEPT ![t] = "insert"] /\ Locator!sendBlockLocation("add", t)
             /\ peers' = [peers EXCEPT ![t] = {}]
    <3>1. peers' \in [Locator!Threads -> SUBSET (Hosts \cup {Locator!NoHost})] BY <1>p, <2>4
    <3> QED BY <1>p, <2>1, <2>2, <2>4, <3>1, Moves
  <2>5. CASE \E h \in peers[t] : peers' = [peers EXCEPT ![t] = @ \ {h}] /\ UNCHANGED <<pc, inbox>>
    <3>1. peers' \in [Locator!Threads -> SUBSET (Hosts \cup {Locator!NoHost})] BY <1>p, <2>5
    <3>2. pc' = [pc EXCEPT ![t] = "pull"] BY <2>1, <2>5 DEF IInv, Locator!TypeOK
    <3> QED BY <1>p, <2>1, <2>2, <2>5, <3>1, <3>2, Moves
  <2> QED BY <1>3, <2>3, <2>4, <2>5 DEF Locator!pull, Locator!Go
<1>4. CASE Locator!readBlock(t)
  <2>1. /\ pc[t] = "disk"
        /\ UNCHANGED <<Locator!locator, answers, Locator!hosts, loaded, disk, known, block, peers, late, dropped, crossed>>
    BY <1>4 DEF Locator!readBlock, Locator!Go, Locator!history
  <2>2. AnswersSound' /\ \A h \in Hosts : domain[h] = 0 => answers'[h] = answers[h] BY <1>2, <2>1
  <2>3. CASE pc' = [pc EXCEPT ![t] = "insert"] /\ Locator!sendBlockLocation("add", t)
    BY <1>p, <2>1, <2>2, <2>3, Moves
  <2>4. CASE pc' = [pc EXCEPT ![t] = "failed"] /\ UNCHANGED inbox BY <1>p, <2>1, <2>2, <2>4, Moves
  <2> QED BY <1>4, <2>3, <2>4 DEF Locator!readBlock, Locator!Go
<1> QED BY <1>1, <1>3, <1>4

\* A thread takes a block or is done with it: what changes.
LEMMA TakesOrLeaves ==
    ASSUME Locator!BlockLocatorAssumption, IInv, NEW t \in Locator!Threads, NEW c \in Locator!Blocks, NEW to, NEW mine \in {c, Locator!None},
           UNCHANGED <<Locator!locator, Locator!hosts, answers, peers, late, dropped>>, Locator!Host(t) \in up, block[t] \in {c, Locator!None},
           pc' = [pc EXCEPT ![t] = to], block' = [block EXCEPT ![t] = mine],
           to \in {"idle", "announce", "wait", "disk", "delete"}, crossed' \subseteq Locator!Threads,
           \/ UNCHANGED loaded
           \/ loaded' = [loaded EXCEPT ![Locator!Host(t)] = @ \cup {c}]
           \/ loaded' = [loaded EXCEPT ![Locator!Host(t)] = @ \ {c}],
           disk \subseteq disk', disk' \subseteq disk \cup {c},
           known' = known \/ (known' = known \cup {c} /\ Creates(t, c)), inbox' \in Seq(Locator!Message)
    PROVE  /\ Frame(t, c) /\ Locator!TypeOK' /\ AnswersSound' /\ Locator!Host(t) \in Hosts
           /\ UNCHANGED <<domain, up>>
           /\ pc'[t] = to /\ block'[t] = mine
           /\ \A u \in Locator!Threads : u # t => pc'[u] = pc[u] /\ block'[u] = block[u]
<1>1. UNCHANGED <<block_domain, domain_network_addresses, block_locations, domain_blocks, domain, up>>
  BY DEF Locator!locator, Locator!hosts
<1>2. pc'[t] = to /\ block'[t] = mine /\ \A u \in Locator!Threads : u # t => pc'[u] = pc[u] /\ block'[u] = block[u]
  BY DEF IInv, Locator!TypeOK
<1>4. Locator!Host(t) \in Hosts BY Ids
<1>5. \A h \in Hosts, b \in Locator!Blocks : h # Locator!Host(t) \/ b # c => (b \in loaded'[h] <=> b \in loaded[h])
  <2>1. loaded \in [Hosts -> SUBSET Locator!Blocks] BY DEF IInv, Locator!TypeOK
  <2> QED BY <1>4, <2>1
<1>6. Frame(t, c) BY <1>1, <1>2, <1>5 DEF Frame
<1>7. Locator!TypeOK'
  <2>1. pc' \in [Locator!Threads -> {"idle", "announce", "wait", "pull", "disk", "insert", "failed", "delete", "erase"}]
    BY DEF IInv, Locator!TypeOK
  <2>2. block' \in [Locator!Threads -> Locator!Blocks \cup {Locator!None}] BY DEF IInv, Locator!TypeOK
  <2>3. loaded' \in [Hosts -> SUBSET Locator!Blocks]
    <3>1. loaded \in [Hosts -> SUBSET Locator!Blocks] BY DEF IInv, Locator!TypeOK
    <3>2. \E S \in SUBSET Locator!Blocks : loaded' = loaded \/ loaded' = [loaded EXCEPT ![Locator!Host(t)] = S]
      <4>1. loaded[Locator!Host(t)] \cup {c} \in SUBSET Locator!Blocks /\ loaded[Locator!Host(t)] \ {c} \in SUBSET Locator!Blocks
        BY <1>4, <3>1
      <4> QED BY <4>1
    <3> QED BY <3>1, <3>2
  <2>4. disk' \subseteq Locator!Blocks /\ known' \subseteq Locator!Blocks BY DEF IInv, Locator!TypeOK
  <2> QED BY <1>1, <2>1, <2>2, <2>3, <2>4 DEF IInv, Locator!TypeOK
<1>8. AnswersSound' BY <1>1 DEF IInv, AnswersSound
<1> QED BY <1>1, <1>2, <1>4, <1>6, <1>7, <1>8

LEMMA IsCreated ==
    ASSUME Locator!BlockLocatorAssumption, IInv, NEW t \in Locator!Threads, Locator!createBlock(t)
    PROVE  IInv'
<1>1. PICK n \in (1 .. MaxBlocks[domain[Locator!Host(t)]]) \ Locator!Used(t) : block' = [block EXCEPT ![t] = <<domain[Locator!Host(t)], n>>]
  BY DEF Locator!createBlock
<1>c. PICK c : c = <<domain[Locator!Host(t)], n>> OBVIOUS
<1>2. /\ pc[t] = "idle" /\ pc' = [pc EXCEPT ![t] = "announce"] /\ Locator!Host(t) \in up
      /\ loaded' = [loaded EXCEPT ![Locator!Host(t)] = @ \cup {block'[t]}]
      /\ UNCHANGED <<Locator!locator, inbox, answers, Locator!hosts, disk, known, peers, late, dropped, crossed>>
  BY DEF Locator!createBlock, Locator!Go, Locator!history
<1>3. Locator!Host(t) \in Hosts /\ domain[Locator!Host(t)] \in Locator!Domains BY <1>2, OneHost
<1>4. c \in Locator!Blocks /\ c[1] = domain[Locator!Host(t)] BY <1>3, <1>c DEF Locator!Blocks
<1>6. c \notin known /\ c \notin loaded[Locator!Host(t)] /\ \A u \in Locator!Threads : block[u] # c
  BY <1>1, <1>c DEF Locator!Used
<1>7. block' = [block EXCEPT ![t] = c] /\ block'[t] = c BY <1>1, <1>c DEF IInv, Locator!TypeOK
<1>8. loaded' = [loaded EXCEPT ![Locator!Host(t)] = @ \cup {c}] /\ c \in loaded'[Locator!Host(t)]
  BY <1>2, <1>3, <1>7 DEF IInv, Locator!TypeOK
<1>9. c # Locator!None /\ block[t] = Locator!None BY <1>2, <1>4, Ids DEF IInv, ThreadsSound, ThreadSound
<1>l. c \notin late BY <1>6 DEF IInv, KnownSound, Creates
<1>i. inbox' \in Seq(Locator!Message) /\ crossed' \subseteq Locator!Threads BY <1>2 DEF IInv, Locator!TypeOK
<1>f. /\ Frame(t, c) /\ Locator!TypeOK' /\ AnswersSound' /\ UNCHANGED <<domain, up>> /\ pc'[t] = "announce" /\ block'[t] = c
      /\ \A u \in Locator!Threads : u # t => pc'[u] = pc[u] /\ block'[u] = block[u]
  BY <1>2, <1>4, <1>7, <1>8, <1>9, <1>i, TakesOrLeaves
<1>10. ThreadSound(t)' BY <1>2, <1>4, <1>6, <1>8, <1>9, <1>f DEF ThreadSound, Locator!Host
<1>t. \A u \in Locator!Threads : block'[u] = c => u = t BY <1>6, <1>f
<1>11. HeldSound(Locator!Host(t), c)'
  <2>1. Creates(t, c)' BY <1>f DEF Creates
  <2>2. c \notin late' /\ c \notin known' BY <1>2, <1>6, <1>l
  <2> QED BY <1>10, <1>f, <1>t, <2>1, <2>2 DEF HeldSound, Locator!Host
<1>12. ~Present(Locator!Host(t), c) BY <1>4, <1>6, <1>l DEF Present
<1>13. ~Present(Locator!Host(t), c)' BY <1>f DEF Present, Creates, Locator!Host
<1> QED BY <1>2, <1>4, <1>10, <1>11, <1>12, <1>13, <1>f, Worked

LEMMA Announces ==
    ASSUME Locator!BlockLocatorAssumption, IInv, NEW t \in Locator!Threads, Locator!announce(t)
    PROVE  IInv'
<1>c. PICK c : c = block[t] OBVIOUS
<1>1. /\ pc[t] = "announce" /\ pc[t] # "idle" /\ pc' = [pc EXCEPT ![t] = "idle"] /\ Locator!sendBlockLocation("add", t)
      /\ known' = known \cup {c} /\ block' = [block EXCEPT ![t] = Locator!None]
      /\ UNCHANGED <<Locator!locator, answers, Locator!hosts, loaded, disk, peers, late, dropped, crossed>>
  BY <1>c DEF Locator!announce, Locator!Go, Locator!history
<1>2. /\ c \in Locator!Blocks /\ Locator!Host(t) \in up /\ Locator!Host(t) \in Hosts /\ ThreadSound(t)
      /\ \A u \in Locator!Threads : u # t /\ Locator!Host(u) = Locator!Host(t) /\ block[u] = c => pc[u] \in {"delete", "erase"}
  BY <1>1, <1>c, AtWork
<1>3. PICK m \in Locator!Message : /\ m.type = "add" /\ m.block = c /\ m.domain = domain[Locator!Host(t)]
                                  /\ inbox' = Append(inbox, m) /\ inbox' \in Seq(Locator!Message)
  BY <1>1, <1>c, Tell
<1>4. c[1] = domain[Locator!Host(t)] /\ c \in late \cup loaded[Locator!Host(t)] /\ c # Locator!None /\ Creates(t, c)
  BY <1>1, <1>2, <1>c, Ids DEF ThreadSound, Creates
<1>5. /\ \A h \in Hosts : domain[h] = c[1] => h = Locator!Host(t)
      /\ \A u \in Locator!Threads : Creates(u, c) => u = t
  BY <1>2, <1>4, Creator
<1>i. crossed' \subseteq Locator!Threads BY <1>1 DEF IInv, Locator!TypeOK
<1>f. /\ Frame(t, c) /\ Locator!TypeOK' /\ AnswersSound' /\ UNCHANGED <<domain, up>> /\ pc'[t] = "idle" /\ block'[t] = Locator!None
      /\ \A u \in Locator!Threads : u # t => pc'[u] = pc[u] /\ block'[u] = block[u]
  BY <1>1, <1>2, <1>3, <1>4, <1>c, <1>i, TakesOrLeaves
<1>6. ThreadSound(t)' BY <1>f DEF ThreadSound
<1>h. HeldSound(Locator!Host(t), c) BY <1>2, Held
<1>t. \A u \in Locator!Threads : Locator!Host(u) = Locator!Host(t) /\ block'[u] = c => u # t /\ block[u] = c /\ pc'[u] = pc[u] /\ pc[u] \in {"delete", "erase"}
  BY <1>2, <1>4, <1>f
<1>7. HeldSound(Locator!Host(t), c)'
  <2>1. ASSUME NEW u \in Locator!Threads, Locator!Host(u) = Locator!Host(t), block'[u] = c PROVE ThreadSound(u)'
    <3>1. ThreadSound(u) BY DEF IInv, ThreadsSound
    <3> QED BY <1>1, <1>4, <1>f, <1>t, <2>1, <3>1 DEF ThreadSound, Locator!Host
  <2>2. \A u, v \in Locator!Threads : Locator!Host(u) = Locator!Host(t) /\ Locator!Host(v) = Locator!Host(t) /\ block'[u] = c /\ block'[v] = c => u = v
    BY <1>h, <1>t DEF HeldSound
  <2>3. c \in known' BY <1>1
  <2>4. c \in late => c \in disk BY <1>h DEF HeldSound
  <2>5. /\ \E k \in Hosts : domain'[k] = c[1]
        /\ \A k \in Hosts : domain'[k] = c[1] => c \in disk' \cup dropped' \cup loaded'[k]
    BY <1>1, <1>2, <1>4, <1>5, <1>f, <2>4
  <2>6. \A u \in Locator!Threads : Locator!Host(u) = Locator!Host(t) /\ block'[u] = c => pc'[u] # "announce"
    BY <1>t
  <2> QED BY <1>1, <2>1, <2>2, <2>3, <2>4, <2>5, <2>6 DEF HeldSound, Locator!Host
<1>8. Present(Locator!Host(t), c)'
  <2>1. \A u \in Locator!Threads : Locator!Host(u) = Locator!Host(t) => ~Creates(u, c)' BY <1>t DEF Creates
  <2>2. CASE c \in late BY <1>1, <1>2, <1>4, <1>f, <2>1, <2>2 DEF Present, Locator!Host
  <2>3. CASE c \notin late /\ \A u \in Locator!Threads : Locator!Host(u) = Locator!Host(t) => block'[u] # c
    BY <1>1, <1>2, <1>4, <1>f, <2>1, <2>3 DEF Present, Locator!Host
  <2>4. ASSUME c \notin late, NEW u \in Locator!Threads, Locator!Host(u) = Locator!Host(t), block'[u] = c PROVE Present(Locator!Host(t), c)'
    <3>1. pc[u] # "erase" BY <1>1, <1>c, <1>h, <1>t, <2>4 DEF HeldSound
    <3>2. pc'[u] = "delete" BY <1>t, <2>4, <3>1
    <3> QED BY <1>2, <1>f, <2>1, <2>4, <3>2 DEF Present, Locator!Host
  <2> QED BY <2>2, <2>3, <2>4
<1>9. Tells(t, c, m) BY <1>3, <1>8 DEF Tells
<1> QED BY <1>1, <1>2, <1>6, <1>7, <1>9, <1>f, Worked

LEMMA Loads ==
    ASSUME Locator!BlockLocatorAssumption, IInv, NEW t \in Locator!Threads, NEW c \in Locator!Blocks, Locator!loadBlock(t, c)
    PROVE  IInv'
<1>1. /\ Locator!Host(t) \in up /\ c \in known /\ c \notin loaded[Locator!Host(t)] /\ Locator!Free(t, c)
      /\ block' = [block EXCEPT ![t] = c] /\ pc[t] = "idle" /\ crossed' = crossed \ {t}
      /\ \/ pc' = [pc EXCEPT ![t] = "disk"] /\ UNCHANGED inbox
         \/ /\ pc' = [pc EXCEPT ![t] = "wait"]
            /\ inbox' = Append(inbox, [type |-> "getPeers", host |-> Locator!Host(t), block |-> c])
      /\ UNCHANGED <<Locator!locator, answers, Locator!hosts, loaded, disk, known, peers, late, dropped>>
  BY DEF Locator!loadBlock, Locator!Go, Locator!Send
<1>2. \A u \in Locator!Threads : Locator!Host(u) = Locator!Host(t) => block[u] # c
  <2>1. \A u \in Locator!Threads : Locator!Host(u) = Locator!Host(t) /\ block[u] = c => Creates(u, c)
    BY <1>1 DEF Locator!Free, Creates
  <2> QED BY <1>1, <2>1, NotCreated
<1>3. PICK to \in {"disk", "wait"} : pc' = [pc EXCEPT ![t] = to] BY <1>1
<1>4. c # Locator!None /\ block[t] = Locator!None BY <1>1, Ids DEF IInv, ThreadsSound, ThreadSound
<1>5. inbox' \in Seq(Locator!Message) /\ crossed' \subseteq Locator!Threads
  <2>1. [type |-> "getPeers", host |-> Locator!Host(t), block |-> c] \in Locator!Message BY Ids DEF Locator!Message
  <2>2. inbox \in Seq(Locator!Message) /\ crossed \subseteq Locator!Threads BY DEF IInv, Locator!TypeOK
  <2> QED BY <1>1, <2>1, <2>2, Mailed
<1>f. /\ Frame(t, c) /\ Locator!TypeOK' /\ AnswersSound' /\ UNCHANGED <<domain, up>> /\ pc'[t] = to /\ block'[t] = c
      /\ Locator!Host(t) \in Hosts
      /\ \A u \in Locator!Threads : u # t => pc'[u] = pc[u] /\ block'[u] = block[u]
  BY <1>1, <1>3, <1>4, <1>5, TakesOrLeaves
<1>6. ThreadSound(t)' BY <1>1, <1>4, <1>f DEF ThreadSound, Locator!Host
<1>t. \A u \in Locator!Threads : Locator!Host(u) = Locator!Host(t) /\ block'[u] = c => u = t BY <1>2, <1>f
<1>7. HeldSound(Locator!Host(t), c)'
  <2>1. HeldSound(Locator!Host(t), c) BY <1>f, Held
  <2> QED BY <1>1, <1>6, <1>f, <1>t, <2>1 DEF HeldSound, Locator!Host
<1>8. Present(Locator!Host(t), c) <=> c[1] = domain[Locator!Host(t)] /\ c \in late
  BY <1>1, <1>2 DEF Present, Creates
<1>9. Present(Locator!Host(t), c)' <=> c[1] = domain[Locator!Host(t)] /\ c \in late
  <2>1. \A u \in Locator!Threads : Locator!Host(u) = Locator!Host(t) => ~Creates(u, c)' BY <1>f, <1>t DEF Creates
  <2> QED BY <1>1, <1>f, <1>t, <2>1 DEF Present, Locator!Host
<1>10. CASE UNCHANGED inbox BY <1>1, <1>6, <1>7, <1>8, <1>9, <1>10, <1>f, Worked
<1>11. CASE inbox' = Append(inbox, [type |-> "getPeers", host |-> Locator!Host(t), block |-> c])
  BY <1>1, <1>6, <1>7, <1>8, <1>9, <1>11, <1>f, Worked
<1> QED BY <1>1, <1>10, <1>11

LEMMA SavesVictim ==
    ASSUME Locator!BlockLocatorAssumption, IInv, NEW t \in Locator!Threads, NEW c \in Locator!Blocks, Locator!saveVictim(t, c)
    PROVE  IInv'
<1>1. /\ pc[t] = "idle" /\ pc' = [pc EXCEPT ![t] = "delete"]
      /\ c \in loaded[Locator!Host(t)] /\ Locator!Free(t, c) /\ block' = [block EXCEPT ![t] = c]
      /\ disk' \in IF c \in Locator!Unsaved(Locator!Host(t)) THEN {disk \cup {c}} ELSE {disk, disk \cup {c}}
      /\ UNCHANGED <<Locator!locator, inbox, answers, Locator!hosts, loaded, known, peers, late, dropped, crossed>>
  BY DEF Locator!saveVictim, Locator!Go, Locator!history
<1>2. \A u \in Locator!Threads : Locator!Host(u) = Locator!Host(t) /\ block[u] = c => pc[u] = "announce" /\ Creates(u, c)
  BY <1>1 DEF Locator!Free, Creates
<1>3. c # Locator!None /\ block[t] = Locator!None BY <1>1, Ids DEF IInv, ThreadsSound, ThreadSound
<1>4. Locator!Host(t) \in up BY <1>1, Ids DEF IInv, ThreadsSound
<1>5. disk \subseteq disk' /\ disk' \subseteq disk \cup {c} /\ (c[1] = domain[Locator!Host(t)] => c \in disk')
  BY <1>1 DEF Locator!Unsaved
<1>i. inbox' \in Seq(Locator!Message) /\ crossed' \subseteq Locator!Threads BY <1>1 DEF IInv, Locator!TypeOK
<1>f. /\ Frame(t, c) /\ Locator!TypeOK' /\ AnswersSound' /\ UNCHANGED <<domain, up>> /\ pc'[t] = "delete" /\ block'[t] = c
      /\ Locator!Host(t) \in Hosts
      /\ \A u \in Locator!Threads : u # t => pc'[u] = pc[u] /\ block'[u] = block[u]
  BY <1>1, <1>3, <1>4, <1>5, <1>i, TakesOrLeaves
<1>6. ThreadSound(t)' BY <1>1, <1>3, <1>4, <1>5, <1>f DEF ThreadSound, Locator!Host
<1>h. HeldSound(Locator!Host(t), c) BY <1>f, Held
<1>7. \A u \in Locator!Threads : Creates(u, c)' <=> Creates(u, c) BY <1>1, <1>f DEF Creates
<1>t. \A u \in Locator!Threads : Locator!Host(u) = Locator!Host(t) /\ block'[u] = c /\ u # t => block[u] = c /\ pc'[u] = "announce"
  BY <1>2, <1>f
<1>8. HeldSound(Locator!Host(t), c)'
  <2>1. ASSUME NEW u \in Locator!Threads, Locator!Host(u) = Locator!Host(t), block'[u] = c PROVE ThreadSound(u)'
    <3>1. CASE u = t BY <1>6, <3>1
    <3>2. CASE u # t
      <4>1. ThreadSound(u) BY DEF IInv, ThreadsSound
      <4> QED BY <1>1, <1>2, <1>f, <2>1, <3>2, <4>1 DEF ThreadSound, Locator!Host
    <3> QED BY <3>1, <3>2
  <2>2. \A u, v \in Locator!Threads : /\ Locator!Host(u) = Locator!Host(t) /\ Locator!Host(v) = Locator!Host(t) /\ block'[u] = c /\ block'[v] = c
                                      /\ (pc'[u] = "announce" <=> pc'[v] = "announce")
            => u = v
    BY <1>2, <1>f, <1>h, <1>t DEF HeldSound
  <2>3. \A u \in Locator!Threads : Locator!Host(u) = Locator!Host(t) /\ block'[u] = c => pc'[u] # "erase"
    BY <1>f, <1>t
  <2> QED BY <1>1, <1>5, <1>7, <1>f, <1>h, <2>1, <2>2, <2>3 DEF HeldSound, Locator!Host
<1>9. Present(Locator!Host(t), c) <=> \A u \in Locator!Threads : Locator!Host(u) = Locator!Host(t) => ~Creates(u, c)
  BY <1>1, <1>2, <1>4 DEF Present
<1>10. Present(Locator!Host(t), c)' <=> \A u \in Locator!Threads : Locator!Host(u) = Locator!Host(t) => ~Creates(u, c)
  BY <1>4, <1>7, <1>f DEF Present, Locator!Host
<1> QED BY <1>1, <1>6, <1>8, <1>9, <1>10, <1>f, Worked

LEMMA Saves ==
    ASSUME Locator!BlockLocatorAssumption, IInv, NEW t \in Locator!Threads, NEW c \in Locator!Blocks, Locator!saveBlockOrBlob(t, c)
    PROVE  IInv'
<1>1. /\ pc[t] = "idle" /\ c \in known /\ c \in loaded[Locator!Host(t)] /\ disk' = disk \cup {c}
      /\ UNCHANGED <<Locator!locator, inbox, answers, Locator!hosts, loaded, known, pc, block, peers, late, dropped, crossed>>
  BY DEF Locator!saveBlockOrBlob, Locator!history
<1>2. UNCHANGED <<block_domain, domain_network_addresses, block_locations, domain_blocks, domain, up>>
  BY <1>1 DEF Locator!locator, Locator!hosts
<1>3. ThreadSound(t) /\ block[t] = Locator!None /\ Locator!Host(t) \in Hosts
  BY <1>1, Ids DEF IInv, ThreadsSound, ThreadSound
<1>4. Locator!Host(t) \in up BY <1>1, <1>3 DEF IInv, ThreadsSound
<1>5. Frame(t, c) BY <1>1, <1>2, <1>3, <1>4 DEF Frame
<1>6. Locator!TypeOK' BY <1>1, <1>2 DEF IInv, Locator!TypeOK
<1>7. AnswersSound' BY <1>1, <1>2 DEF IInv, AnswersSound
<1>8. \A u \in Locator!Threads : ThreadSound(u)' BY <1>1, <1>2 DEF IInv, ThreadsSound, ThreadSound
<1>9. HeldSound(Locator!Host(t), c)'
  <2>1. HeldSound(Locator!Host(t), c) BY <1>3, Held
  <2> QED BY <1>1, <1>2, <1>8, <2>1 DEF HeldSound, Locator!Host, Creates
<1>10. Present(Locator!Host(t), c)' <=> Present(Locator!Host(t), c)
  BY <1>1, <1>2 DEF Present, Creates, Locator!Host
<1> QED BY <1>1, <1>5, <1>6, <1>7, <1>8, <1>9, <1>10, Worked

LEMMA Finishes ==
    ASSUME Locator!BlockLocatorAssumption, IInv, NEW t \in Locator!Threads, Locator!insertBlockHandleAfterLoad(t) \/ Locator!eraseBlock(t)
    PROVE  IInv'
<1>c. PICK c : c = block[t] OBVIOUS
<1>1. /\ pc[t] \in {"insert", "erase"} /\ pc' = [pc EXCEPT ![t] = "idle"]
      /\ block' = [block EXCEPT ![t] = Locator!None]
      /\ \/ pc[t] = "insert" /\ loaded' = [loaded EXCEPT ![Locator!Host(t)] = @ \cup {c}]
         \/ pc[t] = "erase" /\ loaded' = [loaded EXCEPT ![Locator!Host(t)] = @ \ {c}]
      /\ UNCHANGED <<Locator!locator, inbox, answers, Locator!hosts, disk, known, peers, late, dropped, crossed>>
  BY <1>c DEF Locator!insertBlockHandleAfterLoad, Locator!eraseBlock, Locator!Go, Locator!history
<1>2. /\ c \in Locator!Blocks /\ c # Locator!None /\ Locator!Host(t) \in up /\ Locator!Host(t) \in Hosts /\ ThreadSound(t)
      /\ \A u \in Locator!Threads : u # t /\ Locator!Host(u) = Locator!Host(t) /\ block[u] = c => pc[u] = "announce" /\ pc[t] = "erase"
  BY <1>1, <1>c, AtWork, Ids
<1>3. c \in loaded'[Locator!Host(t)] <=> pc[t] = "insert" BY <1>1, <1>2 DEF IInv, Locator!TypeOK
<1>i. inbox' \in Seq(Locator!Message) /\ crossed' \subseteq Locator!Threads BY <1>1 DEF IInv, Locator!TypeOK
<1>f. /\ Frame(t, c) /\ Locator!TypeOK' /\ AnswersSound' /\ UNCHANGED <<domain, up>> /\ pc'[t] = "idle" /\ block'[t] = Locator!None
      /\ \A u \in Locator!Threads : u # t => pc'[u] = pc[u] /\ block'[u] = block[u]
  BY <1>1, <1>2, <1>c, <1>i, TakesOrLeaves
<1>4. ThreadSound(t)' BY <1>f DEF ThreadSound
<1>h. HeldSound(Locator!Host(t), c) BY <1>2, Held
<1>t. \A u \in Locator!Threads : Locator!Host(u) = Locator!Host(t) /\ block'[u] = c => u # t /\ block[u] = c /\ pc'[u] = "announce" /\ pc[u] = "announce"
  BY <1>2, <1>f
<1>5. \A u \in Locator!Threads : Creates(u, c)' <=> Creates(u, c) BY <1>1, <1>2, <1>f DEF Creates
<1>6. CASE pc[t] = "insert"
  <2>1. c \in known BY <1>2, <1>6, <1>c DEF ThreadSound
  <2>2. \A u \in Locator!Threads : Locator!Host(u) = Locator!Host(t) => block'[u] # c BY <1>2, <1>6, <1>t
  <2>3. \A h \in Hosts : loaded[h] \subseteq loaded'[h] BY <1>1, <1>2, <1>6 DEF IInv, Locator!TypeOK
  <2>4. HeldSound(Locator!Host(t), c)'
    <3>1. c \in known' /\ (c \in late' => c \in disk') BY <1>1, <1>h, <2>1 DEF HeldSound
    <3>2. /\ \E k \in Hosts : domain'[k] = c[1]
          /\ \A k \in Hosts : domain'[k] = c[1] => c \in disk' \cup dropped' \cup loaded'[k]
      BY <1>1, <1>f, <1>h, <2>1, <2>3 DEF HeldSound
    <3> QED BY <2>2, <3>1, <3>2 DEF HeldSound, Locator!Host
  <2>5. \A u \in Locator!Threads : Locator!Host(u) = Locator!Host(t) => ~Creates(u, c) BY <2>1, NotCreated
  <2>6. Present(Locator!Host(t), c) BY <1>2, <1>6, <1>c, <2>5 DEF Present
  <2>7. Present(Locator!Host(t), c)' BY <1>2, <1>3, <1>5, <1>6, <1>f, <2>2, <2>5 DEF Present, Locator!Host
  <2> QED BY <1>1, <1>2, <1>4, <1>f, <2>4, <2>6, <2>7, Worked
<1>7. CASE pc[t] = "erase"
  <2>1. c[1] = domain[Locator!Host(t)] => c \in disk BY <1>2, <1>7, <1>c DEF ThreadSound
  <2>2. \A h \in Hosts : h # Locator!Host(t) => loaded'[h] = loaded[h] BY <1>1, <1>2, <1>7 DEF IInv, Locator!TypeOK
  <2>3. HeldSound(Locator!Host(t), c)'
    <3>1. ASSUME NEW u \in Locator!Threads, Locator!Host(u) = Locator!Host(t), block'[u] = c PROVE ThreadSound(u)'
      <4>1. ThreadSound(u) BY DEF IInv, ThreadsSound
      <4>2. c \in late BY <1>7, <1>c, <1>h, <1>t, <3>1 DEF HeldSound
      <4> QED BY <1>1, <1>f, <1>t, <3>1, <4>1, <4>2 DEF ThreadSound, Locator!Host
    <3>2. \A u, v \in Locator!Threads : Locator!Host(u) = Locator!Host(t) /\ Locator!Host(v) = Locator!Host(t) /\ block'[u] = c /\ block'[v] = c => u = v
      BY <1>h, <1>t DEF HeldSound
    <3>3. c \in known' => /\ \E k \in Hosts : domain'[k] = c[1]
                          /\ \A k \in Hosts : domain'[k] = c[1] => c \in disk' \cup dropped' \cup loaded'[k]
      BY <1>1, <1>f, <1>h, <2>1, <2>2 DEF HeldSound
    <3>4. \A u \in Locator!Threads : Locator!Host(u) = Locator!Host(t) /\ block'[u] = c => pc'[u] # "erase" BY <1>t
    <3>5. c \in late' => c \in disk' /\ (c \in known' \/ \E u \in Locator!Threads : Creates(u, c)')
      BY <1>1, <1>5, <1>h DEF HeldSound
    <3> QED BY <1>3, <1>7, <3>1, <3>2, <3>3, <3>4, <3>5 DEF HeldSound, Locator!Host
  <2>4. Present(Locator!Host(t), c) <=> /\ \A u \in Locator!Threads : Locator!Host(u) = Locator!Host(t) => ~Creates(u, c)
                                        /\ c[1] = domain[Locator!Host(t)] /\ c \in late
    <3>1. \A u \in Locator!Threads : Locator!Host(u) = Locator!Host(t) /\ block[u] = c => pc[u] \in {"erase", "announce"}
      BY <1>2, <1>7
    <3> QED BY <1>2, <1>c, <3>1 DEF Present
  <2>5. Present(Locator!Host(t), c)' <=> /\ \A u \in Locator!Threads : Locator!Host(u) = Locator!Host(t) => ~Creates(u, c)
                                         /\ c[1] = domain[Locator!Host(t)] /\ c \in late
    <3>1. \A u \in Locator!Threads : Locator!Host(u) = Locator!Host(t) /\ block'[u] = c => pc'[u] = "announce"
      BY <1>t
    <3> QED BY <1>1, <1>2, <1>3, <1>5, <1>7, <1>f, <3>1 DEF Present, Locator!Host
  <2> QED BY <1>1, <1>2, <1>4, <1>f, <2>3, <2>4, <2>5, Worked
<1> QED BY <1>1, <1>6, <1>7

LEMMA SameInv == ASSUME IInv, UNCHANGED Locator!vars PROVE IInv'
<1>1. UNCHANGED <<block_domain, domain_network_addresses, block_locations, domain_blocks, inbox, answers,
                  domain, up, loaded, disk, known, pc, block, peers, late, dropped, crossed>>
  BY DEF Locator!vars, Locator!locator, Locator!hosts, Locator!history
<1>2. Locator!TypeOK' /\ Locator!MapsMirror' /\ AnswersSound' /\ NothingElse'
  BY <1>1 DEF IInv, Locator!TypeOK, Locator!MapsMirror, AnswersSound, NothingElse
<1>3. DomainsSound' BY <1>1, SameDomains
<1>4. InboxSound' BY <1>1 DEF IInv, InboxSound, MessageSound
<1>5. UNCHANGED <<Locator!hosts, loaded, disk, known, pc, block, peers, late, dropped, crossed>>
  BY <1>1 DEF Locator!hosts
<1>6. ThreadsSound' /\ KnownSound' BY <1>5, HostsAlone
<1>7. ToldSound' BY <1>1 DEF IInv, ToldSound, Says, Present, Creates
<1> QED BY <1>2, <1>3, <1>4, <1>6, <1>7 DEF IInv

LEMMA StepInv ==
    ASSUME Locator!BlockLocatorAssumption, IInv, Locator!Next \/ UNCHANGED Locator!vars
    PROVE  IInv'
<1>1. CASE Locator!LocatorStep
  BY <1>1, Registers, Locates, AnswersPeers, Unregisters DEF Locator!LocatorStep
<1>2. CASE \E h \in Hosts : Locator!sendRegistration(h) \/ Locator!constructStorageManager(h) \/ Locator!destroyStorageManager(h)
  BY <1>2, AsksForDomain, Constructs, Destroys
<1>3. ASSUME NEW t \in Locator!Threads,
             \/ Locator!createBlock(t) \/ Locator!ThreadStep(t)
             \/ \E b \in Locator!Blocks : Locator!loadBlock(t, b) \/ Locator!saveBlockOrBlob(t, b) \/ Locator!saveVictim(t, b)
      PROVE  IInv'
  BY <1>3, IsCreated, Announces, Pulls, Evicts, Finishes, Loads, Saves, SavesVictim DEF Locator!ThreadStep
<1>4. CASE UNCHANGED Locator!vars BY <1>4, SameInv
<1> QED BY <1>1, <1>2, <1>3, <1>4 DEF Locator!Next

\* The locator is right about what is settled.
LEMMA InvAgree == ASSUME Locator!BlockLocatorAssumption, IInv PROVE Locator!LocationsAgree
<1> SUFFICES ASSUME NEW h \in Hosts, NEW b \in Locator!Blocks, domain[h] # 0,
                    ~ \E i \in DOMAIN inbox :
                        /\ inbox[i].type \in {"add", "delete", "unregister"}
                        /\ inbox[i].domain = domain[h]
                        /\ inbox[i].type # "unregister" => inbox[i].block = b,
                    \A t \in Locator!Threads : Locator!Host(t) = h => block[t] # b
             PROVE  /\ b \in loaded[h] => domain[h] \in block_locations[b]
                    /\ domain[h] \in block_locations[b] => b \in loaded[h] \/ (b[1] = domain[h] /\ b \in late)
  BY DEF Locator!LocationsAgree, Locator!AgreeBut
<1>1. \A i \in DOMAIN inbox : ~About(inbox[i], domain[h], b) BY DEF About, Told
<1>2. Says(domain[h], b, Present(h, b)) BY DEF IInv, ToldSound
<1>3. /\ b \in loaded[h] => Present(h, b)
      /\ Present(h, b) => b \in loaded[h] \/ (b[1] = domain[h] /\ b \in late)
  <2>1. b \in loaded[h] => h \in up BY DEF IInv, ThreadsSound
  <2> QED BY <2>1 DEF Present, Creates
<1> QED BY <1>1, <1>2, <1>3 DEF Says

-----------------------------------------------------------------------------
(* The blocks that are asked for *)

\* A block that is not saved is in the memory of its creator, where nobody is
\* at work on it.
LEMMA InMemory ==
    ASSUME Locator!BlockLocatorAssumption, IInv, NEW b \in known, ~Saved(b)
    PROVE  /\ \E k \in Hosts : domain[k] = b[1]
           /\ \A k \in Hosts : domain[k] = b[1] =>
                /\ k \in up /\ b \in loaded[k] /\ b \in Locator!Unsaved(k)
                /\ \A u \in Locator!Threads : Locator!Host(u) = k => block[u] # b
<1>1. b \in Locator!Blocks /\ b # Locator!None BY Ids DEF IInv, Locator!TypeOK
<1>2. /\ \E k \in Hosts : domain[k] = b[1]
      /\ \A k \in Hosts : domain[k] = b[1] => b \in loaded[k]
  BY DEF IInv, KnownSound, Saved
<1>3. \A k \in Hosts : b \in loaded[k] => k \in up BY DEF IInv, ThreadsSound
<1>4. ASSUME NEW k \in Hosts, domain[k] = b[1], b \in loaded[k], NEW u \in Locator!Threads, Locator!Host(u) = k, block[u] = b
      PROVE  FALSE
  <2>1. ThreadSound(u) BY DEF IInv, ThreadsSound
  <2>2. pc[u] \in {"idle", "announce", "wait", "pull", "disk", "insert", "failed", "delete", "erase"}
    BY DEF IInv, Locator!TypeOK
  <2>3. b \notin disk BY DEF Saved
  <2> QED BY <1>1, <1>4, <2>1, <2>2, <2>3 DEF ThreadSound
<1>5. \A k \in Hosts : domain[k] = b[1] => b \in Locator!Unsaved(k) BY <1>2 DEF Locator!Unsaved, Saved
<1> QED BY <1>2, <1>3, <1>4, <1>5

\* What is sent is not about such a block.
Quiet(m) == m.type # "getPeers" /\ \A b \in known : Saved(b) \/ Saved(b)' \/ ~About(m, b[1], b)

LEMMA Quietly ==
    ASSUME Locator!BlockLocatorAssumption, IInv, NEW t \in Locator!Threads, pc[t] # "idle", NEW type \in {"add", "delete"},
           Locator!sendBlockLocation(type, t)
    PROVE  \E m \in Locator!Message : inbox' = Append(inbox, m) /\ Quiet(m)
<1>1. block[t] \in Locator!Blocks /\ Locator!Host(t) \in Hosts /\ domain[Locator!Host(t)] \in Locator!Domains
  BY AtWork
<1>2. PICK m \in Locator!Message : /\ m.type = type /\ m.block = block[t] /\ m.domain = domain[Locator!Host(t)]
                                   /\ inbox' = Append(inbox, m)
  BY Tell
<1>4. ASSUME NEW b \in known, ~Saved(b), About(m, b[1], b) PROVE FALSE
  <2>1. domain[Locator!Host(t)] = b[1] /\ block[t] = b BY <1>2, <1>4 DEF About
  <2> QED BY <1>1, <1>4, <2>1, InMemory
<1> QED BY <1>2, <1>4 DEF Quiet

\* What is saved stays so, and a host keeps its domain.
Kept ==
    /\ known \subseteq known' /\ disk \subseteq disk' /\ dropped \subseteq dropped'
    /\ \A h \in Hosts : domain[h] # 0 => domain'[h] = domain[h]

LEMMA StillSafe ==
    ASSUME Locator!BlockLocatorAssumption, IInv, Kept
    PROVE  /\ \A b : Saved(b) => Saved(b)'
           /\ \A b \in Locator!Blocks : \A A : Safe(b, A) => Safe(b, A)'
           /\ \A b : \A A : b \in known /\ Safe(b, A) => b \in known' /\ Safe(b, A)'
<1>1. \A b : Saved(b) => Saved(b)' BY DEF Saved, Kept
<1>2. \A b \in Locator!Blocks : b[1] # 0 BY Ids
<1>3. \A b \in Locator!Blocks : \A A : Safe(b, A) => Safe(b, A)' BY <1>1, <1>2 DEF Safe, Kept
<1>4. known \subseteq Locator!Blocks BY DEF IInv, Locator!TypeOK
<1> QED BY <1>1, <1>3, <1>4 DEF Kept

\* Questions that stay where they are.
LEMMA QuestionsKept ==
    ASSUME Locator!BlockLocatorAssumption, IInv, PullsSound, Kept,
           UNCHANGED inbox \/ \E m \in Locator!Message : inbox' = Append(inbox, m) /\ Quiet(m)
    PROVE  \A i \in DOMAIN inbox' : inbox'[i].type = "getPeers" => QuestionSound(i)'
<1> SUFFICES ASSUME NEW i \in DOMAIN inbox', inbox'[i].type = "getPeers" PROVE QuestionSound(i)' OBVIOUS
<1>0. inbox \in Seq(Locator!Message) BY DEF IInv, Locator!TypeOK
<1>1. /\ i \in DOMAIN inbox /\ inbox'[i] = inbox[i]
      /\ \A j \in DOMAIN inbox' : \/ j \in DOMAIN inbox /\ inbox'[j] = inbox[j]
                                  \/ \A b \in known : Saved(b) \/ Saved(b)' \/ ~About(inbox'[j], b[1], b)
  <2>1. CASE UNCHANGED inbox BY <2>1
  <2>2. CASE \E m \in Locator!Message : inbox' = Append(inbox, m) /\ Quiet(m)
    <3>1. PICK m \in Locator!Message : inbox' = Append(inbox, m) /\ Quiet(m) BY <2>2
    <3>2. /\ DOMAIN inbox' = DOMAIN inbox \cup {Len(inbox) + 1}
          /\ \A j \in DOMAIN inbox : inbox'[j] = inbox[j]
          /\ inbox'[Len(inbox) + 1] = m
      BY <1>0, <3>1, Mailed
    <3> QED BY <3>1, <3>2 DEF Quiet
  <2> QED BY <2>1, <2>2
<1>2. PICK b : b = inbox[i].block OBVIOUS
<1>3. b \in known /\ (Saved(b) \/ \A j \in DOMAIN inbox : i < j => ~About(inbox[j], b[1], b))
  BY <1>1, <1>2 DEF PullsSound, QuestionSound
<1>4. inbox'[i].block = b /\ b \in known' BY <1>1, <1>2, <1>3 DEF Kept
<1>5. Saved(b)' \/ \A j \in DOMAIN inbox' : i < j => ~About(inbox'[j], b[1], b)
  <2>1. Saved(b) => Saved(b)' BY StillSafe
  <2> QED BY <1>1, <1>3, <2>1
<1> QED BY <1>4, <1>5 DEF QuestionSound, About, Told

\* Questions that are one place further.
LEMMA QuestionsShifted ==
    ASSUME Locator!BlockLocatorAssumption, IInv, PullsSound, inbox # <<>>, inbox' = Tail(inbox),
           UNCHANGED <<known, disk, dropped>>
    PROVE  \A i \in DOMAIN inbox' : inbox'[i].type = "getPeers" => QuestionSound(i)'
<1> SUFFICES ASSUME NEW i \in DOMAIN inbox', inbox'[i].type = "getPeers" PROVE QuestionSound(i)' OBVIOUS
<1>0. inbox \in Seq(Locator!Message) BY DEF IInv, Locator!TypeOK
<1>1. /\ DOMAIN inbox' \subseteq Nat
      /\ \A j \in DOMAIN inbox' : j + 1 \in DOMAIN inbox /\ inbox'[j] = inbox[j + 1] /\ 1 < j + 1
  BY <1>0, Fetched
<1>2. PICK b : b = inbox[i + 1].block OBVIOUS
<1>3. b \in known /\ (Saved(b) \/ \A j \in DOMAIN inbox : i + 1 < j => ~About(inbox[j], b[1], b))
  BY <1>1, <1>2 DEF PullsSound, QuestionSound
<1>4. inbox'[i].block = b BY <1>1, <1>2
<1>7. ASSUME ~Saved(b)', NEW j \in DOMAIN inbox', i < j PROVE ~About(inbox'[j], b[1], b)
  <2>1. i + 1 < j + 1 BY <1>1, <1>7
  <2>2. ~Saved(b) BY <1>7 DEF Saved
  <2> QED BY <1>1, <1>3, <2>1, <2>2
<1> QED BY <1>3, <1>4, <1>7 DEF QuestionSound, About, Told

LEMMA AnswersKept ==
    ASSUME Locator!BlockLocatorAssumption, IInv, PullsSound, Kept, NEW h \in Hosts, domain[h] # 0, answers'[h] = answers[h]
    PROVE  \A i \in DOMAIN answers'[h] : AnswerSound(answers[h][i])'
<1> SUFFICES ASSUME NEW i \in DOMAIN answers'[h] PROVE AnswerSound(answers[h][i])' OBVIOUS
<1>1. PICK a : a = answers[h][i] OBVIOUS
<1>2. a[1] \in known /\ Safe(a[1], a[2]) BY <1>1 DEF PullsSound, AnswerSound
<1>3. a[1] \in known' /\ Safe(a[1], a[2])' BY <1>2, StillSafe
<1> QED BY <1>1, <1>3 DEF AnswerSound, Safe, Saved

LEMMA ReadKept ==
    ASSUME Locator!BlockLocatorAssumption, IInv, PullsSound, Kept, NEW u \in Locator!Threads,
           pc'[u] = pc[u], block'[u] = block[u], peers'[u] = peers[u], u \in crossed' <=> u \in crossed
    PROVE  ReadSound(u)'
<1>1. ReadSound(u) BY DEF PullsSound
<1>2. pc[u] # "idle" => block[u] \in Locator!Blocks BY AtWork
<1>3. PICK b, A : b = block[u] /\ A = peers[u] OBVIOUS
<1>4. pc[u] = "pull" => u \in crossed \/ Safe(b, A)'
  <2>1. pc[u] = "pull" => b \in Locator!Blocks BY <1>2, <1>3
  <2> QED BY <1>1, <1>3, <2>1, StillSafe DEF ReadSound
<1>5. pc[u] = "disk" => u \in crossed \/ Saved(b)' BY <1>1, <1>3, StillSafe DEF ReadSound
<1>6. pc[u] = "failed" => u \in crossed \/ b \in dropped' BY <1>1, <1>3 DEF ReadSound, Kept
<1>7. b = block'[u] /\ A = peers'[u] BY <1>3
<1> QED BY <1>4, <1>5, <1>6, <1>7 DEF ReadSound, Safe, Saved

\* The locator's steps.
LEMMA LocatorPulls ==
    ASSUME Locator!BlockLocatorAssumption, IInv, PullsSound, Locator!LocatorStep
    PROVE  PullsSound'
<1>0. \E type \in {"register", "add", "delete", "getPeers", "unregister"} : Locator!Receives(type)
  BY DEF Locator!LocatorStep, Locator!processBlockDomainRegistration, Locator!addBlockLocation, Locator!deleteBlockLocation,
         Locator!processGetPeerDomainNetworkAddresses, Locator!unregisterBlockDomain
<1> DEFINE m == Head(inbox)
<1>1. /\ inbox \in Seq(Locator!Message) /\ inbox # <<>> /\ inbox' = Tail(inbox) /\ m \in Locator!Message /\ MessageSound(m)
      /\ UNCHANGED <<domain, up, loaded, disk, known, pc, block, peers, dropped, crossed>>
  BY <1>0, Received
<1>2. /\ 1 \in DOMAIN inbox /\ m = inbox[1] /\ DOMAIN inbox \subseteq Nat
      /\ \A i \in DOMAIN inbox : i = 1 \/ 1 < i
  BY <1>1, Fetched
<1> HIDE DEF m
<1>k. Kept BY <1>1 DEF Kept
<1>3. \A i \in DOMAIN inbox' : inbox'[i].type = "getPeers" => QuestionSound(i)' BY <1>1, QuestionsShifted
<1>4. \A t \in Locator!Threads : ReadSound(t)' BY <1>1, <1>k, ReadKept
<1>5. CASE \A h \in Hosts : domain[h] # 0 => answers'[h] = answers[h]
  <2>1. \A h \in Hosts : domain'[h] # 0 => \A i \in DOMAIN answers'[h] : AnswerSound(answers[h][i])'
    BY <1>1, <1>5, <1>k, AnswersKept
  <2> QED BY <1>3, <1>4, <2>1 DEF PullsSound
<1>6. CASE Locator!processGetPeerDomainNetworkAddresses
  <2>b. PICK b, h, a : b = m.block /\ h = m.host /\ a = <<b, Locator!Addresses(b)>> OBVIOUS
  <2>1. m.type = "getPeers" BY <1>6 DEF Locator!processGetPeerDomainNetworkAddresses, Locator!Receives, m
  <2>2. h \in Hosts /\ b \in Locator!Blocks /\ domain[h] # 0 BY <1>1, <2>1, <2>b, Fields DEF MessageSound
  <2>3. answers' = [answers EXCEPT ![h] = Append(@, a)]
    BY <1>6, <2>b DEF Locator!processGetPeerDomainNetworkAddresses, m
  <2>4. b \in known /\ (Saved(b) \/ \A j \in DOMAIN inbox : 1 < j => ~About(inbox[j], b[1], b))
    BY <1>2, <2>1, <2>b DEF PullsSound, QuestionSound
  <2>5. Safe(b, Locator!Addresses(b))
    <3> SUFFICES ASSUME ~Saved(b) PROVE \E k \in Hosts : k \in Locator!Addresses(b) /\ domain[k] = b[1]
      BY DEF Safe
    <3>1. PICK k \in Hosts : /\ domain[k] = b[1] /\ k \in up /\ b \in loaded[k]
                             /\ \A u \in Locator!Threads : Locator!Host(u) = k => block[u] # b
      BY <2>4, InMemory
    <3>2. Present(k, b) BY <3>1 DEF Present, Creates
    <3>3. domain[k] # 0 /\ domain_network_addresses[domain[k]] = k BY <3>1, OneHost
    <3>4. Says(domain[k], b, Present(k, b)) BY <2>2, <3>3 DEF IInv, ToldSound
    <3>5. \A i \in DOMAIN inbox : ~About(inbox[i], domain[k], b)
      <4>1. ~About(inbox[1], domain[k], b) BY <1>2, <2>1 DEF About, Told
      <4> QED BY <1>2, <2>4, <3>1, <4>1
    <3>6. domain[k] \in block_locations[b] BY <3>2, <3>4, <3>5 DEF Says
    <3>7. k \in Locator!Addresses(b) BY <3>3, <3>6 DEF Locator!Addresses
    <3> QED BY <3>1, <3>7
  <2>6. a[1] \in known' /\ Safe(a[1], a[2])'
    <3>1. a[1] = b /\ a[2] = Locator!Addresses(b) BY <2>b
    <3>2. Safe(a[1], a[2]) /\ a[1] \in known BY <2>4, <2>5, <3>1
    <3> QED BY <1>k, <3>2, StillSafe
  <2>7. ASSUME NEW k \in Hosts, domain'[k] # 0, NEW i \in DOMAIN answers'[k] PROVE AnswerSound(answers[k][i])'
    <3>1. CASE k # h
      <4>1. answers'[k] = answers[k] BY <2>2, <2>3, <3>1 DEF IInv, AnswersSound
      <4> QED BY <1>1, <1>k, <2>7, <4>1, AnswersKept
    <3>2. CASE k = h
      <4>s. PICK s : s = answers[h] OBVIOUS
      <4>1. s \in Seq(Located) BY <2>2, <4>s DEF IInv, AnswersSound
      <4>2. answers'[h] = Append(s, a) BY <2>2, <2>3, <4>s DEF IInv, AnswersSound
      <4>3. a \in Located
        <5>1. Locator!Addresses(b) \in SUBSET (Hosts \cup {Locator!NoHost})
          BY <2>2 DEF IInv, Locator!TypeOK, Locator!Addresses
        <5> QED BY <2>2, <2>b, <5>1 DEF Located
      <4>4. \/ i \in DOMAIN s /\ Append(s, a)[i] = s[i]
            \/ Append(s, a)[i] = a
        <5>1. i \in DOMAIN Append(s, a) BY <2>7, <3>2, <4>2
        <5>2. /\ Append(s, a) \in Seq(Located) /\ Len(Append(s, a)) = Len(s) + 1 /\ Len(s) \in Nat
              /\ \A j \in 1 .. Len(s) : Append(s, a)[j] = s[j]
              /\ Append(s, a)[Len(s) + 1] = a
          BY <4>1, <4>3, AppendProperties
        <5>3. DOMAIN s = 1 .. Len(s) /\ DOMAIN Append(s, a) = 1 .. Len(s) + 1 BY <4>1, <5>2
        <5>4. i \in 1 .. Len(s) \/ i = Len(s) + 1 BY <5>1, <5>2, <5>3
        <5> QED BY <5>2, <5>3, <5>4
      <4>5. PICK x : x = Append(s, a)[i] OBVIOUS
      <4>6. x[1] \in known' /\ Safe(x[1], x[2])'
        <5>1. CASE i \in DOMAIN s /\ x = s[i]
          <6>1. AnswerSound(s[i]) BY <2>2, <4>s, <5>1 DEF PullsSound
          <6>2. x[1] \in known /\ Safe(x[1], x[2]) BY <5>1, <6>1 DEF AnswerSound
          <6> QED BY <1>k, <6>2, StillSafe
        <5>2. CASE x = a BY <2>6, <5>2
        <5> QED BY <4>4, <4>5, <5>1, <5>2
      <4>7. answers'[k][i] = x BY <3>2, <4>2, <4>5
      <4> QED BY <4>6, <4>7 DEF AnswerSound, Safe, Saved
    <3> QED BY <3>1, <3>2
  <2> QED BY <1>3, <1>4, <2>7 DEF PullsSound
<1>7. CASE Locator!processBlockDomainRegistration
  <2>1. m.type = "register" /\ answers' = [answers EXCEPT ![m.host] = Append(@, block_domain')]
    BY <1>7 DEF Locator!processBlockDomainRegistration, Locator!Receives, m
  <2>2. domain[m.host] = 0 BY <1>1, <2>1 DEF MessageSound
  <2>3. \A h \in Hosts : domain[h] # 0 => answers'[h] = answers[h] BY <2>1, <2>2 DEF IInv, AnswersSound
  <2> QED BY <1>5, <2>3
<1>8. CASE Locator!addBlockLocation \/ Locator!deleteBlockLocation \/ Locator!unregisterBlockDomain
  BY <1>5, <1>8 DEF Locator!addBlockLocation, Locator!deleteBlockLocation, Locator!unregisterBlockDomain
<1> QED BY <1>6, <1>7, <1>8 DEF Locator!LocatorStep

\* The hosts' steps.
LEMMA HostPulls ==
    ASSUME Locator!BlockLocatorAssumption, IInv, PullsSound, NEW h \in Hosts,
           Locator!sendRegistration(h) \/ Locator!constructStorageManager(h) \/ Locator!destroyStorageManager(h)
    PROVE  PullsSound'
<1>1. UNCHANGED <<disk, known, pc, block, peers, crossed>> /\ dropped \subseteq dropped'
  BY DEF Locator!sendRegistration, Locator!constructStorageManager, Locator!destroyStorageManager, Locator!history
<1>2. /\ \A k \in Hosts : domain[k] # 0 => domain'[k] = domain[k] /\ answers'[k] = answers[k]
      /\ \A k \in Hosts : domain'[k] # 0 => domain[k] # 0 \/ answers'[k] = <<>>
  <2>1. CASE Locator!sendRegistration(h) BY <2>1 DEF Locator!sendRegistration, Locator!hosts
  <2>2. CASE Locator!destroyStorageManager(h) BY <2>2 DEF Locator!destroyStorageManager
  <2>3. CASE Locator!constructStorageManager(h)
    <3>1. /\ domain[h] = 0 /\ answers[h] # <<>>
          /\ domain' = [domain EXCEPT ![h] = Head(answers[h])]
          /\ answers' = [answers EXCEPT ![h] = Tail(@)]
      BY <2>3 DEF Locator!constructStorageManager
    <3>2. PICK d \in Locator!Domains : answers[h] = <<d>> BY <3>1 DEF IInv, AnswersSound
    <3>3. Tail(answers[h]) = <<>> BY <3>2
    <3> QED BY <3>1, <3>3 DEF IInv, AnswersSound, Locator!TypeOK
  <2> QED BY <2>1, <2>2, <2>3
<1>k. Kept BY <1>1, <1>2 DEF Kept
<1>3. UNCHANGED inbox \/ \E m \in Locator!Message : inbox' = Append(inbox, m) /\ Quiet(m)
  <2>1. CASE Locator!sendRegistration(h)
    <3> DEFINE m == [type |-> "register", host |-> h]
    <3>1. m \in Locator!Message /\ m.type = "register" BY DEF Locator!Message
    <3>2. inbox' = Append(inbox, m) BY <2>1 DEF Locator!sendRegistration, Locator!Send
    <3> HIDE DEF m
    <3>3. Quiet(m) BY <3>1 DEF Quiet, About, Told
    <3> QED BY <3>1, <3>2, <3>3
  <2>2. CASE Locator!constructStorageManager(h) BY <2>2 DEF Locator!constructStorageManager
  <2>3. CASE Locator!destroyStorageManager(h)
    <3> DEFINE m == [type |-> "unregister", domain |-> domain[h]]
    <3>1. h \in up /\ dropped' = dropped \cup Locator!Unsaved(h) /\ inbox' = Append(inbox, m)
      BY <2>3 DEF Locator!destroyStorageManager, Locator!Send
    <3>2. domain[h] \in Locator!Domains BY <3>1, OneHost
    <3>3. m \in Locator!Message /\ m.type = "unregister" /\ m.domain = domain[h] BY <3>2 DEF Locator!Message
    <3> HIDE DEF m
    <3>4. ASSUME NEW b \in known, ~Saved(b), About(m, b[1], b) PROVE Saved(b)'
      <4>1. domain[h] = b[1] BY <3>3, <3>4 DEF About
      <4>2. b \in Locator!Unsaved(h) BY <3>4, <4>1, InMemory
      <4> QED BY <3>1, <4>2 DEF Saved
    <3>5. Quiet(m) BY <3>3, <3>4 DEF Quiet
    <3> QED BY <3>1, <3>3, <3>5
  <2> QED BY <2>1, <2>2, <2>3
<1>4. \A i \in DOMAIN inbox' : inbox'[i].type = "getPeers" => QuestionSound(i)'
  BY <1>3, <1>k, QuestionsKept
<1>5. \A u \in Locator!Threads : ReadSound(u)' BY <1>1, <1>k, ReadKept
<1>6. ASSUME NEW k \in Hosts, domain'[k] # 0 PROVE \A i \in DOMAIN answers'[k] : AnswerSound(answers[k][i])'
  <2>1. CASE domain[k] # 0 BY <1>2, <1>k, <2>1, AnswersKept
  <2>2. CASE answers'[k] = <<>> BY <2>2
  <2> QED BY <1>2, <1>6, <2>1, <2>2
<1> QED BY <1>4, <1>5, <1>6 DEF PullsSound

\* The steps of a thread.
LEMMA ThreadPulls ==
    ASSUME Locator!BlockLocatorAssumption, IInv, PullsSound, NEW t \in Locator!Threads,
           \A u \in Locator!Threads : u # t => /\ pc'[u] = pc[u] /\ block'[u] = block[u] /\ peers'[u] = peers[u]
                                               /\ u \in crossed' <=> u \in crossed,
           UNCHANGED <<answers, Locator!hosts, dropped>>, known \subseteq known', disk \subseteq disk', ReadSound(t)',
           \/ UNCHANGED inbox \/ \E m \in Locator!Message : inbox' = Append(inbox, m) /\ Quiet(m)
           \/ \E b \in known : inbox' = Append(inbox, [type |-> "getPeers", host |-> Locator!Host(t), block |-> b])
    PROVE  PullsSound'
<1>0. inbox \in Seq(Locator!Message) /\ UNCHANGED domain /\ known \subseteq Locator!Blocks
  BY DEF IInv, Locator!TypeOK, Locator!hosts
<1>k. Kept BY <1>0 DEF Kept
<1>1. \A u \in Locator!Threads : ReadSound(u)' BY <1>k, ReadKept
<1>2. \A h \in Hosts : domain'[h] # 0 => \A i \in DOMAIN answers'[h] : AnswerSound(answers[h][i])'
  BY <1>0, <1>k, AnswersKept
<1>6. CASE UNCHANGED inbox \/ \E m \in Locator!Message : inbox' = Append(inbox, m) /\ Quiet(m)
  <2>1. \A i \in DOMAIN inbox' : inbox'[i].type = "getPeers" => QuestionSound(i)'
    BY <1>6, <1>k, QuestionsKept
  <2> QED BY <1>1, <1>2, <2>1 DEF PullsSound
<1>7. CASE \E b \in known : inbox' = Append(inbox, [type |-> "getPeers", host |-> Locator!Host(t), block |-> b])
  <2>1. PICK b \in known : inbox' = Append(inbox, [type |-> "getPeers", host |-> Locator!Host(t), block |-> b])
    BY <1>7
  <2>n. PICK n : n = Len(inbox) + 1 OBVIOUS
  <2>2. PICK m \in Locator!Message : m.type = "getPeers" /\ m.block = b /\ inbox' = Append(inbox, m)
    BY <1>0, <2>1, Ids DEF Locator!Message
  <2>4. /\ DOMAIN inbox' = DOMAIN inbox \cup {n} /\ n \in Nat
        /\ \A j \in DOMAIN inbox : inbox'[j] = inbox[j] /\ j \in Nat /\ j < n
        /\ inbox'[n] = m
    BY <1>0, <2>2, <2>n, Mailed
  <2>5. \A j \in DOMAIN inbox' : ~(n < j) BY <2>4
  <2>6. QuestionSound(n)' BY <2>2, <2>4, <2>5 DEF QuestionSound
  <2>7. ASSUME NEW i \in DOMAIN inbox, inbox[i].type = "getPeers" PROVE QuestionSound(i)'
    <3>0. PICK c : c = inbox[i].block OBVIOUS
    <3>1. c \in known /\ (Saved(c) \/ \A j \in DOMAIN inbox : i < j => ~About(inbox[j], c[1], c))
      BY <2>7, <3>0 DEF PullsSound, QuestionSound
    <3>3. inbox'[i].block = c BY <2>4, <3>0
    <3>4. ~About(m, c[1], c) BY <2>2 DEF About, Told
    <3>5. Saved(c) => Saved(c)' BY <1>k, StillSafe
    <3>6. Saved(c)' \/ \A j \in DOMAIN inbox' : i < j => ~About(inbox'[j], c[1], c)
      BY <2>4, <3>1, <3>4, <3>5
    <3> QED BY <3>1, <3>3, <3>6 DEF QuestionSound, About, Told
  <2>8. \A i \in DOMAIN inbox' : inbox'[i].type = "getPeers" => QuestionSound(i)' BY <2>4, <2>6, <2>7
  <2> QED BY <1>1, <1>2, <2>8 DEF PullsSound
<1> QED BY <1>6, <1>7

\* The answer arrives.
LEMMA AnswerPulls ==
    ASSUME Locator!BlockLocatorAssumption, IInv, PullsSound, NEW t \in Locator!Threads, Locator!receivePeers(t)
    PROVE  PullsSound'
<1>1. /\ pc[t] = "wait" /\ pc' = [pc EXCEPT ![t] = "pull"] /\ answers[Locator!Host(t)] # <<>>
      /\ peers' = [peers EXCEPT ![t] = Head(answers[Locator!Host(t)])[2]]
      /\ crossed' = IF Head(answers[Locator!Host(t)])[1] = block[t] THEN crossed ELSE crossed \cup {t}
      /\ answers' = [answers EXCEPT ![Locator!Host(t)] = Tail(@)]
      /\ UNCHANGED <<inbox, domain, disk, known, block, dropped>>
  BY DEF Locator!receivePeers, Locator!Go, Locator!hosts
<1>k. Kept BY <1>1 DEF Kept
<1>2. Locator!Host(t) \in Hosts /\ Locator!Host(t) \in up /\ domain[Locator!Host(t)] # 0 BY <1>1, AtWork, OneHost
<1>s. PICK s, a : s = answers[Locator!Host(t)] /\ a = s[1] OBVIOUS
<1>3. s \in Seq(Located) /\ s # <<>> BY <1>1, <1>2, <1>s DEF IInv, AnswersSound
<1>4. /\ Len(s) \in Nat /\ Len(s) > 0 /\ Head(s) = a /\ Tail(s) \in Seq(Located)
      /\ Len(Tail(s)) = Len(s) - 1 /\ \A i \in 1 .. Len(s) - 1 : Tail(s)[i] = s[i + 1]
  BY <1>3, <1>s, HeadTailProperties, EmptySeq
<1>5. \A i \in DOMAIN Tail(s) : i + 1 \in DOMAIN s /\ Tail(s)[i] = s[i + 1]
  <2>1. DOMAIN s = 1 .. Len(s) /\ DOMAIN Tail(s) = 1 .. Len(s) - 1 BY <1>3, <1>4
  <2> QED BY <1>4, <2>1
<1>6. ASSUME NEW i \in DOMAIN s PROVE AnswerSound(s[i]) BY <1>2, <1>s DEF PullsSound
<1>7. a[1] \in known /\ Safe(a[1], a[2])
  <2>1. 1 \in DOMAIN s BY <1>3, <1>4
  <2> QED BY <1>6, <1>s, <2>1 DEF AnswerSound
<1>8. /\ pc'[t] = "pull" /\ peers'[t] = a[2]
      /\ \A u \in Locator!Threads : u # t => pc'[u] = pc[u] /\ peers'[u] = peers[u] /\ (u \in crossed' <=> u \in crossed)
  BY <1>1, <1>4, <1>s DEF IInv, Locator!TypeOK
<1>9. answers'[Locator!Host(t)] = Tail(s) /\ \A h \in Hosts : h # Locator!Host(t) => answers'[h] = answers[h]
  BY <1>1, <1>2, <1>s DEF IInv, AnswersSound
<1>10. ReadSound(t)'
  <2>1. t \in crossed' \/ a[1] = block[t] BY <1>1, <1>4, <1>s
  <2>2. t \in crossed' \/ Safe(block[t], a[2]) BY <1>7, <2>1
  <2>3. PICK b : b = block[t] OBVIOUS
  <2>4. b \in Locator!Blocks /\ block'[t] = b BY <1>1, <2>3, AtWork
  <2>5. t \in crossed' \/ Safe(b, a[2])' BY <1>k, <2>2, <2>3, <2>4, StillSafe
  <2> QED BY <1>8, <2>4, <2>5 DEF ReadSound, Safe, Saved
<1>11. \A u \in Locator!Threads : ReadSound(u)' BY <1>1, <1>8, <1>10, <1>k, ReadKept
<1>12. ASSUME NEW h \in Hosts, domain'[h] # 0, NEW i \in DOMAIN answers'[h] PROVE AnswerSound(answers[h][i])'
  <2>1. CASE h # Locator!Host(t) BY <1>1, <1>9, <1>12, <1>k, <2>1, AnswersKept
  <2>2. CASE h = Locator!Host(t)
    <3>1. PICK x : x = answers'[h][i] OBVIOUS
    <3>2. i + 1 \in DOMAIN s /\ x = s[i + 1] BY <1>5, <1>9, <1>12, <2>2, <3>1
    <3>3. x[1] \in known /\ Safe(x[1], x[2]) BY <1>6, <3>2 DEF AnswerSound
    <3>4. x[1] \in known' /\ Safe(x[1], x[2])' BY <1>k, <3>3, StillSafe
    <3> QED BY <3>1, <3>4 DEF AnswerSound, Safe, Saved
  <2> QED BY <2>1, <2>2
<1>13. \A i \in DOMAIN inbox' : inbox'[i].type = "getPeers" => QuestionSound(i)' BY <1>1, <1>k, QuestionsKept
<1> QED BY <1>11, <1>12, <1>13 DEF PullsSound

LEMMA CallPulls ==
    ASSUME Locator!BlockLocatorAssumption, IInv, PullsSound, NEW t \in Locator!Threads,
           Locator!createBlock(t) \/ Locator!announce(t) \/ Locator!insertBlockHandleAfterLoad(t) \/ Locator!evictBlock(t) \/ Locator!eraseBlock(t)
             \/ \E b \in Locator!Blocks : Locator!saveBlockOrBlob(t, b) \/ Locator!saveVictim(t, b)
    PROVE  PullsSound'
<1>1. /\ (pc' = pc /\ pc[t] = "idle") \/ \E to \in {"idle", "announce", "delete", "erase"} : pc' = [pc EXCEPT ![t] = to]
      /\ block' = block \/ \E c : block' = [block EXCEPT ![t] = c]
      /\ UNCHANGED <<answers, Locator!hosts, peers, dropped, crossed>> /\ disk \subseteq disk' /\ known \subseteq known'
  <2>1. CASE Locator!createBlock(t) BY <2>1 DEF Locator!createBlock, Locator!Go, Locator!history
  <2>2. CASE Locator!announce(t) BY <2>2 DEF Locator!announce, Locator!Go, Locator!history
  <2>3. CASE Locator!insertBlockHandleAfterLoad(t)
    BY <2>3 DEF Locator!insertBlockHandleAfterLoad, Locator!Go, Locator!history
  <2>4. CASE Locator!evictBlock(t) BY <2>4 DEF Locator!evictBlock, Locator!Go
  <2>5. CASE Locator!eraseBlock(t) BY <2>5 DEF Locator!eraseBlock, Locator!Go, Locator!history
  <2>6. CASE \E b \in Locator!Blocks : Locator!saveVictim(t, b)
    BY <2>6 DEF Locator!saveVictim, Locator!Go, Locator!history
  <2>7. CASE \E b \in Locator!Blocks : Locator!saveBlockOrBlob(t, b)
    BY <2>7 DEF Locator!saveBlockOrBlob, Locator!history
  <2> QED BY <2>1, <2>2, <2>3, <2>4, <2>5, <2>6, <2>7
<1>3. /\ pc'[t] \in {"idle", "announce", "delete", "erase"}
      /\ \A u \in Locator!Threads : u # t => pc'[u] = pc[u] /\ block'[u] = block[u] /\ peers'[u] = peers[u]
  <2>1. pc \in [Locator!Threads -> {"idle", "announce", "wait", "pull", "disk", "insert", "failed", "delete", "erase"}]
        /\ block \in [Locator!Threads -> Locator!Blocks \cup {Locator!None}]
    BY DEF IInv, Locator!TypeOK
  <2> QED BY <1>1, <2>1
<1>4. UNCHANGED inbox \/ \E m \in Locator!Message : inbox' = Append(inbox, m) /\ Quiet(m)
  <2>1. CASE Locator!announce(t) \/ Locator!evictBlock(t)
    <3>1. pc[t] # "idle" /\ \E type \in {"add", "delete"} : Locator!sendBlockLocation(type, t)
      BY <2>1 DEF Locator!announce, Locator!evictBlock, Locator!Go
    <3> QED BY <3>1, Quietly
  <2>2. CASE ~(Locator!announce(t) \/ Locator!evictBlock(t))
    BY <2>2 DEF Locator!createBlock, Locator!insertBlockHandleAfterLoad, Locator!eraseBlock, Locator!saveVictim, Locator!saveBlockOrBlob
  <2> QED BY <2>1, <2>2
<1>5. ReadSound(t)' BY <1>3 DEF ReadSound
<1> QED BY <1>1, <1>3, <1>4, <1>5, ThreadPulls

LEMMA LoadPulls ==
    ASSUME Locator!BlockLocatorAssumption, IInv, PullsSound, NEW t \in Locator!Threads, NEW c \in Locator!Blocks, Locator!loadBlock(t, c)
    PROVE  PullsSound'
<1>1. /\ Locator!Host(t) \in up /\ c \in known /\ c \notin loaded[Locator!Host(t)] /\ pc[t] = "idle"
      /\ block' = [block EXCEPT ![t] = c] /\ crossed' = crossed \ {t}
      /\ UNCHANGED <<answers, Locator!hosts, disk, known, peers, dropped>>
      /\ \/ c[1] = domain[Locator!Host(t)] /\ pc' = [pc EXCEPT ![t] = "disk"] /\ UNCHANGED inbox
         \/ /\ pc' = [pc EXCEPT ![t] = "wait"]
            /\ inbox' = Append(inbox, [type |-> "getPeers", host |-> Locator!Host(t), block |-> c])
  BY DEF Locator!loadBlock, Locator!Go, Locator!Send
<1>2. \A u \in Locator!Threads : u # t => /\ pc'[u] = pc[u] /\ block'[u] = block[u] /\ peers'[u] = peers[u]
                                          /\ u \in crossed' <=> u \in crossed
  BY <1>1 DEF IInv, Locator!TypeOK
<1>3. block'[t] = c BY <1>1 DEF IInv, Locator!TypeOK
<1>4. CASE c[1] = domain[Locator!Host(t)] /\ pc' = [pc EXCEPT ![t] = "disk"] /\ UNCHANGED inbox
  <2>1. pc'[t] = "disk" BY <1>4 DEF IInv, Locator!TypeOK
  <2>2. Saved(c) BY <1>1, <1>4, Ids, InMemory
  <2>3. ReadSound(t)' BY <1>1, <1>3, <2>1, <2>2 DEF ReadSound, Saved
  <2> QED BY <1>1, <1>2, <1>4, <2>3, ThreadPulls
<1>5. CASE /\ pc' = [pc EXCEPT ![t] = "wait"]
           /\ inbox' = Append(inbox, [type |-> "getPeers", host |-> Locator!Host(t), block |-> c])
  <2>1. pc'[t] = "wait" BY <1>5 DEF IInv, Locator!TypeOK
  <2>2. ReadSound(t)' BY <2>1 DEF ReadSound
  <2> QED BY <1>1, <1>2, <1>5, <2>2, ThreadPulls
<1> QED BY <1>1, <1>4, <1>5

LEMMA PullPulls ==
    ASSUME Locator!BlockLocatorAssumption, IInv, PullsSound, NEW t \in Locator!Threads, Locator!pull(t) \/ Locator!readBlock(t)
    PROVE  PullsSound'
<1>1. /\ pc[t] \in {"pull", "disk"} /\ UNCHANGED <<answers, Locator!hosts, domain, disk, known, block, dropped, crossed>>
  BY DEF Locator!pull, Locator!readBlock, Locator!Go, Locator!history, Locator!hosts
<1>2. block[t] \in known BY <1>1, AtWork DEF ThreadSound
<1>3. ReadSound(t) BY DEF PullsSound
<1>t. /\ pc \in [Locator!Threads -> {"idle", "announce", "wait", "pull", "disk", "insert", "failed", "delete", "erase"}]
      /\ peers \in [Locator!Threads -> SUBSET (Hosts \cup {Locator!NoHost})]
  BY DEF IInv, Locator!TypeOK
<1>4. CASE Locator!readBlock(t)
  <2>1. pc[t] = "disk" /\ UNCHANGED peers BY <1>4 DEF Locator!readBlock, Locator!Go
  <2>2. CASE block[t] \in disk
    <3>1. pc' = [pc EXCEPT ![t] = "insert"] /\ Locator!sendBlockLocation("add", t)
      BY <1>4, <2>2 DEF Locator!readBlock, Locator!Go
    <3>2. pc'[t] = "insert" /\ \A u \in Locator!Threads : u # t => pc'[u] = pc[u] BY <1>t, <3>1
    <3>3. \E m \in Locator!Message : inbox' = Append(inbox, m) /\ Quiet(m) BY <2>1, <3>1, Quietly
    <3>4. ReadSound(t)' BY <3>2 DEF ReadSound
    <3> QED BY <1>1, <2>1, <3>2, <3>3, <3>4, ThreadPulls
  <2>3. CASE block[t] \notin disk
    <3>1. pc' = [pc EXCEPT ![t] = "failed"] /\ UNCHANGED inbox BY <1>4, <2>3 DEF Locator!readBlock, Locator!Go
    <3>2. pc'[t] = "failed" /\ \A u \in Locator!Threads : u # t => pc'[u] = pc[u] BY <1>t, <3>1
    <3>3. t \in crossed \/ block[t] \in dropped BY <1>3, <2>1, <2>3 DEF ReadSound, Saved
    <3>4. ReadSound(t)' BY <1>1, <3>2, <3>3 DEF ReadSound
    <3> QED BY <1>1, <2>1, <3>1, <3>2, <3>4, ThreadPulls
  <2> QED BY <2>2, <2>3
<1>5. CASE Locator!pull(t)
  <2>1. pc[t] = "pull" BY <1>5 DEF Locator!pull
  <2>2. t \in crossed \/ Safe(block[t], peers[t]) BY <1>3, <2>1 DEF ReadSound
  <2>3. CASE peers[t] = {} /\ pc' = [pc EXCEPT ![t] = "disk"] /\ UNCHANGED <<inbox, peers>>
    <3>1. t \in crossed \/ Saved(block[t]) BY <2>2, <2>3 DEF Safe
    <3>2. pc'[t] = "disk" /\ \A u \in Locator!Threads : u # t => pc'[u] = pc[u] BY <1>t, <2>3
    <3>3. ReadSound(t)' BY <1>1, <3>1, <3>2 DEF ReadSound, Saved
    <3> QED BY <1>1, <2>3, <3>2, <3>3, ThreadPulls
  <2>4. CASE pc' = [pc EXCEPT ![t] = "insert"] /\ Locator!sendBlockLocation("add", t) /\ peers' = [peers EXCEPT ![t] = {}]
    <3>1. pc'[t] = "insert" /\ \A u \in Locator!Threads : u # t => pc'[u] = pc[u] /\ peers'[u] = peers[u]
      BY <1>t, <2>4
    <3>2. \E m \in Locator!Message : inbox' = Append(inbox, m) /\ Quiet(m) BY <2>1, <2>4, Quietly
    <3>3. ReadSound(t)' BY <3>1 DEF ReadSound
    <3> QED BY <1>1, <3>1, <3>2, <3>3, ThreadPulls
  <2>5. ASSUME NEW h \in peers[t], ~(h # Locator!NoHost /\ block[t] \in loaded[h]),
               peers' = [peers EXCEPT ![t] = @ \ {h}], UNCHANGED <<pc, inbox>>
        PROVE  PullsSound'
    <3>1. peers'[t] = peers[t] \ {h} /\ \A u \in Locator!Threads : u # t => peers'[u] = peers[u] BY <1>t, <2>5
    <3>2. t \in crossed \/ Saved(block[t]) \/ \E k \in Hosts : k \in peers[t] \ {h} /\ domain[k] = block[t][1]
      <4> SUFFICES ASSUME t \notin crossed, ~Saved(block[t])
                   PROVE  \E k \in Hosts : k \in peers[t] \ {h} /\ domain[k] = block[t][1]
        OBVIOUS
      <4>1. PICK k \in Hosts : k \in peers[t] /\ domain[k] = block[t][1] BY <2>2 DEF Safe
      <4>2. block[t] \in loaded[k] /\ k # Locator!NoHost BY <1>2, <4>1, InMemory, Ids
      <4>3. k # h BY <2>5, <4>2
      <4> QED BY <4>1, <4>3
    <3>3. ReadSound(t)' BY <1>1, <2>1, <2>5, <3>1, <3>2 DEF ReadSound, Safe, Saved
    <3> QED BY <1>1, <2>5, <3>1, <3>3, ThreadPulls
  <2> QED BY <1>5, <2>3, <2>4, <2>5 DEF Locator!pull, Locator!Go
<1> QED BY <1>4, <1>5

LEMMA StepPulls ==
    ASSUME Locator!BlockLocatorAssumption, IInv, PullsSound, Locator!Next \/ UNCHANGED Locator!vars
    PROVE  PullsSound'
<1>1. CASE Locator!LocatorStep BY <1>1, LocatorPulls
<1>2. CASE \E h \in Hosts : Locator!sendRegistration(h) \/ Locator!constructStorageManager(h) \/ Locator!destroyStorageManager(h)
  BY <1>2, HostPulls
<1>3. ASSUME NEW t \in Locator!Threads,
             \/ Locator!createBlock(t) \/ Locator!ThreadStep(t)
             \/ \E b \in Locator!Blocks : Locator!loadBlock(t, b) \/ Locator!saveBlockOrBlob(t, b) \/ Locator!saveVictim(t, b)
      PROVE  PullsSound'
  BY <1>3, AnswerPulls, CallPulls, LoadPulls, PullPulls DEF Locator!ThreadStep
<1>4. CASE UNCHANGED Locator!vars
  <2>1. UNCHANGED <<inbox, answers, domain, disk, known, pc, block, peers, dropped, crossed>>
    BY <1>4 DEF Locator!vars, Locator!hosts, Locator!history
  <2> QED BY <2>1 DEF PullsSound, QuestionSound, AnswerSound, ReadSound, Safe, Saved
<1> QED BY <1>1, <1>2, <1>3, <1>4 DEF Locator!Next

LEMMA InitPulls == Locator!BlockLocatorAssumption /\ Locator!Init => PullsSound
<1> SUFFICES ASSUME Locator!BlockLocatorAssumption, Locator!Init PROVE PullsSound OBVIOUS
<1>1. inbox = <<>> /\ (\A h \in Hosts : domain[h] = 0) /\ \A t \in Locator!Threads : pc[t] = "idle"
  BY Ids DEF Locator!Init
<1> QED BY <1>1 DEF PullsSound, ReadSound


-----------------------------------------------------------------------------
(* The theorems *)

\* In the suite the locator takes its steps or stays as it is.
LEMMA SuiteStep == SuiteNext \/ UNCHANGED suite => Locator!Next \/ UNCHANGED Locator!vars
<1>1. UNCHANGED locating => UNCHANGED Locator!vars BY DEF locating, Locator!vars, Locator!locator, Locator!hosts, Locator!history
<1> QED BY <1>1 DEF SuiteNext, suite

(***************************************************************************)
(* The two maps of the locator (BlockLocator.cpp) mirror each other, and   *)
(* what it says of a block that nobody is at work on and no message is     *)
(* about is right, whatever the hosts' threads create, load, save and      *)
(* evict in the meantime, however many there are, and although a host may  *)
(* shut down at any time: but for a block that evictBlockOrBlob() took out *)
(* of the memory before createBlock() announced it.                        *)
(***************************************************************************)
THEOREM LocationsAgreeHold ==
    SuiteSpec => [](Locator!TypeOK /\ Locator!MapsMirror /\ Locator!LocationsAgree)
<1>1. SuiteInit => IInv BY LocatorAssumption, InitInv DEF SuiteInit
<1>2. IInv /\ [SuiteNext]_suite => IInv' BY LocatorAssumption, SuiteStep, StepInv
<1>3. IInv => Locator!TypeOK /\ Locator!MapsMirror /\ Locator!LocationsAgree
  BY LocatorAssumption, InvAgree DEF IInv
<1> QED BY <1>1, <1>2, <1>3, PTL DEF SuiteSpec

(***************************************************************************)
(* A load (loadBlockOrBlob()) also finds its block, with a peer or on      *)
(* disk, unless the destructor of a storage manager dropped the block      *)
(* before it was ever written, or the thread took the locator's answer to  *)
(* another thread of its host.                                             *)
(***************************************************************************)
THEOREM LocationsExactHolds == SuiteSpec => []LocationsExact
<1>1. SuiteInit => IInv /\ PullsSound BY LocatorAssumption, InitInv, InitPulls DEF SuiteInit
<1>2. IInv /\ PullsSound /\ [SuiteNext]_suite => IInv' /\ PullsSound'
  BY LocatorAssumption, SuiteStep, StepInv, StepPulls
<1>3. IInv => Locator!TypeOK /\ Locator!MapsMirror /\ Locator!LocationsAgree
  BY LocatorAssumption, InvAgree DEF IInv
<1>4. PullsSound => Locator!LoadSucceeds BY DEF PullsSound, ReadSound, Locator!LoadSucceeds
<1> QED BY <1>1, <1>2, <1>3, <1>4, PTL DEF SuiteSpec, LocationsExact
=============================================================================
