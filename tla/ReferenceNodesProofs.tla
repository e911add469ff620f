------------------------ MODULE ReferenceNodesProofs ------------------------
(***************************************************************************)
(* Proofs about ReferenceNodes, for every graph of nodes. First, of the    *)
(* provenance records alone: every input that a record names has one       *)
(* record of its own, the source that it names was recorded before by a    *)
(* sensor, and is the oldest of the sources that the records of its inputs *)
(* name. Then, of the messages: the drops that a node reports add up, a    *)
(* history is that of its message, no latency is underestimated and, in a  *)
(* system without a Cyclic, no sink goes back in time; and what only       *)
(* Transforms and Intersections pass on reaches the sink.                  *)
(***************************************************************************)
EXTENDS ReferenceNodes, SampleProofs, FiniteSetTheorems, TLAPS

-----------------------------------------------------------------------------
(* Sequences of which nothing is said but that they are sequences. *)
IsSequence(q) == \E S : q \in Seq(S)

(* Taking the oldest message leaves messages that were there. *)
LEMMA TakeFacts ==
    ASSUME NEW q, IsSequence(q), q # <<>>
    PROVE  /\ IsSequence(Tail(q))
           /\ 1 \in DOMAIN q /\ Head(q) = q[1]
           /\ \A k \in DOMAIN Tail(q) : k + 1 \in DOMAIN q /\ Tail(q)[k] = q[k + 1]
<1>1. PICK S : q \in Seq(S)
  BY DEF IsSequence
<1>2. Tail(q) \in Seq(S)
  BY <1>1
<1>3. Len(q) \in Nat /\ Len(q) # 0 /\ DOMAIN q = 1 .. Len(q)
  BY <1>1
<1>4. \A k \in DOMAIN Tail(q) : k + 1 \in DOMAIN q /\ Tail(q)[k] = q[k + 1]
  BY <1>1, <1>3
<1>5. Head(q) = q[1]
  BY <1>1
<1> QED BY <1>2, <1>3, <1>4, <1>5 DEF IsSequence

(* Delivering a message leaves it and messages that were there. *)
LEMMA DeliverFacts ==
    ASSUME NEW q, IsSequence(q), NEW m, NEW d
    PROVE  /\ IsSequence(KeepLast(Append(q, m), d))
           /\ \A k \in DOMAIN KeepLast(Append(q, m), d) :
                 \/ KeepLast(Append(q, m), d)[k] = m
                 \/ \E j \in DOMAIN q : KeepLast(Append(q, m), d)[k] = q[j]
<1> DEFINE a == Append(q, m)
<1>1. PICK S : q \in Seq(S)
  BY DEF IsSequence
<1>2. q \in Seq(S \cup {m}) /\ m \in S \cup {m}
  BY <1>1
<1>3. a \in Seq(S \cup {m}) /\ Len(a) = Len(q) + 1 /\ Len(q) \in Nat /\ a # <<>>
  BY <1>2
<1>4. \A k \in DOMAIN a : a[k] = m \/ \E j \in DOMAIN q : a[k] = q[j]
  BY <1>2
<1>5. IsSequence(a)
  BY <1>3 DEF IsSequence
<1> HIDE DEF a
<1>6. /\ IsSequence(Tail(a))
      /\ \A k \in DOMAIN Tail(a) : \E j \in DOMAIN a : Tail(a)[k] = a[j]
  BY <1>3, <1>5, TakeFacts
<1>7. KeepLast(a, d) = Tail(a) \/ KeepLast(a, d) = a
  BY DEF KeepLast
<1>8. IsSequence(KeepLast(a, d))
  BY <1>5, <1>6, <1>7
<1>9. \A k \in DOMAIN KeepLast(a, d) : \E j \in DOMAIN a : KeepLast(a, d)[k] = a[j]
  BY <1>6, <1>7
<1> QED BY <1>4, <1>8, <1>9 DEF a

(* The oldest of several sources is one of the valid ones and none of them is older; it is
   NoSource only if there is none. *)
LEMMA OldestFacts ==
    ASSUME NEW D, NEW f \in [D -> Source], NEW s \in oldest_provenance_source(f)
    PROVE  /\ (\A k \in D : f[k].kind = 0) => s = NoSource
           /\ (\E k \in D : f[k].kind # 0) =>
                 /\ \E k \in D : f[k].kind # 0 /\ s = f[k]
                 /\ \A k \in D : f[k].kind # 0 => s.t <= f[k].t
           /\ s \in Source
BY DEF oldest_provenance_source, Source, NoSource

(* A single source that is valid is its own oldest one, and null is that of one that is
   not. *)
LEMMA OldestOfOne ==
    ASSUME NEW s \in Source
    PROVE  provenance_source_json(s) \in oldest_provenance_source(<<s>>)
<1>1. CASE s.kind = 0
  BY <1>1 DEF oldest_provenance_source, provenance_source_json
<1>2. CASE s.kind # 0
  <2>1. <<s>>[1] = s /\ DOMAIN <<s>> = {1} /\ s.t \in Nat
    BY DEF Source
  <2> QED BY <2>1, <1>2 DEF oldest_provenance_source, provenance_source_json
<1> QED BY <1>1, <1>2

(* What a record shows is shown as it is. *)
LEMMA ShownFacts ==
    ASSUME NEW s \in Source
    PROVE  /\ provenance_source_json(s) \in Source
           /\ provenance_source_json(provenance_source_json(s)) = provenance_source_json(s)
           /\ provenance_source_json(s).kind = s.kind
           /\ s.kind # 0 => provenance_source_json(s) = s
           /\ s.kind = 0 => provenance_source_json(s) = NoSource
BY DEF provenance_source_json, NoSource, Source

-----------------------------------------------------------------------------
(* What is true of an identity, of a source and of a message, for good. *)

SameId(r, id) == r.node = id.node /\ r.seq = id.seq /\ r.channel = id.channel

(* The number of id has been drawn. *)
Drawn(id) ==
    /\ id.node \in Nodes
    /\ id.channel \in Channels(id.node)
    /\ id.seq \in Nat
    /\ id.seq < next_seq[id.node][id.channel]

(* The message id has the source s, and whoever speaks of it says so. *)
Known(id, s) ==
    /\ Drawn(id)
    /\ \A r \in log : SameId(r, id) => r.source = provenance_source_json(s)
    /\ pc[id.node] # "idle" /\ SameId(work[id.node].msg, id) => work[id.node].msg.source = s

(* The message id has a record, or its node is about to write one, or it is a sample of a
   sensor that writes none. *)
Introduced(id) ==
    /\ Type[id.node] # "Command"
    /\ \/ RecordsOf(id) # {}
       \/ pc[id.node] = "emit" /\ SameId(work[id.node].msg, id)
       \/ Type[id.node] = "Sensor" /\ SourceKind[id.node] = 0

(* The source s, if valid, has been recorded. *)
Seen(s) ==
    s.kind # 0 => \E r \in log : r.event = "source" /\ r.source = s /\ r.t <= clock

Carried(m) ==
    /\ m.source \in Source
    /\ Known(IdentityOf(m), m.source)
    /\ Introduced(IdentityOf(m))
    /\ Seen(m.source)

(* The source s is the oldest of the sources of the messages inputs. *)
Made(s, inputs) ==
    \E f \in [DOMAIN inputs -> Source] :
        /\ provenance_source_json(s) \in oldest_provenance_source(f)
        /\ \A k \in DOMAIN inputs :
              Known(inputs[k], f[k]) /\ Introduced(inputs[k]) /\ IdentityOf(inputs[k]) = inputs[k]

-----------------------------------------------------------------------------
(* The inductive invariant. *)

Shape ==
    /\ Inputs \in Graphs
    /\ clock \in Nat
    /\ DOMAIN queue = Nodes
    /\ DOMAIN cache = Nodes
    /\ \A n \in Nodes : DOMAIN queue[n] = DOMAIN Inputs[n] /\ DOMAIN cache[n] = DOMAIN Inputs[n]
    /\ \A n \in Nodes : \A i \in DOMAIN Inputs[n] : IsSequence(queue[n][i])
    /\ DOMAIN next_seq = Nodes
    /\ \A n \in Nodes : next_seq[n] \in [Channels(n) -> Nat]
    /\ pc \in [Nodes -> {"idle", "publish", "emit"}]
    /\ DOMAIN work = Nodes

Queued ==
    \A n \in Nodes : \A i \in DOMAIN Inputs[n] :
        \A k \in DOMAIN queue[n][i] : Carried(queue[n][i][k])

Cached ==
    \A n \in Nodes : \A i \in DOMAIN Inputs[n] : cache[n][i] # None => Carried(cache[n][i])

(* What a running callback has in hand. The link is not written yet; a sensor's message may
   be published once its source is recorded. *)
InHand(n) ==
    /\ work[n].msg.node = n
    /\ work[n].msg.source \in Source
    /\ Known(work[n].msg, work[n].msg.source)
    /\ pc[n] = "publish" => Type[n] # "Command"
    /\ pc[n] = "emit" \/ Type[n] # "Sensor" => \A r \in log : ~SameId(r, work[n].msg)
    /\ Type[n] = "Sensor" =>
          /\ LinkInputs(n) = <<>>
          /\ work[n].msg.source.kind = SourceKind[n]
          /\ work[n].msg.source.t <= clock
          /\ pc[n] = "emit" => SourceKind[n] # 0
          /\ pc[n] = "publish" => Introduced(work[n].msg) /\ Seen(work[n].msg.source)
    /\ Type[n] # "Sensor" =>
          /\ Seen(work[n].msg.source)
          /\ Made(work[n].msg.source, LinkInputs(n))

Working == \A n \in Nodes : pc[n] # "idle" => InHand(n)

(* What is true of a record. *)
RecordTrue(r) ==
    /\ Drawn(r)
    /\ r.source \in Source
    /\ r.source = provenance_source_json(r.source)
    /\ r.t \in Nat /\ r.t <= clock
    /\ IF r.event = "source" THEN r.inputs = <<>> ELSE Made(r.source, r.inputs)

Recorded ==
    /\ \A r \in log : RecordTrue(r)
    /\ \A r, s \in log : SameId(r, s) => r = s

NodesInv ==
    Shape /\ Queued /\ Cached /\ Working /\ Recorded /\ SourceRecordedFirst

-----------------------------------------------------------------------------
(* What a step does to numbers, callbacks and records: nothing, or a callback starts with a
   message that has a new number, publishes, or writes its record. *)
Quiet == UNCHANGED <<next_seq, pc, work, log>>

Begins(n, c, s, inputs) ==
    /\ n \in Nodes
    /\ c \in Channels(n)
    /\ s \in Source
    /\ pc[n] = "idle"
    /\ Draw(n, c)
    /\ \E h : Start(n, Message(n, c, h, s), inputs)
    /\ UNCHANGED <<clock, log>>

CoreStep ==
    \/ Quiet /\ clock' \in Nat /\ clock <= clock'
    \/ \E n, c, s, inputs : Begins(n, c, s, inputs)
    \/ \E n \in Nodes : Publish(n)
    \/ \E n \in Nodes : Emit(n)

(* What has become of the numbers, the callbacks and the records after a step. *)
LEMMA Began ==
    ASSUME Shape, NEW n, NEW c, NEW s, NEW inputs, Begins(n, c, s, inputs)
    PROVE  /\ DOMAIN next_seq' = DOMAIN next_seq
           /\ \A p \in Nodes : p # n => /\ next_seq'[p] = next_seq[p]
                                        /\ pc'[p] = pc[p] /\ work'[p] = work[p]
           /\ \A d \in Channels(n) : next_seq'[n][d] = IF d = c THEN next_seq[n][d] + 1 ELSE next_seq[n][d]
           /\ next_seq'[n] \in [Channels(n) -> Nat]
           /\ pc' \in [Nodes -> {"idle", "publish", "emit"}]
           /\ pc'[n] = FirstStep(n) /\ FirstStep(n) \in {"emit", "publish"}
           /\ DOMAIN work' = Nodes
           /\ work'[n].msg.node = n /\ work'[n].msg.channel = c
           /\ work'[n].msg.seq = next_seq[n][c] /\ work'[n].msg.source = s
           /\ work'[n].inputs = inputs
<1>1. /\ pc' = [pc EXCEPT ![n] = FirstStep(n)]
      /\ next_seq' = [next_seq EXCEPT ![n][c] = @ + 1]
      /\ n \in Nodes /\ c \in Channels(n)
  BY DEF Begins, Draw, Start
<1>2. PICK h : work' = [work EXCEPT ![n] = [msg |-> Message(n, c, h, s), inputs |-> inputs]]
  BY DEF Begins, Start
<1>3. FirstStep(n) \in {"emit", "publish"}
  BY DEF FirstStep
<1>4. /\ work'[n].msg = Message(n, c, h, s) /\ work'[n].inputs = inputs
      /\ DOMAIN work' = Nodes /\ \A p \in Nodes : p # n => work'[p] = work[p]
  BY <1>1, <1>2 DEF Shape
<1>5. /\ work'[n].msg.node = n /\ work'[n].msg.channel = c
      /\ work'[n].msg.seq = next_seq[n][c] /\ work'[n].msg.source = s
  BY <1>4 DEF Message
<1>6. /\ DOMAIN next_seq' = DOMAIN next_seq
      /\ \A p \in Nodes : p # n => next_seq'[p] = next_seq[p]
      /\ \A d \in Channels(n) : next_seq'[n][d] = IF d = c THEN next_seq[n][d] + 1 ELSE next_seq[n][d]
      /\ next_seq'[n] \in [Channels(n) -> Nat]
  BY <1>1 DEF Shape
<1>7. /\ pc' \in [Nodes -> {"idle", "publish", "emit"}] /\ pc'[n] = FirstStep(n)
      /\ \A p \in Nodes : p # n => pc'[p] = pc[p]
  BY <1>1, <1>3 DEF Shape
<1> QED BY <1>3, <1>4, <1>5, <1>6, <1>7

LEMMA Published ==
    ASSUME Shape, NEW n \in Nodes, Publish(n)
    PROVE  /\ pc[n] = "publish"
           /\ pc' \in [Nodes -> {"idle", "publish", "emit"}]
           /\ DOMAIN work' = Nodes
           /\ \A p \in Nodes : p # n => pc'[p] = pc[p] /\ work'[p] = work[p]
           /\ Type[n] = "Sensor" => pc'[n] = "idle"
           /\ Type[n] # "Sensor" => pc'[n] = "emit" /\ work'[n] = work[n]
           /\ UNCHANGED <<clock, cache, next_seq, log>>
BY DEF Publish, Shape, AfterPublish, EmitsFirst

(* The record that Emit(n) writes. *)
NewRecord(n) ==
    [event |-> Event(n), node |-> n, seq |-> OutputSequence(n),
     channel |-> work[n].msg.channel, inputs |-> LinkInputs(n),
     source |-> provenance_source_json(work[n].msg.source),
     t |-> IF Type[n] = "Sensor" THEN work[n].msg.source.t ELSE clock]

LEMMA Emitted ==
    ASSUME Shape, NEW n \in Nodes, Emit(n)
    PROVE  /\ pc[n] = "emit"
           /\ log' = log \cup {NewRecord(n)}
           /\ pc' \in [Nodes -> {"idle", "publish", "emit"}]
           /\ DOMAIN work' = Nodes
           /\ \A p \in Nodes : p # n => pc'[p] = pc[p] /\ work'[p] = work[p]
           /\ Type[n] = "Sensor" => pc'[n] = "publish" /\ work'[n] = work[n]
           /\ Type[n] # "Sensor" => pc'[n] = "idle"
           /\ UNCHANGED <<clock, queue, cache, next_seq>>
BY DEF Emit, NewRecord, Shape, AfterEmit, EmitsFirst

-----------------------------------------------------------------------------
(* The graph does not change, so neither do its nodes and channels. *)
LEMMA SameGraph ==
    ASSUME UNCHANGED Inputs
    PROVE  Nodes' = Nodes /\ \A n : Channels(n)' = Channels(n)
BY DEF Nodes, Channels, ChannelsIn

(* The fields of a record. *)
LEMMA NewRecordFields ==
    ASSUME NEW n
    PROVE  /\ NewRecord(n).event = Event(n)
           /\ NewRecord(n).node = n
           /\ NewRecord(n).seq = work[n].msg.seq
           /\ NewRecord(n).channel = work[n].msg.channel
           /\ NewRecord(n).inputs = LinkInputs(n)
           /\ NewRecord(n).source = provenance_source_json(work[n].msg.source)
           /\ NewRecord(n).t = IF Type[n] = "Sensor" THEN work[n].msg.source.t ELSE clock
BY DEF NewRecord, OutputSequence

(* What was drawn, known, introduced or seen stays so. *)
LEMMA DrawnStays ==
    ASSUME Shape, UNCHANGED Inputs, CoreStep, NEW id, Drawn(id)
    PROVE  Drawn(id)'
<1> USE DEF Drawn
<1>1. CASE UNCHANGED next_seq
  BY <1>1, SameGraph
<1>2. ASSUME NEW n, NEW c, NEW s, NEW inputs, Begins(n, c, s, inputs) PROVE Drawn(id)'
  <2>1. /\ \A p \in Nodes : p # n => next_seq'[p] = next_seq[p]
        /\ \A d \in Channels(n) : next_seq'[n][d] = IF d = c THEN next_seq[n][d] + 1 ELSE next_seq[n][d]
    BY <1>2, Began
  <2>2. next_seq[id.node][id.channel] \in Nat
    BY DEF Shape
  <2>3. CASE id.node = n
    BY <2>1, <2>2, <2>3, SameGraph
  <2>4. CASE id.node # n
    BY <2>1, <2>4, SameGraph
  <2> QED BY <2>3, <2>4
<1> QED BY <1>1, <1>2 DEF CoreStep, Quiet, Publish, Emit

LEMMA KnownStays ==
    ASSUME NodesInv, UNCHANGED Inputs, CoreStep, NEW id, NEW s, Known(id, s)
    PROVE  Known(id, s)'
<1>0. Shape /\ Drawn(id) /\ id.node \in Nodes
  BY DEF NodesInv, Known, Drawn
<1>1. Drawn(id)'
  BY <1>0, DrawnStays
<1>2. CASE Quiet
  BY <1>1, <1>2 DEF Known, Quiet, SameId
<1>3. ASSUME NEW n, NEW c, NEW z, NEW inputs, Begins(n, c, z, inputs) PROVE Known(id, s)'
  <2>1. log' = log /\ \A p \in Nodes : p # n => pc'[p] = pc[p] /\ work'[p] = work[p]
    BY <1>0, <1>3, Began DEF Begins
  <2>2. work'[n].msg.channel = c /\ work'[n].msg.seq = next_seq[n][c]
    BY <1>0, <1>3, Began
  <2>3. CASE id.node = n
    <3>1. id.seq \in Nat /\ id.seq < next_seq[n][id.channel]
      BY <1>0, <2>3 DEF Drawn
    <3>2. ~SameId(work'[n].msg, id)
      BY <3>1, <2>2 DEF SameId
    <3> QED BY <3>2, <2>1, <2>3, <1>1 DEF Known, SameId
  <2>4. CASE id.node # n
    BY <2>1, <2>4, <1>0, <1>1 DEF Known, SameId
  <2> QED BY <2>3, <2>4
<1>4. ASSUME NEW n \in Nodes, Publish(n) PROVE Known(id, s)'
  <2>1. /\ log' = log /\ \A p \in Nodes : p # n => pc'[p] = pc[p] /\ work'[p] = work[p]
        /\ pc[n] = "publish" /\ (pc'[n] = "idle" \/ work'[n] = work[n])
    BY <1>0, <1>4, Published
  <2> QED BY <2>1, <1>0, <1>1 DEF Known, SameId
<1>5. ASSUME NEW n \in Nodes, Emit(n) PROVE Known(id, s)'
  <2>1. /\ log' = log \cup {NewRecord(n)}
        /\ \A p \in Nodes : p # n => pc'[p] = pc[p] /\ work'[p] = work[p]
        /\ pc[n] = "emit" /\ (pc'[n] = "idle" \/ work'[n] = work[n])
    BY <1>0, <1>5, Emitted
  <2>2. SameId(NewRecord(n), id) => NewRecord(n).source = provenance_source_json(s)
    <3>1. work[n].msg.node = n
      BY <2>1 DEF NodesInv, Working, InHand
    <3> QED BY <3>1, <2>1, NewRecordFields DEF Known, SameId
  <2> QED BY <2>1, <2>2, <1>0, <1>1 DEF Known, SameId
<1> QED BY <1>2, <1>3, <1>4, <1>5 DEF CoreStep

LEMMA IntroducedStays ==
    ASSUME NodesInv, UNCHANGED Inputs, CoreStep, NEW id, id.node \in Nodes, Introduced(id)
    PROVE  Introduced(id)'
<1>0. Shape /\ Type[id.node] # "Command"
  BY DEF NodesInv, Introduced
<1>1. CASE Quiet
  BY <1>1 DEF Introduced, Quiet, SameId, RecordsOf
<1>2. ASSUME NEW n, NEW c, NEW z, NEW inputs, Begins(n, c, z, inputs) PROVE Introduced(id)'
  <2>1. /\ log' = log /\ pc[n] = "idle" /\ n \in Nodes
        /\ \A p \in Nodes : p # n => pc'[p] = pc[p] /\ work'[p] = work[p]
    BY <1>0, <1>2, Began DEF Begins
  <2> QED BY <2>1 DEF Introduced, SameId, RecordsOf
<1>3. ASSUME NEW n \in Nodes, Publish(n) PROVE Introduced(id)'
  <2>1. /\ log' = log /\ pc[n] = "publish"
        /\ \A p \in Nodes : p # n => pc'[p] = pc[p] /\ work'[p] = work[p]
    BY <1>0, <1>3, Published
  <2> QED BY <2>1 DEF Introduced, SameId, RecordsOf
<1>4. ASSUME NEW n \in Nodes, Emit(n) PROVE Introduced(id)'
  <2>1. /\ log' = log \cup {NewRecord(n)}
        /\ \A p \in Nodes : p # n => pc'[p] = pc[p] /\ work'[p] = work[p]
    BY <1>0, <1>4, Emitted
  <2>2. CASE RecordsOf(id) # {}
    BY <2>1, <2>2, <1>0 DEF Introduced, RecordsOf
  <2>3. CASE id.node = n /\ pc[n] = "emit" /\ SameId(work[n].msg, id)
    <3>1. NewRecord(n).event \in {"source", "link"}
      BY <2>3, <1>0, NewRecordFields DEF Event
    <3>2. NewRecord(n) \in RecordsOf(id)'
      BY <3>1, <2>1, <2>3, NewRecordFields DEF RecordsOf, SameId
    <3> QED BY <3>2, <1>0 DEF Introduced
  <2>4. CASE id.node # n
    BY <2>1, <2>4 DEF Introduced, SameId, RecordsOf
  <2> QED BY <2>2, <2>3, <2>4 DEF Introduced
<1> QED BY <1>1, <1>2, <1>3, <1>4 DEF CoreStep

LEMMA SeenStays ==
    ASSUME NodesInv, CoreStep, NEW s, Seen(s)
    PROVE  Seen(s)'
<1>1. clock \in Nat /\ clock' \in Nat /\ clock <= clock'
  BY DEF NodesInv, Shape, CoreStep, Begins, Publish, Emit
<1>2. log \subseteq log'
  BY DEF CoreStep, Quiet, Begins, Publish, Emit
<1>3. \A r \in log : r.t \in Nat
  BY DEF NodesInv, Recorded, RecordTrue
<1> QED BY <1>1, <1>2, <1>3 DEF Seen

LEMMA CarriedStays ==
    ASSUME NodesInv, UNCHANGED Inputs, CoreStep, NEW m, Carried(m)
    PROVE  Carried(m)'
<1>1. IdentityOf(m).node \in Nodes
  BY DEF Carried, Known, Drawn
<1>2. Known(IdentityOf(m), m.source)'
  BY KnownStays DEF Carried
<1>3. Introduced(IdentityOf(m))'
  BY <1>1, IntroducedStays DEF Carried
<1>4. Seen(m.source)'
  BY SeenStays DEF Carried
<1> QED BY <1>2, <1>3, <1>4 DEF Carried, IdentityOf

LEMMA MadeStays ==
    ASSUME NodesInv, UNCHANGED Inputs, CoreStep, NEW s, NEW inputs, Made(s, inputs)
    PROVE  Made(s, inputs)'
<1>1. PICK f \in [DOMAIN inputs -> Source] :
        /\ provenance_source_json(s) \in oldest_provenance_source(f)
        /\ \A k \in DOMAIN inputs :
              Known(inputs[k], f[k]) /\ Introduced(inputs[k]) /\ IdentityOf(inputs[k]) = inputs[k]
  BY DEF Made
<1>2. \A k \in DOMAIN inputs : inputs[k].node \in Nodes
  BY <1>1 DEF Known, Drawn
<1>3. \A k \in DOMAIN inputs : Known(inputs[k], f[k])'
  BY <1>1, KnownStays
<1>4. \A k \in DOMAIN inputs : Introduced(inputs[k])'
  BY <1>1, <1>2, IntroducedStays
<1> QED BY <1>1, <1>3, <1>4 DEF Made

-----------------------------------------------------------------------------
(* A callback that does not move keeps what it has in hand. *)
LEMMA InHandStays ==
    ASSUME NodesInv, UNCHANGED Inputs, CoreStep, NEW p \in Nodes, pc[p] # "idle",
           pc'[p] = pc[p], work'[p] = work[p], cache'[p] = cache[p],
           \A r \in log' : r \in log \/ r.node # p
    PROVE  InHand(p)'
<1>1. InHand(p) /\ clock \in Nat
  BY DEF NodesInv, Working, Shape
<1>2. PICK w, L : w = work[p] /\ L = LinkInputs(p)
  OBVIOUS
<1>3. LinkInputs(p)' = L
  BY <1>2 DEF LinkInputs
<1>4. clock' \in Nat /\ clock <= clock'
  BY <1>1 DEF CoreStep, Begins, Publish, Emit
<1>5. Known(w.msg, w.msg.source)'
  BY <1>1, <1>2, KnownStays DEF InHand
<1>6. w.msg.node = p /\ w.msg.source \in Source
  BY <1>1, <1>2 DEF InHand
<1>7. pc[p] = "publish" /\ Type[p] = "Sensor" => Introduced(w.msg)'
  BY <1>1, <1>2, <1>6, IntroducedStays DEF InHand
<1>8. (pc[p] = "publish" \/ Type[p] # "Sensor") => Seen(w.msg.source)'
  BY <1>1, <1>2, SeenStays DEF InHand
<1>9. Type[p] # "Sensor" => Made(w.msg.source, L)'
  BY <1>1, <1>2, MadeStays DEF InHand
<1>10. pc[p] = "emit" \/ Type[p] # "Sensor" => \A r \in log' : ~SameId(r, w.msg)
  BY <1>1, <1>2, <1>6 DEF InHand, SameId
<1>11. Type[p] = "Sensor" => w.msg.source.t <= clock'
  BY <1>1, <1>2, <1>4, <1>6 DEF InHand, Source
<1>12. /\ pc[p] = "publish" => Type[p] # "Command"
       /\ Type[p] = "Sensor" =>
             L = <<>> /\ w.msg.source.kind = SourceKind[p] /\ (pc[p] = "emit" => SourceKind[p] # 0)
  BY <1>1, <1>2 DEF InHand
<1> QED
  BY <1>2, <1>3, <1>5, <1>6, <1>7, <1>8, <1>9, <1>10, <1>11, <1>12 DEF InHand, SameId

(* Records that are true stay true. *)
LEMMA RecordStays ==
    ASSUME NodesInv, UNCHANGED Inputs, CoreStep, NEW r, RecordTrue(r)
    PROVE  RecordTrue(r)'
<1>1. Drawn(r)'
  BY DrawnStays DEF NodesInv, RecordTrue
<1>2. clock \in Nat /\ clock' \in Nat /\ clock <= clock'
  BY DEF NodesInv, Shape, CoreStep, Begins, Publish, Emit
<1>3. r.event # "source" => Made(r.source, r.inputs)'
  BY MadeStays DEF RecordTrue
<1> QED BY <1>1, <1>2, <1>3 DEF RecordTrue

LEMMA RecordsStay ==
    ASSUME NodesInv, UNCHANGED <<Inputs, log>>, CoreStep
    PROVE  Recorded' /\ SourceRecordedFirst'
<1>1. \A r \in log : RecordTrue(r)'
  BY RecordStays DEF NodesInv, Recorded
<1>2. \A r, s \in log : SameId(r, s) => r = s
  BY DEF NodesInv, Recorded
<1>3. Recorded'
  BY <1>1, <1>2 DEF Recorded, SameId
<1>4. SourceRecordedFirst'
  BY DEF NodesInv, SourceRecordedFirst
<1> QED BY <1>3, <1>4

(* Queues that hold nothing new. *)
LEMMA QueuedStays ==
    ASSUME NodesInv, UNCHANGED Inputs, CoreStep, UNCHANGED queue
    PROVE  Queued'
<1> SUFFICES ASSUME NEW n \in Nodes, NEW i \in DOMAIN Inputs[n], NEW k \in DOMAIN queue[n][i]
             PROVE  Carried(queue[n][i][k])'
  BY SameGraph DEF Queued
<1>1. PICK m : m = queue[n][i][k]
  OBVIOUS
<1>2. Carried(m)'
  BY <1>1, CarriedStays DEF NodesInv, Queued
<1> QED BY <1>1, <1>2

(* A message was taken from the queue of input i of n. *)
LEMMA TakenStays ==
    ASSUME NodesInv, UNCHANGED Inputs, CoreStep, NEW n \in Nodes, NEW i \in DOMAIN Inputs[n],
           Take(n, i)
    PROVE  /\ Carried(Head(queue[n][i]))
           /\ Queued'
           /\ DOMAIN queue' = Nodes
           /\ \A p \in Nodes : DOMAIN queue'[p] = DOMAIN Inputs[p]
           /\ \A p \in Nodes : \A j \in DOMAIN Inputs[p] : IsSequence(queue'[p][j])
<1> USE DEF Take
<1>1. IsSequence(queue[n][i]) /\ queue[n][i] # <<>>
  BY DEF NodesInv, Shape
<1>2. /\ IsSequence(Tail(queue[n][i])) /\ 1 \in DOMAIN queue[n][i]
      /\ Head(queue[n][i]) = queue[n][i][1]
      /\ \A k \in DOMAIN Tail(queue[n][i]) :
            k + 1 \in DOMAIN queue[n][i] /\ Tail(queue[n][i])[k] = queue[n][i][k + 1]
  BY <1>1, TakeFacts
<1>3. Carried(Head(queue[n][i]))
  BY <1>2 DEF NodesInv, Queued
<1>4. /\ DOMAIN queue' = Nodes
      /\ \A p \in Nodes : DOMAIN queue'[p] = DOMAIN Inputs[p]
      /\ \A p \in Nodes : \A j \in DOMAIN Inputs[p] :
            queue'[p][j] = IF p = n /\ j = i THEN Tail(queue[n][i]) ELSE queue[p][j]
  BY DEF NodesInv, Shape
<1>5. \A p \in Nodes : \A j \in DOMAIN Inputs[p] : IsSequence(queue'[p][j])
  BY <1>2, <1>4 DEF NodesInv, Shape
<1>6. Queued'
  <2> SUFFICES ASSUME NEW p \in Nodes, NEW j \in DOMAIN Inputs[p], NEW k \in DOMAIN queue'[p][j]
               PROVE  Carried(queue[p][j][k])'
    BY SameGraph DEF Queued
  <2>1. PICK m : m = queue'[p][j][k]
    OBVIOUS
  <2>2. Carried(m)
    BY <2>1, <1>2, <1>4 DEF NodesInv, Queued
  <2> QED BY <2>1, <2>2, CarriedStays
<1> QED BY <1>3, <1>4, <1>5, <1>6

LEMMA CachedStays ==
    ASSUME NodesInv, UNCHANGED Inputs, CoreStep,
           \A p \in Nodes : \A j \in DOMAIN Inputs[p] :
              \A m : m = cache'[p][j] /\ m # None => Carried(m)
    PROVE  Cached'
<1> SUFFICES ASSUME NEW p \in Nodes, NEW j \in DOMAIN Inputs[p], cache'[p][j] # None
             PROVE  Carried(cache[p][j])'
  BY SameGraph DEF Cached
<1>1. PICK m : m = cache'[p][j]
  OBVIOUS
<1>2. Carried(m)'
  BY <1>1, CarriedStays
<1> QED BY <1>1, <1>2

(* A callback has started: of a sensor with a new sample, or of another node with a message
   whose source is recorded and is the oldest of the sources of the messages L, which its
   link will name. *)
LEMMA StartedWorking ==
    ASSUME NodesInv, UNCHANGED Inputs,
           NEW n, NEW c, NEW s, NEW inputs, Begins(n, c, s, inputs),
           \A p \in Nodes : p # n => cache'[p] = cache[p],
           NEW L, LinkInputs(n)' = L,
           Type[n] = "Sensor" => L = <<>> /\ s.kind = SourceKind[n] /\ s.t <= clock,
           Type[n] # "Sensor" => Seen(s) /\ Made(s, L)
    PROVE  Working'
<1>1. /\ CoreStep /\ Shape /\ n \in Nodes /\ c \in Channels(n) /\ s \in Source
      /\ log' = log /\ clock' = clock /\ next_seq[n] \in [Channels(n) -> Nat]
  BY DEF CoreStep, NodesInv, Begins, Shape
<1>2. /\ \A p \in Nodes : p # n => pc'[p] = pc[p] /\ work'[p] = work[p]
      /\ pc'[n] = FirstStep(n) /\ FirstStep(n) \in {"emit", "publish"}
      /\ work'[n].msg.node = n /\ work'[n].msg.channel = c
      /\ work'[n].msg.seq = next_seq[n][c] /\ work'[n].msg.source = s
      /\ \A d \in Channels(n) : next_seq'[n][d] = IF d = c THEN next_seq[n][d] + 1 ELSE next_seq[n][d]
  BY <1>1, Began
<1>3. PICK m : m = work'[n].msg
  OBVIOUS
<1>4. Drawn(m)'
  BY <1>1, <1>2, <1>3, SameGraph DEF Drawn
<1>5. \A r \in log : ~SameId(r, m)
  <2> SUFFICES ASSUME NEW r \in log, SameId(r, m) PROVE FALSE
    OBVIOUS
  <2>1. Drawn(r)
    BY DEF NodesInv, Recorded, RecordTrue
  <2> QED BY <2>1, <1>1, <1>2, <1>3 DEF Drawn, SameId
<1>6. Known(m, m.source)'
  BY <1>1, <1>2, <1>3, <1>4, <1>5 DEF Known
<1>7. Type[n] # "Sensor" => Seen(s)' /\ Made(s, L)'
  BY <1>1, SeenStays, MadeStays
<1>8. Type[n] = "Sensor" /\ pc'[n] = "publish" => SourceKind[n] = 0
  BY <1>2 DEF FirstStep, EmitsFirst
<1>9. Type[n] = "Sensor" /\ pc'[n] = "publish" => Introduced(m)' /\ Seen(s)'
  BY <1>2, <1>3, <1>8 DEF Introduced, Seen
<1>10. /\ pc'[n] = "publish" => Type[n] # "Command"
       /\ Type[n] = "Sensor" /\ pc'[n] = "emit" => SourceKind[n] # 0
  BY <1>2 DEF FirstStep, EmitsFirst
<1>11. InHand(n)'
  BY <1>1, <1>2, <1>3, <1>5, <1>6, <1>7, <1>9, <1>10 DEF InHand, SameId
<1>12. ASSUME NEW p \in Nodes, p # n, pc'[p] # "idle" PROVE InHand(p)'
  BY <1>1, <1>2, <1>12, InHandStays
<1> QED BY <1>11, <1>12, SameGraph DEF Working

(* The graph's inputs are sequences, and node types that have one or two inputs have them. *)
LEMMA GraphFacts ==
    ASSUME Shape, NEW n \in Nodes
    PROVE  /\ Type[n] \in Types /\ SourceKind[n] \in Nat
           /\ Len(Inputs[n]) \in Nat /\ DOMAIN Inputs[n] = 1 .. Len(Inputs[n])
           /\ Type[n] = "Fusion" => DOMAIN Inputs[n] = {1, 2}
           /\ Type[n] \in {"Transform", "Command"} => DOMAIN Inputs[n] = {1}
           /\ Channels(n) = IF Type[n] = "Intersection" THEN 0 .. Len(Inputs[n]) - 1 ELSE {0}
<1>1. n \in AllNodes /\ Inputs[n] \in Seq(AllNodes \X Nat)
  BY NodesAssumption DEF Shape, Nodes
<1>2. /\ Type[n] = "Fusion" => Len(Inputs[n]) = 2
      /\ Type[n] \in {"Transform", "Command"} => Len(Inputs[n]) = 1
  BY NodesAssumption DEF Shape, Nodes
<1>3. Type[n] \in Types /\ SourceKind[n] \in Nat
  BY <1>1, NodesAssumption
<1>4. Len(Inputs[n]) \in Nat /\ DOMAIN Inputs[n] = 1 .. Len(Inputs[n])
  BY <1>1
<1>5. 1 .. 2 = {1, 2} /\ 1 .. 1 = {1}
  OBVIOUS
<1>6. Channels(n) = IF Type[n] = "Intersection" THEN 0 .. Len(Inputs[n]) - 1 ELSE {0}
  BY DEF Channels, ChannelsIn
<1> QED BY <1>2, <1>3, <1>4, <1>5, <1>6

(* After a callback has started, the numbers and callbacks have their shape. *)
LEMMA StartedShape ==
    ASSUME Shape, UNCHANGED Inputs, NEW n, NEW c, NEW s, NEW inputs, Begins(n, c, s, inputs)
    PROVE  /\ clock' \in Nat /\ DOMAIN next_seq' = Nodes
           /\ \A p \in Nodes : next_seq'[p] \in [Channels(p) -> Nat]
           /\ pc' \in [Nodes -> {"idle", "publish", "emit"}]
           /\ DOMAIN work' = Nodes
<1>1. /\ DOMAIN next_seq' = DOMAIN next_seq /\ next_seq'[n] \in [Channels(n) -> Nat]
      /\ \A p \in Nodes : p # n => next_seq'[p] = next_seq[p]
      /\ pc' \in [Nodes -> {"idle", "publish", "emit"}] /\ DOMAIN work' = Nodes
  BY Began
<1> QED BY <1>1 DEF Shape, Begins

-----------------------------------------------------------------------------
(* Steps of single actions. *)

LEMMA SensorStep ==
    ASSUME NodesInv, UNCHANGED Inputs, NEW n \in Nodes, SensorTimer(n)
    PROVE  NodesInv'
<1>1. PICK s : s = [kind |-> SourceKind[n], seq |-> next_seq[n][0], t |-> clock]
  OBVIOUS
<1>2. /\ Shape /\ Type[n] = "Sensor" /\ 0 \in Channels(n) /\ SourceKind[n] \in Nat /\ clock \in Nat
      /\ next_seq[n][0] \in Nat
  BY GraphFacts DEF NodesInv, SensorTimer, Shape
<1>3. s \in Source /\ s.kind = SourceKind[n] /\ s.t = clock
  BY <1>1, <1>2 DEF Source
<1>4. Begins(n, 0, s, <<>>)
  BY <1>1, <1>2, <1>3 DEF SensorTimer, Begins, MayStart
<1>5. CoreStep
  BY <1>4 DEF CoreStep
<1>6. UNCHANGED <<queue, cache, log>>
  BY DEF SensorTimer
<1>7. LinkInputs(n)' = <<>>
  BY <1>2, <1>4, Began DEF LinkInputs
<1>8. Working'
  BY <1>2, <1>3, <1>4, <1>6, <1>7, StartedWorking
<1>9. Queued'
  BY <1>5, <1>6, QueuedStays
<1>10. Cached'
  BY <1>5, <1>6, CachedStays DEF NodesInv, Cached
<1>11. Recorded' /\ SourceRecordedFirst'
  BY <1>5, <1>6, RecordsStay
<1>12. Shape'
  BY <1>2, <1>4, <1>6, StartedShape, SameGraph DEF Shape
<1> QED BY <1>8, <1>9, <1>10, <1>11, <1>12 DEF NodesInv

(* A message that is relayed has the source of the one it was made of. *)
LEMMA MadeOfOne ==
    ASSUME NodesInv, NEW m, Carried(m)
    PROVE  Made(m.source, <<IdentityOf(m)>>)
<1>1. PICK f : f = <<m.source>>
  OBVIOUS
<1>2. m.source \in Source
  BY DEF Carried
<1>3. f \in [DOMAIN <<IdentityOf(m)>> -> Source] /\ f[1] = m.source
  BY <1>1, <1>2
<1>4. provenance_source_json(m.source) \in oldest_provenance_source(f)
  BY <1>1, <1>2, OldestOfOne
<1>5. PICK id : id = IdentityOf(m)
  OBVIOUS
<1>6. IdentityOf(id) = id
  BY <1>5 DEF IdentityOf
<1>7. \A k \in DOMAIN <<id>> :
          Known(<<id>>[k], f[k]) /\ Introduced(<<id>>[k]) /\ IdentityOf(<<id>>[k]) = <<id>>[k]
  BY <1>3, <1>5, <1>6 DEF Carried
<1> QED BY <1>3, <1>4, <1>5, <1>7 DEF Made

LEMMA RelayStep ==
    ASSUME NodesInv, UNCHANGED Inputs, NEW n \in Nodes, NEW i \in DOMAIN Inputs[n],
           Relay(n, i) \/ (i = 1 /\ CommandInput(n))
    PROVE  NodesInv'
<1>1. PICK m, c : m = Head(queue[n][i]) /\ c = ChannelOf(n, i)
  OBVIOUS
<1>2. Shape /\ Type[n] \in {"Transform", "Intersection", "Command"} /\ c \in Channels(n)
  BY <1>1, GraphFacts DEF NodesInv, Relay, CommandInput, ChannelOf
<1>3. Take(n, i) /\ UNCHANGED <<cache, log>>
  BY DEF Relay, CommandInput
<1>4. Carried(m)
  BY <1>1, <1>3, TakeFacts DEF NodesInv, Shape, Take, Queued
<1>5. Begins(n, c, m.source, <<IdentityOf(m)>>)
  <2>1. m.source \in Source
    BY <1>4 DEF Carried
  <2>2. CASE Relay(n, i)
    BY <2>1, <2>2, <1>1, <1>2 DEF Relay, Begins, MayStart
  <2>3. CASE i = 1 /\ CommandInput(n)
    BY <2>1, <2>3, <1>1, <1>2 DEF CommandInput, Begins, MayStart, ChannelOf
  <2> QED BY <2>2, <2>3
<1>6. CoreStep
  BY <1>5 DEF CoreStep
<1>7. LinkInputs(n)' = <<IdentityOf(m)>>
  BY <1>2, <1>5, Began DEF LinkInputs
<1>8. Seen(m.source) /\ Made(m.source, <<IdentityOf(m)>>)
  BY <1>4, MadeOfOne DEF Carried
<1>9. Working'
  <2>1. PICK L : L = <<IdentityOf(m)>>
    OBVIOUS
  <2> QED BY <2>1, <1>2, <1>3, <1>5, <1>7, <1>8, StartedWorking
<1>10. /\ Queued' /\ DOMAIN queue' = Nodes
       /\ \A p \in Nodes : DOMAIN queue'[p] = DOMAIN Inputs[p]
       /\ \A p \in Nodes : \A j \in DOMAIN Inputs[p] : IsSequence(queue'[p][j])
  BY <1>3, <1>6, TakenStays
<1>11. Cached'
  BY <1>3, <1>6, CachedStays DEF NodesInv, Cached
<1>12. Recorded' /\ SourceRecordedFirst'
  BY <1>3, <1>6, RecordsStay
<1>13. Shape'
  BY <1>2, <1>3, <1>5, <1>10, StartedShape, SameGraph DEF Shape
<1> QED BY <1>9, <1>10, <1>11, <1>12, <1>13 DEF NodesInv

(* A message that is only cached changes what a Fusion or Cyclic that is idle will use. *)
LEMMA CacheStep ==
    ASSUME NodesInv, UNCHANGED Inputs, NEW n \in Nodes, NEW i \in DOMAIN Inputs[n],
           FusionCache(n, i) \/ CyclicInput(n, i)
    PROVE  NodesInv'
<1>1. PICK m : m = Head(queue[n][i])
  OBVIOUS
<1>2. /\ Shape /\ Take(n, i) /\ Cache(n, i) /\ pc[n] = "idle"
      /\ UNCHANGED <<clock, next_seq, pc, work, log>>
  BY DEF NodesInv, FusionCache, CyclicInput, MayStart
<1>3. CoreStep
  BY <1>2 DEF CoreStep, Quiet, Shape
<1>4. /\ Carried(m) /\ Queued' /\ DOMAIN queue' = Nodes
      /\ \A p \in Nodes : DOMAIN queue'[p] = DOMAIN Inputs[p]
      /\ \A p \in Nodes : \A j \in DOMAIN Inputs[p] : IsSequence(queue'[p][j])
  BY <1>1, <1>2, <1>3, TakenStays
<1>5. /\ DOMAIN cache' = Nodes
      /\ \A p \in Nodes : DOMAIN cache'[p] = DOMAIN Inputs[p]
      /\ \A p \in Nodes : p # n => cache'[p] = cache[p]
      /\ \A p \in Nodes : \A j \in DOMAIN Inputs[p] :
            cache'[p][j] = IF p = n /\ j = i THEN m ELSE cache[p][j]
  BY <1>1, <1>2 DEF Cache, Shape
<1>6. Cached'
  BY <1>3, <1>4, <1>5, CachedStays DEF NodesInv, Cached
<1>7. Working'
  <2> SUFFICES ASSUME NEW p \in Nodes, pc'[p] # "idle" PROVE InHand(p)'
    BY SameGraph DEF Working
  <2> QED BY <1>2, <1>3, <1>5, InHandStays
<1>8. Recorded' /\ SourceRecordedFirst'
  BY <1>2, <1>3, RecordsStay
<1>9. Shape'
  BY <1>2, <1>4, <1>5, SameGraph DEF Shape
<1> QED BY <1>4, <1>6, <1>7, <1>8, <1>9 DEF NodesInv

(* A message made of the messages ms, which have sources that are known, has the oldest. *)
LEMMA MadeOfSeveral ==
    ASSUME NodesInv, NEW ms, \A k \in DOMAIN ms : Carried(ms[k]),
           NEW f, f = [k \in DOMAIN ms |-> ms[k].source],
           NEW s \in oldest_provenance_source(f)
    PROVE  /\ s \in Source /\ Seen(s)
           /\ Made(s, [k \in DOMAIN ms |-> IdentityOf(ms[k])])
<1>1. f \in [DOMAIN ms -> Source]
  BY DEF Carried
<1>2. /\ (\A k \in DOMAIN ms : f[k].kind = 0) => s = NoSource
      /\ (\E k \in DOMAIN ms : f[k].kind # 0) => \E k \in DOMAIN ms : f[k].kind # 0 /\ s = f[k]
      /\ s \in Source
  BY <1>1, OldestFacts
<1>3. s = NoSource \/ \E k \in DOMAIN ms : s = ms[k].source
  BY <1>2
<1>4. Seen(s)
  BY <1>3 DEF Carried, Seen, NoSource
<1>5. provenance_source_json(s) = s
  <2>1. s.kind # 0 \/ s = NoSource
    BY <1>2
  <2> QED BY <2>1 DEF provenance_source_json, NoSource
<1>6. PICK ids : ids = [k \in DOMAIN ms |-> IdentityOf(ms[k])]
  OBVIOUS
<1>7. DOMAIN ids = DOMAIN ms /\ \A k \in DOMAIN ms : Known(ids[k], f[k]) /\ Introduced(ids[k])
  BY <1>6 DEF Carried
<1>8. \A k \in DOMAIN ids : IdentityOf(ids[k]) = ids[k]
  BY <1>6 DEF IdentityOf
<1>9. Made(s, ids)
  BY <1>1, <1>5, <1>7, <1>8 DEF Made
<1> QED BY <1>2, <1>4, <1>6, <1>9

LEMMA FusionStep ==
    ASSUME NodesInv, UNCHANGED Inputs, NEW n \in Nodes, FusionTrigger(n)
    PROVE  NodesInv'
<1>1. PICK m1, m2 : m1 = Head(queue[n][1]) /\ m2 = cache[n][2]
  OBVIOUS
<1>2. PICK ms : ms = <<m1, m2>>
  OBVIOUS
<1>3. /\ Shape /\ Type[n] = "Fusion" /\ DOMAIN Inputs[n] = {1, 2} /\ 0 \in Channels(n)
  BY GraphFacts DEF NodesInv, FusionTrigger
<1>4. /\ Take(n, 1) /\ Cache(n, 1) /\ pc[n] = "idle" /\ cache[n][2] # None
      /\ UNCHANGED <<clock, log>> /\ Draw(n, 0)
  BY DEF FusionTrigger, MayStart
<1>5. Carried(m1) /\ Carried(m2)
  BY <1>1, <1>3, <1>4, TakeFacts DEF NodesInv, Shape, Take, Queued, Cached
<1>6. /\ DOMAIN ms = {1, 2} /\ ms[1] = m1 /\ ms[2] = m2
  BY <1>2
<1>7. PICK f : f = [k \in DOMAIN ms |-> ms[k].source]
  OBVIOUS
<1>8. f = <<m1.source, m2.source>>
  BY <1>6, <1>7
<1>9. PICK s \in oldest_provenance_source(f) : \E h : Start(n, Message(n, 0, h, s), <<>>)
  BY <1>1, <1>8 DEF FusionTrigger
<1>10. PICK L : L = [k \in DOMAIN ms |-> IdentityOf(ms[k])]
  OBVIOUS
<1>11. s \in Source /\ Seen(s) /\ Made(s, L)
  BY <1>5, <1>6, <1>7, <1>10, MadeOfSeveral
<1>12. Begins(n, 0, s, <<>>)
  BY <1>3, <1>4, <1>9, <1>11 DEF Begins
<1>13. CoreStep
  BY <1>12 DEF CoreStep
<1>14. /\ DOMAIN cache' = Nodes
       /\ \A p \in Nodes : DOMAIN cache'[p] = DOMAIN Inputs[p]
       /\ \A p \in Nodes : p # n => cache'[p] = cache[p]
       /\ \A p \in Nodes : \A j \in DOMAIN Inputs[p] :
             cache'[p][j] = IF p = n /\ j = 1 THEN m1 ELSE cache[p][j]
  BY <1>1, <1>3, <1>4 DEF Cache, Shape
<1>15. LinkInputs(n)' = L
  <2>1. LinkInputs(n)' = [j \in DOMAIN cache'[n] |-> IdentityOf(cache'[n][j])]
    BY <1>3 DEF LinkInputs, IdentityOf
  <2>2. DOMAIN cache'[n] = {1, 2} /\ cache'[n][1] = m1 /\ cache'[n][2] = m2
    BY <1>1, <1>3, <1>14
  <2> QED BY <2>1, <2>2, <1>6, <1>10
<1>16. Working'
  BY <1>3, <1>11, <1>12, <1>14, <1>15, StartedWorking
<1>17. /\ Queued' /\ DOMAIN queue' = Nodes
       /\ \A p \in Nodes : DOMAIN queue'[p] = DOMAIN Inputs[p]
       /\ \A p \in Nodes : \A j \in DOMAIN Inputs[p] : IsSequence(queue'[p][j])
  BY <1>3, <1>4, <1>13, TakenStays
<1>18. Cached'
  BY <1>5, <1>13, <1>14, CachedStays DEF NodesInv, Cached
<1>19. Recorded' /\ SourceRecordedFirst'
  BY <1>4, <1>13, RecordsStay
<1>20. Shape'
  BY <1>3, <1>12, <1>14, <1>17, StartedShape, SameGraph DEF Shape
<1> QED BY <1>16, <1>17, <1>18, <1>19, <1>20 DEF NodesInv

LEMMA CyclicStep ==
    ASSUME NodesInv, UNCHANGED Inputs, NEW n \in Nodes, CyclicTimer(n)
    PROVE  NodesInv'
<1>1. PICK ms : ms = [i \in {k \in DOMAIN cache[n] : cache[n][k] # None} |-> cache[n][i]]
  OBVIOUS
<1>2. /\ Shape /\ Type[n] = "Cyclic" /\ 0 \in Channels(n)
  BY GraphFacts DEF NodesInv, CyclicTimer
<1>3. /\ Reset(n) /\ pc[n] = "idle" /\ UNCHANGED <<clock, queue, log>> /\ Draw(n, 0)
  BY DEF CyclicTimer, MayStart
<1>4. \A k \in DOMAIN ms : Carried(ms[k])
  BY <1>1, <1>2 DEF NodesInv, Shape, Cached
<1>5. PICK f, L : f = [k \in DOMAIN ms |-> ms[k].source] /\ L = [k \in DOMAIN ms |-> IdentityOf(ms[k])]
  OBVIOUS
<1>6. PICK s \in oldest_provenance_source(f) : \E h : Start(n, Message(n, 0, h, s), L)
  BY <1>1, <1>5 DEF CyclicTimer
<1>7. s \in Source /\ Seen(s) /\ Made(s, L)
  BY <1>4, <1>5, MadeOfSeveral
<1>8. Begins(n, 0, s, L)
  BY <1>2, <1>3, <1>6, <1>7 DEF Begins
<1>9. CoreStep
  BY <1>8 DEF CoreStep
<1>10. LinkInputs(n)' = L
  BY <1>2, <1>8, Began DEF LinkInputs
<1>11. /\ DOMAIN cache' = Nodes
       /\ \A p \in Nodes : DOMAIN cache'[p] = DOMAIN Inputs[p]
       /\ \A p \in Nodes : p # n => cache'[p] = cache[p]
       /\ \A j \in DOMAIN Inputs[n] : cache'[n][j] = None
  BY <1>2, <1>3 DEF Reset, Shape
<1>12. Working'
  BY <1>2, <1>7, <1>8, <1>10, <1>11, StartedWorking
<1>13. Queued'
  BY <1>3, <1>9, QueuedStays
<1>14. Cached'
  BY <1>9, <1>11, CachedStays DEF NodesInv, Cached
<1>15. Recorded' /\ SourceRecordedFirst'
  BY <1>3, <1>9, RecordsStay
<1>16. Shape'
  BY <1>2, <1>3, <1>8, <1>11, StartedShape, SameGraph DEF Shape
<1> QED BY <1>12, <1>13, <1>14, <1>15, <1>16 DEF NodesInv
(* A message that is published becomes one that is carried. *)
LEMMA PublishStep ==
    ASSUME NodesInv, UNCHANGED Inputs, NEW n \in Nodes, Publish(n)
    PROVE  NodesInv'
<1>1. PICK m : m = work[n].msg
  OBVIOUS
<1>2. Shape /\ CoreStep
  BY DEF NodesInv, CoreStep
<1>3. /\ pc[n] = "publish" /\ pc' \in [Nodes -> {"idle", "publish", "emit"}] /\ DOMAIN work' = Nodes
      /\ \A p \in Nodes : p # n => pc'[p] = pc[p] /\ work'[p] = work[p]
      /\ Type[n] = "Sensor" => pc'[n] = "idle"
      /\ Type[n] # "Sensor" => pc'[n] = "emit" /\ work'[n] = work[n]
      /\ UNCHANGED <<clock, cache, next_seq, log>>
  BY <1>2, Published
<1>4. InHand(n)
  BY <1>3 DEF NodesInv, Working
<1>5. PICK id : id = IdentityOf(m)
  OBVIOUS
<1>6. id.node = n /\ SameId(m, id) /\ id.node = m.node /\ id.seq = m.seq /\ id.channel = m.channel
  BY <1>1, <1>4, <1>5 DEF IdentityOf, SameId, InHand
<1>7. Known(id, m.source)'
  <2>1. Known(m, m.source)'
    BY <1>1, <1>2, <1>4, KnownStays DEF InHand
  <2> QED BY <2>1, <1>6 DEF Known, Drawn, SameId
<1>8. Seen(m.source)'
  <2>1. Seen(m.source)
    BY <1>1, <1>3, <1>4 DEF InHand
  <2> QED BY <2>1, <1>2, SeenStays
<1>9. Introduced(id)'
  <2>1. CASE Type[n] = "Sensor"
    <3>1. Introduced(m) /\ m.node \in Nodes
      BY <2>1, <1>1, <1>3, <1>4 DEF InHand
    <3>2. Introduced(m)'
      BY <3>1, <1>2, IntroducedStays
    <3> QED BY <3>2, <1>6 DEF Introduced, RecordsOf, SameId
  <2>2. CASE Type[n] # "Sensor"
    <3>1. Type[n] # "Command"
      BY <1>3, <1>4 DEF InHand
    <3> QED BY <3>1, <2>2, <1>1, <1>3, <1>6 DEF Introduced
  <2> QED BY <2>1, <2>2
<1>10. Carried(m)'
  <2>1. m.source \in Source
    BY <1>1, <1>4 DEF InHand
  <2> QED BY <2>1, <1>5, <1>7, <1>8, <1>9 DEF Carried, IdentityOf
<1>11. queue' = [p \in Nodes |-> [j \in DOMAIN Inputs[p] |->
                    IF Inputs[p][j] = <<n, m.channel>>
                    THEN KeepLast(Append(queue[p][j], m), Depth(p)) ELSE queue[p][j]]]
  BY <1>1 DEF Publish
<1>12. DOMAIN queue' = Nodes /\ \A p \in Nodes : DOMAIN queue'[p] = DOMAIN Inputs[p]
  BY <1>11
<1>13. ASSUME NEW p \in Nodes, NEW j \in DOMAIN Inputs[p]
       PROVE  /\ IsSequence(queue'[p][j])
              /\ \A k \in DOMAIN queue'[p][j] :
                    queue'[p][j][k] = m \/ \E l \in DOMAIN queue[p][j] : queue'[p][j][k] = queue[p][j][l]
  <2>1. IsSequence(queue[p][j])
    BY <1>2 DEF Shape
  <2>2. \/ queue'[p][j] = KeepLast(Append(queue[p][j], m), Depth(p))
        \/ queue'[p][j] = queue[p][j]
    BY <1>11
  <2> QED BY <2>1, <2>2, DeliverFacts
<1>14. Queued'
  <2> SUFFICES ASSUME NEW p \in Nodes, NEW j \in DOMAIN Inputs[p], NEW k \in DOMAIN queue'[p][j]
               PROVE  Carried(queue[p][j][k])'
    BY SameGraph DEF Queued
  <2>1. PICK x : x = queue'[p][j][k]
    OBVIOUS
  <2>2. x = m \/ Carried(x)
    BY <2>1, <1>13 DEF NodesInv, Queued
  <2>3. Carried(x)'
    BY <2>2, <1>2, <1>10, CarriedStays
  <2> QED BY <2>1, <2>3
<1>15. Cached'
  BY <1>2, <1>3, CachedStays DEF NodesInv, Cached
<1>16. Recorded' /\ SourceRecordedFirst'
  BY <1>2, <1>3, RecordsStay
<1>17. Working'
  <2> SUFFICES ASSUME NEW p \in Nodes, pc'[p] # "idle" PROVE InHand(p)'
    BY SameGraph DEF Working
  <2>1. CASE p # n
    BY <2>1, <1>2, <1>3, InHandStays
  <2>2. CASE p = n
    <3>1. PICK L : L = LinkInputs(n)
      OBVIOUS
    <3>2. Type[n] # "Sensor" /\ pc'[n] = "emit" /\ work'[n].msg = m /\ LinkInputs(n)' = L
      BY <2>2, <3>1, <1>1, <1>3 DEF LinkInputs
    <3>3. Made(m.source, L)'
      BY <3>1, <3>2, <1>1, <1>2, <1>4, MadeStays DEF InHand
    <3>4. Known(m, m.source)'
      BY <1>1, <1>2, <1>4, KnownStays DEF InHand
    <3>5. /\ m.node = n /\ m.source \in Source /\ \A r \in log' : ~SameId(r, m)
      BY <3>2, <1>1, <1>3, <1>4 DEF InHand
    <3> QED BY <2>2, <3>2, <3>3, <3>4, <3>5, <1>8 DEF InHand, SameId
  <2> QED BY <2>1, <2>2
<1>18. Shape'
  BY <1>2, <1>3, <1>12, <1>13, SameGraph DEF Shape
<1> QED BY <1>14, <1>15, <1>16, <1>17, <1>18 DEF NodesInv
(* A record is written: a sensor's before its message goes out, a link or sink last. *)
LEMMA EmitStep ==
    ASSUME NodesInv, UNCHANGED Inputs, NEW n \in Nodes, Emit(n)
    PROVE  NodesInv'
<1>1. PICK m, L, new : m = work[n].msg /\ L = LinkInputs(n) /\ new = NewRecord(n)
  OBVIOUS
<1>2. Shape /\ CoreStep /\ clock \in Nat
  BY DEF NodesInv, CoreStep, Shape
<1>3. /\ pc[n] = "emit" /\ log' = log \cup {new}
      /\ pc' \in [Nodes -> {"idle", "publish", "emit"}] /\ DOMAIN work' = Nodes
      /\ \A p \in Nodes : p # n => pc'[p] = pc[p] /\ work'[p] = work[p]
      /\ Type[n] = "Sensor" => pc'[n] = "publish" /\ work'[n] = work[n]
      /\ Type[n] # "Sensor" => pc'[n] = "idle"
      /\ UNCHANGED <<clock, queue, cache, next_seq>>
  BY <1>1, <1>2, Emitted
<1>4. InHand(n)
  BY <1>3 DEF NodesInv, Working
<1>5. /\ m.node = n /\ m.source \in Source /\ Known(m, m.source) /\ \A r \in log : ~SameId(r, m)
  BY <1>1, <1>3, <1>4 DEF InHand
<1>6. /\ new.event = Event(n) /\ new.node = n /\ new.seq = m.seq /\ new.channel = m.channel
      /\ new.inputs = L /\ new.source = provenance_source_json(m.source)
      /\ new.t = IF Type[n] = "Sensor" THEN m.source.t ELSE clock
  BY <1>1, NewRecordFields
<1>7. /\ new.source \in Source /\ new.source = provenance_source_json(new.source)
      /\ new.source.kind = m.source.kind /\ (m.source.kind # 0 => new.source = m.source)
  BY <1>5, <1>6, ShownFacts
<1>8. (Event(n) = "source") <=> (Type[n] = "Sensor")
  BY DEF Event
<1>9. new.t \in Nat /\ new.t <= clock
  BY <1>1, <1>2, <1>4, <1>5, <1>6 DEF InHand, Source
<1>10. RecordTrue(new)
  <2>1. Drawn(new)
    BY <1>5, <1>6 DEF Known, Drawn
  <2>2. CASE Type[n] = "Sensor"
    BY <2>1, <2>2, <1>1, <1>4, <1>6, <1>7, <1>8, <1>9 DEF RecordTrue, InHand
  <2>3. CASE Type[n] # "Sensor"
    <3>1. Made(m.source, L)
      BY <2>3, <1>1, <1>4 DEF InHand
    <3>2. Made(new.source, L)
      BY <3>1, <1>6, <1>7 DEF Made
    <3> QED BY <3>2, <2>1, <2>3, <1>6, <1>7, <1>8, <1>9 DEF RecordTrue
  <2> QED BY <2>2, <2>3
<1>11. Recorded'
  <2>1. \A r \in log' : RecordTrue(r)
    BY <1>3, <1>10 DEF NodesInv, Recorded
  <2>2. \A r \in log' : RecordTrue(r)'
    BY <2>1, <1>2, RecordStays
  <2>3. \A r, s \in log' : SameId(r, s) => r = s
    BY <1>3, <1>5, <1>6 DEF NodesInv, Recorded, SameId
  <2> QED BY <2>2, <2>3 DEF Recorded, SameId
<1>12. SourceRecordedFirst'
  <2> SUFFICES ASSUME NEW r \in log', r.source.kind # 0
               PROVE  \E s \in log' : s.event = "source" /\ s.source = r.source /\ s.t <= r.t
    BY DEF SourceRecordedFirst
  <2>1. CASE r \in log
    BY <2>1, <1>3 DEF NodesInv, SourceRecordedFirst
  <2>2. CASE r = new /\ Type[n] = "Sensor"
    BY <2>2, <1>3, <1>6, <1>8, <1>9
  <2>3. CASE r = new /\ Type[n] # "Sensor"
    <3>1. Seen(m.source) /\ m.source.kind # 0 /\ r.source = m.source /\ r.t = clock
      BY <2>3, <1>1, <1>4, <1>6, <1>7 DEF InHand
    <3> QED BY <3>1, <1>3 DEF Seen
  <2> QED BY <2>1, <2>2, <2>3, <1>3
<1>13. Queued'
  BY <1>2, <1>3, QueuedStays
<1>14. Cached'
  BY <1>2, <1>3, CachedStays DEF NodesInv, Cached
<1>15. Working'
  <2> SUFFICES ASSUME NEW p \in Nodes, pc'[p] # "idle" PROVE InHand(p)'
    BY SameGraph DEF Working
  <2>1. CASE p # n
    BY <2>1, <1>2, <1>3, <1>6, InHandStays
  <2>2. CASE p = n
    <3>1. /\ Type[n] = "Sensor" /\ pc'[n] = "publish" /\ work'[n].msg = m
          /\ LinkInputs(n)' = L /\ L = <<>>
      BY <2>2, <1>1, <1>3, <1>4 DEF LinkInputs, InHand
    <3>2. Known(m, m.source)'
      BY <1>2, <1>5, KnownStays
    <3>3. new \in RecordsOf(m)'
      BY <3>1, <1>3, <1>5, <1>6, <1>8 DEF RecordsOf
    <3>4. Introduced(m)'
      BY <3>1, <3>3, <1>5 DEF Introduced
    <3>5. /\ m.source.kind = SourceKind[n] /\ m.source.t <= clock
      BY <3>1, <1>1, <1>4 DEF InHand
    <3>6. Seen(m.source)'
      BY <3>1, <1>3, <1>6, <1>7, <1>8, <1>9 DEF Seen
    <3> QED BY <2>2, <3>1, <3>2, <3>4, <3>5, <3>6, <1>3, <1>5 DEF InHand
  <2> QED BY <2>1, <2>2
<1>16. Shape'
  BY <1>2, <1>3, SameGraph DEF Shape
<1> QED BY <1>11, <1>12, <1>13, <1>14, <1>15, <1>16 DEF NodesInv

(* Time passes, or nothing happens. *)
LEMMA IdleStep ==
    ASSUME NodesInv, UNCHANGED <<Inputs, queue, cache, next_seq, pc, work, log>>,
           clock' \in Nat, clock <= clock'
    PROVE  NodesInv'
<1>1. Shape /\ CoreStep
  BY DEF NodesInv, CoreStep, Quiet
<1>2. Working'
  <2> SUFFICES ASSUME NEW p \in Nodes, pc'[p] # "idle" PROVE InHand(p)'
    BY SameGraph DEF Working
  <2> QED BY <1>1, InHandStays
<1>3. Queued'
  BY <1>1, QueuedStays
<1>4. Cached'
  BY <1>1, CachedStays DEF NodesInv, Cached
<1>5. Recorded' /\ SourceRecordedFirst'
  BY <1>1, RecordsStay
<1>6. Shape'
  BY <1>1, SameGraph DEF Shape
<1> QED BY <1>2, <1>3, <1>4, <1>5, <1>6 DEF NodesInv

LEMMA InitInv ==
    Init => NodesInv
<1> SUFFICES ASSUME Init PROVE NodesInv
  OBVIOUS
<1>1. IsSequence(<<>>)
  <2>1. <<>> \in Seq({})
    OBVIOUS
  <2> QED BY <2>1 DEF IsSequence
<1>2. Shape
  BY <1>1 DEF Init, Shape
<1>3. Queued /\ Cached /\ Working
  BY DEF Init, Queued, Cached, Working
<1>4. Recorded /\ SourceRecordedFirst
  BY DEF Init, Recorded, SourceRecordedFirst
<1> QED BY <1>2, <1>3, <1>4 DEF NodesInv

LEMMA StepInv ==
    NodesInv /\ [Next]_vars => NodesInv'
<1> SUFFICES ASSUME NodesInv, [Next]_vars PROVE NodesInv'
  OBVIOUS
<1>0. Shape /\ clock \in Nat
  BY DEF NodesInv, Shape
<1>1. CASE UNCHANGED vars
  BY <1>0, <1>1, IdleStep DEF vars
<1>2. CASE UNCHANGED Inputs /\ Tick
  BY <1>0, <1>2, IdleStep DEF Tick
<1>3. ASSUME UNCHANGED Inputs, NEW n \in Nodes, SensorTimer(n) \/ CyclicTimer(n) \/ Step(n)
      PROVE  NodesInv'
  <2>1. CASE SensorTimer(n)
    BY <2>1, <1>3, SensorStep
  <2>2. CASE CyclicTimer(n)
    BY <2>2, <1>3, CyclicStep
  <2>3. ASSUME NEW i \in DOMAIN Inputs[n], Relay(n, i) \/ FusionCache(n, i) \/ CyclicInput(n, i)
        PROVE  NodesInv'
    BY <2>3, <1>3, RelayStep, CacheStep
  <2>4. CASE FusionTrigger(n)
    BY <2>4, <1>3, FusionStep
  <2>5. CASE CommandInput(n)
    <3>1. 1 \in DOMAIN Inputs[n]
      BY <2>5, <1>0, GraphFacts DEF CommandInput
    <3> QED BY <3>1, <2>5, <1>3, RelayStep
  <2>6. CASE Publish(n)
    BY <2>6, <1>3, PublishStep
  <2>7. CASE Emit(n)
    BY <2>7, <1>3, EmitStep
  <2> QED BY <2>1, <2>2, <2>3, <2>4, <2>5, <2>6, <2>7, <1>3 DEF Step
<1> QED BY <1>1, <1>2, <1>3 DEF Next

-----------------------------------------------------------------------------
(* What the invariant says of the records. *)

LEMMA InvTraceable ==
    NodesInv => SamplesTraceable
<1> SUFFICES ASSUME NodesInv, NEW r \in log, NEW k \in DOMAIN r.inputs
             PROVE  LET id == r.inputs[k]
                    IN  \/ \E s \in RecordsOf(id) : RecordsOf(id) = {s}
                        \/ pc[id.node] = "emit" /\ IdentityOf(work[id.node].msg) = id
                        \/ Type[id.node] = "Sensor" /\ SourceKind[id.node] = 0
  BY DEF NodesInv, SamplesTraceable, Traceable
<1>1. PICK id : id = r.inputs[k]
  OBVIOUS
<1>2. Introduced(id) /\ IdentityOf(id) = id
  <2>1. RecordTrue(r)
    BY DEF NodesInv, Recorded
  <2>2. r.event # "source"
    <3>1. r.event = "source" => r.inputs = <<>>
      BY <2>1 DEF RecordTrue
    <3> QED BY <3>1
  <2>3. Made(r.source, r.inputs)
    BY <2>1, <2>2 DEF RecordTrue
  <2> QED BY <2>3, <1>1 DEF Made
<1>3. CASE RecordsOf(id) # {}
  <2>1. PICK s : s \in RecordsOf(id)
    BY <1>3
  <2>2. \A z \in RecordsOf(id) : z = s
    BY <2>1 DEF RecordsOf, NodesInv, Recorded, SameId
  <2> QED BY <2>1, <2>2, <1>1
<1>4. CASE pc[id.node] = "emit" /\ SameId(work[id.node].msg, id)
  <2>1. IdentityOf(work[id.node].msg) = IdentityOf(id)
    BY <1>4 DEF IdentityOf, SameId
  <2> QED BY <2>1, <1>1, <1>2, <1>4
<1> QED BY <1>1, <1>2, <1>3, <1>4 DEF Introduced

LEMMA InvInherited ==
    NodesInv => SourceInherited
<1> SUFFICES ASSUME NodesInv, NEW r \in log, r.event # "source",
                    \A k \in DOMAIN r.inputs : RecordsOf(r.inputs[k]) # {},
                    NEW valid,
                    valid = {s \in UNION {RecordsOf(r.inputs[k]) : k \in DOMAIN r.inputs} :
                                s.source.kind # 0}
             PROVE  IF valid = {} THEN r.source = NoSource
                    ELSE /\ r.source \in {s.source : s \in valid}
                         /\ \A s \in valid : r.source.t <= s.source.t
  BY DEF SourceInherited
<1>1. RecordTrue(r) /\ r.source = provenance_source_json(r.source)
  BY DEF NodesInv, Recorded, RecordTrue
<1>2. PICK D, f : D = DOMAIN r.inputs /\ f \in [D -> Source]
        /\ provenance_source_json(r.source) \in oldest_provenance_source(f)
        /\ \A k \in D : Known(r.inputs[k], f[k])
  BY <1>1 DEF RecordTrue, Made
<1>3. /\ (\A k \in D : f[k].kind = 0) => r.source = NoSource
      /\ (\E k \in D : f[k].kind # 0) =>
            /\ \E k \in D : f[k].kind # 0 /\ r.source = f[k]
            /\ \A k \in D : f[k].kind # 0 => r.source.t <= f[k].t
  BY <1>1, <1>2, OldestFacts
<1>4. ASSUME NEW k \in D, NEW s \in RecordsOf(r.inputs[k])
      PROVE  s.source.kind = f[k].kind /\ (f[k].kind # 0 => s.source = f[k])
  <2>1. s \in log /\ SameId(s, r.inputs[k])
    BY DEF RecordsOf, SameId
  <2>2. s.source = provenance_source_json(f[k])
    BY <2>1, <1>2 DEF Known
  <2>3. f[k] \in Source
    BY <1>2
  <2> QED BY <2>2, <2>3, ShownFacts
<1>5. \A s \in valid : \E k \in D : s \in RecordsOf(r.inputs[k]) /\ f[k].kind # 0 /\ s.source = f[k]
  BY <1>2, <1>4
<1>6. \A k \in D : f[k].kind # 0 => \E s \in valid : s.source = f[k]
  <2> SUFFICES ASSUME NEW k \in D, f[k].kind # 0 PROVE \E s \in valid : s.source = f[k]
    OBVIOUS
  <2>1. PICK s : s \in RecordsOf(r.inputs[k])
    BY <1>2
  <2>2. s.source = f[k] /\ s.source.kind # 0
    BY <2>1, <1>4
  <2> QED BY <2>1, <2>2, <1>2
<1>7. CASE valid = {}
  BY <1>3, <1>6, <1>7
<1>8. CASE valid # {}
  <2>1. \E k \in D : f[k].kind # 0
    BY <1>5, <1>8
  <2>2. r.source \in {s.source : s \in valid}
    BY <2>1, <1>3, <1>6
  <2>3. \A s \in valid : r.source.t <= s.source.t
    BY <2>1, <1>3, <1>5
  <2> QED BY <2>2, <2>3, <1>8
<1> QED BY <1>7, <1>8

-----------------------------------------------------------------------------
(* For every system of nodes, however its callbacks interleave and whatever messages the
   queues of depth 1 lose: what a link or sink record names as its source was recorded by a
   sensor before, and each input it names has exactly one record, except while its node is
   between publish() and the link or if a sensor without a source kind sent it
   (sensor.hpp:82-84, transform.hpp:75-79). *)
THEOREM RecordsTraceable == Spec => []SamplesTraceable
<1>1. Spec => []NodesInv
  BY InitInv, StepInv, PTL DEF Spec
<1> QED BY <1>1, InvTraceable, PTL

(* For every system of nodes: the source that a link or sink record names is the oldest valid
   one among those that the records of its inputs name, and null if none is valid, even in a
   Fusion, which reads its caches when it merges and again for its link (fusion.hpp:100-108). *)
THEOREM OldestSourceInherited == Spec => []SourceInherited
<1>1. Spec => []NodesInv
  BY InitInv, StepInv, PTL DEF Spec
<1> QED BY <1>1, InvInherited, PTL

-----------------------------------------------------------------------------
(* One subscription: its queue q, its cached message ca, the number a of the last message
   processed, the number u of messages processed, the drops d reported, and the number x
   that the publisher will draw next. *)
SubTrue(q, ca, a, u, d, x) ==
    /\ a \in Nat /\ u \in Nat /\ d \in Nat /\ x \in Nat
    /\ a = 0 \/ a < x
    /\ \A k \in DOMAIN q : q[k].seq \in Nat /\ a <= q[k].seq /\ q[k].seq < x
    /\ \A k, l \in DOMAIN q : k < l => q[k].seq <= q[l].seq
    /\ ca # None => /\ ca.seq \in Nat /\ a <= ca.seq /\ ca.seq < x
                    /\ \A k \in DOMAIN q : ca.seq <= q[k].seq
    /\ IF u = 0 THEN a = 0 /\ d = 0 ELSE u + d = a \/ u + d = a + 1

(* The publisher draws a number. *)
LEMMA SubDraw ==
    ASSUME NEW q, NEW ca, NEW a, NEW u, NEW d, NEW x, SubTrue(q, ca, a, u, d, x),
           NEW y \in Nat, x <= y
    PROVE  SubTrue(q, ca, a, u, d, y)
<1>1. x \in Nat /\ a \in Nat
  BY DEF SubTrue
<1>2. a = 0 \/ a < y
  BY <1>1 DEF SubTrue
<1>3. \A k \in DOMAIN q : q[k].seq \in Nat /\ a <= q[k].seq /\ q[k].seq < y
  BY <1>1 DEF SubTrue
<1>4. ca # None => ca.seq \in Nat /\ a <= ca.seq /\ ca.seq < y
  BY <1>1 DEF SubTrue
<1> QED BY <1>2, <1>3, <1>4 DEF SubTrue

(* The oldest message is taken out; the next ones are no older. *)
LEMMA SubTake ==
    ASSUME NEW q, IsSequence(q), q # <<>>, NEW ca, NEW a, NEW u, NEW d, NEW x,
           SubTrue(q, ca, a, u, d, x), NEW cb, cb \in {ca, Head(q)}
    PROVE  /\ SubTrue(Tail(q), cb, a, u, d, x)
           /\ Head(q).seq \in Nat /\ a <= Head(q).seq /\ Head(q).seq < x
           /\ \A k \in DOMAIN Tail(q) : Head(q).seq <= Tail(q)[k].seq
<1>0. PICK S : q \in Seq(S)
  BY DEF IsSequence
<1>1. Len(q) \in Nat /\ DOMAIN q = 1 .. Len(q) /\ 1 \in DOMAIN q /\ Head(q) = q[1]
  BY <1>0
<1>2. PICK r : r = Tail(q)
  OBVIOUS
<1>3. DOMAIN r \subseteq Nat /\ \A k \in DOMAIN r : k + 1 \in DOMAIN q /\ r[k] = q[k + 1]
  BY <1>0, <1>1, <1>2
<1>4. \A k \in DOMAIN r : r[k].seq \in Nat /\ a <= r[k].seq /\ r[k].seq < x
  BY <1>3 DEF SubTrue
<1>5. \A k, l \in DOMAIN r : k < l => r[k].seq <= r[l].seq
  <2>1. \A k, l \in DOMAIN r : k < l => k + 1 < l + 1
    BY <1>3
  <2> QED BY <1>3, <2>1 DEF SubTrue
<1>6. q[1].seq \in Nat /\ a <= q[1].seq /\ q[1].seq < x
  BY <1>1 DEF SubTrue
<1>7. \A k \in DOMAIN r : q[1].seq <= r[k].seq
  <2>1. \A k \in DOMAIN r : 1 < k + 1
    BY <1>0, <1>2
  <2> QED BY <1>1, <1>3, <2>1 DEF SubTrue
<1>8. cb # None => /\ cb.seq \in Nat /\ a <= cb.seq /\ cb.seq < x
                   /\ \A k \in DOMAIN r : cb.seq <= r[k].seq
  <2>1. CASE cb = ca
    BY <2>1, <1>3 DEF SubTrue
  <2>2. CASE cb = q[1]
    BY <2>2, <1>6, <1>7
  <2> QED BY <2>1, <2>2, <1>1
<1>9. SubTrue(r, cb, a, u, d, x)
  BY <1>4, <1>5, <1>8 DEF SubTrue
<1> QED BY <1>1, <1>2, <1>6, <1>7, <1>9

(* A message numbered s, no older than what is processed, is processed. *)
LEMMA SubAccount ==
    ASSUME NEW q, NEW ca, NEW a, NEW u, NEW d, NEW x, SubTrue(q, ca, a, u, d, x),
           NEW s \in Nat, a <= s, s < x,
           \A k \in DOMAIN q : s <= q[k].seq,
           ca # None => s <= ca.seq,
           NEW v, v = IF u = 0 \/ s # a THEN u + 1 ELSE u,
           NEW w, w = d + (IF s > a THEN s - a - 1 ELSE 0)
    PROVE  SubTrue(q, ca, s, v, w, x)
<1>1. /\ a \in Nat /\ u \in Nat /\ d \in Nat /\ x \in Nat
      /\ IF u = 0 THEN a = 0 /\ d = 0 ELSE u + d = a \/ u + d = a + 1
  BY DEF SubTrue
<1>2. PICK g : g = IF s > a THEN s - a - 1 ELSE 0
  OBVIOUS
<1>3. g \in Nat
  <2>1. CASE s > a
    BY <1>1, <1>2, <2>1
  <2>2. CASE ~(s > a)
    BY <1>2, <2>2
  <2> QED BY <2>1, <2>2
<1>4. w = d + g
  BY <1>2
<1>5. v \in Nat /\ w \in Nat /\ v # 0
  BY <1>1, <1>3, <1>4
<1>6. v + w = s \/ v + w = s + 1
  <2>1. CASE u = 0
    BY <1>1, <1>2, <1>4, <2>1
  <2>2. CASE u # 0 /\ s # a
    BY <1>1, <1>2, <1>4, <2>2
  <2>3. CASE u # 0 /\ s = a
    BY <1>1, <1>2, <1>4, <2>3
  <2> QED BY <2>1, <2>2, <2>3
<1> QED BY <1>1, <1>5, <1>6 DEF SubTrue

(* A message with the last number drawn is delivered. *)
LEMMA SubDeliver ==
    ASSUME NEW q, IsSequence(q), NEW ca, NEW a, NEW u, NEW d, NEW x,
           SubTrue(q, ca, a, u, d, x), NEW m, m.seq \in Nat, m.seq + 1 = x, NEW c
    PROVE  SubTrue(KeepLast(Append(q, m), c), ca, a, u, d, x)
<1>0. PICK S : q \in Seq(S)
  BY DEF IsSequence
<1>1. PICK r : r = Append(q, m)
  OBVIOUS
<1>2. q \in Seq(S \cup {m}) /\ m \in S \cup {m}
  BY <1>0
<1>3. /\ r \in Seq(S \cup {m}) /\ Len(q) \in Nat /\ DOMAIN q = 1 .. Len(q)
      /\ DOMAIN r = 1 .. Len(q) + 1 /\ r # <<>>
      /\ r[Len(q) + 1] = m /\ \A k \in DOMAIN q : r[k] = q[k]
  BY <1>1, <1>2
<1>4. IsSequence(r)
  BY <1>3 DEF IsSequence
<1>5. /\ a \in Nat /\ x \in Nat /\ a <= m.seq /\ m.seq < x
      /\ \A k \in DOMAIN q : q[k].seq \in Nat /\ a <= q[k].seq /\ q[k].seq < x /\ q[k].seq <= m.seq
      /\ ca # None => ca.seq \in Nat /\ ca.seq <= m.seq
  BY DEF SubTrue
<1>6. \A k \in DOMAIN r : k \in DOMAIN q \/ k = Len(q) + 1
  BY <1>3
<1>7. \A k \in DOMAIN r : r[k].seq \in Nat /\ a <= r[k].seq /\ r[k].seq < x
  BY <1>3, <1>5, <1>6
<1>8. \A k, l \in DOMAIN r : k < l => r[k].seq <= r[l].seq
  <2>1. SUFFICES ASSUME NEW k \in DOMAIN r, NEW l \in DOMAIN r, k < l PROVE r[k].seq <= r[l].seq
    OBVIOUS
  <2>2. k \in DOMAIN q
    BY <1>3, <2>1
  <2>3. CASE l \in DOMAIN q
    BY <1>3, <2>1, <2>2, <2>3 DEF SubTrue
  <2>4. CASE l = Len(q) + 1
    BY <1>3, <1>5, <2>2, <2>4
  <2> QED BY <1>6, <2>3, <2>4
<1>9. ca # None => \A k \in DOMAIN r : ca.seq <= r[k].seq
  <2>1. SUFFICES ASSUME ca # None, NEW k \in DOMAIN r PROVE ca.seq <= r[k].seq
    OBVIOUS
  <2>2. CASE k \in DOMAIN q
    BY <1>3, <2>1, <2>2 DEF SubTrue
  <2>3. CASE k = Len(q) + 1
    BY <1>3, <1>5, <2>1, <2>3
  <2> QED BY <1>6, <2>2, <2>3
<1>10. SubTrue(r, ca, a, u, d, x)
  BY <1>7, <1>8, <1>9 DEF SubTrue
<1>11. SubTrue(Tail(r), ca, a, u, d, x)
  BY <1>3, <1>4, <1>10, SubTake
<1> QED BY <1>1, <1>10, <1>11 DEF KeepLast

-----------------------------------------------------------------------------
(* Histories. *)

EntriesOf(h) == {h[k] : k \in DOMAIN h}

(* Numbers of the nodes that grow along the topics. *)
IsRank(rank, g) ==
    /\ rank \in [DOMAIN g -> 1 .. Capacity]
    /\ \A n, p \in DOMAIN g : rank[n] = rank[p] => n = p
    /\ \A n \in DOMAIN g : \A i \in DOMAIN g[n] : rank[g[n][i][1]] < rank[n]

Rank == CHOOSE rank : IsRank(rank, Inputs)

LEMMA RankFacts ==
    ASSUME Shape
    PROVE  IsRank(Rank, Inputs)
<1>1. Layered(Inputs)
  BY NodesAssumption DEF Shape
<1>2. \E rank : IsRank(rank, Inputs)
  BY <1>1 DEF Layered, IsRank
<1> QED BY <1>2 DEF Rank

(* The publisher of a topic that n reads is a node before n. *)
LEMMA TopicFacts ==
    ASSUME Shape, NEW n \in Nodes, NEW i \in DOMAIN Inputs[n]
    PROVE  /\ Inputs[n][i][1] \in Nodes /\ Inputs[n][i][2] \in Channels(Inputs[n][i][1])
           /\ Rank[Inputs[n][i][1]] < Rank[n]
           /\ Inputs[n][i] = <<Inputs[n][i][1], Inputs[n][i][2]>>
<1>1. Inputs[n][i][1] \in DOMAIN Inputs /\ Inputs[n][i][2] \in ChannelsIn(Inputs, Inputs[n][i][1])
  BY NodesAssumption DEF Shape, Nodes
<1>2. Inputs[n] \in Seq(AllNodes \X Nat)
  BY NodesAssumption DEF Shape, Nodes
<1>3. Inputs[n][i] \in AllNodes \X Nat
  BY <1>2
<1>4. Rank[Inputs[n][i][1]] < Rank[n]
  BY RankFacts DEF IsRank, Nodes
<1> QED BY <1>1, <1>3, <1>4 DEF Nodes, Channels

(* An entry of a message with source s: its node is one of the system, and if it is a sensor
   with a source kind, s is valid and no younger than the entry. *)
EntryTrue(e, s) ==
    /\ e.node \in Nodes
    /\ SourceKind[e.node] # 0 => s.kind # 0 /\ s.t \in Nat /\ e.t \in Nat /\ s.t <= e.t

(* A message of topic: no entry is of a node after its publisher, and the last one is the
   publisher's own. *)
MessageTrue(m, topic) ==
    /\ m.node \in Nodes /\ <<m.node, m.channel>> = topic
    /\ m.seq \in Nat
    /\ m.source \in Source
    /\ IsSequence(m.history) /\ m.history # <<>>
    /\ \A k \in DOMAIN m.history :
          EntryTrue(m.history[k], m.source) /\ Rank[m.history[k].node] <= Rank[m.node]
    /\ m.history[Len(m.history)].node = m.node /\ m.history[Len(m.history)].seq = m.seq

(* Entries of nodes before n, each of another node, leave room for one of n. *)
LEMMA RoomLeft ==
    ASSUME Shape, NEW n \in Nodes, NEW E, NEW h, Proper(h, E),
           \A e \in E : e.node \in Nodes /\ Rank[e.node] < Rank[n]
    PROVE  Len(h) < Capacity
<1>1. /\ Rank \in [Nodes -> 1 .. Capacity]
      /\ \A p, q \in Nodes : Rank[p] = Rank[q] => p = q
  BY RankFacts DEF IsRank, Nodes
<1>2. h \in Seq(E) /\ Len(h) \in Nat /\ DOMAIN h = 1 .. Len(h) /\ Unique(h)
  BY DEF Proper
<1>3. PICK r \in Nat : r + 1 = Rank[n] /\ r < Capacity
  <2>1. Rank[n] \in 1 .. Capacity
    BY <1>1
  <2>2. Rank[n] - 1 \in Nat /\ (Rank[n] - 1) + 1 = Rank[n] /\ Rank[n] - 1 < Capacity
    BY <2>1, CapacityAssumption
  <2> QED BY <2>2
<1>4. PICK f : f = [k \in 1 .. Len(h) |-> Rank[h[k].node]]
  OBVIOUS
<1>5. \A k \in 1 .. Len(h) : h[k].node \in Nodes /\ f[k] = Rank[h[k].node] /\ f[k] \in 1 .. r
  <2>1. SUFFICES ASSUME NEW k \in 1 .. Len(h) PROVE h[k].node \in Nodes /\ Rank[h[k].node] \in 1 .. r
    BY <1>4
  <2>2. h[k] \in E
    BY <1>2
  <2>3. h[k].node \in Nodes /\ Rank[h[k].node] < r + 1 /\ Rank[h[k].node] \in 1 .. Capacity
    BY <1>1, <1>3, <2>2
  <2> QED BY <1>3, <2>3
<1>6. \A k, l \in 1 .. Len(h) : f[k] = f[l] => k = l
  BY <1>1, <1>2, <1>5 DEF Unique
<1>7. f \in [1 .. Len(h) -> 1 .. r]
  BY <1>4, <1>5
<1>8. f \in Injection(1 .. Len(h), 1 .. r)
  BY <1>6, <1>7 DEF Injection, IsInjective
<1>9. /\ IsFiniteSet(1 .. r) /\ Cardinality(1 .. r) = (IF 1 > r THEN 0 ELSE r - 1 + 1)
      /\ Cardinality(1 .. Len(h)) = (IF 1 > Len(h) THEN 0 ELSE Len(h) - 1 + 1)
  <2>1. 1 \in Int /\ r \in Int /\ Len(h) \in Int
    BY <1>2, <1>3
  <2> QED BY <2>1, FS_Interval
<1>10. Cardinality(1 .. Len(h)) <= Cardinality(1 .. r)
  BY <1>8, <1>9, FS_Injection
<1>11. Len(h) <= r
  BY <1>2, <1>3, <1>9, <1>10
<1> QED BY <1>2, <1>3, <1>11, CapacityAssumption

LEMMA EmptyProper ==
    ASSUME NEW E
    PROVE  Proper(<<>>, E)
<1>1. <<>> \in Seq(E) /\ Len(<<>>) = 0 /\ DOMAIN <<>> = {}
  OBVIOUS
<1> QED BY <1>1, CapacityAssumption DEF Proper, Unique

(* The message that n makes of a history of nodes before it, with n's own entry last. *)
LEMMA MessageMade ==
    ASSUME Shape, NEW n \in Nodes, NEW c \in Channels(n), NEW s \in Source, NEW missed,
           NEW E, NEW h, Proper(h, E),
           \A e \in E : EntryTrue(e, s) /\ Rank[e.node] < Rank[n],
           SourceKind[n] # 0 => s.kind # 0 /\ s.t <= clock
    PROVE  MessageTrue(Message(n, c, Stamped(h, Entry(n, c, missed)), s), <<n, c>>)
<1>1. PICK e : e = Entry(n, c, missed)
  OBVIOUS
<1>2. e.node = n /\ e.seq = next_seq[n][c] /\ e.t = clock
  BY <1>1 DEF Entry
<1>3. clock \in Nat /\ next_seq[n][c] \in Nat /\ s.t \in Nat
  BY DEF Shape, Source
<1>4. /\ Rank \in [Nodes -> 1 .. Capacity] /\ Capacity \in Nat
  BY RankFacts, CapacityAssumption DEF IsRank, Nodes
<1>5. h \in Seq(E) /\ Len(h) \in Nat /\ DOMAIN h = 1 .. Len(h) /\ \A k \in DOMAIN h : h[k] \in E
  BY DEF Proper
<1>6. Len(h) < Capacity
  BY RoomLeft DEF EntryTrue
<1>7. n \notin Names(h)
  <2>1. ASSUME NEW k \in DOMAIN h PROVE h[k].node # n
    <3>1. Rank[h[k].node] < Rank[n] /\ Rank[n] \in Nat
      BY <1>4, <1>5
    <3> QED BY <3>1
  <2> QED BY <2>1 DEF Names
<1>8. PICK F : F = E \cup {e}
  OBVIOUS
<1>9. Proper(h, F) /\ e \in F
  <2>1. h \in Seq(F)
    BY <1>5, <1>8
  <2> QED BY <1>8, <2>1 DEF Proper
<1>10. PICK g : g = Append(h, e)
  OBVIOUS
<1>11. Stamped(h, e) = g
  BY <1>2, <1>6, <1>7, <1>9, <1>10, SetSampleFacts DEF Stamped
<1>12. /\ g \in Seq(F) /\ Len(g) = Len(h) + 1 /\ DOMAIN g = 1 .. Len(h) + 1 /\ g # <<>>
       /\ g[Len(h) + 1] = e /\ \A k \in DOMAIN h : g[k] = h[k]
  BY <1>5, <1>9, <1>10 DEF Proper
<1>13. PICK m : m = Message(n, c, g, s)
  OBVIOUS
<1>14. /\ m.history = g /\ m.node = n /\ m.seq = next_seq[n][c] /\ m.channel = c /\ m.source = s
  BY <1>13 DEF Message
<1>15. IsSequence(g)
  BY <1>12 DEF IsSequence
<1>16. EntryTrue(e, s)
  BY <1>2, <1>3 DEF EntryTrue
<1>17. ASSUME NEW k \in DOMAIN g PROVE EntryTrue(g[k], s) /\ Rank[g[k].node] <= Rank[n]
  <2>1. k \in DOMAIN h \/ k = Len(h) + 1
    BY <1>5, <1>12
  <2>2. CASE k \in DOMAIN h
    <3>1. g[k] = h[k] /\ h[k] \in E
      BY <1>5, <1>12, <2>2
    <3>2. EntryTrue(h[k], s) /\ Rank[h[k].node] < Rank[n] /\ h[k].node \in Nodes
      BY <3>1 DEF EntryTrue
    <3>3. Rank[h[k].node] \in Nat /\ Rank[n] \in Nat
      BY <1>4, <3>2
    <3> QED BY <3>1, <3>2, <3>3
  <2>3. CASE k = Len(h) + 1
    <3>1. Rank[n] \in Nat
      BY <1>4
    <3> QED BY <1>2, <1>12, <1>16, <2>3, <3>1
  <2> QED BY <2>1, <2>2, <2>3
<1>18. g[Len(g)] = e
  BY <1>12
<1>19. MessageTrue(m, <<n, c>>)
  BY <1>2, <1>3, <1>12, <1>14, <1>15, <1>17, <1>18 DEF MessageTrue
<1> QED BY <1>1, <1>11, <1>13, <1>19

(* Merging the history of a message leaves a proper history of the entries of both. *)
LEMMA MergedProper ==
    ASSUME NEW E, NEW h, Proper(h, E), NEW g, IsSequence(g), EntriesOf(g) \subseteq E
    PROVE  Proper(merge_history_into_sample(h, g), E)
<1>1. PICK S : g \in Seq(S)
  BY DEF IsSequence
<1>2. g \in Seq(E)
  <2>1. Len(g) \in Nat /\ DOMAIN g = 1 .. Len(g) /\ g \in [1 .. Len(g) -> S]
    BY <1>1
  <2>2. \A k \in DOMAIN g : g[k] \in E
    BY DEF EntriesOf
  <2>3. g \in [1 .. Len(g) -> E]
    BY <2>1, <2>2
  <2> QED BY <2>1, <2>3
<1>3. MergeTrue(Merge(h, g), h, g, Len(g), E)
  BY <1>2, MergeFacts
<1> QED BY <1>3 DEF MergeTrue, merge_history_into_sample

-----------------------------------------------------------------------------
(* The histories of a Cyclic's inputs. *)

CachedIter(g, s, n) ==
    g = [u \in SUBSET (1 .. n) |->
            IF u = {} THEN <<>> ELSE MergeCached(g[u \ {Max(u)}], s[Max(u)])]

LEMMA CachedIterExists ==
    ASSUME NEW s, NEW n \in Nat
    PROVE  \E g : CachedIter(g, s, n)
<1> DEFINE T == {k \in Nat : \E g : CachedIter(g, s, k)}
<1>1. 0 \in T
  <2>1. PICK g : g = [u \in SUBSET (1 .. 0) |-> <<>>]
    OBVIOUS
  <2>2. \A u \in SUBSET (1 .. 0) : u = {}
    OBVIOUS
  <2>3. [u \in SUBSET (1 .. 0) |-> <<>>]
        = [u \in SUBSET (1 .. 0) |->
              IF u = {} THEN <<>> ELSE MergeCached(g[u \ {Max(u)}], s[Max(u)])]
    BY <2>2
  <2> QED BY <2>1, <2>3 DEF CachedIter
<1>2. ASSUME NEW k \in Nat, k \in T PROVE k + 1 \in T
  <2>1. PICK g : CachedIter(g, s, k)
    BY <1>2
  <2>2. PICK h : h = [u \in SUBSET (1 .. k + 1) |->
                        IF k + 1 \in u THEN MergeCached(g[u \ {k + 1}], s[k + 1]) ELSE g[u]]
    OBVIOUS
  <2>3. \A u \in SUBSET (1 .. k + 1) :
            h[u] = IF k + 1 \in u THEN MergeCached(g[u \ {k + 1}], s[k + 1]) ELSE g[u]
    BY <2>2
  <2>4. \A u \in SUBSET (1 .. k) :
            g[u] = IF u = {} THEN <<>> ELSE MergeCached(g[u \ {Max(u)}], s[Max(u)])
    BY <2>1 DEF CachedIter
  <2>5. \A u \in SUBSET (1 .. k) : u \in SUBSET (1 .. k + 1) /\ k + 1 \notin u
    OBVIOUS
  <2>6. \A u \in SUBSET (1 .. k) : h[u] = g[u]
    BY <2>3, <2>5
  <2>7. ASSUME NEW u \in SUBSET (1 .. k + 1)
        PROVE  h[u] = IF u = {} THEN <<>> ELSE MergeCached(h[u \ {Max(u)}], s[Max(u)])
    <3>1. CASE k + 1 \in u
      <4>1. Max(u) = k + 1
        BY <3>1, MaxOfInterval
      <4>2. u \ {k + 1} \in SUBSET (1 .. k)
        OBVIOUS
      <4> QED BY <4>1, <4>2, <2>3, <2>6, <3>1
    <3>2. CASE k + 1 \notin u
      <4>1. u \in SUBSET (1 .. k)
        BY <3>2, MaxOfInterval
      <4>2. u \ {Max(u)} \in SUBSET (1 .. k)
        BY <4>1
      <4> QED BY <4>1, <4>2, <2>4, <2>6
    <3> QED BY <3>1, <3>2
  <2>8. h = [u \in SUBSET (1 .. k + 1) |->
                IF u = {} THEN <<>> ELSE MergeCached(h[u \ {Max(u)}], s[Max(u)])]
    BY <2>2, <2>7
  <2>9. CachedIter(h, s, k + 1)
    BY <2>8 DEF CachedIter
  <2> QED BY <2>9
<1> HIDE DEF T
<1>3. Nat \subseteq T
  BY <1>1, <1>2, NatSetInduction
<1> QED BY <1>3 DEF T

(* The merged history of what is cached is a proper one of the entries cached. *)
LEMMA CachedProper ==
    ASSUME NEW N \in Nat, NEW s, DOMAIN s = 1 .. N, NEW E,
           \A i \in 1 .. N : s[i] # None => IsSequence(s[i].history) /\ EntriesOf(s[i].history) \subseteq E
    PROVE  Proper(MergedHistory(s), E)
<1> DEFINE Body(gg) == [u \in SUBSET (DOMAIN s) |->
                          IF u = {} THEN <<>> ELSE MergeCached(gg[u \ {Max(u)}], s[Max(u)])]
<1>1. \E g : CachedIter(g, s, N)
  BY CachedIterExists
<1>2. \E gg : gg = Body(gg)
  BY <1>1 DEF CachedIter
<1>3. PICK g : g = CHOOSE gg : gg = Body(gg)
  OBVIOUS
<1>4. g = Body(g)
  BY <1>2, <1>3
<1>5. MergedHistory(s) = g[DOMAIN s]
  BY <1>3 DEF MergedHistory, FoldLeft, MapThenFoldSet
<1> DEFINE T == {k \in Nat : k <= N => Proper(g[1 .. k], E)}
<1>6. 0 \in T
  <2>1. 1 .. 0 = {} /\ {} \in SUBSET DOMAIN s
    OBVIOUS
  <2>2. g[1 .. 0] = <<>>
    BY <1>4, <2>1
  <2> QED BY <2>2, EmptyProper
<1>7. ASSUME NEW k \in Nat, k \in T PROVE k + 1 \in T
  <2>1. SUFFICES ASSUME k + 1 <= N PROVE Proper(g[1 .. k + 1], E)
    OBVIOUS
  <2>2. PICK j \in Nat : j = k + 1 /\ j # 0 /\ j - 1 = k /\ j <= N
    BY <2>1
  <2>3. j \in 1 .. N /\ k <= N
    BY <2>2
  <2>4. 1 .. j \subseteq DOMAIN s
    BY <2>2
  <2>5. j \in 1 .. j
    BY <2>2
  <2>6. 1 .. j \in SUBSET DOMAIN s /\ 1 .. j # {}
    BY <2>4, <2>5
  <2>7. Max(1 .. j) = j /\ (1 .. j) \ {j} = 1 .. (j - 1)
    BY <2>2, MaxOfFirst
  <2>8. g[1 .. j] = MergeCached(g[(1 .. j) \ {Max(1 .. j)}], s[Max(1 .. j)])
    BY <1>4, <2>6
  <2>9. g[1 .. j] = MergeCached(g[1 .. k], s[j])
    BY <2>2, <2>7, <2>8
  <2>10. Proper(g[1 .. k], E)
    BY <1>7, <2>3
  <2>11. CASE s[j] = None
    BY <2>2, <2>9, <2>10, <2>11 DEF MergeCached
  <2>12. CASE s[j] # None
    <3>1. IsSequence(s[j].history) /\ EntriesOf(s[j].history) \subseteq E
      BY <2>12, <2>3
    <3>2. Proper(merge_history_into_sample(g[1 .. k], s[j].history), E)
      BY <2>10, <3>1, MergedProper
    <3> QED BY <2>2, <2>9, <2>12, <3>2 DEF MergeCached
  <2> QED BY <2>11, <2>12
<1> HIDE DEF T
<1>8. N \in T
  BY <1>6, <1>7, NatSetInduction
<1>9. N <= N
  OBVIOUS
<1> QED BY <1>5, <1>8, <1>9 DEF T

-----------------------------------------------------------------------------
(* The invariant of the flow of messages, next to NodesInv. *)

FlowShape ==
    /\ clock <= MaxTime
    /\ DOMAIN in_seq = Nodes /\ DOMAIN used = Nodes /\ DOMAIN counted = Nodes
    /\ \A n \in Nodes : /\ in_seq[n] \in [DOMAIN Inputs[n] -> Nat]
                        /\ DOMAIN used[n] = DOMAIN Inputs[n]
                        /\ DOMAIN counted[n] = DOMAIN Inputs[n]
    /\ fires \in [Nodes -> Nat]
    /\ \A n \in Nodes : fires[n] <= MaxFires[n]

(* Input i of n, with queue q, cached message ca and the three counters a, u and d. *)
InputTrue(n, i, q, ca, a, u, d) ==
    /\ IsSequence(q) /\ Len(q) <= Depth(n)
    /\ \A k \in DOMAIN q : MessageTrue(q[k], Inputs[n][i])
    /\ ca # None => MessageTrue(ca, Inputs[n][i]) /\ Type[n] \in {"Fusion", "Cyclic"}
    /\ SubTrue(q, ca, a, u, d, next_seq[Inputs[n][i][1]][Inputs[n][i][2]])

RowTrue(n) ==
    \A i \in DOMAIN Inputs[n] :
        InputTrue(n, i, queue[n][i], cache[n][i], in_seq[n][i], used[n][i], counted[n][i])

(* The message in hand has the last number that was drawn for its topic. *)
Outgoing(n) ==
    IF pc[n] = "idle" THEN work[n] = None
    ELSE /\ work[n].msg.channel \in Channels(n)
         /\ work[n].msg.seq \in Nat
         /\ next_seq[n][work[n].msg.channel] = work[n].msg.seq + 1
         /\ Type[n] # "Command" => MessageTrue(work[n].msg, <<n, work[n].msg.channel>>)

FlowInv == FlowShape /\ \A n \in Nodes : RowTrue(n) /\ Outgoing(n)

(* Numbers are only drawn. *)
Grows ==
    \A p \in Nodes : \A c \in Channels(p) :
        next_seq'[p][c] \in Nat /\ next_seq[p][c] <= next_seq'[p][c]

LEMMA MessageStays ==
    ASSUME UNCHANGED Inputs, NEW m, NEW topic, MessageTrue(m, topic)
    PROVE  MessageTrue(m, topic)'
<1>1. Rank' = Rank
  BY DEF Rank
<1>2. Nodes' = Nodes
  BY SameGraph
<1> QED BY <1>1, <1>2 DEF MessageTrue, EntryTrue

(* What is true of an input stays true when its publisher draws numbers. *)
LEMMA InputStays ==
    ASSUME Shape, UNCHANGED Inputs, Grows, NEW n \in Nodes, NEW i \in DOMAIN Inputs[n],
           NEW q, NEW ca, NEW a, NEW u, NEW d, InputTrue(n, i, q, ca, a, u, d)
    PROVE  InputTrue(n, i, q, ca, a, u, d)'
<1>1. PICK p \in Nodes : p = Inputs[n][i][1]
  BY TopicFacts
<1>2. PICK c \in Channels(p) : c = Inputs[n][i][2]
  BY <1>1, TopicFacts
<1>3. PICK x : x = next_seq[p][c]
  OBVIOUS
<1>4. PICK y \in Nat : y = next_seq'[p][c] /\ x <= y
  BY <1>3 DEF Grows
<1>5. SubTrue(q, ca, a, u, d, y)
  BY <1>1, <1>2, <1>3, <1>4, SubDraw DEF InputTrue
<1>6. PICK topic : topic = Inputs[n][i]
  OBVIOUS
<1>7. /\ \A k \in DOMAIN q : MessageTrue(q[k], topic)'
      /\ ca # None => MessageTrue(ca, topic)'
  BY <1>6, MessageStays DEF InputTrue
<1>8. SubTrue(q, ca, a, u, d, next_seq'[Inputs'[n][i][1]][Inputs'[n][i][2]])
  BY <1>1, <1>2, <1>4, <1>5
<1>9. Inputs'[n][i] = topic
  BY <1>6
<1> QED BY <1>7, <1>8, <1>9 DEF InputTrue

(* A node whose subscriptions a step leaves alone. *)
LEMMA RowStays ==
    ASSUME Shape, UNCHANGED Inputs, Grows, NEW n \in Nodes, RowTrue(n),
           queue'[n] = queue[n], cache'[n] = cache[n], in_seq'[n] = in_seq[n],
           used'[n] = used[n], counted'[n] = counted[n]
    PROVE  RowTrue(n)'
<1>1. SUFFICES ASSUME NEW i \in DOMAIN Inputs[n]
               PROVE  InputTrue(n, i, queue[n][i], cache[n][i], in_seq[n][i], used[n][i], counted[n][i])'
  BY DEF RowTrue
<1>2. PICK q, ca, a, u, d : /\ q = queue[n][i] /\ ca = cache[n][i] /\ a = in_seq[n][i]
                            /\ u = used[n][i] /\ d = counted[n][i]
  OBVIOUS
<1>3. InputTrue(n, i, q, ca, a, u, d)
  BY <1>2 DEF RowTrue
<1>4. InputTrue(n, i, q, ca, a, u, d)'
  BY <1>3, InputStays
<1>5. /\ q = queue'[n][i] /\ ca = cache'[n][i] /\ a = in_seq'[n][i]
      /\ u = used'[n][i] /\ d = counted'[n][i]
  BY <1>2
<1> QED BY <1>4, <1>5

(* The oldest message of an input is taken, and cached or not. *)
LEMMA InputTake ==
    ASSUME NEW n, NEW i, NEW q, NEW ca, NEW a, NEW u, NEW d, InputTrue(n, i, q, ca, a, u, d),
           q # <<>>, NEW cb, cb = ca \/ (cb = Head(q) /\ Type[n] \in {"Fusion", "Cyclic"})
    PROVE  /\ InputTrue(n, i, Tail(q), cb, a, u, d)
           /\ MessageTrue(Head(q), Inputs[n][i])
           /\ Head(q).seq \in Nat /\ a <= Head(q).seq
           /\ Head(q).seq < next_seq[Inputs[n][i][1]][Inputs[n][i][2]]
           /\ \A k \in DOMAIN Tail(q) : Head(q).seq <= Tail(q)[k].seq
<1>1. PICK x : x = next_seq[Inputs[n][i][1]][Inputs[n][i][2]]
  OBVIOUS
<1>2. IsSequence(q) /\ SubTrue(q, ca, a, u, d, x) /\ cb \in {ca, Head(q)}
  BY <1>1 DEF InputTrue
<1>3. /\ SubTrue(Tail(q), cb, a, u, d, x)
      /\ Head(q).seq \in Nat /\ a <= Head(q).seq /\ Head(q).seq < x
      /\ \A k \in DOMAIN Tail(q) : Head(q).seq <= Tail(q)[k].seq
  BY <1>2, SubTake
<1>4. /\ IsSequence(Tail(q)) /\ 1 \in DOMAIN q /\ Head(q) = q[1]
      /\ \A k \in DOMAIN Tail(q) : k + 1 \in DOMAIN q /\ Tail(q)[k] = q[k + 1]
  BY <1>2, TakeFacts
<1>5. MessageTrue(Head(q), Inputs[n][i]) /\ \A k \in DOMAIN Tail(q) : MessageTrue(Tail(q)[k], Inputs[n][i])
  BY <1>4 DEF InputTrue
<1>6. Len(Tail(q)) <= Depth(n)
  <2>1. PICK S : q \in Seq(S)
    BY <1>2 DEF IsSequence
  <2>2. Len(Tail(q)) = Len(q) - 1 /\ Len(q) \in Nat
    BY <2>1
  <2>3. Depth(n) \in Nat /\ Len(q) <= Depth(n)
    BY DEF Depth, InputTrue
  <2> QED BY <2>2, <2>3
<1>7. cb # None => MessageTrue(cb, Inputs[n][i]) /\ Type[n] \in {"Fusion", "Cyclic"}
  BY <1>5 DEF InputTrue
<1>8. InputTrue(n, i, Tail(q), cb, a, u, d)
  BY <1>1, <1>3, <1>4, <1>5, <1>6, <1>7 DEF InputTrue
<1> QED BY <1>1, <1>3, <1>5, <1>8

(* A message numbered s is processed. *)
LEMMA InputAccount ==
    ASSUME NEW n, NEW i, NEW q, NEW ca, NEW a, NEW u, NEW d, InputTrue(n, i, q, ca, a, u, d),
           NEW s \in Nat, a <= s, s < next_seq[Inputs[n][i][1]][Inputs[n][i][2]],
           \A k \in DOMAIN q : s <= q[k].seq,
           ca # None => s <= ca.seq
    PROVE  InputTrue(n, i, q, ca, s, IF u = 0 \/ s # a THEN u + 1 ELSE u,
                     d + (IF s > a THEN s - a - 1 ELSE 0))
<1>1. PICK x : x = next_seq[Inputs[n][i][1]][Inputs[n][i][2]]
  OBVIOUS
<1>2. PICK v, w : /\ v = IF u = 0 \/ s # a THEN u + 1 ELSE u
                  /\ w = d + (IF s > a THEN s - a - 1 ELSE 0)
  OBVIOUS
<1>3. SubTrue(q, ca, a, u, d, x) /\ s < x
  BY <1>1 DEF InputTrue
<1>4. SubTrue(q, ca, s, v, w, x)
  BY <1>2, <1>3, SubAccount
<1>5. InputTrue(n, i, q, ca, s, v, w)
  BY <1>1, <1>4 DEF InputTrue
<1> QED BY <1>2, <1>5

(* The cached message is dropped. *)
LEMMA InputReset ==
    ASSUME NEW n, NEW i, NEW q, NEW ca, NEW a, NEW u, NEW d, InputTrue(n, i, q, ca, a, u, d)
    PROVE  InputTrue(n, i, q, None, a, u, d)
BY DEF InputTrue, SubTrue

-----------------------------------------------------------------------------
(* The parts that actions are made of. *)

(* The last entry of the history tells the number of the message. *)
LEMMA OwnNumber ==
    ASSUME NEW m, NEW topic, MessageTrue(m, topic)
    PROVE  get_sample_sequence_number(m.history) = m.seq
BY DEF MessageTrue, get_sample_sequence_number

(* What processing the messages ms does to the counters of n, and of other nodes. *)
LEMMA Accounted ==
    ASSUME Shape, FlowShape, NEW n \in Nodes, NEW ms, Account(n, ms),
           \A i \in DOMAIN ms : i \in DOMAIN Inputs[n] /\ MessageTrue(ms[i], Inputs[n][i])
    PROVE  /\ DOMAIN in_seq' = Nodes /\ DOMAIN used' = Nodes /\ DOMAIN counted' = Nodes
           /\ in_seq'[n] \in [DOMAIN Inputs[n] -> Nat]
           /\ DOMAIN used'[n] = DOMAIN Inputs[n] /\ DOMAIN counted'[n] = DOMAIN Inputs[n]
           /\ \A p \in Nodes : p # n => /\ in_seq'[p] = in_seq[p] /\ used'[p] = used[p]
                                        /\ counted'[p] = counted[p]
           /\ \A i \in DOMAIN Inputs[n] : i \notin DOMAIN ms =>
                 /\ in_seq'[n][i] = in_seq[n][i] /\ used'[n][i] = used[n][i]
                 /\ counted'[n][i] = counted[n][i]
           /\ \A i \in DOMAIN ms :
                 /\ in_seq'[n][i] = ms[i].seq
                 /\ used'[n][i] = IF used[n][i] = 0 \/ ms[i].seq # in_seq[n][i]
                                  THEN used[n][i] + 1 ELSE used[n][i]
                 /\ counted'[n][i] = counted[n][i] + (IF ms[i].seq > in_seq[n][i]
                                                      THEN ms[i].seq - in_seq[n][i] - 1 ELSE 0)
<1>1. \A i \in DOMAIN ms : /\ get_sample_sequence_number(ms[i].history) = ms[i].seq
                           /\ ms[i].seq \in Nat
  BY OwnNumber DEF MessageTrue
<1>2. /\ in_seq' = [in_seq EXCEPT ![n] = [i \in DOMAIN @ |->
                        IF i \in DOMAIN ms THEN get_sample_sequence_number(ms[i].history) ELSE @[i]]]
      /\ used' = [used EXCEPT ![n] = [i \in DOMAIN @ |->
                        IF i \in DOMAIN ms
                           /\ (used[n][i] = 0 \/ get_sample_sequence_number(ms[i].history) # in_seq[n][i])
                        THEN @[i] + 1 ELSE @[i]]]
      /\ counted' = [counted EXCEPT ![n] = [i \in DOMAIN @ |->
                        IF i \in DOMAIN ms THEN @[i] + Missed(n, i, ms[i]) ELSE @[i]]]
  BY DEF Account
<1>3. \A i \in DOMAIN ms : Missed(n, i, ms[i]) = IF ms[i].seq > in_seq[n][i]
                                                 THEN ms[i].seq - in_seq[n][i] - 1 ELSE 0
  BY <1>1 DEF Missed, missed_samples
<1>4. /\ DOMAIN in_seq = Nodes /\ DOMAIN used = Nodes /\ DOMAIN counted = Nodes
      /\ in_seq[n] \in [DOMAIN Inputs[n] -> Nat]
      /\ DOMAIN used[n] = DOMAIN Inputs[n] /\ DOMAIN counted[n] = DOMAIN Inputs[n]
  BY DEF FlowShape
<1>5. /\ DOMAIN in_seq' = Nodes
      /\ in_seq'[n] = [i \in DOMAIN Inputs[n] |-> IF i \in DOMAIN ms THEN ms[i].seq ELSE in_seq[n][i]]
      /\ \A p \in Nodes : p # n => in_seq'[p] = in_seq[p]
  BY <1>1, <1>2, <1>4
<1>6. /\ DOMAIN used' = Nodes
      /\ used'[n] = [i \in DOMAIN Inputs[n] |->
                        IF i \in DOMAIN ms /\ (used[n][i] = 0 \/ ms[i].seq # in_seq[n][i])
                        THEN used[n][i] + 1 ELSE used[n][i]]
      /\ \A p \in Nodes : p # n => used'[p] = used[p]
  BY <1>1, <1>2, <1>4
<1>7. /\ DOMAIN counted' = Nodes
      /\ counted'[n] = [i \in DOMAIN Inputs[n] |->
                        IF i \in DOMAIN ms THEN counted[n][i] + Missed(n, i, ms[i]) ELSE counted[n][i]]
      /\ \A p \in Nodes : p # n => counted'[p] = counted[p]
  BY <1>2, <1>4
<1>8. in_seq'[n] \in [DOMAIN Inputs[n] -> Nat]
  BY <1>1, <1>4, <1>5
<1>9. \A i \in DOMAIN ms :
         /\ in_seq'[n][i] = ms[i].seq
         /\ used'[n][i] = IF used[n][i] = 0 \/ ms[i].seq # in_seq[n][i] THEN used[n][i] + 1 ELSE used[n][i]
         /\ counted'[n][i] = counted[n][i] + Missed(n, i, ms[i])
  BY <1>5, <1>6, <1>7
<1>10. \A i \in DOMAIN Inputs[n] : i \notin DOMAIN ms =>
         /\ in_seq'[n][i] = in_seq[n][i] /\ used'[n][i] = used[n][i]
         /\ counted'[n][i] = counted[n][i]
  BY <1>5, <1>6, <1>7
<1> QED BY <1>3, <1>5, <1>6, <1>7, <1>8, <1>9, <1>10

(* A callback goes on with an output message that has the number just drawn. *)
LEMMA Starting ==
    ASSUME Shape, UNCHANGED Inputs, \A p \in Nodes : Outgoing(p),
           NEW n \in Nodes, NEW c \in Channels(n), NEW m, NEW inputs,
           Draw(n, c), Start(n, m, inputs),
           m.channel = c, m.seq = next_seq[n][c],
           Type[n] # "Command" => MessageTrue(m, <<n, c>>)
    PROVE  Grows /\ \A p \in Nodes : Outgoing(p)'
<1>1. /\ pc' = [pc EXCEPT ![n] = FirstStep(n)]
      /\ work' = [work EXCEPT ![n] = [msg |-> m, inputs |-> inputs]]
      /\ next_seq' = [next_seq EXCEPT ![n][c] = @ + 1]
  BY DEF Draw, Start
<1>2. FirstStep(n) # "idle"
  BY DEF FirstStep
<1>3. /\ pc'[n] = FirstStep(n) /\ work'[n] = [msg |-> m, inputs |-> inputs]
      /\ \A p \in Nodes : p # n => pc'[p] = pc[p] /\ work'[p] = work[p] /\ next_seq'[p] = next_seq[p]
  BY <1>1 DEF Shape
<1>4. /\ next_seq'[n][c] = next_seq[n][c] + 1
      /\ \A d \in Channels(n) : d # c => next_seq'[n][d] = next_seq[n][d]
      /\ \A p \in Nodes : \A d \in Channels(p) : next_seq[p][d] \in Nat
  BY <1>1 DEF Shape
<1>5. Grows
  <2>1. SUFFICES ASSUME NEW p \in Nodes, NEW d \in Channels(p)
                 PROVE  next_seq'[p][d] \in Nat /\ next_seq[p][d] <= next_seq'[p][d]
    BY DEF Grows
  <2>2. CASE p = n /\ d = c
    BY <1>4, <2>2
  <2>3. CASE ~(p = n /\ d = c)
    BY <1>3, <1>4, <2>3
  <2> QED BY <2>2, <2>3
<1>6. Nodes' = Nodes /\ \A p : Channels(p)' = Channels(p)
  BY SameGraph
<1>7. Outgoing(n)'
  <2>1. work'[n].msg = m
    BY <1>3
  <2>2. Type[n] # "Command" => MessageTrue(m, <<n, c>>)'
    BY MessageStays
  <2> QED BY <1>2, <1>3, <1>4, <1>6, <2>1, <2>2 DEF Outgoing
<1>8. ASSUME NEW p \in Nodes, p # n PROVE Outgoing(p)'
  <2>1. pc'[p] = pc[p] /\ work'[p] = work[p] /\ next_seq'[p] = next_seq[p]
    BY <1>3, <1>8
  <2>2. CASE pc[p] = "idle"
    BY <2>1, <2>2 DEF Outgoing
  <2>3. CASE pc[p] # "idle"
    <3>1. PICK w, t : w = work[p].msg /\ t = <<p, w.channel>>
      OBVIOUS
    <3>2. Type[p] # "Command" => MessageTrue(w, t)
      BY <2>3, <3>1 DEF Outgoing
    <3>3. Type[p] # "Command" => MessageTrue(w, t)'
      BY <3>2, MessageStays
    <3>4. work'[p].msg = w
      BY <2>1, <3>1
    <3> QED BY <1>6, <2>1, <2>3, <3>1, <3>3, <3>4 DEF Outgoing
  <2> QED BY <2>2, <2>3
<1> QED BY <1>5, <1>7, <1>8

(* Callbacks, and the numbers drawn, are as they were. *)
LEMMA OutgoingStays ==
    ASSUME Shape, UNCHANGED Inputs, NEW n \in Nodes, Outgoing(n),
           pc'[n] = pc[n], work'[n] = work[n], next_seq'[n] = next_seq[n]
    PROVE  Outgoing(n)'
<1>1. CASE pc[n] = "idle"
  BY <1>1 DEF Outgoing
<1>2. CASE pc[n] # "idle"
  <2>1. PICK w, t : w = work[n].msg /\ t = <<n, w.channel>>
    OBVIOUS
  <2>2. Type[n] # "Command" => MessageTrue(w, t)'
    BY <1>2, <2>1, MessageStays DEF Outgoing
  <2>3. Nodes' = Nodes /\ Channels(n)' = Channels(n) /\ work'[n].msg = w
    BY <2>1, SameGraph
  <2> QED BY <1>2, <2>1, <2>2, <2>3 DEF Outgoing
<1> QED BY <1>1, <1>2

LEMMA NothingDrawn ==
    ASSUME Shape, UNCHANGED next_seq
    PROVE  Grows
BY DEF Grows, Shape

(* An entry keeps its promise when the oldest of several sources is chosen. *)
LEMMA OldestEntry ==
    ASSUME NEW D, NEW f \in [D -> Source], NEW s \in oldest_provenance_source(f),
           NEW k \in D, NEW e, EntryTrue(e, f[k])
    PROVE  EntryTrue(e, s)
<1>1. CASE SourceKind[e.node] = 0
  BY <1>1 DEF EntryTrue
<1>2. CASE SourceKind[e.node] # 0
  <2>1. f[k].kind # 0 /\ f[k].t \in Nat /\ e.t \in Nat /\ f[k].t <= e.t
    BY <1>2 DEF EntryTrue
  <2>2. PICK j \in D : f[j].kind # 0 /\ s = f[j]
    BY <2>1, OldestFacts
  <2>3. s.t <= f[k].t /\ s \in Source
    BY <2>1, OldestFacts
  <2>4. s.t \in Nat /\ s.kind # 0
    BY <2>2, <2>3 DEF Source
  <2>5. s.t <= e.t
    BY <2>1, <2>3, <2>4
  <2> QED BY <2>1, <2>4, <2>5 DEF EntryTrue
<1> QED BY <1>1, <1>2

(* The entries of a message that n reads are of nodes before n. *)
LEMMA EntriesBefore ==
    ASSUME Shape, NEW n \in Nodes, NEW i \in DOMAIN Inputs[n], NEW m, MessageTrue(m, Inputs[n][i])
    PROVE  /\ \A e \in EntriesOf(m.history) : EntryTrue(e, m.source) /\ Rank[e.node] < Rank[n]
           /\ IsSequence(m.history) /\ m.source \in Source
<1>1. /\ m.node = Inputs[n][i][1] /\ m.node \in Nodes /\ m.source \in Source /\ IsSequence(m.history)
      /\ \A k \in DOMAIN m.history :
            EntryTrue(m.history[k], m.source) /\ Rank[m.history[k].node] <= Rank[m.node]
  BY TopicFacts DEF MessageTrue
<1>2. Rank \in [Nodes -> 1 .. Capacity] /\ Capacity \in Nat
  BY RankFacts, CapacityAssumption DEF IsRank, Nodes
<1>3. ASSUME NEW e \in EntriesOf(m.history) PROVE EntryTrue(e, m.source) /\ Rank[e.node] < Rank[n]
  <2>1. EntryTrue(e, m.source) /\ Rank[e.node] <= Rank[m.node]
    BY <1>1 DEF EntriesOf
  <2>2. e.node \in Nodes
    BY <2>1 DEF EntryTrue
  <2>3. Rank[m.node] < Rank[n]
    BY <1>1, TopicFacts
  <2>4. Rank[e.node] \in Nat /\ Rank[m.node] \in Nat /\ Rank[n] \in Nat
    BY <1>1, <1>2, <2>2
  <2> QED BY <2>1, <2>3, <2>4
<1> QED BY <1>1, <1>3

-----------------------------------------------------------------------------
(* One lemma per action. *)

(* An expiry of the timer of n is counted. *)
LEMMA Fired ==
    ASSUME Shape, FlowShape, NEW n \in Nodes, fires[n] < MaxFires[n],
           fires' = [fires EXCEPT ![n] = @ + 1]
    PROVE  fires' \in [Nodes -> Nat] /\ \A p \in Nodes : fires'[p] <= MaxFires[p]
<1>1. fires \in [Nodes -> Nat] /\ \A p \in Nodes : fires[p] <= MaxFires[p]
  BY DEF FlowShape
<1>2. MaxFires[n] \in Nat
  BY NodesAssumption DEF Shape, Nodes
<1>3. fires[n] + 1 \in Nat /\ fires[n] + 1 <= MaxFires[n]
  BY <1>1, <1>2
<1> QED BY <1>1, <1>3

(* The callback of n has started with the message m; only subscriptions of n have moved. *)
LEMMA CallbackFlow ==
    ASSUME NodesInv, FlowInv, UNCHANGED <<Inputs, clock>>, NEW n \in Nodes,
           NEW c \in Channels(n), NEW m, NEW inputs, Draw(n, c), Start(n, m, inputs),
           m.channel = c, m.seq = next_seq[n][c],
           Type[n] # "Command" => MessageTrue(m, <<n, c>>),
           FlowShape', Grows => RowTrue(n)',
           \A p \in Nodes : p # n => /\ queue'[p] = queue[p] /\ cache'[p] = cache[p]
                                     /\ in_seq'[p] = in_seq[p] /\ used'[p] = used[p]
                                     /\ counted'[p] = counted[p]
    PROVE  FlowInv'
<1>1. Shape /\ (\A p \in Nodes : Outgoing(p) /\ RowTrue(p))
  BY DEF NodesInv, FlowInv
<1>2. Grows /\ \A p \in Nodes : Outgoing(p)'
  BY <1>1, Starting
<1>3. ASSUME NEW p \in Nodes PROVE RowTrue(p)'
  <2>1. CASE p = n
    BY <1>2, <2>1
  <2>2. CASE p # n
    BY <1>1, <1>2, <2>2, RowStays
  <2> QED BY <2>1, <2>2
<1>4. Nodes' = Nodes
  BY SameGraph
<1> QED BY <1>2, <1>3, <1>4 DEF FlowInv

LEMMA SensorFlow ==
    ASSUME NodesInv, FlowInv, UNCHANGED Inputs, NEW n \in Nodes, SensorTimer(n)
    PROVE  FlowInv'
<1>0. Shape /\ FlowShape /\ (\A p \in Nodes : Outgoing(p) /\ RowTrue(p))
  BY DEF NodesInv, FlowInv
<1>1. Type[n] = "Sensor" /\ 0 \in Channels(n)
  BY DEF SensorTimer, Channels, ChannelsIn
<1>2. PICK s : s = [kind |-> SourceKind[n], seq |-> next_seq[n][0], t |-> clock]
  OBVIOUS
<1>3. clock \in Nat /\ next_seq[n][0] \in Nat /\ SourceKind[n] \in Nat
  BY <1>0, <1>1, NodesAssumption DEF Shape, Nodes
<1>4. s \in Source /\ s.kind = SourceKind[n] /\ s.t = clock
  BY <1>2, <1>3 DEF Source
<1>5. PICK m : m = Message(n, 0, Stamped(<<>>, Entry(n, 0, 0)), s)
  OBVIOUS
<1>6. MessageTrue(m, <<n, 0>>)
  <2>1. Proper(<<>>, {})
    BY EmptyProper
  <2>2. SourceKind[n] # 0 => s.kind # 0 /\ s.t <= clock
    BY <1>3, <1>4
  <2> QED BY <1>0, <1>1, <1>4, <1>5, <2>1, <2>2, MessageMade
<1>7. m.channel = 0 /\ m.seq = next_seq[n][0]
  BY <1>5 DEF Message
<1>8. /\ Draw(n, 0) /\ Start(n, m, <<>>)
      /\ UNCHANGED <<clock, queue, cache, in_seq, used, counted>>
      /\ fires[n] < MaxFires[n] /\ fires' = [fires EXCEPT ![n] = @ + 1]
  BY <1>2, <1>5 DEF SensorTimer
<1>9. FlowShape'
  BY <1>0, <1>8, Fired, SameGraph DEF FlowShape
<1>10. Grows => RowTrue(n)'
  BY <1>0, <1>8, RowStays
<1> QED BY <1>1, <1>6, <1>7, <1>8, <1>9, <1>10, CallbackFlow

(* The message that a node makes of the one message m it reads. *)
LEMMA RelayedMessage ==
    ASSUME Shape, NEW n \in Nodes, NEW c \in Channels(n), NEW i \in DOMAIN Inputs[n], NEW m,
           MessageTrue(m, Inputs[n][i]), Type[n] # "Sensor", NEW missed
    PROVE  MessageTrue(Message(n, c, Stamped(merge_history_into_sample(<<>>, m.history),
                                             Entry(n, c, missed)), m.source), <<n, c>>)
<1>1. PICK E : E = EntriesOf(m.history)
  OBVIOUS
<1>2. PICK s \in Source : s = m.source
  BY EntriesBefore
<1>3. \A e \in E : EntryTrue(e, s) /\ Rank[e.node] < Rank[n]
  BY <1>1, <1>2, EntriesBefore
<1>4. IsSequence(m.history)
  BY EntriesBefore
<1>5. PICK h : h = merge_history_into_sample(<<>>, m.history)
  OBVIOUS
<1>6. Proper(h, E)
  BY <1>1, <1>4, <1>5, EmptyProper, MergedProper
<1>7. SourceKind[n] = 0
  BY NodesAssumption DEF Shape, Nodes
<1>8. MessageTrue(Message(n, c, Stamped(h, Entry(n, c, missed)), s), <<n, c>>)
  BY <1>3, <1>6, <1>7, MessageMade
<1> QED BY <1>2, <1>5, <1>8

(* Input i of n is taken from, processed, and not cached. *)
LEMMA TakenRow ==
    ASSUME NodesInv, FlowInv, UNCHANGED Inputs, Grows, NEW n \in Nodes, NEW i \in DOMAIN Inputs[n],
           Type[n] \notin {"Fusion", "Cyclic"}, Take(n, i), UNCHANGED cache,
           NEW ms, DOMAIN ms = {i}, ms[i] = Head(queue[n][i]), Account(n, ms)
    PROVE  RowTrue(n)'
<1>0. Shape /\ FlowShape /\ RowTrue(n)
  BY DEF NodesInv, FlowInv
<1>1. SUFFICES ASSUME NEW j \in DOMAIN Inputs[n]
               PROVE  InputTrue(n, j, queue[n][j], cache[n][j], in_seq[n][j], used[n][j], counted[n][j])'
  BY DEF RowTrue
<1>2. PICK q, ca, a, u, d : /\ q = queue[n][j] /\ ca = cache[n][j] /\ a = in_seq[n][j]
                            /\ u = used[n][j] /\ d = counted[n][j]
  OBVIOUS
<1>3. InputTrue(n, j, q, ca, a, u, d) /\ cache'[n][j] = ca
  BY <1>0, <1>2 DEF RowTrue
<1>4. /\ queue[n][i] # <<>>
      /\ queue' = [queue EXCEPT ![n][i] = Tail(@)]
      /\ DOMAIN queue = Nodes /\ DOMAIN queue[n] = DOMAIN Inputs[n]
  BY <1>0 DEF Take, Shape
<1>5. MessageTrue(ms[i], Inputs[n][i])
  BY <1>0, <1>4, InputTake DEF RowTrue
<1>6. /\ j # i => /\ in_seq'[n][j] = a /\ used'[n][j] = u /\ counted'[n][j] = d
      /\ j = i => /\ in_seq'[n][j] = ms[i].seq
                  /\ used'[n][j] = IF u = 0 \/ ms[i].seq # a THEN u + 1 ELSE u
                  /\ counted'[n][j] = d + (IF ms[i].seq > a THEN ms[i].seq - a - 1 ELSE 0)
  BY <1>0, <1>2, <1>5, Accounted
<1>7. CASE j # i
  <2>1. queue'[n][j] = q
    BY <1>2, <1>4, <1>7
  <2>2. InputTrue(n, j, q, ca, a, u, d)'
    BY <1>0, <1>3, InputStays
  <2> QED BY <1>3, <1>6, <1>7, <2>1, <2>2
<1>8. CASE j = i
  <2>1. PICK r : r = Tail(q)
    OBVIOUS
  <2>2. queue'[n][j] = r
    BY <1>2, <1>4, <1>8, <2>1
  <2>3. PICK s : s = ms[i].seq
    OBVIOUS
  <2>4. /\ InputTrue(n, j, r, ca, a, u, d) /\ s \in Nat /\ a <= s
        /\ s < next_seq[Inputs[n][j][1]][Inputs[n][j][2]]
        /\ \A k \in DOMAIN r : s <= r[k].seq
    BY <1>2, <1>3, <1>4, <1>8, <2>1, <2>3, InputTake
  <2>5. ca = None
    BY <1>3 DEF InputTrue
  <2>6. PICK v, w : /\ v = IF u = 0 \/ s # a THEN u + 1 ELSE u
                    /\ w = d + (IF s > a THEN s - a - 1 ELSE 0)
    OBVIOUS
  <2>7. InputTrue(n, j, r, ca, s, v, w)
    BY <2>4, <2>5, <2>6, InputAccount
  <2>8. InputTrue(n, j, r, ca, s, v, w)'
    BY <1>0, <2>7, InputStays
  <2>9. in_seq'[n][j] = s /\ used'[n][j] = v /\ counted'[n][j] = w
    BY <1>6, <1>8, <2>3, <2>6
  <2> QED BY <1>3, <2>2, <2>8, <2>9
<1> QED BY <1>7, <1>8

LEMMA TakenElsewhere ==
    ASSUME Shape, NEW n \in Nodes, NEW i \in DOMAIN Inputs[n], Take(n, i)
    PROVE  \A p \in Nodes : p # n => queue'[p] = queue[p]
BY DEF Shape, Take

(* The counters keep their shape when messages ms of n are processed. *)
LEMMA AccountShape ==
    ASSUME NodesInv, FlowInv, UNCHANGED <<Inputs, clock>>, NEW n \in Nodes, NEW ms, Account(n, ms),
           \A i \in DOMAIN ms : i \in DOMAIN Inputs[n] /\ MessageTrue(ms[i], Inputs[n][i]),
           fires' \in [Nodes -> Nat], \A p \in Nodes : fires'[p] <= MaxFires[p]
    PROVE  FlowShape'
<1>0. Shape /\ FlowShape /\ Nodes' = Nodes
  BY SameGraph DEF NodesInv, FlowInv
<1>1. /\ DOMAIN in_seq' = Nodes /\ DOMAIN used' = Nodes /\ DOMAIN counted' = Nodes
      /\ in_seq'[n] \in [DOMAIN Inputs[n] -> Nat]
      /\ DOMAIN used'[n] = DOMAIN Inputs[n] /\ DOMAIN counted'[n] = DOMAIN Inputs[n]
      /\ \A p \in Nodes : p # n => /\ in_seq'[p] = in_seq[p] /\ used'[p] = used[p]
                                   /\ counted'[p] = counted[p]
  BY <1>0, Accounted
<1>2. ASSUME NEW p \in Nodes
      PROVE  /\ in_seq'[p] \in [DOMAIN Inputs[p] -> Nat]
             /\ DOMAIN used'[p] = DOMAIN Inputs[p] /\ DOMAIN counted'[p] = DOMAIN Inputs[p]
  BY <1>0, <1>1 DEF FlowShape
<1> QED BY <1>0, <1>1, <1>2 DEF FlowShape

LEMMA RelayFlow ==
    ASSUME NodesInv, FlowInv, UNCHANGED Inputs, NEW n \in Nodes, NEW i \in DOMAIN Inputs[n],
           Relay(n, i)
    PROVE  FlowInv'
<1>0. Shape /\ FlowShape /\ RowTrue(n)
  BY DEF NodesInv, FlowInv
<1>1. /\ Type[n] \in {"Transform", "Intersection"} /\ Take(n, i)
      /\ UNCHANGED <<clock, cache, fires>>
  BY DEF Relay
<1>2. PICK m : m = Head(queue[n][i])
  OBVIOUS
<1>3. PICK ms : ms = [k \in {i} |-> m]
  OBVIOUS
<1>4. DOMAIN ms = {i} /\ ms[i] = m
  BY <1>3
<1>5. PICK c : c = ChannelOf(n, i)
  OBVIOUS
<1>6. c \in Channels(n)
  <2>1. Inputs[n] \in Seq(AllNodes \X Nat)
    BY <1>0, NodesAssumption DEF Shape, Nodes
  <2>2. i \in 1 .. Len(Inputs[n]) /\ Len(Inputs[n]) \in Nat
    BY <2>1
  <2> QED BY <1>5, <2>2 DEF Channels, ChannelsIn, ChannelOf
<1>7. PICK missed : missed = Missed(n, i, m)
  OBVIOUS
<1>8. PICK o : o = Message(n, c, Stamped(merge_history_into_sample(<<>>, m.history),
                                         Entry(n, c, missed)), m.source)
  OBVIOUS
<1>9. Account(n, ms) /\ Draw(n, c) /\ Start(n, o, <<IdentityOf(m)>>)
  BY <1>2, <1>3, <1>5, <1>7, <1>8 DEF Relay
<1>10. MessageTrue(m, Inputs[n][i])
  BY <1>0, <1>1, <1>2, InputTake DEF Take, RowTrue
<1>11. MessageTrue(o, <<n, c>>)
  BY <1>0, <1>1, <1>6, <1>8, <1>10, RelayedMessage
<1>12. o.channel = c /\ o.seq = next_seq[n][c]
  BY <1>8 DEF Message
<1>13. Grows => RowTrue(n)'
  BY <1>1, <1>2, <1>4, <1>9, TakenRow
<1>14. \A j \in DOMAIN ms : j \in DOMAIN Inputs[n] /\ MessageTrue(ms[j], Inputs[n][j])
  BY <1>4, <1>10
<1>15. fires' \in [Nodes -> Nat] /\ \A p \in Nodes : fires'[p] <= MaxFires[p]
  BY <1>0, <1>1 DEF FlowShape
<1>16. FlowShape'
  BY <1>1, <1>9, <1>14, <1>15, AccountShape
<1>17. \A p \in Nodes : p # n => /\ queue'[p] = queue[p] /\ cache'[p] = cache[p]
                                 /\ in_seq'[p] = in_seq[p] /\ used'[p] = used[p]
                                 /\ counted'[p] = counted[p]
  <2>1. \A p \in Nodes : p # n => queue'[p] = queue[p] /\ cache'[p] = cache[p]
    BY <1>0, <1>1, TakenElsewhere
  <2>2. \A p \in Nodes : p # n => /\ in_seq'[p] = in_seq[p] /\ used'[p] = used[p]
                                  /\ counted'[p] = counted[p]
    BY <1>0, <1>9, <1>14, Accounted
  <2> QED BY <2>1, <2>2
<1>18. UNCHANGED <<Inputs, clock>>
  BY <1>1
<1> QED BY <1>6, <1>9, <1>11, <1>12, <1>13, <1>16, <1>17, <1>18, CallbackFlow

LEMMA CommandFlow ==
    ASSUME NodesInv, FlowInv, UNCHANGED Inputs, NEW n \in Nodes, CommandInput(n)
    PROVE  FlowInv'
<1>0. Shape /\ FlowShape /\ RowTrue(n)
  BY DEF NodesInv, FlowInv
<1>1. /\ Type[n] = "Command" /\ Take(n, 1)
      /\ UNCHANGED <<clock, cache, fires>>
  BY DEF CommandInput
<1>2. 1 \in DOMAIN Inputs[n] /\ 0 \in Channels(n)
  <2>1. Inputs[n] \in Seq(AllNodes \X Nat) /\ Len(Inputs[n]) = 1
    BY <1>0, <1>1, NodesAssumption DEF Shape, Nodes
  <2> QED BY <1>1, <2>1 DEF Channels, ChannelsIn
<1>3. PICK m : m = Head(queue[n][1])
  OBVIOUS
<1>4. PICK ms : ms = <<m>>
  OBVIOUS
<1>5. DOMAIN ms = {1} /\ ms[1] = m
  BY <1>4
<1>6. PICK o : o = Message(n, 0, <<>>, m.source)
  OBVIOUS
<1>7. Account(n, ms) /\ Draw(n, 0) /\ Start(n, o, <<IdentityOf(m)>>)
  BY <1>3, <1>4, <1>6 DEF CommandInput
<1>8. MessageTrue(m, Inputs[n][1])
  BY <1>0, <1>1, <1>2, <1>3, InputTake DEF Take, RowTrue
<1>9. o.channel = 0 /\ o.seq = next_seq[n][0]
  BY <1>6 DEF Message
<1>10. Grows => RowTrue(n)'
  BY <1>1, <1>2, <1>3, <1>5, <1>7, TakenRow
<1>11. \A j \in DOMAIN ms : j \in DOMAIN Inputs[n] /\ MessageTrue(ms[j], Inputs[n][j])
  BY <1>2, <1>5, <1>8
<1>12. fires' \in [Nodes -> Nat] /\ \A p \in Nodes : fires'[p] <= MaxFires[p]
  BY <1>0, <1>1 DEF FlowShape
<1>13. FlowShape'
  BY <1>1, <1>7, <1>11, <1>12, AccountShape
<1>14. \A p \in Nodes : p # n => queue'[p] = queue[p] /\ cache'[p] = cache[p]
  BY <1>0, <1>1, <1>2, TakenElsewhere
<1>15. \A p \in Nodes : p # n => /\ in_seq'[p] = in_seq[p] /\ used'[p] = used[p]
                                 /\ counted'[p] = counted[p]
  BY <1>0, <1>7, <1>11, Accounted
<1>16. UNCHANGED <<Inputs, clock>>
  BY <1>1
<1> QED BY <1>1, <1>2, <1>7, <1>9, <1>10, <1>13, <1>14, <1>15, <1>16, CallbackFlow

(* Input i of n is taken from and cached. *)
LEMMA CachedInput ==
    ASSUME NodesInv, FlowInv, UNCHANGED Inputs, Grows, NEW n \in Nodes, NEW i \in DOMAIN Inputs[n],
           Type[n] \in {"Fusion", "Cyclic"}, Take(n, i), Cache(n, i)
    PROVE  /\ queue'[n][i] = Tail(queue[n][i]) /\ cache'[n][i] = Head(queue[n][i])
           /\ \A j \in DOMAIN Inputs[n] : j # i => queue'[n][j] = queue[n][j] /\ cache'[n][j] = cache[n][j]
           /\ \A p \in Nodes : p # n => queue'[p] = queue[p] /\ cache'[p] = cache[p]
           /\ \A p \in Nodes : RowTrue(p)
           /\ InputTrue(n, i, Tail(queue[n][i]), Head(queue[n][i]), in_seq[n][i], used[n][i], counted[n][i])
           /\ MessageTrue(Head(queue[n][i]), Inputs[n][i])
           /\ Head(queue[n][i]).seq \in Nat /\ in_seq[n][i] <= Head(queue[n][i]).seq
           /\ Head(queue[n][i]).seq < next_seq[Inputs[n][i][1]][Inputs[n][i][2]]
           /\ \A k \in DOMAIN Tail(queue[n][i]) : Head(queue[n][i]).seq <= Tail(queue[n][i])[k].seq
<1>1. /\ Shape /\ \A p \in Nodes : RowTrue(p)
  BY DEF NodesInv, FlowInv
<1>2. /\ queue[n][i] # <<>> /\ queue' = [queue EXCEPT ![n][i] = Tail(@)]
      /\ cache' = [cache EXCEPT ![n][i] = Head(queue[n][i])]
  BY DEF Take, Cache
<1>3. /\ DOMAIN queue = Nodes /\ DOMAIN queue[n] = DOMAIN Inputs[n]
      /\ DOMAIN cache = Nodes /\ DOMAIN cache[n] = DOMAIN Inputs[n]
  BY <1>1 DEF Shape
<1>4. /\ queue'[n][i] = Tail(queue[n][i]) /\ cache'[n][i] = Head(queue[n][i])
      /\ \A j \in DOMAIN Inputs[n] : j # i => queue'[n][j] = queue[n][j] /\ cache'[n][j] = cache[n][j]
      /\ \A p \in Nodes : p # n => queue'[p] = queue[p] /\ cache'[p] = cache[p]
  BY <1>2, <1>3
<1>5. InputTrue(n, i, queue[n][i], cache[n][i], in_seq[n][i], used[n][i], counted[n][i])
  BY <1>1 DEF RowTrue
<1> QED BY <1>1, <1>2, <1>4, <1>5, InputTake

(* A step that starts no callback: the counters and the messages in hand are as they were. *)
LEMMA PassiveFlow ==
    ASSUME NodesInv, FlowInv, NEW n \in Nodes, NEW i \in DOMAIN Inputs[n], UNCHANGED Inputs,
           Type[n] \in {"Fusion", "Cyclic"}, Take(n, i), Cache(n, i),
           UNCHANGED <<clock, next_seq, in_seq, pc, work, fires, used, counted>>
    PROVE  FlowInv'
<1>0. Shape /\ FlowShape /\ Grows /\ Nodes' = Nodes /\ \A p \in Nodes : Outgoing(p)
  BY NothingDrawn, SameGraph DEF NodesInv, FlowInv
<1>1. FlowShape'
  BY <1>0 DEF FlowShape
<1>2. \A p \in Nodes : Outgoing(p)'
  BY <1>0, OutgoingStays
<1>3. PICK q, ca : q = Tail(queue[n][i]) /\ ca = Head(queue[n][i])
  OBVIOUS
<1>4. /\ queue'[n][i] = q /\ cache'[n][i] = ca
      /\ \A j \in DOMAIN Inputs[n] : j # i => queue'[n][j] = queue[n][j] /\ cache'[n][j] = cache[n][j]
      /\ \A p \in Nodes : p # n => queue'[p] = queue[p] /\ cache'[p] = cache[p]
      /\ \A p \in Nodes : RowTrue(p)
      /\ InputTrue(n, i, q, ca, in_seq[n][i], used[n][i], counted[n][i])
  BY <1>0, <1>3, CachedInput
<1>5. ASSUME NEW j \in DOMAIN Inputs[n]
      PROVE  InputTrue(n, j, queue[n][j], cache[n][j], in_seq[n][j], used[n][j], counted[n][j])'
  <2>1. PICK r, cb, a, u, d : /\ r = queue'[n][j] /\ cb = cache'[n][j] /\ a = in_seq[n][j]
                              /\ u = used[n][j] /\ d = counted[n][j]
    OBVIOUS
  <2>2. InputTrue(n, j, r, cb, a, u, d)
    <3>1. CASE j = i
      BY <1>4, <2>1, <3>1
    <3>2. CASE j # i
      BY <1>4, <2>1, <3>2 DEF RowTrue
    <3> QED BY <3>1, <3>2
  <2>3. InputTrue(n, j, r, cb, a, u, d)'
    BY <1>0, <2>2, InputStays
  <2> QED BY <2>1, <2>3
<1>6. ASSUME NEW p \in Nodes PROVE RowTrue(p)'
  <2>1. CASE p = n
    BY <1>5, <2>1 DEF RowTrue
  <2>2. CASE p # n
    BY <1>0, <1>4, <2>2, RowStays
  <2> QED BY <2>1, <2>2
<1> QED BY <1>0, <1>1, <1>2, <1>6 DEF FlowInv

(* The message that a Fusion makes of the messages m1 and m2 of its inputs. *)
LEMMA FusedMessage ==
    ASSUME Shape, NEW n \in Nodes, Type[n] = "Fusion", NEW m1, NEW m2,
           1 \in DOMAIN Inputs[n], 2 \in DOMAIN Inputs[n],
           MessageTrue(m1, Inputs[n][1]), MessageTrue(m2, Inputs[n][2]),
           NEW s \in oldest_provenance_source(<<m1.source, m2.source>>), NEW missed
    PROVE  MessageTrue(Message(n, 0, Stamped(merge_history_into_sample(
                          merge_history_into_sample(<<>>, m1.history), m2.history),
                          Entry(n, 0, missed)), s), <<n, 0>>)
<1>1. PICK E1, E2, E : E1 = EntriesOf(m1.history) /\ E2 = EntriesOf(m2.history) /\ E = E1 \cup E2
  OBVIOUS
<1>2. /\ \A e \in E1 : EntryTrue(e, m1.source) /\ Rank[e.node] < Rank[n]
      /\ IsSequence(m1.history) /\ m1.source \in Source
  BY <1>1, EntriesBefore
<1>3. /\ \A e \in E2 : EntryTrue(e, m2.source) /\ Rank[e.node] < Rank[n]
      /\ IsSequence(m2.history) /\ m2.source \in Source
  BY <1>1, EntriesBefore
<1>4. PICK f : f = <<m1.source, m2.source>>
  OBVIOUS
<1>5. f \in [{1, 2} -> Source] /\ f[1] = m1.source /\ f[2] = m2.source
  BY <1>2, <1>3, <1>4
<1>6. \A e \in E : EntryTrue(e, s) /\ Rank[e.node] < Rank[n]
  <2>1. s \in oldest_provenance_source(f)
    BY <1>4
  <2>2. ASSUME NEW e \in E1 PROVE EntryTrue(e, s)
    BY <1>2, <1>5, <2>1, OldestEntry
  <2>3. ASSUME NEW e \in E2 PROVE EntryTrue(e, s)
    BY <1>3, <1>5, <2>1, OldestEntry
  <2> QED BY <1>1, <1>2, <1>3, <2>2, <2>3
<1>7. s \in Source
  BY <1>4, <1>5, OldestFacts
<1>8. PICK h1 : h1 = merge_history_into_sample(<<>>, m1.history)
  OBVIOUS
<1>9. Proper(h1, E)
  BY <1>1, <1>2, <1>8, EmptyProper, MergedProper
<1>10. PICK h : h = merge_history_into_sample(h1, m2.history)
  OBVIOUS
<1>11. Proper(h, E)
  BY <1>1, <1>3, <1>9, <1>10, MergedProper
<1>12. SourceKind[n] = 0 /\ 0 \in Channels(n)
  BY NodesAssumption DEF Shape, Nodes, Channels, ChannelsIn
<1>13. MessageTrue(Message(n, 0, Stamped(h, Entry(n, 0, missed)), s), <<n, 0>>)
  BY <1>6, <1>7, <1>11, <1>12, MessageMade
<1> QED BY <1>8, <1>10, <1>13

(* An input whose cached message, no older than the last one processed, is processed. *)
LEMMA CacheAccounted ==
    ASSUME NEW n, NEW i, NEW q, NEW ca, NEW a, NEW u, NEW d, InputTrue(n, i, q, ca, a, u, d),
           ca # None
    PROVE  /\ InputTrue(n, i, q, ca, ca.seq, IF u = 0 \/ ca.seq # a THEN u + 1 ELSE u,
                        d + (IF ca.seq > a THEN ca.seq - a - 1 ELSE 0))
           /\ MessageTrue(ca, Inputs[n][i])
<1>1. PICK s \in Nat : s = ca.seq /\ a <= s /\ s < next_seq[Inputs[n][i][1]][Inputs[n][i][2]]
                       /\ \A k \in DOMAIN q : s <= q[k].seq
  BY DEF InputTrue, SubTrue
<1>2. ca # None => s <= ca.seq
  BY <1>1
<1>3. InputTrue(n, i, q, ca, s, IF u = 0 \/ s # a THEN u + 1 ELSE u,
                d + (IF s > a THEN s - a - 1 ELSE 0))
  BY <1>1, <1>2, InputAccount
<1>4. MessageTrue(ca, Inputs[n][i])
  BY DEF InputTrue
<1> QED BY <1>1, <1>3, <1>4

LEMMA FusionFlow ==
    ASSUME NodesInv, FlowInv, UNCHANGED Inputs, NEW n \in Nodes, FusionTrigger(n)
    PROVE  FlowInv'
<1>0. Shape /\ FlowShape /\ RowTrue(n)
  BY DEF NodesInv, FlowInv
<1>1. /\ Type[n] = "Fusion" /\ Take(n, 1) /\ Cache(n, 1) /\ cache[n][2] # None
      /\ UNCHANGED <<clock, fires>>
  BY DEF FusionTrigger
<1>2. DOMAIN Inputs[n] = {1, 2} /\ 0 \in Channels(n)
  <2>1. Inputs[n] \in Seq(AllNodes \X Nat) /\ Len(Inputs[n]) = 2
    BY <1>0, <1>1, NodesAssumption DEF Shape, Nodes
  <2> QED BY <1>1, <2>1 DEF Channels, ChannelsIn
<1>3. PICK m1, m2 : m1 = Head(queue[n][1]) /\ m2 = cache[n][2]
  OBVIOUS
<1>4. PICK ms : ms = <<m1, m2>>
  OBVIOUS
<1>5. DOMAIN ms = {1, 2} /\ ms[1] = m1 /\ ms[2] = m2
  BY <1>4
<1>6. PICK missed : missed = Missed(n, 1, m1) + Missed(n, 2, m2)
  OBVIOUS
<1>7. PICK h : h = merge_history_into_sample(merge_history_into_sample(<<>>, m1.history), m2.history)
  OBVIOUS
<1>8. /\ Account(n, ms) /\ Draw(n, 0)
      /\ \E source \in oldest_provenance_source(<<m1.source, m2.source>>) :
            Start(n, Message(n, 0, Stamped(h, Entry(n, 0, missed)), source), <<>>)
  BY <1>3, <1>4, <1>5, <1>6, <1>7 DEF FusionTrigger
<1>9. PICK s \in oldest_provenance_source(<<m1.source, m2.source>>) :
            Start(n, Message(n, 0, Stamped(h, Entry(n, 0, missed)), s), <<>>)
  BY <1>8
<1>10. PICK o : o = Message(n, 0, Stamped(h, Entry(n, 0, missed)), s)
  OBVIOUS
<1>11. o.channel = 0 /\ o.seq = next_seq[n][0]
  BY <1>10 DEF Message
<1>12. queue[n][1] # <<>>
  BY <1>1 DEF Take
<1>13. InputTrue(n, 1, Tail(queue[n][1]), m1, in_seq[n][1], used[n][1], counted[n][1])
       /\ MessageTrue(m1, Inputs[n][1])
  BY <1>0, <1>1, <1>2, <1>3, <1>12, InputTake DEF RowTrue
<1>14. InputTrue(n, 1, Tail(queue[n][1]), m1, m1.seq,
          IF used[n][1] = 0 \/ m1.seq # in_seq[n][1] THEN used[n][1] + 1 ELSE used[n][1],
          counted[n][1] + (IF m1.seq > in_seq[n][1] THEN m1.seq - in_seq[n][1] - 1 ELSE 0))
  <2>1. PICK q, a, u, d, r, x : /\ q = queue[n][1] /\ a = in_seq[n][1] /\ u = used[n][1]
                                /\ d = counted[n][1] /\ r = Tail(q) /\ x = m1.seq
    OBVIOUS
  <2>2. /\ x \in Nat /\ a <= x
        /\ x < next_seq[Inputs[n][1][1]][Inputs[n][1][2]]
        /\ \A k \in DOMAIN r : x <= r[k].seq
    BY <1>0, <1>2, <1>3, <1>12, <2>1, InputTake DEF RowTrue
  <2>3. m1 # None => x <= m1.seq
    BY <2>1, <2>2
  <2>4. InputTrue(n, 1, r, m1, a, u, d)
    BY <1>13, <2>1
  <2>5. InputTrue(n, 1, r, m1, x, IF u = 0 \/ x # a THEN u + 1 ELSE u,
                  d + (IF x > a THEN x - a - 1 ELSE 0))
    BY <2>2, <2>3, <2>4, InputAccount
  <2> QED BY <2>1, <2>5
<1>15. /\ InputTrue(n, 2, queue[n][2], m2, m2.seq,
          IF used[n][2] = 0 \/ m2.seq # in_seq[n][2] THEN used[n][2] + 1 ELSE used[n][2],
          counted[n][2] + (IF m2.seq > in_seq[n][2] THEN m2.seq - in_seq[n][2] - 1 ELSE 0))
       /\ MessageTrue(m2, Inputs[n][2])
  BY <1>0, <1>1, <1>2, <1>3, CacheAccounted DEF RowTrue
<1>16. \A j \in DOMAIN ms : j \in DOMAIN Inputs[n] /\ MessageTrue(ms[j], Inputs[n][j])
  BY <1>2, <1>5, <1>13, <1>15
<1>17. \A i \in {1, 2} :
                 /\ in_seq'[n][i] = ms[i].seq
                 /\ used'[n][i] = IF used[n][i] = 0 \/ ms[i].seq # in_seq[n][i]
                                  THEN used[n][i] + 1 ELSE used[n][i]
                 /\ counted'[n][i] = counted[n][i] + (IF ms[i].seq > in_seq[n][i]
                                                      THEN ms[i].seq - in_seq[n][i] - 1 ELSE 0)
  BY <1>0, <1>5, <1>8, <1>16, Accounted
<1>18. \A p \in Nodes : p # n => /\ in_seq'[p] = in_seq[p] /\ used'[p] = used[p]
                                 /\ counted'[p] = counted[p]
  BY <1>0, <1>8, <1>16, Accounted
<1>19. /\ queue' = [queue EXCEPT ![n][1] = Tail(@)]
       /\ cache' = [cache EXCEPT ![n][1] = m1]
       /\ DOMAIN queue = Nodes /\ DOMAIN queue[n] = {1, 2}
       /\ DOMAIN cache = Nodes /\ DOMAIN cache[n] = {1, 2}
  BY <1>0, <1>1, <1>2, <1>3 DEF Take, Cache, Shape
<1>20. /\ queue'[n][1] = Tail(queue[n][1]) /\ cache'[n][1] = m1
       /\ queue'[n][2] = queue[n][2] /\ cache'[n][2] = m2
       /\ \A p \in Nodes : p # n => queue'[p] = queue[p] /\ cache'[p] = cache[p]
  BY <1>3, <1>19
<1>21. Grows => RowTrue(n)'
  <2>1. SUFFICES ASSUME Grows, NEW j \in {1, 2}
                 PROVE  InputTrue(n, j, queue[n][j], cache[n][j], in_seq[n][j], used[n][j], counted[n][j])'
    BY <1>2 DEF RowTrue
  <2>2. PICK r, cb, a, u, d : /\ r = queue'[n][j] /\ cb = cache'[n][j] /\ a = in_seq'[n][j]
                              /\ u = used'[n][j] /\ d = counted'[n][j]
    OBVIOUS
  <2>3. InputTrue(n, j, r, cb, a, u, d)
    <3>1. CASE j = 1
      BY <1>5, <1>14, <1>17, <1>20, <2>2, <3>1
    <3>2. CASE j = 2
      BY <1>5, <1>15, <1>17, <1>20, <2>2, <3>2
    <3> QED BY <3>1, <3>2
  <2>4. InputTrue(n, j, r, cb, a, u, d)'
    BY <1>0, <1>2, <2>1, <2>3, InputStays
  <2> QED BY <2>2, <2>4
<1>22. MessageTrue(o, <<n, 0>>)
  BY <1>0, <1>1, <1>2, <1>7, <1>10, <1>13, <1>15, FusedMessage
<1>23. fires' \in [Nodes -> Nat] /\ \A p \in Nodes : fires'[p] <= MaxFires[p]
  BY <1>0, <1>1 DEF FlowShape
<1>24. FlowShape'
  BY <1>1, <1>8, <1>16, <1>23, AccountShape
<1>25. Start(n, o, <<>>) /\ UNCHANGED <<Inputs, clock>>
  BY <1>1, <1>9, <1>10
<1> QED BY <1>2, <1>8, <1>11, <1>18, <1>20, <1>21, <1>22, <1>24, <1>25, CallbackFlow

(* The message that a Cyclic makes of what it has cached. *)
LEMMA CyclicMessage ==
    ASSUME Shape, NEW n \in Nodes, RowTrue(n), Type[n] = "Cyclic", NEW C, C \subseteq DOMAIN Inputs[n],
           \A i \in DOMAIN Inputs[n] : i \in C <=> cache[n][i] # None,
           NEW f, f = [i \in C |-> cache[n][i].source],
           NEW s \in oldest_provenance_source(f), NEW missed
    PROVE  MessageTrue(Message(n, 0, Stamped(MergedHistory(cache[n]), Entry(n, 0, missed)), s), <<n, 0>>)
<1>1. \A i \in C : MessageTrue(cache[n][i], Inputs[n][i])
  BY DEF RowTrue, InputTrue
<1>2. \A i \in C : /\ \A e \in EntriesOf(cache[n][i].history) :
                        EntryTrue(e, cache[n][i].source) /\ Rank[e.node] < Rank[n]
                   /\ IsSequence(cache[n][i].history) /\ cache[n][i].source \in Source
  BY <1>1, EntriesBefore
<1>3. f \in [C -> Source]
  BY <1>2
<1>4. PICK E : E = UNION {EntriesOf(cache[n][i].history) : i \in C}
  OBVIOUS
<1>5. ASSUME NEW e \in E PROVE EntryTrue(e, s) /\ Rank[e.node] < Rank[n]
  <2>1. PICK i \in C : e \in EntriesOf(cache[n][i].history)
    BY <1>4
  <2>2. EntryTrue(e, f[i]) /\ Rank[e.node] < Rank[n]
    BY <1>2, <2>1
  <2> QED BY <1>3, <2>2, OldestEntry
<1>6. s \in Source
  BY <1>3, OldestFacts
<1>7. Inputs[n] \in Seq(AllNodes \X Nat)
  BY NodesAssumption DEF Shape, Nodes
<1>8. PICK N \in Nat : DOMAIN Inputs[n] = 1 .. N
  BY <1>7
<1>9. PICK c : c = cache[n]
  OBVIOUS
<1>10. DOMAIN c = 1 .. N
  BY <1>8, <1>9 DEF Shape
<1>11. \A i \in 1 .. N : c[i] # None => IsSequence(c[i].history) /\ EntriesOf(c[i].history) \subseteq E
  BY <1>2, <1>4, <1>8, <1>9
<1>12. Proper(MergedHistory(c), E)
  BY <1>10, <1>11, CachedProper
<1>13. PICK h : h = MergedHistory(c)
  OBVIOUS
<1>14. SourceKind[n] = 0 /\ 0 \in Channels(n)
  BY NodesAssumption DEF Shape, Nodes, Channels, ChannelsIn
<1>15. MessageTrue(Message(n, 0, Stamped(h, Entry(n, 0, missed)), s), <<n, 0>>)
  BY <1>5, <1>6, <1>12, <1>13, <1>14, MessageMade
<1> QED BY <1>9, <1>13, <1>15

LEMMA CyclicFlow ==
    ASSUME NodesInv, FlowInv, UNCHANGED Inputs, NEW n \in Nodes, CyclicTimer(n)
    PROVE  FlowInv'
<1>0. Shape /\ FlowShape /\ RowTrue(n)
  BY DEF NodesInv, FlowInv
<1>1. /\ Type[n] = "Cyclic" /\ Reset(n)
      /\ UNCHANGED <<clock, queue>>
      /\ fires[n] < MaxFires[n] /\ fires' = [fires EXCEPT ![n] = @ + 1]
  BY DEF CyclicTimer
<1>2. PICK C : C = {k \in DOMAIN cache[n] : cache[n][k] # None}
  OBVIOUS
<1>3. PICK ms : ms = [i \in C |-> cache[n][i]]
  OBVIOUS
<1>4. DOMAIN cache[n] = DOMAIN Inputs[n] /\ DOMAIN cache = Nodes
  BY <1>0 DEF Shape
<1>5. /\ C \subseteq DOMAIN Inputs[n] /\ DOMAIN ms = C /\ \A i \in C : ms[i] = cache[n][i]
      /\ \A i \in DOMAIN Inputs[n] : i \in C <=> cache[n][i] # None
  BY <1>2, <1>3, <1>4
<1>6. PICK missed : missed = MissedOf(n, ms)
  OBVIOUS
<1>7. PICK inputs : inputs = [i \in DOMAIN ms |-> IdentityOf(ms[i])]
  OBVIOUS
<1>8. /\ Account(n, ms) /\ Draw(n, 0)
      /\ \E source \in oldest_provenance_source([i \in DOMAIN ms |-> ms[i].source]) :
            Start(n, Message(n, 0, Stamped(MergedHistory(cache[n]), Entry(n, 0, missed)), source), inputs)
  BY <1>2, <1>3, <1>6, <1>7 DEF CyclicTimer
<1>9. PICK f : f = [i \in DOMAIN ms |-> ms[i].source]
  OBVIOUS
<1>10. PICK s \in oldest_provenance_source(f) :
            Start(n, Message(n, 0, Stamped(MergedHistory(cache[n]), Entry(n, 0, missed)), s), inputs)
  BY <1>8, <1>9
<1>11. PICK o : o = Message(n, 0, Stamped(MergedHistory(cache[n]), Entry(n, 0, missed)), s)
  OBVIOUS
<1>12. o.channel = 0 /\ o.seq = next_seq[n][0] /\ 0 \in Channels(n)
  BY <1>1, <1>11 DEF Message, Channels, ChannelsIn
<1>13. f = [i \in C |-> cache[n][i].source]
  BY <1>5, <1>9
<1>14. MessageTrue(o, <<n, 0>>)
  BY <1>0, <1>1, <1>5, <1>10, <1>11, <1>13, CyclicMessage
<1>15. \A j \in DOMAIN ms : j \in DOMAIN Inputs[n] /\ MessageTrue(ms[j], Inputs[n][j])
  BY <1>0, <1>5 DEF RowTrue, InputTrue
<1>16. \A p \in Nodes : p # n => /\ in_seq'[p] = in_seq[p] /\ used'[p] = used[p]
                                 /\ counted'[p] = counted[p]
  BY <1>0, <1>8, <1>15, Accounted
<1>17. cache' = [cache EXCEPT ![n] = [i \in DOMAIN @ |-> None]]
  BY <1>1 DEF Reset
<1>18. /\ \A j \in DOMAIN Inputs[n] : cache'[n][j] = None
       /\ \A p \in Nodes : p # n => cache'[p] = cache[p]
  BY <1>4, <1>17
<1>19. Grows => RowTrue(n)'
  <2>1. SUFFICES ASSUME Grows, NEW j \in DOMAIN Inputs[n]
                 PROVE  InputTrue(n, j, queue[n][j], cache[n][j], in_seq[n][j], used[n][j], counted[n][j])'
    BY DEF RowTrue
  <2>2. PICK q, a, u, d : /\ q = queue[n][j] /\ a = in_seq'[n][j]
                          /\ u = used'[n][j] /\ d = counted'[n][j]
    OBVIOUS
  <2>3. PICK ca, b, v, w : /\ ca = cache[n][j] /\ b = in_seq[n][j]
                           /\ v = used[n][j] /\ w = counted[n][j]
    OBVIOUS
  <2>4. InputTrue(n, j, q, ca, b, v, w)
    BY <1>0, <2>2, <2>3 DEF RowTrue
  <2>5. InputTrue(n, j, q, ca, a, u, d)
    <3>1. CASE j \notin C
      <4>1. a = b /\ u = v /\ d = w
        BY <1>0, <1>5, <1>8, <1>15, <2>2, <2>3, <3>1, Accounted
      <4> QED BY <2>4, <4>1
    <3>2. CASE j \in C
      <4>1. /\ in_seq'[n][j] = ms[j].seq
            /\ used'[n][j] = IF used[n][j] = 0 \/ ms[j].seq # in_seq[n][j]
                             THEN used[n][j] + 1 ELSE used[n][j]
            /\ counted'[n][j] = counted[n][j] + (IF ms[j].seq > in_seq[n][j]
                                                 THEN ms[j].seq - in_seq[n][j] - 1 ELSE 0)
        BY <1>0, <1>5, <1>8, <1>15, <3>2, Accounted
      <4>2. /\ a = ca.seq /\ u = IF v = 0 \/ ca.seq # b THEN v + 1 ELSE v
            /\ d = w + (IF ca.seq > b THEN ca.seq - b - 1 ELSE 0)
            /\ ca # None
        BY <1>5, <2>2, <2>3, <3>2, <4>1
      <4> QED BY <2>4, <4>2, CacheAccounted
    <3> QED BY <3>1, <3>2
  <2>6. InputTrue(n, j, q, None, a, u, d)
    BY <2>5, InputReset
  <2>7. InputTrue(n, j, q, None, a, u, d)'
    BY <1>0, <2>1, <2>6, InputStays
  <2>8. queue'[n][j] = q /\ cache'[n][j] = None
    BY <1>1, <1>18, <2>2
  <2> QED BY <2>2, <2>7, <2>8
<1>20. fires' \in [Nodes -> Nat] /\ \A p \in Nodes : fires'[p] <= MaxFires[p]
  BY <1>0, <1>1, Fired
<1>21. FlowShape'
  BY <1>1, <1>8, <1>15, <1>20, AccountShape
<1>22. Start(n, o, inputs) /\ UNCHANGED <<Inputs, clock>>
  BY <1>1, <1>10, <1>11
<1>23. \A p \in Nodes : p # n => queue'[p] = queue[p] /\ cache'[p] = cache[p]
  BY <1>1, <1>18
<1> QED BY <1>8, <1>12, <1>14, <1>16, <1>19, <1>21, <1>22, <1>23, CallbackFlow

(* A delivered message, and one more place only if there is room. *)
LEMMA InputDeliver ==
    ASSUME NEW n, NEW i, NEW q, NEW ca, NEW a, NEW u, NEW d, InputTrue(n, i, q, ca, a, u, d),
           NEW m, MessageTrue(m, Inputs[n][i]), m.seq \in Nat,
           m.seq + 1 = next_seq[Inputs[n][i][1]][Inputs[n][i][2]]
    PROVE  InputTrue(n, i, KeepLast(Append(q, m), Depth(n)), ca, a, u, d)
<1>1. PICK x : x = next_seq[Inputs[n][i][1]][Inputs[n][i][2]]
  OBVIOUS
<1>2. PICK c \in Nat : c = Depth(n)
  BY DEF Depth
<1>3. PICK r : r = KeepLast(Append(q, m), c)
  OBVIOUS
<1>4. IsSequence(q) /\ SubTrue(q, ca, a, u, d, x) /\ Len(q) <= c
  BY <1>1, <1>2 DEF InputTrue
<1>5. SubTrue(r, ca, a, u, d, x)
  BY <1>1, <1>3, <1>4, SubDeliver
<1>6. IsSequence(r) /\ \A k \in DOMAIN r : r[k] = m \/ \E j \in DOMAIN q : r[k] = q[j]
  BY <1>3, <1>4, DeliverFacts
<1>7. \A k \in DOMAIN r : MessageTrue(r[k], Inputs[n][i])
  BY <1>6 DEF InputTrue
<1>8. Len(r) <= c
  <2>1. PICK S : q \in Seq(S)
    BY <1>4 DEF IsSequence
  <2>2. q \in Seq(S \cup {m}) /\ m \in S \cup {m}
    BY <2>1
  <2>3. PICK b : b = Append(q, m)
    OBVIOUS
  <2>4. b \in Seq(S \cup {m}) /\ Len(b) = Len(q) + 1 /\ Len(q) \in Nat /\ b # <<>>
    BY <2>2, <2>3
  <2>5. Len(Tail(b)) = Len(b) - 1
    BY <2>4
  <2>6. CASE Len(b) > c
    BY <1>3, <1>4, <2>3, <2>4, <2>5, <2>6 DEF KeepLast
  <2>7. CASE ~(Len(b) > c)
    BY <1>3, <2>3, <2>4, <2>7 DEF KeepLast
  <2> QED BY <2>6, <2>7
<1>9. InputTrue(n, i, r, ca, a, u, d)
  BY <1>1, <1>2, <1>5, <1>6, <1>7, <1>8 DEF InputTrue
<1> QED BY <1>2, <1>3, <1>9

LEMMA PublishFlow ==
    ASSUME NodesInv, FlowInv, UNCHANGED Inputs, NEW n \in Nodes, Publish(n)
    PROVE  FlowInv'
<1>0. Shape /\ FlowShape /\ Nodes' = Nodes /\ \A p \in Nodes : Outgoing(p) /\ RowTrue(p)
  BY SameGraph DEF NodesInv, FlowInv
<1>1. PICK m, c : m = work[n].msg /\ c = m.channel
  OBVIOUS
<1>2. /\ pc[n] = "publish"
      /\ queue' = [s \in Nodes |-> [i \in DOMAIN Inputs[s] |->
                     IF Inputs[s][i] = <<n, c>>
                     THEN KeepLast(Append(queue[s][i], m), Depth(s)) ELSE queue[s][i]]]
      /\ pc' = [pc EXCEPT ![n] = AfterPublish(n)]
      /\ work' = [work EXCEPT ![n] = IF AfterPublish(n) = "idle" THEN None ELSE @]
      /\ UNCHANGED <<clock, cache, next_seq, in_seq, fires, log, used, counted>>
  BY <1>1 DEF Publish
<1>3. Grows /\ FlowShape'
  BY <1>0, <1>2, NothingDrawn DEF FlowShape
<1>4. InHand(n)
  BY <1>2 DEF NodesInv, Working
<1>5. /\ c \in Channels(n) /\ m.seq \in Nat /\ next_seq[n][c] = m.seq + 1
      /\ MessageTrue(m, <<n, c>>)
  BY <1>0, <1>1, <1>2, <1>4 DEF Outgoing, InHand
<1>6. ASSUME NEW p \in Nodes, NEW i \in DOMAIN Inputs[p]
      PROVE  InputTrue(p, i, queue[p][i], cache[p][i], in_seq[p][i], used[p][i], counted[p][i])'
  <2>1. PICK q, ca, a, u, d : /\ q = queue[p][i] /\ ca = cache[p][i] /\ a = in_seq[p][i]
                              /\ u = used[p][i] /\ d = counted[p][i]
    OBVIOUS
  <2>2. InputTrue(p, i, q, ca, a, u, d)
    BY <1>0, <2>1 DEF RowTrue
  <2>3. PICK r : r = queue'[p][i]
    OBVIOUS
  <2>4. r = IF Inputs[p][i] = <<n, c>> THEN KeepLast(Append(q, m), Depth(p)) ELSE q
    BY <1>2, <2>1, <2>3
  <2>5. InputTrue(p, i, r, ca, a, u, d)
    <3>1. CASE Inputs[p][i] = <<n, c>>
      <4>1. MessageTrue(m, Inputs[p][i]) /\ m.seq + 1 = next_seq[Inputs[p][i][1]][Inputs[p][i][2]]
        BY <1>5, <3>1
      <4>2. InputTrue(p, i, KeepLast(Append(q, m), Depth(p)), ca, a, u, d)
        BY <1>5, <2>2, <4>1, InputDeliver
      <4> QED BY <2>4, <3>1, <4>2
    <3>2. CASE Inputs[p][i] # <<n, c>>
      BY <2>2, <2>4, <3>2
    <3> QED BY <3>1, <3>2
  <2>6. InputTrue(p, i, r, ca, a, u, d)'
    BY <1>0, <1>3, <2>5, InputStays
  <2>7. /\ cache'[p][i] = ca /\ in_seq'[p][i] = a /\ used'[p][i] = u /\ counted'[p][i] = d
    BY <1>2, <2>1
  <2> QED BY <2>3, <2>6, <2>7
<1>7. \A p \in Nodes : RowTrue(p)'
  BY <1>6 DEF RowTrue
<1>8. ASSUME NEW p \in Nodes PROVE Outgoing(p)'
  <2>1. CASE p # n
    <3>1. pc'[p] = pc[p] /\ work'[p] = work[p] /\ next_seq'[p] = next_seq[p]
      BY <1>0, <1>2, <2>1 DEF Shape
    <3> QED BY <1>0, <3>1, OutgoingStays
  <2>2. CASE p = n /\ AfterPublish(n) = "idle"
    <3>1. pc'[p] = "idle" /\ work'[p] = None
      BY <1>0, <1>2, <2>2 DEF Shape
    <3> QED BY <3>1 DEF Outgoing
  <2>3. CASE p = n /\ AfterPublish(n) # "idle"
    <3>1. pc'[n] # "idle" /\ work'[n].msg = m
      BY <1>0, <1>1, <1>2, <2>3 DEF Shape
    <3>2. MessageTrue(m, <<n, c>>)' /\ Channels(n)' = Channels(n) /\ next_seq'[n][c] = next_seq[n][c]
      BY <1>2, <1>5, MessageStays, SameGraph
    <3> QED BY <1>1, <1>5, <2>3, <3>1, <3>2 DEF Outgoing
  <2> QED BY <2>1, <2>2, <2>3
<1> QED BY <1>0, <1>3, <1>7, <1>8 DEF FlowInv

LEMMA EmitFlow ==
    ASSUME NodesInv, FlowInv, UNCHANGED Inputs, NEW n \in Nodes, Emit(n)
    PROVE  FlowInv'
<1>0. Shape /\ FlowShape /\ Nodes' = Nodes /\ \A p \in Nodes : Outgoing(p) /\ RowTrue(p)
  BY SameGraph DEF NodesInv, FlowInv
<1>1. /\ pc[n] = "emit"
      /\ pc' = [pc EXCEPT ![n] = AfterEmit(n)]
      /\ work' = [work EXCEPT ![n] = IF AfterEmit(n) = "idle" THEN None ELSE @]
      /\ UNCHANGED <<clock, queue, cache, next_seq, in_seq, fires, used, counted>>
  BY DEF Emit
<1>2. Grows /\ FlowShape'
  BY <1>0, <1>1, NothingDrawn DEF FlowShape
<1>3. \A p \in Nodes : RowTrue(p)'
  BY <1>0, <1>1, <1>2, RowStays
<1>4. ASSUME NEW p \in Nodes PROVE Outgoing(p)'
  <2>1. CASE p # n
    <3>1. pc'[p] = pc[p] /\ work'[p] = work[p] /\ next_seq'[p] = next_seq[p]
      BY <1>0, <1>1, <2>1 DEF Shape
    <3> QED BY <1>0, <3>1, OutgoingStays
  <2>2. CASE p = n /\ AfterEmit(n) = "idle"
    <3>1. pc'[p] = "idle" /\ work'[p] = None
      BY <1>0, <1>1, <2>2 DEF Shape
    <3> QED BY <3>1 DEF Outgoing
  <2>3. CASE p = n /\ AfterEmit(n) # "idle"
    <3>1. PICK m, c : m = work[n].msg /\ c = m.channel
      OBVIOUS
    <3>2. pc'[n] # "idle" /\ work'[n].msg = m
      BY <1>0, <1>1, <2>3, <3>1 DEF Shape
    <3>3. /\ c \in Channels(n) /\ m.seq \in Nat /\ next_seq[n][c] = m.seq + 1
          /\ Type[n] # "Command" => MessageTrue(m, <<n, c>>)
      BY <1>0, <1>1, <3>1 DEF Outgoing
    <3>4. /\ Type[n] # "Command" => MessageTrue(m, <<n, c>>)'
          /\ Channels(n)' = Channels(n) /\ next_seq'[n][c] = next_seq[n][c]
      BY <1>1, <3>3, MessageStays, SameGraph
    <3> QED BY <2>3, <3>1, <3>2, <3>3, <3>4 DEF Outgoing
  <2> QED BY <2>1, <2>2, <2>3
<1> QED BY <1>0, <1>2, <1>3, <1>4 DEF FlowInv

LEMMA TickFlow ==
    ASSUME NodesInv, FlowInv, UNCHANGED Inputs,
           (Tick \/ UNCHANGED <<clock, queue, cache, next_seq, in_seq, pc, work, fires, used, counted>>)
    PROVE  FlowInv'
<1>0. Shape /\ FlowShape /\ Nodes' = Nodes /\ \A p \in Nodes : Outgoing(p) /\ RowTrue(p)
  BY SameGraph DEF NodesInv, FlowInv
<1>1. UNCHANGED <<queue, cache, next_seq, in_seq, pc, work, fires, used, counted>>
  BY DEF Tick
<1>2. clock' <= MaxTime
  <2>1. clock \in Nat /\ MaxTime \in Nat /\ clock <= MaxTime
    BY <1>0, NodesAssumption DEF Shape, FlowShape
  <2> QED BY <2>1 DEF Tick
<1>3. Grows /\ FlowShape'
  BY <1>0, <1>1, <1>2, NothingDrawn DEF FlowShape
<1>4. \A p \in Nodes : RowTrue(p)'
  BY <1>0, <1>1, <1>3, RowStays
<1>5. \A p \in Nodes : Outgoing(p)'
  BY <1>0, <1>1, OutgoingStays
<1> QED BY <1>0, <1>3, <1>4, <1>5 DEF FlowInv

LEMMA FlowInit ==
    ASSUME Init
    PROVE  FlowInv
<1>1. NodesInv
  BY InitInv
<1>2. Shape
  BY <1>1 DEF NodesInv
<1>3. FlowShape
  <2>1. MaxTime \in Nat /\ clock = 0 /\ Nodes \subseteq AllNodes /\ \A n \in Nodes : MaxFires[n] \in Nat
    BY NodesAssumption DEF Init, Nodes
  <2> QED BY <2>1 DEF Init, FlowShape
<1>4. ASSUME NEW n \in Nodes PROVE Outgoing(n)
  BY DEF Init, Outgoing
<1>5. ASSUME NEW n \in Nodes, NEW i \in DOMAIN Inputs[n]
      PROVE  InputTrue(n, i, queue[n][i], cache[n][i], in_seq[n][i], used[n][i], counted[n][i])
  <2>1. /\ queue[n][i] = <<>> /\ cache[n][i] = None /\ in_seq[n][i] = 0
        /\ used[n][i] = 0 /\ counted[n][i] = 0
    BY DEF Init
  <2>2. next_seq[Inputs[n][i][1]][Inputs[n][i][2]] \in Nat
    BY <1>2, TopicFacts DEF Shape
  <2>3. IsSequence(<<>>) /\ Len(<<>>) = 0 /\ DOMAIN <<>> = {}
    <3>1. <<>> \in Seq({})
      OBVIOUS
    <3> QED BY <3>1 DEF IsSequence
  <2>4. 0 <= Depth(n)
    BY DEF Depth
  <2>5. SubTrue(<<>>, None, 0, 0, 0, next_seq[Inputs[n][i][1]][Inputs[n][i][2]])
    BY <2>2, <2>3 DEF SubTrue
  <2> QED BY <2>1, <2>3, <2>4, <2>5 DEF InputTrue
<1> QED BY <1>3, <1>4, <1>5 DEF FlowInv, RowTrue

LEMMA FlowStep ==
    ASSUME NodesInv, FlowInv, [Next]_vars
    PROVE  FlowInv'
<1>1. CASE UNCHANGED vars
  BY <1>1, TickFlow DEF vars
<1>2. CASE Next
  <2>0. UNCHANGED Inputs
    BY <1>2 DEF Next
  <2>1. CASE Tick
    BY <2>0, <2>1, TickFlow
  <2>2. ASSUME NEW n \in Nodes, SensorTimer(n) PROVE FlowInv'
    BY <2>0, <2>2, SensorFlow
  <2>3. ASSUME NEW n \in Nodes, CyclicTimer(n) PROVE FlowInv'
    BY <2>0, <2>3, CyclicFlow
  <2>4. ASSUME NEW n \in Nodes, NEW i \in DOMAIN Inputs[n], Relay(n, i) PROVE FlowInv'
    BY <2>0, <2>4, RelayFlow
  <2>5. ASSUME NEW n \in Nodes, NEW i \in DOMAIN Inputs[n], FusionCache(n, i) \/ CyclicInput(n, i)
        PROVE  FlowInv'
    <3>1. /\ Type[n] \in {"Fusion", "Cyclic"} /\ Take(n, i) /\ Cache(n, i)
          /\ UNCHANGED <<clock, next_seq, in_seq, pc, work, fires, used, counted>>
      BY <2>5 DEF FusionCache, CyclicInput
    <3> QED BY <2>0, <3>1, PassiveFlow
  <2>6. ASSUME NEW n \in Nodes, FusionTrigger(n) PROVE FlowInv'
    BY <2>0, <2>6, FusionFlow
  <2>7. ASSUME NEW n \in Nodes, CommandInput(n) PROVE FlowInv'
    BY <2>0, <2>7, CommandFlow
  <2>8. ASSUME NEW n \in Nodes, Publish(n) PROVE FlowInv'
    BY <2>0, <2>8, PublishFlow
  <2>9. ASSUME NEW n \in Nodes, Emit(n) PROVE FlowInv'
    BY <2>0, <2>9, EmitFlow
  <2> QED BY <1>2, <2>1, <2>2, <2>3, <2>4, <2>5, <2>6, <2>7, <2>8, <2>9 DEF Next, Step
<1> QED BY <1>1, <1>2

-----------------------------------------------------------------------------
(* The order of sources. In a system without a Cyclic, T gives the time that a record of
   output k on channel c of n shows for its source, and V whether it is valid, for every
   number that has been drawn: V depends on the topic only and T never decreases. *)

SourceTime(s) == IF s.kind = 0 THEN 0 ELSE s.t
SourceValid(s) == IF s.kind = 0 THEN 0 ELSE 1

Timed(T, V, m) ==
    /\ T[m.node][m.channel][m.seq] = SourceTime(m.source)
    /\ V[m.node][m.channel] = SourceValid(m.source)

(* The inputs that the messages on channel c of n are made of. *)
InputsOf(n, c) == IF Type[n] = "Intersection" THEN {c + 1} ELSE DOMAIN Inputs[n]

(* An output with validity v and time t is no younger than input a of the topic <<p, d>>. *)
Behind(T, V, v, t, p, d, a) ==
    a \in Nat /\ a < next_seq[p][d] /\ (V[p][d] = 1 => v = 1 /\ t <= T[p][d][a])

FollowsWith(T, V, n, c, v, t) ==
    IF Type[n] = "Sensor" THEN v = (IF SourceKind[n] = 0 THEN 0 ELSE 1) /\ t <= clock
    ELSE /\ \A i \in InputsOf(n, c) :
               Behind(T, V, v, t, Inputs[n][i][1], Inputs[n][i][2], in_seq[n][i])
         /\ v = 1 => \E i \in InputsOf(n, c) : V[Inputs[n][i][1]][Inputs[n][i][2]] = 1

Follows(T, V, n, c) ==
    next_seq[n][c] # 0 =>
        FollowsWith(T, V, n, c, V[n][c], T[n][c][next_seq[n][c] - 1])

TableOn(N, T, V) ==
    /\ T \in [N -> [Nat -> [Nat -> Nat]]]
    /\ V \in [N -> [Nat -> {0, 1}]]

Table(T, V) == TableOn(Nodes, T, V)

Monotone(T, V) ==
    \A n \in Nodes : \A c \in Channels(n) :
        /\ \A k, l \in Nat : k <= l /\ l < next_seq[n][c] => T[n][c][k] <= T[n][c][l]
        /\ \A k \in Nat : k < next_seq[n][c] /\ V[n][c] = 0 => T[n][c][k] = 0

HeldTimed(T, V) ==
    \A n \in Nodes :
        /\ \A i \in DOMAIN Inputs[n] :
              /\ \A k \in DOMAIN queue[n][i] : Timed(T, V, queue[n][i][k])
              /\ cache[n][i] # None => Timed(T, V, cache[n][i])
        /\ pc[n] # "idle" => Timed(T, V, work[n].msg)

SinksTimed(T, V) ==
    \A r \in log : r.event = "sink" =>
        Type[r.node] = "Command" /\ r.source.t = T[r.node][r.channel][r.seq]

OrderTrue(T, V) ==
    /\ Table(T, V) /\ Monotone(T, V) /\ HeldTimed(T, V) /\ SinksTimed(T, V)
    /\ \A n \in Nodes : \A c \in Channels(n) : Follows(T, V, n, c)

NoCyclic == \A n \in Nodes : Type[n] # "Cyclic"

OrderInv == NoCyclic => \E T, V : OrderTrue(T, V)

(* T2 and V2 say the same as T and V of every number drawn. *)
Extends(T, V, T2, V2) ==
    /\ Table(T2, V2)
    /\ \A p \in Nodes : \A d \in Channels(p) : next_seq[p][d] # 0 =>
          /\ V2[p][d] = V[p][d]
          /\ \A k \in Nat : k < next_seq[p][d] => T2[p][d][k] = T[p][d][k]

LEMMA ChannelsFacts ==
    ASSUME Shape, NEW n \in Nodes
    PROVE  /\ Channels(n) \subseteq Nat
           /\ \A c \in Channels(n) : next_seq[n][c] \in Nat
           /\ Type[n] # "Sensor" => \A c \in Channels(n) : InputsOf(n, c) \subseteq DOMAIN Inputs[n]
<1>1. Inputs[n] \in Seq(AllNodes \X Nat)
  BY NodesAssumption DEF Shape, Nodes
<1>2. Len(Inputs[n]) \in Nat /\ DOMAIN Inputs[n] = 1 .. Len(Inputs[n])
  BY <1>1
<1>3. Channels(n) \subseteq Nat
  BY <1>2 DEF Channels, ChannelsIn
<1>4. ASSUME NEW c \in Channels(n) PROVE InputsOf(n, c) \subseteq DOMAIN Inputs[n]
  <2>1. CASE Type[n] = "Intersection"
    <3>1. c \in 0 .. Len(Inputs[n]) - 1
      BY <2>1 DEF Channels, ChannelsIn
    <3>2. c + 1 \in 1 .. Len(Inputs[n])
      BY <1>2, <3>1
    <3> QED BY <1>2, <2>1, <3>2 DEF InputsOf
  <2>2. CASE Type[n] # "Intersection"
    BY <2>2 DEF InputsOf
  <2> QED BY <2>1, <2>2
<1>5. \A c \in Channels(n) : next_seq[n][c] \in Nat
  BY DEF Shape
<1> QED BY <1>3, <1>4, <1>5

LEMMA TimedStays ==
    ASSUME Shape, NEW T, NEW V, NEW T2, NEW V2, Extends(T, V, T2, V2),
           NEW m, Drawn(m), Timed(T, V, m)
    PROVE  Timed(T2, V2, m)
<1>1. /\ m.node \in Nodes /\ m.channel \in Channels(m.node) /\ m.seq \in Nat
      /\ m.seq < next_seq[m.node][m.channel]
  BY DEF Drawn
<1>2. next_seq[m.node][m.channel] # 0
  BY <1>1, ChannelsFacts
<1> QED BY <1>1, <1>2 DEF Extends, Timed

(* Every message held has a number that was drawn. *)
LEMMA HeldDrawn ==
    ASSUME NodesInv, NEW n \in Nodes
    PROVE  /\ \A i \in DOMAIN Inputs[n] :
                 /\ \A k \in DOMAIN queue[n][i] : Drawn(queue[n][i][k])
                 /\ cache[n][i] # None => Drawn(cache[n][i])
           /\ pc[n] # "idle" => Drawn(work[n].msg)
<1>1. \A m : Carried(m) => Drawn(m)
  BY DEF Carried, Known, Drawn, IdentityOf
<1>2. pc[n] # "idle" => Drawn(work[n].msg)
  BY DEF NodesInv, Working, InHand, Known
<1> QED BY <1>1, <1>2 DEF NodesInv, Queued, Cached

(* The topic that an input reads is not one of its node. *)
LEMMA FollowsStays ==
    ASSUME Shape, UNCHANGED Inputs, Grows, clock \in Nat, clock' \in Nat, clock <= clock',
           NEW n \in Nodes, NEW c \in Channels(n),
           Type[n] # "Sensor" => \A i \in InputsOf(n, c) : in_seq'[n][i] = in_seq[n][i],
           NEW T, NEW V, NEW T2, NEW V2, Extends(T, V, T2, V2), NEW v, NEW t \in Nat,
           FollowsWith(T, V, n, c, v, t)
    PROVE  FollowsWith(T2, V2, n, c, v, t)'
<1>1. CASE Type[n] = "Sensor"
  BY <1>1 DEF FollowsWith
<1>2. CASE Type[n] # "Sensor"
  <2>1. ASSUME NEW i \in InputsOf(n, c)
        PROVE  /\ Behind(T2, V2, v, t, Inputs[n][i][1], Inputs[n][i][2], in_seq[n][i])'
               /\ V2[Inputs[n][i][1]][Inputs[n][i][2]] = V[Inputs[n][i][1]][Inputs[n][i][2]]
    <3>1. i \in DOMAIN Inputs[n]
      BY <1>2, <2>1, ChannelsFacts
    <3>2. PICK p \in Nodes : p = Inputs[n][i][1]
      BY <3>1, TopicFacts
    <3>3. PICK d \in Channels(p) : d = Inputs[n][i][2]
      BY <3>1, <3>2, TopicFacts
    <3>4. PICK a : a = in_seq[n][i]
      OBVIOUS
    <3>5. Behind(T, V, v, t, p, d, a)
      BY <1>2, <2>1, <3>2, <3>3, <3>4 DEF FollowsWith
    <3>6. /\ next_seq[p][d] \in Nat /\ next_seq'[p][d] \in Nat /\ next_seq[p][d] <= next_seq'[p][d]
      BY ChannelsFacts DEF Grows
    <3>7. a \in Nat /\ a < next_seq[p][d] /\ next_seq[p][d] # 0 /\ a < next_seq'[p][d]
      BY <3>5, <3>6 DEF Behind
    <3>8. V2[p][d] = V[p][d] /\ T2[p][d][a] = T[p][d][a]
      BY <3>7 DEF Extends
    <3>9. Behind(T2, V2, v, t, p, d, a)'
      BY <3>5, <3>7, <3>8 DEF Behind
    <3>10. a = in_seq'[n][i] /\ p = Inputs'[n][i][1] /\ d = Inputs'[n][i][2]
      BY <1>2, <2>1, <3>2, <3>3, <3>4
    <3> QED BY <3>2, <3>3, <3>8, <3>9, <3>10
  <2>2. InputsOf(n, c)' = InputsOf(n, c)
    BY DEF InputsOf
  <2>3. v = 1 => \E i \in InputsOf(n, c) : V2[Inputs[n][i][1]][Inputs[n][i][2]] = 1
    BY <1>2, <2>1 DEF FollowsWith
  <2> QED BY <1>2, <2>1, <2>2, <2>3 DEF FollowsWith
<1> QED BY <1>1, <1>2

(* A table with one more number, and one whose times still do not decrease. *)
Wider(N, T, V, n, c, x, t, v, T2, V2) ==
    /\ T2 \in [N -> [Nat -> [Nat -> Nat]]] /\ V2 \in [N -> [Nat -> {0, 1}]]
    /\ T2[n][c][x] = t /\ V2[n][c] = v
    /\ \A k \in Nat : k # x => T2[n][c][k] = T[n][c][k]
    /\ \A p \in N : \A d \in Nat : p # n \/ d # c =>
          T2[p][d] = T[p][d] /\ V2[p][d] = V[p][d]

LEMMA TableExtended ==
    ASSUME NEW N, NEW T, NEW V, TableOn(N, T, V), NEW n \in N, NEW c \in Nat, NEW x \in Nat, NEW t \in Nat, NEW v \in {0, 1}
    PROVE  \E T2, V2 : Wider(N, T, V, n, c, x, t, v, T2, V2)
<1>0. T \in [N -> [Nat -> [Nat -> Nat]]] /\ V \in [N -> [Nat -> {0, 1}]]
  BY DEF TableOn
<1>1. PICK y \in [Nat -> Nat] : y = T[n][c]
  BY <1>0
<1>2. PICK z : z = [y EXCEPT ![x] = t]
  OBVIOUS
<1>3. z \in [Nat -> Nat] /\ z[x] = t /\ \A k \in Nat : k # x => z[k] = y[k]
  BY <1>2
<1>4. PICK T2 : T2 = [T EXCEPT ![n][c] = z]
  OBVIOUS
<1>5. /\ T2 \in [N -> [Nat -> [Nat -> Nat]]] /\ T2[n][c] = z
      /\ \A p \in N : \A d \in Nat : p # n \/ d # c => T2[p][d] = T[p][d]
  BY <1>0, <1>3, <1>4
<1>6. PICK V2 : V2 = [V EXCEPT ![n][c] = v]
  OBVIOUS
<1>7. /\ V2 \in [N -> [Nat -> {0, 1}]] /\ V2[n][c] = v
      /\ \A p \in N : \A d \in Nat : p # n \/ d # c => V2[p][d] = V[p][d]
  BY <1>0, <1>6
<1>8. T2[n][c][x] = t /\ \A k \in Nat : k # x => T2[n][c][k] = T[n][c][k]
  BY <1>1, <1>3, <1>5
<1>9. Wider(N, T, V, n, c, x, t, v, T2, V2)
  BY <1>5, <1>7, <1>8 DEF Wider
<1> QED BY <1>9

LEMMA RowExtended ==
    ASSUME NEW y \in [Nat -> Nat], NEW x \in Nat, NEW t \in Nat, NEW z,
           z[x] = t, \A k \in Nat : k # x => z[k] = y[k],
           \A k, l \in Nat : k <= l /\ l < x => y[k] <= y[l],
           x # 0 => y[x - 1] <= t
    PROVE  \A k, l \in Nat : k <= l /\ l < x + 1 => z[k] <= z[l]
<1>1. \A k \in Nat : k < x => y[k] <= t
  <2>1. SUFFICES ASSUME NEW k \in Nat, k < x PROVE y[k] <= t
    OBVIOUS
  <2>2. PICK w \in Nat : w = x - 1 /\ k <= w /\ w < x /\ x # 0
    BY <2>1
  <2>3. y[w] <= t /\ y[k] <= y[w] /\ y[w] \in Nat /\ y[k] \in Nat
    BY <2>2
  <2> QED BY <2>3
<1>2. SUFFICES ASSUME NEW k \in Nat, NEW l \in Nat, k <= l, l < x + 1 PROVE z[k] <= z[l]
  OBVIOUS
<1>3. CASE l < x
  BY <1>2, <1>3
<1>4. CASE l = x /\ k < x
  BY <1>1, <1>4
<1>5. CASE l = x /\ k = x
  BY <1>5
<1> QED BY <1>2, <1>3, <1>4, <1>5

LEMMA DrawTable ==
    ASSUME Shape, NEW T, NEW V, Table(T, V), Monotone(T, V), NEW n \in Nodes, NEW c \in Channels(n),
           NEW t \in Nat, NEW v \in {0, 1}, v = 0 => t = 0, UNCHANGED Inputs, Draw(n, c),
           next_seq[n][c] # 0 => V[n][c] = v /\ T[n][c][next_seq[n][c] - 1] <= t
    PROVE  \E T2, V2 :
              /\ Extends(T, V, T2, V2) /\ Table(T2, V2)' /\ Monotone(T2, V2)'
              /\ T2[n][c][next_seq[n][c]] = t /\ V2[n][c] = v
<1>0. Channels(n) \subseteq Nat /\ (\A p \in Nodes : Channels(p) \subseteq Nat) /\ c \in Nat
  BY ChannelsFacts
<1>1. PICK x \in Nat : x = next_seq[n][c]
  BY ChannelsFacts
<1>2. PICK N : N = Nodes
  OBVIOUS
<1>3. TableOn(N, T, V) /\ n \in N /\ c \in Nat
  BY <1>0, <1>2 DEF Table
<1>4. \E T2, V2 : Wider(N, T, V, n, c, x, t, v, T2, V2)
  BY <1>3, TableExtended
<1>5. PICK T2, V2 : Wider(Nodes, T, V, n, c, x, t, v, T2, V2)
  BY <1>2, <1>4
<1>6. /\ T2 \in [Nodes -> [Nat -> [Nat -> Nat]]] /\ V2 \in [Nodes -> [Nat -> {0, 1}]]
      /\ T2[n][c][x] = t /\ V2[n][c] = v
      /\ \A k \in Nat : k # x => T2[n][c][k] = T[n][c][k]
      /\ \A p \in Nodes : \A d \in Nat : p # n \/ d # c =>
            T2[p][d] = T[p][d] /\ V2[p][d] = V[p][d]
  BY <1>5 DEF Wider
<1>7. x # 0 => V[n][c] = v /\ T[n][c][x - 1] <= t
  BY <1>1
<1>8. ASSUME NEW p \in Nodes, NEW d \in Channels(p), next_seq[p][d] # 0
      PROVE  V2[p][d] = V[p][d] /\ \A k \in Nat : k < next_seq[p][d] => T2[p][d][k] = T[p][d][k]
  <2>1. CASE p = n /\ d = c
    <3>1. x # 0 /\ \A k \in Nat : k < x => k # x
      BY <1>1, <1>8, <2>1
    <3> QED BY <1>1, <1>6, <1>7, <2>1, <3>1
  <2>2. CASE p # n \/ d # c
    <3>1. d \in Nat
      BY <1>0
    <3> QED BY <1>6, <2>2, <3>1
  <2> QED BY <2>1, <2>2
<1>9. Table(T2, V2) /\ Table(T2, V2)'
  BY <1>6, SameGraph DEF Table, TableOn
<1>10. Extends(T, V, T2, V2)
  BY <1>8, <1>9 DEF Extends
<1>11. /\ next_seq'[n][c] = x + 1
       /\ \A p \in Nodes : \A d \in Channels(p) : p # n \/ d # c => next_seq'[p][d] = next_seq[p][d]
  BY <1>1 DEF Draw, Shape
<1>12. ASSUME NEW p \in Nodes, NEW d \in Channels(p), p # n \/ d # c
       PROVE  /\ \A k, l \in Nat : k <= l /\ l < next_seq'[p][d] => T2[p][d][k] <= T2[p][d][l]
              /\ \A k \in Nat : k < next_seq'[p][d] /\ V2[p][d] = 0 => T2[p][d][k] = 0
  <2>1. d \in Nat
    BY <1>0
  <2>2. T2[p][d] = T[p][d] /\ V2[p][d] = V[p][d] /\ next_seq'[p][d] = next_seq[p][d]
    BY <1>6, <1>11, <1>12, <2>1
  <2> QED BY <2>2 DEF Monotone
<1>13. PICK y, z : y = T[n][c] /\ z = T2[n][c]
  OBVIOUS
<1>14. y \in [Nat -> Nat]
  <2>1. T \in [Nodes -> [Nat -> [Nat -> Nat]]]
    BY DEF Table, TableOn
  <2>2. T[n] \in [Nat -> [Nat -> Nat]]
    BY <2>1
  <2>3. T[n][c] \in [Nat -> Nat]
    BY <1>0, <2>2
  <2> QED BY <1>13, <2>3
<1>15. /\ \A k, l \in Nat : k <= l /\ l < x => y[k] <= y[l]
       /\ \A k \in Nat : k < x /\ V[n][c] = 0 => y[k] = 0
  BY <1>1, <1>13 DEF Monotone
<1>16. z[x] = t /\ (\A k \in Nat : k # x => z[k] = y[k]) /\ (x # 0 => y[x - 1] <= t)
  BY <1>6, <1>7, <1>13
<1>17. \A k, l \in Nat : k <= l /\ l < x + 1 => z[k] <= z[l]
  BY <1>14, <1>15, <1>16, RowExtended
<1>18. ASSUME NEW k \in Nat, k < x + 1, v = 0 PROVE z[k] = 0
  <2>1. CASE k = x
    BY <1>16, <1>18, <2>1
  <2>2. CASE k # x
    <3>1. k < x /\ x # 0
      BY <1>18, <2>2
    <3> QED BY <1>7, <1>15, <1>16, <1>18, <2>2, <3>1
  <2> QED BY <2>1, <2>2
<1>19. /\ \A k, l \in Nat : k <= l /\ l < next_seq'[n][c] => T2[n][c][k] <= T2[n][c][l]
       /\ \A k \in Nat : k < next_seq'[n][c] /\ V2[n][c] = 0 => T2[n][c][k] = 0
  BY <1>6, <1>11, <1>13, <1>17, <1>18
<1>20. Nodes' = Nodes /\ \A p : Channels(p)' = Channels(p)
  BY SameGraph
<1>21. Monotone(T2, V2)'
  BY <1>12, <1>19, <1>20 DEF Monotone
<1> QED BY <1>1, <1>6, <1>9, <1>10, <1>21

(* A topic for which no number is drawn. *)
LEMMA OthersFollow ==
    ASSUME Shape, UNCHANGED Inputs, Grows, clock' \in Nat, clock <= clock',
           NEW T, NEW V, Table(T, V), NEW T2, NEW V2, Extends(T, V, T2, V2),
           NEW p \in Nodes, NEW d \in Channels(p), Follows(T, V, p, d),
           next_seq'[p][d] = next_seq[p][d],
           Type[p] # "Sensor" => \A i \in InputsOf(p, d) : in_seq'[p][i] = in_seq[p][i]
    PROVE  Follows(T2, V2, p, d)'
<1>1. PICK x \in Nat : x = next_seq[p][d]
  BY ChannelsFacts
<1>2. SUFFICES ASSUME x # 0
               PROVE  FollowsWith(T2, V2, p, d, V2[p][d], T2[p][d][x - 1])'
  BY <1>1 DEF Follows
<1>3. PICK y \in Nat : y = x - 1 /\ y < x
  BY <1>2
<1>4. PICK w, s : w = V[p][d] /\ s = T[p][d][y] /\ w = V2[p][d] /\ s = T2[p][d][y]
  BY <1>1, <1>2, <1>3 DEF Extends
<1>5. s \in Nat
  <2>1. d \in Nat
    BY ChannelsFacts
  <2>2. T \in [Nodes -> [Nat -> [Nat -> Nat]]]
    BY DEF Table, TableOn
  <2>3. T[p][d] \in [Nat -> Nat]
    BY <2>1, <2>2
  <2> QED BY <1>4, <2>3
<1>6. FollowsWith(T, V, p, d, w, s)
  BY <1>1, <1>2, <1>3, <1>4 DEF Follows
<1>7. clock \in Nat
  BY DEF Shape
<1>8. FollowsWith(T2, V2, p, d, w, s)'
  BY <1>5, <1>6, <1>7, FollowsStays
<1> QED BY <1>3, <1>4, <1>8

(* The messages that input i of p holds after a step were in its queue or cache before. *)
MovedFrom(p, i) ==
    /\ \A k \in DOMAIN queue'[p][i] : \E j \in DOMAIN queue[p][i] : queue'[p][i][k] = queue[p][i][j]
    /\ \/ cache'[p][i] = cache[p][i]
       \/ \E j \in DOMAIN queue[p][i] : cache'[p][i] = queue[p][i][j]

(* A callback starts with a message m whose source is no older than that of its last one. *)
LEMMA OrderBegin ==
    ASSUME NodesInv, UNCHANGED <<Inputs, clock, log>>, NEW T, NEW V, OrderTrue(T, V),
           NEW n \in Nodes, NEW c \in Channels(n), NEW m, NEW inputs, Draw(n, c), Start(n, m, inputs),
           m.node = n, m.channel = c, m.seq = next_seq[n][c], Grows,
           m.source \in Source,
           \A p \in Nodes : \A i \in DOMAIN Inputs[p] : MovedFrom(p, i),
           \A p \in Nodes : p # n => in_seq'[p] = in_seq[p],
           \A d \in Channels(n) : d # c /\ Type[n] # "Sensor" =>
               \A i \in InputsOf(n, d) : in_seq'[n][i] = in_seq[n][i],
           next_seq[n][c] # 0 =>
               V[n][c] = SourceValid(m.source) /\ T[n][c][next_seq[n][c] - 1] <= SourceTime(m.source),
           \A T2, V2 : Extends(T, V, T2, V2) =>
               FollowsWith(T2, V2, n, c, SourceValid(m.source), SourceTime(m.source))'
    PROVE  OrderInv'
<1>0. Shape /\ Table(T, V) /\ Monotone(T, V) /\ HeldTimed(T, V) /\ SinksTimed(T, V)
  BY DEF NodesInv, OrderTrue
<1>1. PICK x \in Nat : x = next_seq[n][c]
  BY <1>0, ChannelsFacts
<1>2. PICK t \in Nat : t = SourceTime(m.source)
  BY DEF SourceTime, Source
<1>3. PICK v \in {0, 1} : v = SourceValid(m.source) /\ (v = 0 => t = 0)
  BY <1>2 DEF SourceValid, SourceTime
<1>4. x # 0 => V[n][c] = v /\ T[n][c][x - 1] <= t
  BY <1>1, <1>2, <1>3
<1>5. PICK T2, V2 : /\ Extends(T, V, T2, V2) /\ Table(T2, V2)' /\ Monotone(T2, V2)'
                    /\ T2[n][c][x] = t /\ V2[n][c] = v
  BY <1>0, <1>1, <1>3, <1>4, DrawTable
<1>6. /\ next_seq'[n][c] = x + 1
      /\ \A d \in Channels(n) : d # c => next_seq'[n][d] = next_seq[n][d]
      /\ \A p \in Nodes : p # n => next_seq'[p] = next_seq[p]
      /\ \A p \in Nodes : p # n => pc'[p] = pc[p] /\ work'[p] = work[p]
      /\ work'[n].msg = m
  BY <1>0, <1>1 DEF Draw, Start, Shape
<1>7. Nodes' = Nodes /\ \A p : Channels(p)' = Channels(p)
  BY SameGraph
<1>8. Timed(T2, V2, m)
  BY <1>1, <1>2, <1>3, <1>5 DEF Timed
<1>9. HeldTimed(T2, V2)'
  <2>1. ASSUME NEW p \in Nodes
        PROVE  /\ \A i \in DOMAIN Inputs[p] :
                     /\ \A k \in DOMAIN queue[p][i] : Timed(T2, V2, queue[p][i][k])
                     /\ cache[p][i] # None => Timed(T2, V2, cache[p][i])
               /\ pc[p] # "idle" => Timed(T2, V2, work[p].msg)
    BY <1>0, <1>5, HeldDrawn, TimedStays DEF HeldTimed
  <2>2. ASSUME NEW p \in Nodes, NEW i \in DOMAIN Inputs[p]
        PROVE  /\ \A k \in DOMAIN queue'[p][i] : Timed(T2, V2, queue'[p][i][k])
               /\ cache'[p][i] # None => Timed(T2, V2, cache'[p][i])
    BY <2>1 DEF MovedFrom
  <2>3. ASSUME NEW p \in Nodes, pc'[p] # "idle" PROVE Timed(T2, V2, work'[p].msg)
    BY <1>6, <1>8, <2>1, <2>3
  <2>4. ASSUME NEW w PROVE Timed(T2, V2, w)' <=> Timed(T2, V2, w)
    BY DEF Timed
  <2> QED BY <1>7, <2>2, <2>3 DEF HeldTimed, Timed
<1>10. SinksTimed(T2, V2)'
  <2>1. ASSUME NEW r \in log, r.event = "sink"
        PROVE  Type[r.node] = "Command" /\ r.source.t = T2[r.node][r.channel][r.seq]
    <3>1. Drawn(r)
      BY DEF NodesInv, Recorded, RecordTrue
    <3>2. /\ r.node \in Nodes /\ r.channel \in Channels(r.node) /\ r.seq \in Nat
          /\ r.seq < next_seq[r.node][r.channel] /\ next_seq[r.node][r.channel] # 0
      BY <1>0, <3>1, ChannelsFacts DEF Drawn
    <3> QED BY <1>0, <1>5, <2>1, <3>2 DEF Extends, SinksTimed
  <2> QED BY <2>1 DEF SinksTimed
<1>11. ASSUME NEW p \in Nodes, NEW d \in Channels(p) PROVE Follows(T2, V2, p, d)'
  <2>1. CASE p = n /\ d = c
    <3>1. next_seq'[p][d] - 1 = x
      BY <1>6, <2>1
    <3>2. FollowsWith(T2, V2, n, c, v, t)'
      BY <1>2, <1>3, <1>5
    <3> QED BY <1>5, <2>1, <3>1, <3>2 DEF Follows
  <2>2. CASE ~(p = n /\ d = c)
    <3>1. next_seq'[p][d] = next_seq[p][d]
      BY <1>6, <2>2
    <3>2. Type[p] # "Sensor" => \A i \in InputsOf(p, d) : in_seq'[p][i] = in_seq[p][i]
      BY <2>2
    <3>3. Follows(T, V, p, d)
      BY DEF OrderTrue
    <3>4. clock' \in Nat /\ clock <= clock'
      BY <1>0 DEF Shape
    <3> QED BY <1>0, <1>5, <3>1, <3>2, <3>3, <3>4, OthersFollow
  <2> QED BY <2>1, <2>2
<1>12. OrderTrue(T2, V2)'
  BY <1>5, <1>7, <1>9, <1>10, <1>11 DEF OrderTrue
<1> QED BY <1>12 DEF OrderInv

(* What the oldest of several sources shows. *)
LEMMA OldestTimes ==
    ASSUME NEW D, NEW f \in [D -> Source], NEW s \in Source,
           provenance_source_json(s) \in oldest_provenance_source(f)
    PROVE  /\ SourceTime(s) \in Nat /\ SourceValid(s) \in {0, 1}
           /\ SourceValid(s) = 0 => SourceTime(s) = 0
           /\ \A i \in D : SourceValid(f[i]) = 1 =>
                 SourceValid(s) = 1 /\ SourceTime(s) <= SourceTime(f[i])
           /\ SourceValid(s) = 1 =>
                 \E i \in D : SourceValid(f[i]) = 1 /\ SourceTime(s) = SourceTime(f[i])
<1>1. PICK r : r = provenance_source_json(s)
  OBVIOUS
<1>2. /\ (\A k \in D : f[k].kind = 0) => r = NoSource
      /\ (\E k \in D : f[k].kind # 0) =>
            /\ \E k \in D : f[k].kind # 0 /\ r = f[k]
            /\ \A k \in D : f[k].kind # 0 => r.t <= f[k].t
  BY <1>1, OldestFacts
<1>3. r.kind = s.kind /\ (s.kind # 0 => r = s) /\ (s.kind = 0 => r = NoSource)
  BY <1>1, ShownFacts
<1>4. SourceTime(s) \in Nat /\ SourceValid(s) \in {0, 1} /\ (SourceValid(s) = 0 => SourceTime(s) = 0)
  BY DEF Source, SourceTime, SourceValid
<1>5. ASSUME NEW i \in D, f[i].kind # 0 PROVE s.kind # 0 /\ s.t <= f[i].t
  BY <1>2, <1>3, <1>5
<1>6. ASSUME s.kind # 0 PROVE \E i \in D : f[i].kind # 0 /\ s = f[i]
  <2>1. r = s /\ NoSource.kind = 0
    BY <1>3, <1>6 DEF NoSource
  <2> QED BY <1>2, <1>6, <2>1
<1>7. ASSUME NEW i \in D, SourceValid(f[i]) = 1
      PROVE  SourceValid(s) = 1 /\ SourceTime(s) <= SourceTime(f[i])
  BY <1>5, <1>7 DEF SourceValid, SourceTime
<1>8. ASSUME SourceValid(s) = 1
      PROVE  \E i \in D : SourceValid(f[i]) = 1 /\ SourceTime(s) = SourceTime(f[i])
  <2>1. s.kind # 0
    BY <1>8 DEF SourceValid
  <2>2. PICK i \in D : f[i].kind # 0 /\ s = f[i]
    BY <1>6, <2>1
  <2>3. SourceValid(f[i]) = 1 /\ SourceTime(s) = SourceTime(f[i])
    BY <2>2 DEF SourceValid
  <2> QED BY <2>3
<1> QED BY <1>4, <1>7, <1>8

(* The source s is the oldest of those of the messages ms, which a callback of n uses now. *)
MadeOf(T, V, n, c, ms, s) ==
    /\ s \in Source
    /\ \A i \in InputsOf(n, c) :
          /\ Timed(T, V, ms[i]) /\ Drawn(ms[i]) /\ <<ms[i].node, ms[i].channel>> = Inputs[n][i]
          /\ in_seq[n][i] \in Nat /\ in_seq[n][i] <= ms[i].seq /\ in_seq'[n][i] = ms[i].seq
    /\ \E f \in [InputsOf(n, c) -> Source] :
          /\ \A i \in InputsOf(n, c) : f[i] = ms[i].source
          /\ provenance_source_json(s) \in oldest_provenance_source(f)

(* An output made of the messages ms, none older than the ones its node used before, has
   the validity of its topic, and is no older than the output before it. *)
LEMMA MadeInOrder ==
    ASSUME Shape, UNCHANGED Inputs, NEW T, NEW V, OrderTrue(T, V), Grows,
           NEW n \in Nodes, Type[n] # "Sensor", NEW c \in Channels(n), NEW ms, NEW s,
           MadeOf(T, V, n, c, ms, s)
    PROVE  /\ next_seq[n][c] # 0 =>
                 V[n][c] = SourceValid(s) /\ T[n][c][next_seq[n][c] - 1] <= SourceTime(s)
           /\ \A T2, V2 : Extends(T, V, T2, V2) =>
                 FollowsWith(T2, V2, n, c, SourceValid(s), SourceTime(s))'
<1>0. PICK D : D = InputsOf(n, c)
  OBVIOUS
<1>1. /\ s \in Source
      /\ \A i \in D :
            /\ Timed(T, V, ms[i]) /\ Drawn(ms[i]) /\ <<ms[i].node, ms[i].channel>> = Inputs[n][i]
            /\ in_seq[n][i] \in Nat /\ in_seq[n][i] <= ms[i].seq /\ in_seq'[n][i] = ms[i].seq
  BY <1>0 DEF MadeOf
<1>2. PICK f \in [D -> Source] : /\ \A i \in D : f[i] = ms[i].source
                                /\ provenance_source_json(s) \in oldest_provenance_source(f)
  BY <1>0 DEF MadeOf
<1>3. PICK v, t : v = SourceValid(s) /\ t = SourceTime(s)
  OBVIOUS
<1>4. /\ t \in Nat /\ v \in {0, 1} /\ (v = 0 => t = 0)
      /\ \A i \in D : SourceValid(f[i]) = 1 => v = 1 /\ t <= SourceTime(f[i])
      /\ v = 1 => \E i \in D : SourceValid(f[i]) = 1 /\ t = SourceTime(f[i])
  BY <1>3, <1>1, <1>2, OldestTimes
<1>5. /\ Table(T, V) /\ Monotone(T, V) /\ Follows(T, V, n, c)
  BY DEF OrderTrue
<1>6. T \in [Nodes -> [Nat -> [Nat -> Nat]]] /\ V \in [Nodes -> [Nat -> {0, 1}]]
  BY <1>5 DEF Table, TableOn
<1>7. D \subseteq DOMAIN Inputs[n] /\ c \in Nat
  BY <1>0, ChannelsFacts
<1>8. ASSUME NEW i \in D
      PROVE  /\ Inputs[n][i][1] \in Nodes /\ Inputs[n][i][2] \in Channels(Inputs[n][i][1])
             /\ ms[i].node = Inputs[n][i][1] /\ ms[i].channel = Inputs[n][i][2]
             /\ ms[i].seq \in Nat /\ ms[i].seq < next_seq[Inputs[n][i][1]][Inputs[n][i][2]]
             /\ V[Inputs[n][i][1]][Inputs[n][i][2]] = SourceValid(f[i])
             /\ T[Inputs[n][i][1]][Inputs[n][i][2]][ms[i].seq] = SourceTime(f[i])
  <2>1. /\ Inputs[n][i][1] \in Nodes /\ Inputs[n][i][2] \in Channels(Inputs[n][i][1])
        /\ Inputs[n][i] = <<Inputs[n][i][1], Inputs[n][i][2]>>
    BY <1>7, <1>8, TopicFacts
  <2>2. ms[i].node = Inputs[n][i][1] /\ ms[i].channel = Inputs[n][i][2]
    BY <1>8, <1>1, <2>1
  <2>3. ms[i].seq \in Nat /\ ms[i].seq < next_seq[Inputs[n][i][1]][Inputs[n][i][2]]
    BY <1>8, <1>1, <2>2 DEF Drawn
  <2> QED BY <1>8, <1>1, <1>2, <2>1, <2>2, <2>3 DEF Timed
<1>9. v = 1 <=> \E i \in D : V[Inputs[n][i][1]][Inputs[n][i][2]] = 1
  BY <1>4, <1>8
<1>10. ASSUME next_seq[n][c] # 0
       PROVE  V[n][c] = v /\ T[n][c][next_seq[n][c] - 1] <= t
  <2>1. PICK y \in Nat : y + 1 = next_seq[n][c] /\ y = next_seq[n][c] - 1
    <3>1. PICK x \in Nat : x = next_seq[n][c]
      BY ChannelsFacts
    <3>2. x # 0
      BY <1>10, <3>1
    <3>3. x - 1 \in Nat /\ (x - 1) + 1 = x
      BY <3>2
    <3> QED BY <3>1, <3>3
  <2>2. PICK w, b : w = V[n][c] /\ b = T[n][c][y]
    OBVIOUS
  <2>3. w \in {0, 1}
    BY <1>6, <1>7, <2>2
  <2>4. b \in Nat
    <3>1. T[n] \in [Nat -> [Nat -> Nat]]
      BY <1>6
    <3>2. T[n][c] \in [Nat -> Nat]
      BY <1>7, <3>1
    <3> QED BY <2>2, <3>2
  <2>5. FollowsWith(T, V, n, c, w, b)
    BY <1>5, <1>10, <2>1, <2>2 DEF Follows
  <2>6. ASSUME NEW i \in D, V[Inputs[n][i][1]][Inputs[n][i][2]] = 1
        PROVE  w = 1 /\ b <= T[Inputs[n][i][1]][Inputs[n][i][2]][in_seq[n][i]]
    BY <1>0, <2>5, <2>6 DEF FollowsWith, Behind
  <2>7. w = 1 => \E i \in D : V[Inputs[n][i][1]][Inputs[n][i][2]] = 1
    BY <1>0, <2>5 DEF FollowsWith
  <2>8. w = v
    BY <1>4, <1>9, <2>3, <2>6, <2>7
  <2>9. CASE v = 0
    <3>1. y < y + 1
      OBVIOUS
    <3>2. y < next_seq[n][c] /\ V[n][c] = 0
      BY <2>1, <2>2, <2>8, <2>9, <3>1
    <3>3. b = 0
      BY <1>5, <2>2, <3>2 DEF Monotone
    <3> QED BY <1>4, <2>1, <2>2, <2>8, <3>3
  <2>10. CASE v = 1
    <3>1. PICK i \in D : SourceValid(f[i]) = 1 /\ t = SourceTime(f[i])
      BY <1>4, <2>10
    <3>2. PICK p, d : p \in Nodes /\ d \in Channels(p) /\ p = Inputs[n][i][1] /\ d = Inputs[n][i][2]
      BY <1>8
    <3>3. V[p][d] = 1 /\ t = T[p][d][ms[i].seq] /\ b <= T[p][d][in_seq[n][i]]
      BY <1>8, <2>6, <3>1, <3>2
    <3>4. PICK a \in Nat, k \in Nat : a = in_seq[n][i] /\ k = ms[i].seq /\ a <= k /\ k < next_seq[p][d]
      BY <1>8, <1>1, <3>1, <3>2
    <3>5. T[p][d][a] <= T[p][d][k]
      BY <1>5, <3>2, <3>4 DEF Monotone
    <3>6. PICK g \in Nat : g = T[p][d][a]
      <4>1. d \in Nat
        BY <3>2, ChannelsFacts
      <4>2. T[p] \in [Nat -> [Nat -> Nat]]
        BY <1>6, <3>2
      <4>3. T[p][d] \in [Nat -> Nat]
        BY <4>1, <4>2
      <4> QED BY <4>3
    <3>7. b <= g /\ g <= t
      BY <3>3, <3>4, <3>5, <3>6
    <3>8. b <= t
      BY <1>4, <2>4, <3>7
    <3> QED BY <2>1, <2>2, <2>8, <3>8
  <2> QED BY <1>4, <2>9, <2>10
<1>11. ASSUME NEW T2, NEW V2, Extends(T, V, T2, V2)
       PROVE  FollowsWith(T2, V2, n, c, v, t)'
  <2>1. ASSUME NEW i \in D
        PROVE  /\ Behind(T2, V2, v, t, Inputs[n][i][1], Inputs[n][i][2], in_seq[n][i])'
               /\ V2[Inputs[n][i][1]][Inputs[n][i][2]] = V[Inputs[n][i][1]][Inputs[n][i][2]]
    <3>1. PICK p, d : p \in Nodes /\ d \in Channels(p) /\ p = Inputs[n][i][1] /\ d = Inputs[n][i][2]
      BY <1>8
    <3>2. PICK k \in Nat : k = ms[i].seq /\ k < next_seq[p][d]
      BY <1>8, <3>1
    <3>3. next_seq[p][d] \in Nat /\ next_seq'[p][d] \in Nat /\ next_seq[p][d] <= next_seq'[p][d]
      BY <3>1, ChannelsFacts DEF Grows
    <3>4. next_seq[p][d] # 0 /\ k < next_seq'[p][d]
      BY <3>2, <3>3
    <3>5. V2[p][d] = V[p][d] /\ T2[p][d][k] = T[p][d][k]
      BY <1>11, <3>1, <3>2, <3>4 DEF Extends
    <3>6. V[p][d] = SourceValid(f[i]) /\ T[p][d][k] = SourceTime(f[i])
      BY <1>8, <3>1, <3>2
    <3>7. V2[p][d] = 1 => v = 1 /\ t <= T2[p][d][k]
      BY <1>4, <3>5, <3>6
    <3>8. Behind(T2, V2, v, t, p, d, k)'
      BY <3>2, <3>4, <3>7 DEF Behind
    <3>9. k = in_seq'[n][i] /\ p = Inputs'[n][i][1] /\ d = Inputs'[n][i][2]
      BY <1>1, <2>1, <3>1, <3>2
    <3> QED BY <3>1, <3>5, <3>8, <3>9
  <2>2. InputsOf(n, c)' = D
    BY <1>0 DEF InputsOf
  <2>3. v = 1 => \E i \in D : V2[Inputs[n][i][1]][Inputs[n][i][2]] = 1
    BY <1>9, <2>1
  <2> QED BY <2>1, <2>2, <2>3 DEF FollowsWith
<1> QED BY <1>3, <1>10, <1>11

LEMMA DrawGrows ==
    ASSUME Shape, NEW n \in Nodes, NEW c \in Channels(n), Draw(n, c)
    PROVE  Grows
<1>1. SUFFICES ASSUME NEW p \in Nodes, NEW d \in Channels(p)
               PROVE  next_seq'[p][d] \in Nat /\ next_seq[p][d] <= next_seq'[p][d]
  BY DEF Grows
<1>2. next_seq[p][d] \in Nat
  BY ChannelsFacts
<1>3. next_seq'[p][d] = next_seq[p][d] \/ next_seq'[p][d] = next_seq[p][d] + 1
  BY DEF Draw, Shape
<1> QED BY <1>2, <1>3

(* Taking a message is such a move. *)
LEMMA TakeMoves ==
    ASSUME Shape, NEW n \in Nodes, NEW i \in DOMAIN Inputs[n], Take(n, i),
           Cache(n, i) \/ UNCHANGED cache,
           NEW p \in Nodes, NEW j \in DOMAIN Inputs[p]
    PROVE  MovedFrom(p, j)
<1>1. /\ queue[n][i] # <<>> /\ queue' = [queue EXCEPT ![n][i] = Tail(@)]
      /\ DOMAIN queue = Nodes /\ DOMAIN cache = Nodes
      /\ DOMAIN queue[n] = DOMAIN Inputs[n] /\ DOMAIN cache[n] = DOMAIN Inputs[n]
      /\ IsSequence(queue[n][i])
  BY DEF Take, Shape
<1>2. /\ 1 \in DOMAIN queue[n][i] /\ Head(queue[n][i]) = queue[n][i][1]
      /\ \A k \in DOMAIN Tail(queue[n][i]) :
            k + 1 \in DOMAIN queue[n][i] /\ Tail(queue[n][i])[k] = queue[n][i][k + 1]
  BY <1>1, TakeFacts
<1>3. CASE p = n /\ j = i
  <2>1. queue'[p][j] = Tail(queue[p][j])
    BY <1>1, <1>3
  <2>2. cache'[p][j] = cache[p][j] \/ cache'[p][j] = queue[p][j][1]
    BY <1>1, <1>2, <1>3 DEF Cache
  <2> QED BY <1>2, <1>3, <2>1, <2>2 DEF MovedFrom
<1>4. CASE p # n \/ j # i
  <2>1. queue'[p][j] = queue[p][j]
    BY <1>1, <1>4
  <2>2. cache'[p][j] = cache[p][j]
    BY <1>1, <1>4 DEF Cache
  <2> QED BY <2>1, <2>2 DEF MovedFrom
<1> QED BY <1>3, <1>4

(* A callback makes its output of the one message that it takes. *)
LEMMA TakenOrder ==
    ASSUME NodesInv, FlowInv, UNCHANGED <<Inputs, clock, log>>, NEW T, NEW V, OrderTrue(T, V),
           NEW n \in Nodes, NEW i \in DOMAIN Inputs[n], NEW c \in Channels(n),
           Type[n] # "Sensor", InputsOf(n, c) = {i},
           \A d \in Channels(n) : d # c => i \notin InputsOf(n, d),
           Take(n, i), UNCHANGED cache, NEW ms, DOMAIN ms = {i}, ms[i] = Head(queue[n][i]),
           Account(n, ms), NEW m, NEW inputs, Draw(n, c), Start(n, m, inputs),
           m.node = n, m.channel = c, m.seq = next_seq[n][c], m.source = ms[i].source
    PROVE  OrderInv'
<1>0. Shape /\ FlowShape /\ RowTrue(n) /\ HeldTimed(T, V) /\ Grows
  BY DrawGrows DEF NodesInv, FlowInv, OrderTrue
<1>1. queue[n][i] # <<>> /\ IsSequence(queue[n][i])
  BY <1>0 DEF Take, Shape
<1>2. 1 \in DOMAIN queue[n][i] /\ ms[i] = queue[n][i][1]
  BY <1>1, TakeFacts
<1>3. Timed(T, V, ms[i]) /\ Drawn(ms[i])
  BY <1>0, <1>2, HeldDrawn DEF HeldTimed
<1>4. /\ MessageTrue(ms[i], Inputs[n][i]) /\ in_seq[n][i] <= ms[i].seq
  <2>1. PICK q, ca, a, u, d : /\ q = queue[n][i] /\ ca = cache[n][i] /\ a = in_seq[n][i]
                              /\ u = used[n][i] /\ d = counted[n][i]
    OBVIOUS
  <2>2. InputTrue(n, i, q, ca, a, u, d) /\ q # <<>>
    BY <1>0, <1>1, <2>1 DEF RowTrue
  <2>3. MessageTrue(Head(q), Inputs[n][i]) /\ a <= Head(q).seq
    BY <2>2, InputTake
  <2> QED BY <2>1, <2>3
<1>5. ms[i].source \in Source /\ <<ms[i].node, ms[i].channel>> = Inputs[n][i] /\ in_seq[n][i] \in Nat
  BY <1>0, <1>4 DEF MessageTrue, FlowShape
<1>6. /\ in_seq'[n][i] = ms[i].seq
      /\ \A p \in Nodes : p # n => in_seq'[p] = in_seq[p]
      /\ \A j \in DOMAIN Inputs[n] : j # i => in_seq'[n][j] = in_seq[n][j]
  BY <1>0, <1>4, Accounted
<1>7. PICK s \in Source : s = ms[i].source
  BY <1>5
<1>8. PICK f : f = [j \in {i} |-> s]
  OBVIOUS
<1>9. f \in [{i} -> Source] /\ f[i] = s
  BY <1>8
<1>10. provenance_source_json(s) \in oldest_provenance_source(f)
  <2>1. CASE s.kind = 0
    BY <1>9, <2>1 DEF oldest_provenance_source, provenance_source_json
  <2>2. CASE s.kind # 0
    <3>1. s.t \in Nat /\ DOMAIN f = {i}
      BY <1>8 DEF Source
    <3>2. \A j \in {i} : j \in {i} /\ f[j] = s
      BY <1>9
    <3>3. i <= i
      <4>1. Inputs[n] \in Seq(AllNodes \X Nat)
        BY <1>0, NodesAssumption DEF Shape, Nodes
      <4>2. i \in Nat
        BY <4>1
      <4> QED BY <4>2
    <3> QED BY <1>9, <2>2, <3>1, <3>2, <3>3 DEF oldest_provenance_source, provenance_source_json
  <2> QED BY <2>1, <2>2
<1>11. /\ next_seq[n][c] # 0 =>
             V[n][c] = SourceValid(s) /\ T[n][c][next_seq[n][c] - 1] <= SourceTime(s)
       /\ \A T2, V2 : Extends(T, V, T2, V2) =>
             FollowsWith(T2, V2, n, c, SourceValid(s), SourceTime(s))'
  <2>1. \A j \in InputsOf(n, c) :
           /\ Timed(T, V, ms[j]) /\ Drawn(ms[j]) /\ <<ms[j].node, ms[j].channel>> = Inputs[n][j]
           /\ in_seq[n][j] \in Nat /\ in_seq[n][j] <= ms[j].seq /\ in_seq'[n][j] = ms[j].seq
    BY <1>3, <1>4, <1>5, <1>6
  <2>2. f \in [InputsOf(n, c) -> Source] /\ \A j \in InputsOf(n, c) : f[j] = ms[j].source
    BY <1>7, <1>9
  <2>3. MadeOf(T, V, n, c, ms, s)
    BY <1>10, <2>1, <2>2 DEF MadeOf
  <2>4. UNCHANGED Inputs
    OBVIOUS
  <2> QED BY <1>0, <2>3, <2>4, MadeInOrder
<1>12. \A p \in Nodes : \A j \in DOMAIN Inputs[p] : MovedFrom(p, j)
  BY <1>0, TakeMoves
<1>13. \A d \in Channels(n) : d # c /\ Type[n] # "Sensor" =>
           \A j \in InputsOf(n, d) : in_seq'[n][j] = in_seq[n][j]
  BY <1>0, <1>6, ChannelsFacts
<1>14. m.source = s
  BY <1>7
<1> QED BY <1>0, <1>6, <1>11, <1>12, <1>13, <1>14, OrderBegin

LEMMA SensorOrder ==
    ASSUME NodesInv, FlowInv, UNCHANGED Inputs, NEW T, NEW V, OrderTrue(T, V),
           NEW n \in Nodes, SensorTimer(n)
    PROVE  OrderInv'
<1>0. Shape /\ Table(T, V) /\ Monotone(T, V) /\ Follows(T, V, n, 0)
  <2>1. Type[n] = "Sensor"
    BY DEF SensorTimer
  <2>2. 0 \in Channels(n)
    BY <2>1 DEF Channels, ChannelsIn
  <2> QED BY <2>2 DEF NodesInv, OrderTrue
<1>1. /\ Type[n] = "Sensor" /\ Draw(n, 0) /\ UNCHANGED <<clock, queue, cache, in_seq, log>>
  BY DEF SensorTimer
<1>2. Channels(n) = {0}
  BY <1>1 DEF Channels, ChannelsIn
<1>3. PICK s : s = [kind |-> SourceKind[n], seq |-> next_seq[n][0], t |-> clock]
  OBVIOUS
<1>4. clock \in Nat /\ next_seq[n][0] \in Nat /\ SourceKind[n] \in Nat
  BY <1>0, <1>2, NodesAssumption DEF Shape, Nodes
<1>5. s \in Source /\ s.kind = SourceKind[n] /\ s.t = clock
  BY <1>3, <1>4 DEF Source
<1>6. PICK m : m = Message(n, 0, Stamped(<<>>, Entry(n, 0, 0)), s)
  OBVIOUS
<1>7. m.node = n /\ m.channel = 0 /\ m.seq = next_seq[n][0] /\ m.source = s
  BY <1>6 DEF Message
<1>8. Start(n, m, <<>>) /\ Grows /\ UNCHANGED <<Inputs, clock, log>>
  BY <1>0, <1>1, <1>2, <1>3, <1>6, DrawGrows DEF SensorTimer
<1>9. PICK v, t : v = SourceValid(s) /\ t = SourceTime(s)
  OBVIOUS
<1>10. /\ v = (IF SourceKind[n] = 0 THEN 0 ELSE 1) /\ t = (IF SourceKind[n] = 0 THEN 0 ELSE clock)
       /\ t <= clock
  BY <1>4, <1>5, <1>9 DEF SourceValid, SourceTime
<1>11. ASSUME next_seq[n][0] # 0
       PROVE  V[n][0] = v /\ T[n][0][next_seq[n][0] - 1] <= t
  <2>1. PICK y \in Nat : y = next_seq[n][0] - 1 /\ y < next_seq[n][0]
    <3>1. next_seq[n][0] - 1 \in Nat /\ next_seq[n][0] - 1 < next_seq[n][0]
      BY <1>4, <1>11
    <3> QED BY <3>1
  <2>2. PICK w, b : w = V[n][0] /\ b = T[n][0][y]
    OBVIOUS
  <2>3. FollowsWith(T, V, n, 0, w, b)
    BY <1>0, <1>11, <2>1, <2>2 DEF Follows
  <2>4. w = v /\ b <= clock
    BY <1>1, <1>10, <2>3 DEF FollowsWith
  <2>5. w = 0 => b = 0
    BY <1>0, <1>2, <2>1, <2>2 DEF Monotone
  <2>6. CASE SourceKind[n] = 0
    <3>1. w = 0 /\ t = 0 /\ b = 0
      BY <1>10, <2>4, <2>5, <2>6
    <3>2. 0 <= 0
      OBVIOUS
    <3> QED BY <2>1, <2>2, <2>4, <3>1, <3>2
  <2>7. CASE SourceKind[n] # 0
    <3>1. t = clock
      BY <1>10, <2>7
    <3> QED BY <2>1, <2>2, <2>4, <3>1
  <2> QED BY <2>6, <2>7
<1>12. ASSUME NEW T2, NEW V2 PROVE FollowsWith(T2, V2, n, 0, v, t)'
  BY <1>1, <1>10 DEF FollowsWith
<1>13. \A p \in Nodes : \A j \in DOMAIN Inputs[p] : MovedFrom(p, j)
  BY <1>1 DEF MovedFrom
<1>14. m.source \in Source /\ SourceValid(m.source) = v /\ SourceTime(m.source) = t
  BY <1>5, <1>7, <1>9
<1>15. 0 \in Channels(n) /\ \A d \in Channels(n) : d = 0
  BY <1>2
<1>16. \A p \in Nodes : p # n => in_seq'[p] = in_seq[p]
  BY <1>1
<1> QED BY <1>1, <1>7, <1>8, <1>11, <1>12, <1>13, <1>14, <1>15, <1>16, OrderBegin

LEMMA RelayOrder ==
    ASSUME NodesInv, FlowInv, UNCHANGED Inputs, NEW T, NEW V, OrderTrue(T, V),
           NEW n \in Nodes, NEW i \in DOMAIN Inputs[n], Relay(n, i)
    PROVE  OrderInv'
<1>0. Shape
  BY DEF NodesInv
<1>1. /\ Type[n] \in {"Transform", "Intersection"} /\ Take(n, i)
      /\ UNCHANGED <<clock, cache, log>>
  BY DEF Relay
<1>2. PICK m, ms : m = Head(queue[n][i]) /\ ms = [k \in {i} |-> m]
  OBVIOUS
<1>3. DOMAIN ms = {i} /\ ms[i] = m
  BY <1>2
<1>4. PICK c : c = ChannelOf(n, i)
  OBVIOUS
<1>5. PICK o : o = Message(n, c, Stamped(merge_history_into_sample(<<>>, m.history),
                                         Entry(n, c, Missed(n, i, m))), m.source)
  OBVIOUS
<1>6. Account(n, ms) /\ Draw(n, c) /\ Start(n, o, <<IdentityOf(m)>>)
  BY <1>2, <1>4, <1>5 DEF Relay
<1>7. o.node = n /\ o.channel = c /\ o.seq = next_seq[n][c] /\ o.source = m.source
  BY <1>5 DEF Message
<1>8. Inputs[n] \in Seq(AllNodes \X Nat) /\ (Type[n] = "Transform" => Len(Inputs[n]) = 1)
  BY <1>0, NodesAssumption DEF Shape, Nodes
<1>9. i \in 1 .. Len(Inputs[n]) /\ Len(Inputs[n]) \in Nat /\ DOMAIN Inputs[n] = 1 .. Len(Inputs[n])
  BY <1>8
<1>10. c \in Channels(n) /\ InputsOf(n, c) = {i} /\ \A d \in Channels(n) : d # c => i \notin InputsOf(n, d)
  <2>1. CASE Type[n] = "Intersection"
    <3>1. Channels(n) = 0 .. Len(Inputs[n]) - 1 /\ c = i - 1 /\ \A d : InputsOf(n, d) = {d + 1}
      BY <1>4, <2>1 DEF Channels, ChannelsIn, InputsOf, ChannelOf
    <3>2. c \in 0 .. Len(Inputs[n]) - 1 /\ c + 1 = i
      BY <1>9, <3>1
    <3>3. \A d \in 0 .. Len(Inputs[n]) - 1 : d # c => d + 1 # i
      BY <1>9, <3>1
    <3> QED BY <3>1, <3>2, <3>3
  <2>2. CASE Type[n] = "Transform"
    <3>1. Channels(n) = {0} /\ c = 0 /\ InputsOf(n, c) = DOMAIN Inputs[n]
      BY <1>4, <2>2 DEF Channels, ChannelsIn, InputsOf, ChannelOf
    <3>2. Len(Inputs[n]) = 1
      BY <1>8, <2>2
    <3>3. DOMAIN Inputs[n] = 1 .. 1 /\ i \in 1 .. 1
      BY <1>9, <3>2
    <3>4. 1 .. 1 = {1}
      OBVIOUS
    <3>5. DOMAIN Inputs[n] = {i}
      BY <3>3, <3>4
    <3> QED BY <3>1, <3>5
  <2> QED BY <1>1, <2>1, <2>2
<1>11. UNCHANGED <<Inputs, clock, log>> /\ Type[n] # "Sensor"
  BY <1>1
<1> QED BY <1>1, <1>2, <1>3, <1>6, <1>7, <1>10, <1>11, TakenOrder

LEMMA CommandOrder ==
    ASSUME NodesInv, FlowInv, UNCHANGED Inputs, NEW T, NEW V, OrderTrue(T, V),
           NEW n \in Nodes, CommandInput(n)
    PROVE  OrderInv'
<1>0. Shape
  BY DEF NodesInv
<1>1. Type[n] = "Command" /\ Take(n, 1) /\ UNCHANGED <<clock, cache, log>>
  BY DEF CommandInput
<1>2. PICK m, ms : m = Head(queue[n][1]) /\ ms = <<m>>
  OBVIOUS
<1>3. DOMAIN ms = {1} /\ ms[1] = m
  BY <1>2
<1>4. PICK o : o = Message(n, 0, <<>>, m.source)
  OBVIOUS
<1>5. Account(n, ms) /\ Draw(n, 0) /\ Start(n, o, <<IdentityOf(m)>>)
  BY <1>2, <1>4 DEF CommandInput
<1>6. o.node = n /\ o.channel = 0 /\ o.seq = next_seq[n][0] /\ o.source = m.source
  BY <1>4 DEF Message
<1>7. Inputs[n] \in Seq(AllNodes \X Nat) /\ Len(Inputs[n]) = 1
  BY <1>0, <1>1, NodesAssumption DEF Shape, Nodes
<1>8. DOMAIN Inputs[n] = {1}
  BY <1>7
<1>9. Channels(n) = {0} /\ InputsOf(n, 0) = {1}
  BY <1>1, <1>8 DEF Channels, ChannelsIn, InputsOf
<1>10. UNCHANGED <<Inputs, clock, log>> /\ Type[n] # "Sensor" /\ 1 \in DOMAIN Inputs[n]
       /\ 0 \in Channels(n) /\ \A d \in Channels(n) : d = 0
  BY <1>1, <1>8, <1>9
<1> QED BY <1>1, <1>2, <1>3, <1>5, <1>6, <1>9, <1>10, TakenOrder

LEMMA FusionOrder ==
    ASSUME NodesInv, FlowInv, UNCHANGED Inputs, NEW T, NEW V, OrderTrue(T, V),
           NEW n \in Nodes, FusionTrigger(n)
    PROVE  OrderInv'
<1>0. Shape /\ FlowShape /\ RowTrue(n) /\ HeldTimed(T, V)
  BY DEF NodesInv, FlowInv, OrderTrue
<1>1. /\ Type[n] = "Fusion" /\ Take(n, 1) /\ Cache(n, 1) /\ cache[n][2] # None
      /\ UNCHANGED <<clock, log>>
  BY DEF FusionTrigger
<1>2. DOMAIN Inputs[n] = {1, 2} /\ Channels(n) = {0} /\ InputsOf(n, 0) = {1, 2}
  <2>1. Inputs[n] \in Seq(AllNodes \X Nat) /\ Len(Inputs[n]) = 2
    BY <1>0, <1>1, NodesAssumption DEF Shape, Nodes
  <2>2. DOMAIN Inputs[n] = {1, 2}
    BY <2>1
  <2> QED BY <1>1, <2>2 DEF Channels, ChannelsIn, InputsOf
<1>3. PICK m1, m2 : m1 = Head(queue[n][1]) /\ m2 = cache[n][2]
  OBVIOUS
<1>4. PICK ms : ms = <<m1, m2>>
  OBVIOUS
<1>5. DOMAIN ms = {1, 2} /\ ms[1] = m1 /\ ms[2] = m2
  BY <1>4
<1>6. PICK missed : missed = Missed(n, 1, m1) + Missed(n, 2, m2)
  OBVIOUS
<1>7. PICK h : h = merge_history_into_sample(merge_history_into_sample(<<>>, m1.history), m2.history)
  OBVIOUS
<1>8. /\ Account(n, ms) /\ Draw(n, 0)
      /\ \E source \in oldest_provenance_source(<<m1.source, m2.source>>) :
            Start(n, Message(n, 0, Stamped(h, Entry(n, 0, missed)), source), <<>>)
  BY <1>3, <1>4, <1>5, <1>6, <1>7 DEF FusionTrigger
<1>9. PICK s \in oldest_provenance_source(<<m1.source, m2.source>>) :
            Start(n, Message(n, 0, Stamped(h, Entry(n, 0, missed)), s), <<>>)
  BY <1>8
<1>10. PICK o : o = Message(n, 0, Stamped(h, Entry(n, 0, missed)), s)
  OBVIOUS
<1>11. o.node = n /\ o.channel = 0 /\ o.seq = next_seq[n][0] /\ o.source = s
  BY <1>10 DEF Message
<1>12. /\ queue[n][1] # <<>> /\ IsSequence(queue[n][1])
       /\ 1 \in DOMAIN Inputs[n] /\ 2 \in DOMAIN Inputs[n]
  BY <1>0, <1>1, <1>2 DEF Take, Shape
<1>13. 1 \in DOMAIN queue[n][1] /\ m1 = queue[n][1][1]
  BY <1>3, <1>12, TakeFacts
<1>14. Timed(T, V, m1) /\ Drawn(m1) /\ Timed(T, V, m2) /\ Drawn(m2)
  BY <1>0, <1>1, <1>3, <1>12, <1>13, HeldDrawn DEF HeldTimed
<1>15. MessageTrue(m1, Inputs[n][1]) /\ in_seq[n][1] <= m1.seq
  <2>1. PICK q, ca, a, u, d : /\ q = queue[n][1] /\ ca = cache[n][1] /\ a = in_seq[n][1]
                              /\ u = used[n][1] /\ d = counted[n][1]
    OBVIOUS
  <2>2. InputTrue(n, 1, q, ca, a, u, d) /\ q # <<>>
    BY <1>0, <1>12, <2>1 DEF RowTrue
  <2>3. MessageTrue(Head(q), Inputs[n][1]) /\ a <= Head(q).seq
    BY <2>2, InputTake
  <2> QED BY <1>3, <2>1, <2>3
<1>16. MessageTrue(m2, Inputs[n][2]) /\ in_seq[n][2] <= m2.seq
  BY <1>0, <1>1, <1>3, <1>12 DEF RowTrue, InputTrue, SubTrue
<1>17. /\ m1.source \in Source /\ m2.source \in Source
       /\ <<m1.node, m1.channel>> = Inputs[n][1] /\ <<m2.node, m2.channel>> = Inputs[n][2]
       /\ in_seq[n][1] \in Nat /\ in_seq[n][2] \in Nat
  BY <1>0, <1>12, <1>15, <1>16 DEF MessageTrue, FlowShape
<1>18. \A j \in DOMAIN ms : j \in DOMAIN Inputs[n] /\ MessageTrue(ms[j], Inputs[n][j])
  BY <1>2, <1>5, <1>15, <1>16
<1>19. /\ in_seq'[n][1] = m1.seq /\ in_seq'[n][2] = m2.seq
       /\ \A p \in Nodes : p # n => in_seq'[p] = in_seq[p]
  BY <1>0, <1>5, <1>8, <1>18, Accounted
<1>20. PICK f : f = <<m1.source, m2.source>>
  OBVIOUS
<1>21. f \in [{1, 2} -> Source] /\ f[1] = m1.source /\ f[2] = m2.source
  BY <1>17, <1>20
<1>22. s \in Source /\ provenance_source_json(s) = s
  <2>1. s \in Source
    BY <1>20, <1>21, OldestFacts
  <2>2. s.kind = 0 => s = NoSource
    BY <1>20, <1>21, OldestFacts
  <2> QED BY <2>1, <2>2 DEF provenance_source_json
<1>23. MadeOf(T, V, n, 0, ms, s)
  <2>1. \A j \in {1, 2} :
           /\ Timed(T, V, ms[j]) /\ Drawn(ms[j]) /\ <<ms[j].node, ms[j].channel>> = Inputs[n][j]
           /\ in_seq[n][j] \in Nat /\ in_seq[n][j] <= ms[j].seq /\ in_seq'[n][j] = ms[j].seq
    BY <1>5, <1>14, <1>15, <1>16, <1>17, <1>19
  <2>2. /\ \A j \in {1, 2} : f[j] = ms[j].source
        /\ provenance_source_json(s) \in oldest_provenance_source(f)
    BY <1>5, <1>20, <1>21, <1>22
  <2> QED BY <1>2, <1>21, <1>22, <2>1, <2>2 DEF MadeOf
<1>24. Grows /\ UNCHANGED <<Inputs, clock, log>> /\ 0 \in Channels(n) /\ Type[n] # "Sensor"
       /\ \A d \in Channels(n) : d = 0
  BY <1>0, <1>1, <1>2, <1>8, DrawGrows
<1>25. /\ next_seq[n][0] # 0 =>
             V[n][0] = SourceValid(s) /\ T[n][0][next_seq[n][0] - 1] <= SourceTime(s)
       /\ \A T2, V2 : Extends(T, V, T2, V2) =>
             FollowsWith(T2, V2, n, 0, SourceValid(s), SourceTime(s))'
  BY <1>0, <1>23, <1>24, MadeInOrder
<1>26. \A p \in Nodes : \A j \in DOMAIN Inputs[p] : MovedFrom(p, j)
  BY <1>0, <1>1, <1>12, TakeMoves
<1>27. Start(n, o, <<>>)
  BY <1>9, <1>10
<1> QED BY <1>8, <1>11, <1>19, <1>22, <1>24, <1>25, <1>26, <1>27, OrderBegin

(* A step that draws no number: what is held was held, in hand or not, and a sink record is
   that of the message in hand. *)
LEMMA QuietOrder ==
    ASSUME NodesInv, UNCHANGED <<Inputs, next_seq, in_seq>>, clock' \in Nat, clock <= clock',
           NEW T, NEW V, OrderTrue(T, V),
           \A p \in Nodes : \A i \in DOMAIN Inputs[p] :
               \/ MovedFrom(p, i)
               \/ /\ cache'[p][i] = cache[p][i]
                  /\ \A k \in DOMAIN queue'[p][i] :
                        \/ \E j \in DOMAIN queue[p][i] : queue'[p][i][k] = queue[p][i][j]
                        \/ \E q \in Nodes : pc[q] # "idle" /\ queue'[p][i][k] = work[q].msg,
           \A p \in Nodes : pc'[p] # "idle" => pc[p] # "idle" /\ work'[p] = work[p],
           \A r \in log' : r \in log \/ (r.event = "sink" =>
               Type[r.node] = "Command" /\ r.source.t = T[r.node][r.channel][r.seq])
    PROVE  OrderInv'
<1>0. /\ Shape /\ Table(T, V) /\ Monotone(T, V) /\ HeldTimed(T, V) /\ SinksTimed(T, V)
      /\ Nodes' = Nodes /\ \A p : Channels(p)' = Channels(p)
  BY SameGraph DEF NodesInv, OrderTrue
<1>1. Table(T, V)' /\ Monotone(T, V)'
  BY <1>0 DEF Table, Monotone
<1>2. SinksTimed(T, V)'
  BY <1>0 DEF SinksTimed
<1>3. Extends(T, V, T, V) /\ Grows
  BY <1>0, NothingDrawn DEF Extends
<1>4. ASSUME NEW p \in Nodes, NEW d \in Channels(p) PROVE Follows(T, V, p, d)'
  <2>1. Follows(T, V, p, d)
    BY DEF OrderTrue
  <2>2. next_seq'[p][d] = next_seq[p][d] /\ \A i : in_seq'[p][i] = in_seq[p][i]
    OBVIOUS
  <2>3. UNCHANGED Inputs
    OBVIOUS
  <2> QED BY <1>0, <1>3, <2>1, <2>2, <2>3, OthersFollow
<1>5. HeldTimed(T, V)'
  <2>1. ASSUME NEW p \in Nodes, NEW i \in DOMAIN Inputs[p]
        PROVE  /\ \A k \in DOMAIN queue'[p][i] : Timed(T, V, queue'[p][i][k])
               /\ cache'[p][i] # None => Timed(T, V, cache'[p][i])
    BY <1>0 DEF HeldTimed, MovedFrom
  <2>2. ASSUME NEW p \in Nodes, pc'[p] # "idle" PROVE Timed(T, V, work'[p].msg)
    BY <1>0, <2>2 DEF HeldTimed
  <2> QED BY <1>0, <2>1, <2>2 DEF HeldTimed, Timed
<1>6. OrderTrue(T, V)'
  BY <1>0, <1>1, <1>2, <1>4, <1>5 DEF OrderTrue
<1> QED BY <1>6 DEF OrderInv

LEMMA PublishOrder ==
    ASSUME NodesInv, FlowInv, UNCHANGED Inputs, NEW T, NEW V, OrderTrue(T, V),
           NEW n \in Nodes, Publish(n)
    PROVE  OrderInv'
<1>0. Shape
  BY DEF NodesInv
<1>1. PICK m : m = work[n].msg
  OBVIOUS
<1>2. /\ pc[n] = "publish"
      /\ queue' = [s \in Nodes |-> [i \in DOMAIN Inputs[s] |->
                     IF Inputs[s][i] = <<n, m.channel>>
                     THEN KeepLast(Append(queue[s][i], m), Depth(s)) ELSE queue[s][i]]]
      /\ UNCHANGED <<clock, cache, next_seq, in_seq, log>>
  BY <1>1 DEF Publish
<1>3. /\ \A p \in Nodes : p # n => pc'[p] = pc[p] /\ work'[p] = work[p]
      /\ Type[n] = "Sensor" => pc'[n] = "idle"
      /\ Type[n] # "Sensor" => pc'[n] = "emit" /\ work'[n] = work[n]
  BY <1>0, Published
<1>4. ASSUME NEW p \in Nodes, NEW i \in DOMAIN Inputs[p], NEW k \in DOMAIN queue'[p][i]
      PROVE  \/ \E j \in DOMAIN queue[p][i] : queue'[p][i][k] = queue[p][i][j]
             \/ \E q \in Nodes : pc[q] # "idle" /\ queue'[p][i][k] = work[q].msg
  <2>1. PICK q, d : q = queue[p][i] /\ d = Depth(p) /\ IsSequence(q)
    BY <1>0 DEF Shape
  <2>2. queue'[p][i] = q \/ queue'[p][i] = KeepLast(Append(q, m), d)
    BY <1>2, <2>1
  <2>3. CASE queue'[p][i] = q
    BY <1>4, <2>1, <2>3
  <2>4. CASE queue'[p][i] = KeepLast(Append(q, m), d)
    <3>1. queue'[p][i][k] = m \/ \E j \in DOMAIN q : queue'[p][i][k] = q[j]
      BY <1>4, <2>1, <2>4, DeliverFacts
    <3> QED BY <1>1, <1>2, <2>1, <3>1
  <2> QED BY <2>2, <2>3, <2>4
<1>5. \A p \in Nodes : pc'[p] # "idle" => pc[p] # "idle" /\ work'[p] = work[p]
  BY <1>2, <1>3
<1>6. clock' \in Nat /\ clock <= clock'
  BY <1>0, <1>2 DEF Shape
<1> QED BY <1>2, <1>4, <1>5, <1>6, QuietOrder

LEMMA EmitOrder ==
    ASSUME NodesInv, FlowInv, UNCHANGED Inputs, NEW T, NEW V, OrderTrue(T, V),
           NEW n \in Nodes, Emit(n)
    PROVE  OrderInv'
<1>0. Shape /\ HeldTimed(T, V)
  BY DEF NodesInv, OrderTrue
<1>1. /\ pc[n] = "emit" /\ log' = log \cup {NewRecord(n)}
      /\ \A p \in Nodes : p # n => pc'[p] = pc[p] /\ work'[p] = work[p]
      /\ Type[n] = "Sensor" => pc'[n] = "publish" /\ work'[n] = work[n]
      /\ Type[n] # "Sensor" => pc'[n] = "idle"
      /\ UNCHANGED <<clock, queue, cache, next_seq>>
  BY <1>0, Emitted
<1>2. PICK r : r = NewRecord(n)
  OBVIOUS
<1>3. /\ r.event = Event(n) /\ r.node = n /\ r.seq = work[n].msg.seq
      /\ r.channel = work[n].msg.channel
      /\ r.source = provenance_source_json(work[n].msg.source)
  BY <1>2, NewRecordFields
<1>4. work[n].msg.node = n /\ work[n].msg.source \in Source
  BY <1>1 DEF NodesInv, Working, InHand
<1>5. Timed(T, V, work[n].msg)
  BY <1>0, <1>1 DEF HeldTimed
<1>6. r.event = "sink" => Type[r.node] = "Command"
  BY <1>3 DEF Event
<1>7. r.source.t = SourceTime(work[n].msg.source)
  BY <1>3 DEF provenance_source_json, SourceTime, NoSource
<1>8. r.source.t = T[r.node][r.channel][r.seq]
  BY <1>3, <1>4, <1>5, <1>7 DEF Timed
<1>9. \A w \in log' : w \in log \/ (w.event = "sink" =>
         Type[w.node] = "Command" /\ w.source.t = T[w.node][w.channel][w.seq])
  BY <1>1, <1>2, <1>6, <1>8
<1>10. \A p \in Nodes : pc'[p] # "idle" => pc[p] # "idle" /\ work'[p] = work[p]
  BY <1>1
<1>11. clock' \in Nat /\ clock <= clock'
  BY <1>0, <1>1 DEF Shape
<1>12. \A p \in Nodes : \A i \in DOMAIN Inputs[p] : MovedFrom(p, i)
  BY <1>1 DEF MovedFrom
<1>13. UNCHANGED <<Inputs, next_seq, in_seq>>
  BY <1>1 DEF Emit
<1> QED BY <1>9, <1>10, <1>11, <1>12, <1>13, QuietOrder

(* Neither the clock, nor a Fusion that only caches, changes anything that matters. *)
LEMMA PassiveOrder ==
    ASSUME NodesInv, FlowInv, UNCHANGED Inputs, NEW T, NEW V, OrderTrue(T, V),
           \/ Tick
           \/ UNCHANGED vars
           \/ \E n \in Nodes : \E i \in DOMAIN Inputs[n] : FusionCache(n, i)
    PROVE  OrderInv'
<1>0. Shape
  BY DEF NodesInv
<1>1. UNCHANGED <<Inputs, next_seq, in_seq, pc, work, log>>
  BY DEF Tick, vars, FusionCache
<1>2. clock' \in Nat /\ clock <= clock'
  <2>1. clock \in Nat
    BY <1>0 DEF Shape
  <2> QED BY <2>1 DEF Tick, vars, FusionCache
<1>3. \A p \in Nodes : \A j \in DOMAIN Inputs[p] : MovedFrom(p, j)
  <2>1. CASE Tick \/ UNCHANGED vars
    BY <2>1 DEF Tick, vars, MovedFrom
  <2>2. ASSUME NEW n \in Nodes, NEW i \in DOMAIN Inputs[n], FusionCache(n, i)
        PROVE  \A p \in Nodes : \A j \in DOMAIN Inputs[p] : MovedFrom(p, j)
    <3>1. Take(n, i) /\ Cache(n, i)
      BY <2>2 DEF FusionCache
    <3> QED BY <1>0, <3>1, TakeMoves
  <2> QED BY <2>1, <2>2
<1>4. \A p \in Nodes : pc'[p] # "idle" => pc[p] # "idle" /\ work'[p] = work[p]
  BY <1>1
<1>5. \A r \in log' : r \in log
  BY <1>1
<1> QED BY <1>1, <1>2, <1>3, <1>4, <1>5, QuietOrder

LEMMA OrderInit ==
    ASSUME Init
    PROVE  OrderInv
<1>0. NodesInv
  BY InitInv
<1>1. Shape
  BY <1>0 DEF NodesInv
<1>2. PICK T, V : /\ T = [n \in Nodes |-> [c \in Nat |-> [k \in Nat |-> 0]]]
                  /\ V = [n \in Nodes |-> [c \in Nat |-> 0]]
  OBVIOUS
<1>3. Table(T, V)
  BY <1>2 DEF Table, TableOn
<1>4. \A n \in Nodes : \A c \in Channels(n) : next_seq[n][c] = 0
  BY DEF Init
<1>5. Monotone(T, V)
  BY <1>4 DEF Monotone
<1>6. \A n \in Nodes : \A c \in Channels(n) : Follows(T, V, n, c)
  BY <1>4 DEF Follows
<1>7. HeldTimed(T, V) /\ SinksTimed(T, V)
  <2>1. /\ \A n \in Nodes : pc[n] = "idle"
        /\ \A n \in Nodes : \A i \in DOMAIN Inputs[n] : queue[n][i] = <<>> /\ cache[n][i] = None
        /\ log = {} /\ DOMAIN <<>> = {}
    BY DEF Init
  <2> QED BY <2>1 DEF HeldTimed, SinksTimed
<1>8. OrderTrue(T, V)
  BY <1>3, <1>5, <1>6, <1>7 DEF OrderTrue
<1> QED BY <1>8 DEF OrderInv

LEMMA OrderStep ==
    ASSUME NodesInv, FlowInv, OrderInv, [Next]_vars
    PROVE  OrderInv'
<1>0. UNCHANGED Inputs
  BY DEF Next, vars
<1>1. NoCyclic' <=> NoCyclic
  BY <1>0, SameGraph DEF NoCyclic
<1>2. CASE ~NoCyclic
  BY <1>1, <1>2 DEF OrderInv
<1>3. CASE NoCyclic
  <2>1. PICK T, V : OrderTrue(T, V)
    BY <1>3 DEF OrderInv
  <2>2. CASE Tick \/ UNCHANGED vars
    BY <1>0, <2>1, <2>2, PassiveOrder
  <2>3. ASSUME NEW n \in Nodes, SensorTimer(n) PROVE OrderInv'
    BY <1>0, <2>1, <2>3, SensorOrder
  <2>4. ASSUME NEW n \in Nodes, CyclicTimer(n) PROVE OrderInv'
    BY <1>3, <2>4 DEF NoCyclic, CyclicTimer
  <2>5. ASSUME NEW n \in Nodes, NEW i \in DOMAIN Inputs[n], Relay(n, i) PROVE OrderInv'
    BY <1>0, <2>1, <2>5, RelayOrder
  <2>6. ASSUME NEW n \in Nodes, NEW i \in DOMAIN Inputs[n], FusionCache(n, i) PROVE OrderInv'
    BY <1>0, <2>1, <2>6, PassiveOrder
  <2>7. ASSUME NEW n \in Nodes, NEW i \in DOMAIN Inputs[n], CyclicInput(n, i) PROVE OrderInv'
    BY <1>3, <2>7 DEF NoCyclic, CyclicInput
  <2>8. ASSUME NEW n \in Nodes, FusionTrigger(n) PROVE OrderInv'
    BY <1>0, <2>1, <2>8, FusionOrder
  <2>9. ASSUME NEW n \in Nodes, CommandInput(n) PROVE OrderInv'
    BY <1>0, <2>1, <2>9, CommandOrder
  <2>10. ASSUME NEW n \in Nodes, Publish(n) PROVE OrderInv'
    BY <1>0, <2>1, <2>10, PublishOrder
  <2>11. ASSUME NEW n \in Nodes, Emit(n) PROVE OrderInv'
    BY <1>0, <2>1, <2>11, EmitOrder
  <2> QED BY <2>2, <2>3, <2>4, <2>5, <2>6, <2>7, <2>8, <2>9, <2>10, <2>11 DEF Next, Step
<1> QED BY <1>2, <1>3

-----------------------------------------------------------------------------
(* What the invariants say. *)

LEMMA DropsAdd ==
    ASSUME FlowInv
    PROVE  DropAccounting
<1>1. ASSUME NEW n \in Nodes, NEW i \in DOMAIN Inputs[n], used[n][i] > 0
      PROVE  used[n][i] + counted[n][i] \in {in_seq[n][i], in_seq[n][i] + 1}
  BY <1>1 DEF FlowInv, RowTrue, InputTrue, SubTrue
<1> QED BY <1>1 DEF DropAccounting

LEMMA SinksOrdered ==
    ASSUME NodesInv, OrderInv
    PROVE  SinkMovesForward
<1>1. SUFFICES ASSUME NoCyclic, NEW r \in log, NEW s \in log, r.event = "sink", s.event = "sink",
                      r.node = s.node, r.seq < s.seq
               PROVE  r.source.t <= s.source.t
  BY DEF SinkMovesForward, NoCyclic
<1>2. PICK T, V : OrderTrue(T, V)
  BY <1>1 DEF OrderInv
<1>3. Drawn(r) /\ Drawn(s)
  BY DEF NodesInv, Recorded, RecordTrue
<1>4. /\ Type[r.node] = "Command"
      /\ r.source.t = T[r.node][r.channel][r.seq] /\ s.source.t = T[s.node][s.channel][s.seq]
  BY <1>1, <1>2 DEF OrderTrue, SinksTimed
<1>5. r.channel = 0 /\ s.channel = 0 /\ 0 \in Channels(r.node)
  BY <1>1, <1>3, <1>4 DEF Drawn, Channels, ChannelsIn
<1>6. PICK k \in Nat, l \in Nat : k = r.seq /\ l = s.seq /\ k <= l /\ l < next_seq[r.node][0]
  BY <1>1, <1>3, <1>5 DEF Drawn
<1>7. T[r.node][0][k] <= T[r.node][0][l]
  BY <1>2, <1>3, <1>5, <1>6 DEF OrderTrue, Monotone, Drawn
<1> QED BY <1>1, <1>4, <1>5, <1>6, <1>7

LEMMA MessagesSound ==
    ASSUME NodesInv, FlowInv
    PROVE  TypeOK /\ HistoryEndsWithPublisher /\ LatencyNotUnderestimated
<1>0. Shape /\ FlowShape /\ \A n \in Nodes : RowTrue(n) /\ Outgoing(n)
  BY DEF NodesInv, FlowInv
<1>1. ASSUME NEW n \in Nodes, NEW i \in DOMAIN Inputs[n]
      PROVE  /\ Len(queue[n][i]) <= Depth(n)
             /\ \A k \in DOMAIN queue[n][i] : MessageTrue(queue[n][i][k], Inputs[n][i])
             /\ cache[n][i] # None => MessageTrue(cache[n][i], Inputs[n][i])
  BY <1>0 DEF RowTrue, InputTrue
<1>2. TypeOK
  <2>1. Inputs \in Graphs
    BY <1>0 DEF Shape
  <2>2. clock \in 0 .. MaxTime
    BY <1>0, NodesAssumption DEF Shape, FlowShape
  <2>3. ASSUME NEW n \in Nodes, NEW i \in DOMAIN Inputs[n]
        PROVE  /\ Len(queue[n][i]) <= Depth(n)
               /\ \A k \in DOMAIN queue[n][i] :
                     <<queue[n][i][k].node, queue[n][i][k].channel>> = Inputs[n][i]
               /\ cache[n][i] # None => <<cache[n][i].node, cache[n][i].channel>> = Inputs[n][i]
    BY <1>1 DEF MessageTrue
  <2>4. ASSUME NEW n \in Nodes
        PROVE  next_seq[n] \in [Channels(n) -> Nat] /\ in_seq[n] \in [DOMAIN Inputs[n] -> Nat]
    BY <1>0 DEF Shape, FlowShape
  <2>5. ASSUME NEW n \in Nodes
        PROVE  /\ pc[n] \in {"idle", "publish", "emit"}
               /\ IF pc[n] = "idle" THEN work[n] = None ELSE work[n].msg.source \in Source
    <3>1. pc[n] \in {"idle", "publish", "emit"}
      BY <1>0 DEF Shape
    <3>2. CASE pc[n] = "idle"
      BY <1>0, <3>1, <3>2 DEF Outgoing
    <3>3. CASE pc[n] # "idle"
      BY <3>1, <3>3 DEF NodesInv, Working, InHand
    <3> QED BY <3>2, <3>3
  <2>6. ASSUME NEW n \in Nodes PROVE fires[n] \in 0 .. MaxFires[n]
    <3>1. fires[n] \in Nat /\ fires[n] <= MaxFires[n] /\ MaxFires[n] \in Nat
      BY <1>0, NodesAssumption DEF Shape, FlowShape, Nodes
    <3> QED BY <3>1
  <2> QED BY <2>1, <2>2, <2>3, <2>4, <2>5, <2>6 DEF TypeOK
<1>3. ASSUME NEW m \in InTransit PROVE \E topic : MessageTrue(m, topic)
  <2>1. PICK n \in Nodes : m \in UNION {HeldBy(n, i) : i \in DOMAIN Inputs[n]}
    BY DEF InTransit
  <2>2. PICK i \in DOMAIN Inputs[n] : m \in HeldBy(n, i)
    BY <2>1
  <2>3. (\E k \in DOMAIN queue[n][i] : m = queue[n][i][k]) \/ (m = cache[n][i] /\ m # None)
    BY <2>2 DEF HeldBy
  <2>4. MessageTrue(m, Inputs[n][i])
    BY <1>1, <2>3
  <2> QED BY <2>4
<1>4. HistoryEndsWithPublisher
  BY <1>3 DEF HistoryEndsWithPublisher, MessageTrue
<1>5. LatencyNotUnderestimated
  BY <1>3 DEF LatencyNotUnderestimated, MessageTrue, EntryTrue
<1> QED BY <1>2, <1>4, <1>5

(* The three invariants together are inductive. *)
LEMMA FlowInvariant == Spec => [](NodesInv /\ FlowInv /\ OrderInv)
<1>1. Init => NodesInv /\ FlowInv /\ OrderInv
  BY InitInv, FlowInit, OrderInit
<1>2. NodesInv /\ FlowInv /\ OrderInv /\ [Next]_vars => (NodesInv /\ FlowInv /\ OrderInv)'
  BY StepInv, FlowStep, OrderStep
<1> QED BY <1>1, <1>2, PTL DEF Spec

(* For every system of nodes whose topics form no cycle, and every order in which messages
   arrive, are lost and are processed: what an input has processed and what it has reported
   as dropped add up to the number of its last message, or one more if it saw the first
   (sample_management.hpp:443-526, transform.hpp:52-60). *)
THEOREM DropsAddUp == Spec => []DropAccounting
<1>1. NodesInv /\ FlowInv /\ OrderInv => DropAccounting
  BY DropsAdd
<1> QED BY <1>1, FlowInvariant, PTL

(* For every such system: every history ends with its publisher's entry, the latency that a
   sink reports is no less than the age of any sensor sample that its history names, and
   without a Cyclic the sources that a sink reports never go back in time
   (sample_management.hpp:443-526, provenance.hpp:56-66, command.hpp:58-100). *)
THEOREM LatencyIsSound == Spec => []LatencySound
<1>1. NodesInv /\ FlowInv /\ OrderInv => LatencySound
  BY SinksOrdered, MessagesSound DEF LatencySound
<1> QED BY <1>1, FlowInvariant, PTL

-----------------------------------------------------------------------------
(* What reaches a sink. S gives the source of the last message made on each topic. *)

(* That message is made, but not published yet. *)
Unpublished(p, d) ==
    pc[p] # "idle" /\ work[p].msg.channel = d /\ (pc[p] = "publish" \/ Type[p] = "Sensor")

(* A subscription with queue q: s is what it has last received, or, if nothing is left, what
   its node has last made of it. *)
UpToDate(q, s, out) == IF q = <<>> THEN out = s ELSE q[Len(q)].source = s

Fed(S, n, i) ==
    LET p == Inputs[n][i][1]
        d == Inputs[n][i][2]
    IN  Type[p] # "Command" /\ ~Unpublished(p, d) =>
            UpToDate(queue[n][i], S[p][d], S[n][ChannelOf(n, i)])

Handed(S, n) == pc[n] # "idle" => work[n].msg.source = S[n][work[n].msg.channel]

(* A sensor's record is of the last sample or an earlier one. *)
Sampled(S, r) ==
    /\ r.node \in Nodes /\ Type[r.node] = "Sensor"
    /\ r.source.kind # 0 /\ r.source.kind = SourceKind[r.node]
    /\ S[r.node][0].kind = r.source.kind
    /\ r.source.seq <= S[r.node][0].seq

(* A sink has recorded what it has last received, or is about to. *)
Reported(S, n) ==
    S[n][0].kind = 0 \/ pc[n] = "emit" \/ \E r \in log : r.event = "sink" /\ r.source = S[n][0]

SourcesOf(S) == S \in [Nodes -> [Nat -> Source]]

CaughtUp(S) ==
    /\ SourcesOf(S)
    /\ \A n \in Nodes : Handed(S, n)
    /\ \A n \in Nodes : Type[n] = "Sensor" => S[n][0].seq <= next_seq[n][0]
    /\ \A r \in log : r.event = "source" => Sampled(S, r)
    /\ \A n \in Nodes : Relays(n) => \A i \in DOMAIN Inputs[n] : Fed(S, n, i)
    /\ \A n \in Nodes : Type[n] = "Command" => Reported(S, n)

CatchInv == \E S : CaughtUp(S)

LEMMA CatchInit ==
    ASSUME Init
    PROVE  CatchInv
<1>0. Shape
  BY InitInv DEF NodesInv
<1>1. PICK S : S = [n \in Nodes |-> [c \in Nat |-> NoSource]]
  OBVIOUS
<1>2. NoSource \in Source /\ NoSource.kind = 0 /\ NoSource.seq = 0
  BY DEF NoSource, Source
<1>3. SourcesOf(S)
  BY <1>1, <1>2 DEF SourcesOf
<1>4. \A n \in Nodes : pc[n] = "idle"
  BY DEF Init
<1>5. \A n \in Nodes : Handed(S, n)
  BY <1>4 DEF Handed
<1>6. ASSUME NEW n \in Nodes, Type[n] = "Sensor" PROVE S[n][0].seq <= next_seq[n][0]
  <2>1. Channels(n) = {0}
    BY <1>6 DEF Channels, ChannelsIn
  <2>2. next_seq[n][0] = 0
    BY <2>1 DEF Init
  <2> QED BY <1>1, <1>2, <2>2
<1>7. ASSUME NEW n \in Nodes, Relays(n), NEW i \in DOMAIN Inputs[n] PROVE Fed(S, n, i)
  <2>1. /\ Inputs[n][i][1] \in Nodes /\ Inputs[n][i][2] \in Channels(Inputs[n][i][1])
    BY <1>0, TopicFacts
  <2>2. Inputs[n][i][2] \in Nat
    BY <1>0, <2>1, ChannelsFacts
  <2>3. ChannelOf(n, i) \in Nat
    <3>1. Inputs[n] \in Seq(AllNodes \X Nat)
      BY <1>0, NodesAssumption DEF Shape, Nodes
    <3>2. i \in 1 .. Len(Inputs[n])
      BY <3>1
    <3> QED BY <3>2 DEF ChannelOf
  <2>4. queue[n][i] = <<>>
    BY DEF Init
  <2> QED BY <1>1, <2>1, <2>2, <2>3, <2>4 DEF Fed, UpToDate
<1>8. \A n \in Nodes : Type[n] = "Command" => Reported(S, n)
  BY <1>1, <1>2 DEF Reported
<1>9. log = {}
  BY DEF Init
<1>10. CaughtUp(S)
  BY <1>3, <1>5, <1>6, <1>7, <1>8, <1>9 DEF CaughtUp
<1> QED BY <1>10 DEF CatchInv

(* Each input of a node that relays is passed on, on a channel of its own. *)
LEMMA ChannelOfFacts ==
    ASSUME Shape, NEW n \in Nodes, Relays(n), NEW i \in DOMAIN Inputs[n]
    PROVE  /\ ChannelOf(n, i) \in Channels(n) /\ ChannelOf(n, i) \in Nat
           /\ \A j \in DOMAIN Inputs[n] : ChannelOf(n, j) = ChannelOf(n, i) => j = i
<1>1. Inputs[n] \in Seq(AllNodes \X Nat) /\ (Type[n] # "Intersection" => Len(Inputs[n]) = 1)
  BY NodesAssumption DEF Shape, Nodes, Relays
<1>2. i \in 1 .. Len(Inputs[n]) /\ Len(Inputs[n]) \in Nat /\ DOMAIN Inputs[n] = 1 .. Len(Inputs[n])
  BY <1>1
<1>3. CASE Type[n] = "Intersection"
  <2>1. Channels(n) = 0 .. Len(Inputs[n]) - 1 /\ \A j : ChannelOf(n, j) = j - 1
    BY <1>3 DEF Channels, ChannelsIn, ChannelOf
  <2>2. i - 1 \in 0 .. Len(Inputs[n]) - 1 /\ i - 1 \in Nat
    BY <1>2
  <2>3. \A j \in 1 .. Len(Inputs[n]) : j - 1 = i - 1 => j = i
    BY <1>2
  <2> QED BY <1>2, <2>1, <2>2, <2>3
<1>4. CASE Type[n] # "Intersection"
  <2>1. Channels(n) = {0} /\ \A j : ChannelOf(n, j) = 0
    BY <1>4 DEF Channels, ChannelsIn, ChannelOf
  <2>2. Len(Inputs[n]) = 1
    BY <1>1, <1>4
  <2>3. i \in 1 .. 1 /\ DOMAIN Inputs[n] = 1 .. 1
    BY <1>2, <2>2
  <2>4. \A j, k \in 1 .. 1 : j = k
    OBVIOUS
  <2> QED BY <2>1, <2>3, <2>4
<1> QED BY <1>3, <1>4

(* The oldest message is taken, and something with its source is made of it. *)
LEMMA TakenUpToDate ==
    ASSUME NEW q, IsSequence(q), q # <<>>, NEW s, NEW out, UpToDate(q, s, out)
    PROVE  UpToDate(Tail(q), s, Head(q).source)
<1>1. PICK Q : q \in Seq(Q)
  BY DEF IsSequence
<1>2. Len(q) \in Nat /\ Len(q) # 0 /\ q[Len(q)].source = s
  BY <1>1 DEF UpToDate
<1>3. CASE Tail(q) = <<>>
  <2>1. PICK t, k : t = Tail(q) /\ k = Len(q) 
    OBVIOUS
  <2>4. k \in Nat /\ Len(t) = k - 1
    BY <1>1, <1>2, <2>1
  <2>2. Len(t) = 0
    <3>1. t = <<>>
      BY <1>3, <2>1
    <3> QED BY <3>1
  <2>3. Len(q) = 1 /\ Head(q) = q[1]
    BY <1>1, <2>1, <2>2, <2>4
  <2> QED BY <1>2, <1>3, <2>3 DEF UpToDate
<1>4. CASE Tail(q) # <<>>
  <2>1. Len(Tail(q)) = Len(q) - 1 /\ Tail(q)[Len(q) - 1] = q[Len(q)]
    BY <1>1, <1>2, <1>4
  <2> QED BY <1>2, <1>4, <2>1 DEF UpToDate
<1> QED BY <1>3, <1>4

(* The last message of a queue is the one that was delivered last. *)
LEMMA DeliveredUpToDate ==
    ASSUME NEW q, IsSequence(q), NEW m, NEW d \in Nat, d # 0, NEW out
    PROVE  UpToDate(KeepLast(Append(q, m), d), m.source, out)
<1>1. PICK Q : q \in Seq(Q) /\ m \in Q
  <2>1. PICK R : q \in Seq(R)
    BY DEF IsSequence
  <2>2. q \in Seq(R \cup {m})
    BY <2>1
  <2> QED BY <2>2
<1>2. PICK a : a = Append(q, m)
  OBVIOUS
<1>3. a \in Seq(Q) /\ Len(a) \in Nat /\ Len(a) # 0 /\ a[Len(a)] = m /\ a # <<>>
  BY <1>1, <1>2
<1>4. CASE Len(a) > d
  <2>1. Len(a) > 1
    BY <1>3, <1>4
  <2>2. Tail(a) # <<>> /\ Tail(a)[Len(Tail(a))] = m
    BY <1>3, <2>1
  <2> QED BY <1>2, <1>4, <2>2 DEF KeepLast, UpToDate
<1>5. CASE ~(Len(a) > d)
  BY <1>2, <1>3, <1>5 DEF KeepLast, UpToDate
<1> QED BY <1>4, <1>5

(* What becomes of a queue when a callback of n makes the message m on channel c: it is
   as it was, or its oldest message was taken for m. *)
MadeFrom(n, c, m, p, i) ==
    \/ queue'[p][i] = queue[p][i] /\ (p = n => ChannelOf(p, i) # c)
    \/ /\ p = n /\ ChannelOf(p, i) = c /\ queue[p][i] # <<>>
       /\ queue'[p][i] = Tail(queue[p][i]) /\ m.source = Head(queue[p][i]).source

(* A callback of n starts. *)
LEMMA CatchBegin ==
    ASSUME NodesInv, NodesInv', UNCHANGED <<Inputs, log>>, NEW S, CaughtUp(S),
           NEW n \in Nodes, NEW c \in Channels(n), NEW m, NEW inputs,
           pc[n] = "idle", Draw(n, c), Start(n, m, inputs), m.channel = c,
           Type[n] = "Sensor" => m.source.kind = SourceKind[n] /\ m.source.seq = next_seq[n][c],
           \A p \in Nodes : Relays(p) => \A i \in DOMAIN Inputs[p] : MadeFrom(n, c, m, p, i)
    PROVE  CatchInv'
<1>0. Shape /\ SourcesOf(S) /\ Nodes' = Nodes /\ c \in Nat
  BY SameGraph, ChannelsFacts DEF NodesInv, CaughtUp
<1>1. /\ pc'[n] = FirstStep(n) /\ work'[n].msg = m
      /\ \A p \in Nodes : p # n => pc'[p] = pc[p] /\ work'[p] = work[p]
  BY <1>0 DEF Start, Shape
<1>2. pc'[n] # "idle" /\ (Type[n] = "Command" <=> pc'[n] = "emit" /\ Type[n] # "Sensor")
  BY <1>1 DEF FirstStep, EmitsFirst
<1>3. pc'[n] \in {"publish", "emit"}
  BY <1>1 DEF FirstStep
<1>4. m.source \in Source
  BY <1>0, <1>1, <1>2 DEF NodesInv, Working, InHand
<1>5. PICK S2 : S2 = [S EXCEPT ![n] = [@ EXCEPT ![c] = m.source]]
  OBVIOUS
<1>6. /\ S2 \in [Nodes -> [Nat -> Source]] /\ S2[n][c] = m.source
      /\ \A d \in Nat : d # c => S2[n][d] = S[n][d]
      /\ \A p \in Nodes : p # n => S2[p] = S[p]
  BY <1>0, <1>4, <1>5 DEF SourcesOf
<1>7. SourcesOf(S2)'
  BY <1>0, <1>6 DEF SourcesOf
<1>8. ASSUME NEW p \in Nodes PROVE Handed(S2, p)'
  <2>1. Handed(S, p)
    BY DEF CaughtUp
  <2> QED BY <1>1, <1>6, <2>1 DEF Handed
<1>9. ASSUME NEW p \in Nodes, Type[p] = "Sensor" PROVE S2[p][0].seq <= next_seq'[p][0]
  <2>1. Channels(p) = {0}
    BY <1>9 DEF Channels, ChannelsIn
  <2>2. next_seq[p][0] \in Nat /\ S[p][0].seq <= next_seq[p][0]
    BY <1>0, <1>9, <2>1 DEF Shape, CaughtUp
  <2>3. CASE p = n
    <3>1. c = 0 /\ next_seq'[n][0] = next_seq[n][0] + 1
      BY <1>0, <2>1, <2>3 DEF Draw, Shape
    <3> QED BY <1>6, <1>9, <2>2, <2>3, <3>1
  <2>4. CASE p # n
    <3>1. next_seq'[p] = next_seq[p]
      BY <1>0, <2>4 DEF Draw, Shape
    <3> QED BY <1>6, <2>2, <2>4, <3>1
  <2> QED BY <2>3, <2>4
<1>10. ASSUME NEW r \in log, r.event = "source" PROVE Sampled(S2, r)'
  <2>1. Sampled(S, r) /\ RecordTrue(r)
    BY <1>10 DEF CaughtUp, NodesInv, Recorded
  <2>2. CASE r.node = n
    <3>1. Type[n] = "Sensor" /\ Channels(n) = {0}
      BY <2>1, <2>2 DEF Sampled, Channels, ChannelsIn
    <3>2. c = 0 /\ next_seq[n][0] \in Nat /\ S[n][0].seq <= next_seq[n][0]
      BY <1>0, <3>1 DEF Shape, CaughtUp
    <3>3. S[n][0] \in Source /\ r.source \in Source
      BY <1>0, <2>1 DEF SourcesOf, RecordTrue
    <3>4. S2[n][0] = m.source /\ m.source.kind = SourceKind[n] /\ m.source.seq = next_seq[n][0]
      BY <1>6, <3>1, <3>2
    <3>5. /\ r.source.kind # 0 /\ r.source.kind = SourceKind[n]
          /\ r.source.seq <= S[n][0].seq
      BY <2>1, <2>2 DEF Sampled
    <3>6. r.source.seq <= next_seq[n][0]
      <4>1. r.source.seq \in Nat /\ S[n][0].seq \in Nat
        BY <3>3 DEF Source
      <4> QED BY <3>2, <3>5, <4>1
    <3> QED BY <1>0, <2>2, <3>1, <3>4, <3>5, <3>6 DEF Sampled
  <2>3. CASE r.node # n
    BY <1>0, <1>6, <2>1, <2>3 DEF Sampled
  <2> QED BY <2>2, <2>3
<1>11. ASSUME NEW p \in Nodes, Relays(p), NEW i \in DOMAIN Inputs[p] PROVE Fed(S2, p, i)'
  <2>1. PICK b, d, e : b = Inputs[p][i][1] /\ d = Inputs[p][i][2] /\ e = ChannelOf(p, i)
    OBVIOUS
  <2>2. b \in Nodes /\ d \in Channels(b) /\ d \in Nat /\ b # p /\ e \in Nat
    <3>1. b \in Nodes /\ d \in Channels(b) /\ Rank[b] < Rank[p]
      BY <1>0, <2>1, TopicFacts
    <3>2. Rank[p] \in Nat
      BY <1>0, RankFacts DEF IsRank, Nodes
    <3>3. b # p
      BY <3>1, <3>2
    <3> QED BY <1>0, <1>11, <2>1, <3>1, <3>3, ChannelsFacts, ChannelOfFacts
  <2>3. SUFFICES ASSUME Type[b] # "Command", ~Unpublished(b, d)'
                 PROVE  UpToDate(queue'[p][i], S2[b][d], S2[p][e])
    BY <2>1 DEF Fed
  <2>4. MadeFrom(n, c, m, p, i) /\ IsSequence(queue[p][i])
    BY <1>0, <1>11 DEF Shape
  <2>5. ~(b = n /\ d = c)
    BY <1>1, <1>2, <1>3, <2>3 DEF Unpublished
  <2>6. ~Unpublished(b, d)
    BY <1>1, <2>2, <2>3 DEF Unpublished
  <2>7. S2[b][d] = S[b][d]
    BY <1>6, <2>2, <2>5
  <2>8. UpToDate(queue[p][i], S[b][d], S[p][e])
    BY <1>11, <2>1, <2>3, <2>6 DEF CaughtUp, Fed
  <2>9. CASE queue'[p][i] = queue[p][i] /\ (p = n => e # c)
    <3>1. S2[p][e] = S[p][e]
      BY <1>6, <2>2, <2>9
    <3> QED BY <2>7, <2>8, <2>9, <3>1
  <2>10. CASE /\ p = n /\ e = c /\ queue[p][i] # <<>>
              /\ queue'[p][i] = Tail(queue[p][i]) /\ m.source = Head(queue[p][i]).source
    <3>1. S2[p][e] = Head(queue[p][i]).source
      BY <1>6, <2>10
    <3> QED BY <2>4, <2>7, <2>8, <2>10, <3>1, TakenUpToDate
  <2> QED BY <2>1, <2>4, <2>9, <2>10 DEF MadeFrom
<1>12. ASSUME NEW p \in Nodes, Type[p] = "Command" PROVE Reported(S2, p)'
  <2>1. Reported(S, p)
    BY <1>12 DEF CaughtUp
  <2>2. CASE p = n
    BY <1>2, <1>12, <2>2 DEF Reported
  <2>3. CASE p # n
    BY <1>1, <1>6, <2>1, <2>3 DEF Reported
  <2> QED BY <2>2, <2>3
<1>13. Relays(n)' <=> Relays(n)
  BY DEF Relays
<1>14. CaughtUp(S2)'
  BY <1>0, <1>7, <1>8, <1>9, <1>10, <1>11, <1>12 DEF CaughtUp, Relays
<1> QED BY <1>14 DEF CatchInv

LEMMA CatchSensor ==
    ASSUME NodesInv, NodesInv', UNCHANGED Inputs, NEW S, CaughtUp(S), NEW n \in Nodes, SensorTimer(n)
    PROVE  CatchInv'
<1>1. Type[n] = "Sensor" /\ pc[n] = "idle" /\ Draw(n, 0) /\ UNCHANGED <<Inputs, log, queue>>
  BY DEF SensorTimer, MayStart
<1>2. 0 \in Channels(n)
  BY <1>1 DEF Channels, ChannelsIn
<1>3. PICK m : /\ Start(n, m, <<>>)
               /\ m = Message(n, 0, Stamped(<<>>, Entry(n, 0, 0)),
                              [kind |-> SourceKind[n], seq |-> next_seq[n][0], t |-> clock])
  BY DEF SensorTimer
<1>4. m.channel = 0 /\ m.source.kind = SourceKind[n] /\ m.source.seq = next_seq[n][0]
  BY <1>3 DEF Message
<1>5. ASSUME NEW p \in Nodes, Relays(p), NEW i \in DOMAIN Inputs[p] PROVE MadeFrom(n, 0, m, p, i)
  <2>1. p # n
    BY <1>1, <1>5 DEF Relays
  <2> QED BY <1>1, <2>1 DEF MadeFrom
<1> QED BY <1>1, <1>2, <1>3, <1>4, <1>5, CatchBegin

(* A Transform, Intersection or Command passes on the message that it takes. *)
LEMMA CatchRelay ==
    ASSUME NodesInv, NodesInv', UNCHANGED Inputs, NEW S, CaughtUp(S), NEW n \in Nodes,
           NEW i \in DOMAIN Inputs[n], Relay(n, i) \/ (i = 1 /\ CommandInput(n))
    PROVE  CatchInv'
<1>0. Shape
  BY DEF NodesInv
<1>1. PICK c, q : c = ChannelOf(n, i) /\ q = queue[n][i]
  OBVIOUS
<1>2. Relays(n) /\ Type[n] # "Sensor" /\ pc[n] = "idle" /\ Take(n, i) /\ UNCHANGED <<Inputs, log>>
  BY DEF Relay, CommandInput, MayStart, Relays
<1>3. c \in Channels(n) /\ \A j \in DOMAIN Inputs[n] : j # i => ChannelOf(n, j) # c
  BY <1>0, <1>1, <1>2, ChannelOfFacts
<1>4. PICK h, inputs : Draw(n, c) /\ Start(n, Message(n, c, h, Head(q).source), inputs)
  <2>1. CASE Relay(n, i)
    BY <1>1, <2>1 DEF Relay
  <2>2. CASE i = 1 /\ CommandInput(n)
    <3>1. c = 0
      BY <1>1, <2>2 DEF CommandInput, ChannelOf
    <3> QED BY <1>1, <2>2, <3>1 DEF CommandInput
  <2> QED BY <2>1, <2>2
<1>5. PICK m : m = Message(n, c, h, Head(q).source)
  OBVIOUS
<1>6. m.channel = c /\ m.source = Head(q).source
  BY <1>5 DEF Message
<1>7. ASSUME NEW p \in Nodes, Relays(p), NEW j \in DOMAIN Inputs[p] PROVE MadeFrom(n, c, m, p, j)
  <2>1. CASE p = n /\ j = i
    <3>1. q # <<>> /\ queue'[n][i] = Tail(q)
      BY <1>0, <1>1, <1>2 DEF Take, Shape
    <3> QED BY <1>1, <1>6, <2>1, <3>1 DEF MadeFrom
  <2>2. CASE ~(p = n /\ j = i)
    <3>1. queue'[p][j] = queue[p][j]
      BY <1>0, <1>2, <2>2 DEF Take, Shape
    <3> QED BY <1>3, <2>2, <3>1 DEF MadeFrom
  <2> QED BY <2>1, <2>2
<1> QED BY <1>2, <1>3, <1>4, <1>5, <1>6, <1>7, CatchBegin

(* What a Fusion or Cyclic makes is of no concern to any queue but its own. *)
LEMMA CatchFused ==
    ASSUME NodesInv, NodesInv', UNCHANGED Inputs, NEW S, CaughtUp(S), NEW n \in Nodes,
           FusionTrigger(n) \/ CyclicTimer(n)
    PROVE  CatchInv'
<1>0. Shape
  BY DEF NodesInv
<1>1. Type[n] \in {"Fusion", "Cyclic"} /\ pc[n] = "idle" /\ Draw(n, 0) /\ UNCHANGED <<Inputs, log>>
  BY DEF FusionTrigger, CyclicTimer, MayStart
<1>2. 0 \in Channels(n)
  BY <1>1 DEF Channels, ChannelsIn
<1>3. PICK h, s, inputs : Start(n, Message(n, 0, h, s), inputs)
  <2>1. CASE FusionTrigger(n)
    BY <2>1 DEF FusionTrigger
  <2>2. CASE CyclicTimer(n)
    BY <2>2 DEF CyclicTimer
  <2> QED BY <2>1, <2>2
<1>4. PICK m : m = Message(n, 0, h, s)
  OBVIOUS
<1>5. m.channel = 0
  BY <1>4 DEF Message
<1>6. \A p \in Nodes : p # n => queue'[p] = queue[p]
  BY <1>0 DEF FusionTrigger, CyclicTimer, Take, Shape
<1>7. ASSUME NEW p \in Nodes, Relays(p), NEW i \in DOMAIN Inputs[p] PROVE MadeFrom(n, 0, m, p, i)
  <2>1. p # n
    BY <1>1, <1>7 DEF Relays
  <2> QED BY <1>6, <2>1 DEF MadeFrom
<1> QED BY <1>1, <1>2, <1>3, <1>4, <1>5, <1>7, CatchBegin

(* Time passes, nothing happens, or a message is cached. *)
LEMMA CatchPassive ==
    ASSUME NodesInv, UNCHANGED Inputs, NEW S, CaughtUp(S),
           \/ Tick \/ UNCHANGED vars
           \/ \E n \in Nodes : \E i \in DOMAIN Inputs[n] : FusionCache(n, i) \/ CyclicInput(n, i)
    PROVE  CatchInv'
<1>0. Shape /\ Nodes' = Nodes
  BY SameGraph DEF NodesInv
<1>1. UNCHANGED <<next_seq, pc, work, log>>
  BY DEF Tick, vars, FusionCache, CyclicInput
<1>2. \A p \in Nodes : Relays(p) => queue'[p] = queue[p]
  <2>1. CASE Tick \/ UNCHANGED vars
    BY <2>1 DEF Tick, vars
  <2>2. ASSUME NEW n \in Nodes, NEW i \in DOMAIN Inputs[n], FusionCache(n, i) \/ CyclicInput(n, i)
        PROVE  \A p \in Nodes : Relays(p) => queue'[p] = queue[p]
    <3>1. Type[n] \in {"Fusion", "Cyclic"} /\ Take(n, i)
      BY <2>2 DEF FusionCache, CyclicInput
    <3> QED BY <1>0, <3>1 DEF Take, Shape, Relays
  <2> QED BY <2>1, <2>2
<1>3. ASSUME NEW p \in Nodes, Relays(p), NEW i \in DOMAIN Inputs[p] PROVE Fed(S, p, i)'
  <2>1. queue'[p] = queue[p] /\ Fed(S, p, i)
    BY <1>2, <1>3 DEF CaughtUp
  <2> QED BY <1>1, <2>1 DEF Fed, Unpublished
<1>4. \A p \in Nodes : (Handed(S, p)' <=> Handed(S, p)) /\ (Reported(S, p)' <=> Reported(S, p))
  BY <1>1 DEF Handed, Reported
<1>5. SourcesOf(S)' /\ \A r \in log : Sampled(S, r) => Sampled(S, r)'
  BY <1>0 DEF SourcesOf, Sampled, CaughtUp
<1>6. CaughtUp(S)'
  BY <1>0, <1>1, <1>3, <1>4, <1>5 DEF CaughtUp, Relays
<1> QED BY <1>6 DEF CatchInv

LEMMA CatchPublish ==
    ASSUME NodesInv, FlowInv, UNCHANGED Inputs, NEW S, CaughtUp(S), NEW n \in Nodes, Publish(n)
    PROVE  CatchInv'
<1>0. Shape /\ Nodes' = Nodes
  BY SameGraph DEF NodesInv
<1>1. /\ pc[n] = "publish" /\ UNCHANGED <<next_seq, log>>
      /\ \A p \in Nodes : p # n => pc'[p] = pc[p] /\ work'[p] = work[p]
      /\ Type[n] = "Sensor" => pc'[n] = "idle"
      /\ Type[n] # "Sensor" => pc'[n] = "emit" /\ work'[n] = work[n]
  BY <1>0, Published
<1>2. PICK m : m = work[n].msg
  OBVIOUS
<1>3. m.source = S[n][m.channel] /\ Type[n] # "Command"
  BY <1>1, <1>2 DEF CaughtUp, Handed, NodesInv, Working, InHand
<1>4. ASSUME NEW p \in Nodes PROVE Handed(S, p)'
  <2>1. Handed(S, p)
    BY DEF CaughtUp
  <2> QED BY <1>1, <2>1 DEF Handed
<1>5. ASSUME NEW p \in Nodes, Relays(p), NEW i \in DOMAIN Inputs[p] PROVE Fed(S, p, i)'
  <2>1. PICK b, d, out : b = Inputs[p][i][1] /\ d = Inputs[p][i][2] /\ out = S[p][ChannelOf(p, i)]
    OBVIOUS
  <2>2. b \in Nodes /\ Inputs[p][i] = <<b, d>> /\ IsSequence(queue[p][i])
    BY <1>0, <2>1, TopicFacts DEF Shape
  <2>3. SUFFICES ASSUME Type[b] # "Command", ~Unpublished(b, d)'
                 PROVE  UpToDate(queue'[p][i], S[b][d], out)
    BY <2>1 DEF Fed
  <2>4. queue'[p][i] = IF Inputs[p][i] = <<n, m.channel>>
                       THEN KeepLast(Append(queue[p][i], m), Depth(p)) ELSE queue[p][i]
    BY <1>2 DEF Publish
  <2>5. CASE Inputs[p][i] = <<n, m.channel>>
    <3>1. b = n /\ d = m.channel
      BY <2>2, <2>5
    <3>2. Depth(p) \in Nat /\ Depth(p) # 0
      BY DEF Depth
    <3> QED BY <1>3, <2>2, <2>4, <2>5, <3>1, <3>2, DeliveredUpToDate
  <2>6. CASE Inputs[p][i] # <<n, m.channel>>
    <3>1. ~Unpublished(b, d)
      BY <1>1, <1>2, <2>2, <2>3, <2>6 DEF Unpublished
    <3> QED BY <1>5, <2>1, <2>3, <2>4, <2>6, <3>1 DEF CaughtUp, Fed
  <2> QED BY <2>5, <2>6
<1>6. ASSUME NEW p \in Nodes, Type[p] = "Command" PROVE Reported(S, p)'
  BY <1>1, <1>3, <1>6 DEF CaughtUp, Reported
<1>7. SourcesOf(S)' /\ \A r \in log : Sampled(S, r) => Sampled(S, r)'
  BY <1>0 DEF SourcesOf, Sampled, CaughtUp
<1>8. CaughtUp(S)'
  BY <1>0, <1>1, <1>4, <1>5, <1>6, <1>7 DEF CaughtUp, Relays
<1> QED BY <1>8 DEF CatchInv

LEMMA CatchEmit ==
    ASSUME NodesInv, FlowInv, UNCHANGED Inputs, NEW S, CaughtUp(S), NEW n \in Nodes, Emit(n)
    PROVE  CatchInv'
<1>0. Shape /\ Nodes' = Nodes
  BY SameGraph DEF NodesInv
<1>1. /\ pc[n] = "emit" /\ UNCHANGED <<queue, next_seq>>
      /\ log' = log \cup {NewRecord(n)}
      /\ \A p \in Nodes : p # n => pc'[p] = pc[p] /\ work'[p] = work[p]
      /\ Type[n] = "Sensor" => pc'[n] = "publish" /\ work'[n] = work[n]
      /\ Type[n] # "Sensor" => pc'[n] = "idle"
  BY <1>0, Emitted
<1>2. PICK m, s : m = work[n].msg /\ s = S[n][m.channel]
  OBVIOUS
<1>3. m.source = s /\ s \in Source /\ m.channel \in Channels(n)
  BY <1>1, <1>2 DEF CaughtUp, Handed, NodesInv, Working, InHand, FlowInv, Outgoing
<1>4. ASSUME NEW p \in Nodes PROVE Handed(S, p)'
  <2>1. Handed(S, p)
    BY DEF CaughtUp
  <2> QED BY <1>1, <2>1 DEF Handed
<1>5. ASSUME NEW p \in Nodes, Relays(p), NEW i \in DOMAIN Inputs[p] PROVE Fed(S, p, i)'
  <2>1. PICK b, d : b = Inputs[p][i][1] /\ d = Inputs[p][i][2]
    OBVIOUS
  <2>2. b \in Nodes /\ Fed(S, p, i)
    BY <1>0, <1>5, <2>1, TopicFacts DEF CaughtUp
  <2>3. Unpublished(b, d) => Unpublished(b, d)'
    BY <1>1, <2>2 DEF Unpublished
  <2> QED BY <1>1, <2>1, <2>2, <2>3 DEF Fed
<1>6. /\ NewRecord(n).event = Event(n) /\ NewRecord(n).node = n
      /\ NewRecord(n).source = provenance_source_json(s)
  BY <1>2, <1>3, NewRecordFields
<1>7. s.kind # 0 => provenance_source_json(s) = s
  BY <1>3, ShownFacts
<1>8. ASSUME NEW r \in log', r.event = "source" PROVE Sampled(S, r)'
  <2>1. CASE r \in log
    BY <1>0, <1>8, <2>1 DEF CaughtUp, Sampled
  <2>2. CASE r = NewRecord(n)
    <3>1. Type[n] = "Sensor"
      BY <1>6, <1>8, <2>2 DEF Event
    <3>2. s.kind # 0 /\ s.kind = SourceKind[n]
      BY <1>1, <1>2, <1>3, <3>1 DEF NodesInv, Working, InHand
    <3>3. s = S[n][0]
      BY <1>2, <1>3, <3>1 DEF Channels, ChannelsIn
    <3>4. r.source = s /\ r.node = n
      BY <1>6, <1>7, <2>2, <3>2
    <3>5. s.seq <= s.seq
      BY <1>3 DEF Source
    <3> QED BY <1>0, <3>1, <3>2, <3>3, <3>4, <3>5 DEF Sampled
  <2> QED BY <1>1, <2>1, <2>2
<1>9. ASSUME NEW p \in Nodes, Type[p] = "Command" PROVE Reported(S, p)'
  <2>1. CASE p = n
    <3>1. s = S[n][0]
      BY <1>2, <1>3, <1>9, <2>1 DEF Channels, ChannelsIn
    <3>2. Event(n) = "sink" /\ NewRecord(n) \in log'
      BY <1>1, <1>9, <2>1 DEF Event
    <3> QED BY <1>6, <1>7, <2>1, <3>1, <3>2 DEF Reported
  <2>2. CASE p # n
    BY <1>1, <1>9, <2>2 DEF CaughtUp, Reported
  <2> QED BY <2>1, <2>2
<1>10. SourcesOf(S)'
  BY <1>0 DEF SourcesOf, CaughtUp
<1>11. CaughtUp(S)'
  BY <1>0, <1>1, <1>4, <1>5, <1>8, <1>9, <1>10 DEF CaughtUp, Relays
<1> QED BY <1>11 DEF CatchInv

LEMMA CatchStep ==
    ASSUME NodesInv, FlowInv, CatchInv, [Next]_vars
    PROVE  CatchInv'
<1>0. UNCHANGED Inputs /\ NodesInv' /\ Shape
  BY StepInv DEF Next, vars, NodesInv
<1>1. PICK S : CaughtUp(S)
  BY DEF CatchInv
<1>2. CASE Tick \/ UNCHANGED vars
  BY <1>0, <1>1, <1>2, CatchPassive
<1>3. ASSUME NEW n \in Nodes, SensorTimer(n) PROVE CatchInv'
  BY <1>0, <1>1, <1>3, CatchSensor
<1>4. ASSUME NEW n \in Nodes, CyclicTimer(n) \/ FusionTrigger(n) PROVE CatchInv'
  BY <1>0, <1>1, <1>4, CatchFused
<1>5. ASSUME NEW n \in Nodes, NEW i \in DOMAIN Inputs[n], Relay(n, i) PROVE CatchInv'
  BY <1>0, <1>1, <1>5, CatchRelay
<1>6. ASSUME NEW n \in Nodes, NEW i \in DOMAIN Inputs[n], FusionCache(n, i) \/ CyclicInput(n, i)
      PROVE  CatchInv'
  BY <1>0, <1>1, <1>6, CatchPassive
<1>7. ASSUME NEW n \in Nodes, CommandInput(n) PROVE CatchInv'
  <2>1. 1 \in DOMAIN Inputs[n]
    BY <1>0, <1>7, GraphFacts DEF CommandInput
  <2> QED BY <1>0, <1>1, <1>7, <2>1, CatchRelay
<1>8. ASSUME NEW n \in Nodes, Publish(n) PROVE CatchInv'
  BY <1>0, <1>1, <1>8, CatchPublish
<1>9. ASSUME NEW n \in Nodes, Emit(n) PROVE CatchInv'
  BY <1>0, <1>1, <1>9, CatchEmit
<1> QED BY <1>2, <1>3, <1>4, <1>5, <1>6, <1>7, <1>8, <1>9 DEF Next, Step

(* When nothing is under way, what was last made on a topic of P is in a sink: the readers
   on the way have higher and higher ranks. *)
LEMMA WayToSink ==
    ASSUME NodesInv, NEW S, CaughtUp(S), NEW P \in SUBSET Topics, NEW t, RelayedOver(P, t),
           \A n \in Nodes : pc[n] = "idle",
           \A n \in Nodes : \A i \in DOMAIN Inputs[n] : queue[n][i] = <<>>
    PROVE  \E n \in Nodes : Type[n] = "Command" /\ S[n][0] = S[t[1]][t[2]]
<1>0. Shape /\ Capacity \in Nat /\ IsRank(Rank, Inputs)
  <2>1. Shape /\ IsRank(Rank, Inputs)
    BY RankFacts DEF NodesInv
  <2> QED BY <2>1, CapacityAssumption
<1>1. ASSUME NEW u \in P
      PROVE  u[1] \in Nodes /\ u[2] \in Channels(u[1]) /\ u = <<u[1], u[2]>>
  BY DEF Topics
<1>2. ASSUME NEW u \in P, Type[u[1]] # "Command"
      PROVE  \E w \in P : S[w[1]][w[2]] = S[u[1]][u[2]] /\ Rank[u[1]] < Rank[w[1]]
  <2>1. PICK n \in Nodes : Relays(n) /\ \E i \in DOMAIN Inputs[n] :
            Inputs[n][i] = u /\ <<n, ChannelOf(n, i)>> \in P
    BY <1>2 DEF RelayedOver
  <2>2. PICK i \in DOMAIN Inputs[n] : Inputs[n][i] = u /\ <<n, ChannelOf(n, i)>> \in P
    BY <2>1
  <2>3. Fed(S, n, i) /\ queue[n][i] = <<>> /\ pc[u[1]] = "idle"
    BY <1>1, <2>1, <2>2 DEF CaughtUp
  <2>4. S[n][ChannelOf(n, i)] = S[u[1]][u[2]]
    BY <1>2, <2>2, <2>3 DEF Fed, UpToDate, Unpublished
  <2>5. Rank[u[1]] < Rank[n]
    BY <1>0, <2>2, TopicFacts
  <2> QED BY <2>2, <2>4, <2>5
<1>3. DEFINE InSink(u) == \E n \in Nodes : Type[n] = "Command" /\ S[n][0] = S[u[1]][u[2]]
             T == {k \in Nat : \A u \in P : Capacity <= Rank[u[1]] + k => InSink(u)}
<1>4. ASSUME NEW u \in P, Type[u[1]] = "Command" PROVE InSink(u)
  <2>1. u[2] = 0
    BY <1>1, <1>4 DEF Channels, ChannelsIn
  <2> QED BY <1>1, <1>4, <2>1
<1>5. \A u \in P : Rank[u[1]] \in Nat /\ Rank[u[1]] <= Capacity
  BY <1>0, <1>1 DEF IsRank, Nodes
<1> HIDE DEF InSink
<1>6. 0 \in T
  <2>1. ASSUME NEW u \in P, Capacity <= Rank[u[1]] + 0, Type[u[1]] # "Command" PROVE FALSE
    <3>1. PICK w \in P : Rank[u[1]] < Rank[w[1]]
      BY <1>2, <2>1
    <3> QED BY <1>0, <1>5, <2>1, <3>1
  <2> QED BY <1>4, <2>1
<1>7. ASSUME NEW k \in Nat, k \in T PROVE k + 1 \in T
  <2>1. ASSUME NEW u \in P, Capacity <= Rank[u[1]] + (k + 1) PROVE InSink(u)
    <3>1. CASE Type[u[1]] # "Command"
      <4>1. PICK w \in P : S[w[1]][w[2]] = S[u[1]][u[2]] /\ Rank[u[1]] < Rank[w[1]]
        BY <1>2, <3>1
      <4>2. Capacity <= Rank[w[1]] + k
        BY <1>0, <1>5, <2>1, <4>1
      <4>3. InSink(w)
        BY <1>7, <4>2
      <4> QED BY <4>1, <4>3 DEF InSink
    <3> QED BY <1>4, <3>1
  <2> QED BY <2>1
<1>8. Nat \subseteq T
  BY <1>6, <1>7, NatSetInduction
<1>9. Capacity \in T /\ t \in P
  BY <1>0, <1>8 DEF RelayedOver
<1>10. Capacity <= Rank[t[1]] + Capacity
  BY <1>0, <1>5, <1>9
<1> QED BY <1>9, <1>10 DEF InSink

LEMMA Reaches ==
    ASSUME NodesInv, CatchInv
    PROVE  SinkCatchesUp
<1>1. SUFFICES ASSUME \A n \in Nodes : pc[n] = "idle",
                      \A n \in Nodes : \A i \in DOMAIN Inputs[n] : queue[n][i] = <<>>,
                      NEW s \in log, s.event = "source",
                      NEW P \in SUBSET Topics, RelayedOver(P, <<s.node, 0>>)
               PROVE  \E r \in log : r.event = "sink" /\ r.source.kind = s.source.kind
                                     /\ r.source.seq >= s.source.seq
  BY DEF SinkCatchesUp
<1>2. PICK S : CaughtUp(S)
  BY DEF CatchInv
<1>3. Sampled(S, s) /\ SourcesOf(S) /\ RecordTrue(s)
  BY <1>1, <1>2 DEF CaughtUp, NodesInv, Recorded
<1>4. PICK n \in Nodes : Type[n] = "Command" /\ S[n][0] = S[s.node][0]
  <2>1. PICK t : t = <<s.node, 0>>
    OBVIOUS
  <2>2. t[1] = s.node /\ t[2] = 0
    BY <2>1
  <2>3. \E n \in Nodes : Type[n] = "Command" /\ S[n][0] = S[t[1]][t[2]]
    BY <1>1, <1>2, <2>1, WayToSink
  <2> QED BY <2>2, <2>3
<1>5. S[n][0].kind # 0 /\ Reported(S, n)
  BY <1>2, <1>3, <1>4 DEF Sampled, CaughtUp
<1>6. PICK r \in log : r.event = "sink" /\ r.source = S[n][0]
  BY <1>1, <1>5 DEF Reported
<1>7. r.source.kind = s.source.kind /\ s.source.seq <= r.source.seq
  BY <1>3, <1>4, <1>6 DEF Sampled
<1>8. r.source.seq \in Nat /\ s.source.seq \in Nat
  <2>1. s.source \in Source
    BY <1>3 DEF RecordTrue
  <2>2. S[n][0] \in Source
    BY <1>3 DEF SourcesOf
  <2> QED BY <1>6, <2>1, <2>2 DEF Source
<1> QED BY <1>6, <1>7, <1>8

(* For every system of nodes, however their callbacks interleave and whatever the queues of
   depth 1 lose: once everything delivered has been processed, a sink has recorded the last
   sample of every sensor from which Transforms and Intersections lead to one
   (transform.hpp:58-79, intersection.hpp:61-91, command.hpp:58-100). *)
THEOREM SinksCatchUp == Spec => []SinkCatchesUp
<1>1. Init => CatchInv
  BY CatchInit
<1>2. NodesInv /\ FlowInv /\ CatchInv /\ [Next]_vars => CatchInv'
  BY CatchStep
<1>3. NodesInv /\ CatchInv => SinkCatchesUp
  BY Reaches
<1> QED BY <1>1, <1>2, <1>3, FlowInvariant, PTL DEF Spec
=============================================================================
