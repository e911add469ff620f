--------------------------- MODULE ReferenceNodes ---------------------------
(***************************************************************************)
(* The nodes of the reference system (Sensor, Transform, Fusion, Cyclic,   *)
(* Intersection, Command) joined by topics, with the history and the       *)
(* provenance of every message and the provenance records they write.      *)
(*                                                                         *)
(* A topic is the pair of the node that publishes it and its channel. The  *)
(* callbacks of one node form one mutually exclusive group (module         *)
(* Executor), so a node runs one at a time; callbacks of different nodes   *)
(* interleave between taking a message, publishing and writing a record.   *)
(***************************************************************************)
EXTENDS SampleManagement

CONSTANTS
    AllNodes,       \* the nodes of all graphs
    Type,           \* AllNodes -> Types
    SourceKind,     \* AllNodes -> Nat, SensorSettings::source_kind
    Graphs,         \* the systems that may be built: each maps its nodes to their
                    \* inputs, a sequence of topics <<publisher, channel>>
    None,
    MaxTime,        \* bound: CLOCK_MONOTONIC values
    MaxFires        \* bound: AllNodes -> Nat, expiries of each timer

Types == {"Sensor", "Transform", "Fusion", "Cyclic", "Intersection", "Command"}

(* The output channels of a node; an Intersection has one per connection. *)
ChannelsIn(g, n) == IF Type[n] = "Intersection" THEN 0 .. Len(g[n]) - 1 ELSE {0}

(* The topics form no cycle, and a history has room for every node. *)
Layered(g) ==
    \E rank \in [DOMAIN g -> 1 .. Capacity] :
        /\ \A n, p \in DOMAIN g : rank[n] = rank[p] => n = p
        /\ \A n \in DOMAIN g : \A i \in DOMAIN g[n] : rank[g[n][i][1]] < rank[n]

ASSUME NodesAssumption ==
    /\ Type \in [AllNodes -> Types]
    /\ SourceKind \in [AllNodes -> Nat]
    /\ \A n \in AllNodes : SourceKind[n] # 0 => Type[n] = "Sensor"
    /\ \A g \in Graphs :
          /\ DOMAIN g \subseteq AllNodes
          /\ Layered(g)
          /\ \A n \in DOMAIN g :
                /\ g[n] \in Seq(AllNodes \X Nat)
                /\ \A i \in DOMAIN g[n] :
                      g[n][i][1] \in DOMAIN g /\ g[n][i][2] \in ChannelsIn(g, g[n][i][1])
                /\ Type[n] = "Fusion" => Len(g[n]) = 2
                /\ Type[n] \in {"Transform", "Command"} => Len(g[n]) = 1
    /\ MaxTime \in Nat
    /\ MaxFires \in [AllNodes -> Nat]

VARIABLES
    Inputs,     \* the system that was built; no step changes it
    clock,      \* CLOCK_MONOTONIC
    queue,      \* what each subscription of each node holds
    cache,      \* subscription_t::cache of Fusion and Cyclic, None if unset
    next_seq,   \* sequence_number_, per channel (Command: sink_sequence_number_)
    in_seq,     \* input_sequence_number_, per subscription
    pc,         \* what the node's running callback does next
    work,       \* its output message and the inputs its link will name
    fires,      \* expiries so far of the node's timer
    log,        \* the provenance records written
    used,       \* history: messages of each subscription processed
    counted     \* history: drops reported for each subscription

vars == <<Inputs, clock, queue, cache, next_seq, in_seq, pc, work, fires, log, used, counted>>

Nodes == DOMAIN Inputs
Channels(n) == ChannelsIn(Inputs, n)

Source == [kind : Nat, seq : Nat, t : Nat]
IdentityOf(m) == [node |-> m.node, seq |-> m.seq, channel |-> m.channel]

(* Subscriptions are created with KEEP_LAST depth 1, Command's with 10. *)
Depth(n) == IF Type[n] = "Command" THEN 10 ELSE 1

TypeOK ==
    /\ Inputs \in Graphs
    /\ clock \in 0 .. MaxTime
    /\ \A n \in Nodes :
          /\ \A i \in DOMAIN Inputs[n] :
                /\ Len(queue[n][i]) <= Depth(n)
                /\ \A k \in DOMAIN queue[n][i] :
                      <<queue[n][i][k].node, queue[n][i][k].channel>> = Inputs[n][i]
                /\ cache[n][i] # None =>
                      <<cache[n][i].node, cache[n][i].channel>> = Inputs[n][i]
          /\ next_seq[n] \in [Channels(n) -> Nat]
          /\ in_seq[n] \in [DOMAIN Inputs[n] -> Nat]
          /\ pc[n] \in {"idle", "publish", "emit"}
          /\ IF pc[n] = "idle" THEN work[n] = None ELSE work[n].msg.source \in Source
          /\ fires[n] \in 0 .. MaxFires[n]

Init ==
    /\ Inputs \in Graphs
    /\ clock = 0
    /\ queue = [n \in Nodes |-> [i \in DOMAIN Inputs[n] |-> <<>>]]
    /\ cache = [n \in Nodes |-> [i \in DOMAIN Inputs[n] |-> None]]
    /\ next_seq = [n \in Nodes |-> [c \in Channels(n) |-> 0]]
    /\ in_seq = [n \in Nodes |-> [i \in DOMAIN Inputs[n] |-> 0]]
    /\ pc = [n \in Nodes |-> "idle"]
    /\ work = [n \in Nodes |-> None]
    /\ fires = [n \in Nodes |-> 0]
    /\ log = {}
    /\ used = [n \in Nodes |-> [i \in DOMAIN Inputs[n] |-> 0]]
    /\ counted = [n \in Nodes |-> [i \in DOMAIN Inputs[n] |-> 0]]

(* CLOCK_MONOTONIC never goes back. *)
Tick ==
    /\ clock < MaxTime
    /\ clock' = clock + 1
    /\ UNCHANGED <<queue, cache, next_seq, in_seq, pc, work, fires, log, used, counted>>

-----------------------------------------------------------------------------
(* A callback of n may start: all callbacks of a node are in its default callback *)
(* group, which is mutually exclusive and is free now (module Executor).          *)
MayStart_FusionReentrant(n) == pc[n] = "idle" \/ Type[n] = "Fusion"
MayStart(n) == pc[n] = "idle"

(* A Sensor writes its source record before it publishes, the other nodes *)
(* publish before they write their link.                                  *)
EmitsFirst(n) == Type[n] = "Sensor"

FirstStep(n) ==
    IF Type[n] = "Command" \/ (EmitsFirst(n) /\ SourceKind[n] # 0) THEN "emit" ELSE "publish"
AfterPublish(n) == IF EmitsFirst(n) THEN "idle" ELSE "emit"
AfterEmit_NotPublished(n) == "idle"
AfterEmit(n) == IF EmitsFirst(n) THEN "publish" ELSE "idle"

(* The number of the next output on channel c of n is drawn. *)
Draw(n, c) == next_seq' = [next_seq EXCEPT ![n][c] = @ + 1]

Entry(n, c, missed) ==
    [node |-> n, seq |-> next_seq[n][c], t |-> clock, dropped |-> missed]

(* The node's own entry goes to the end of the merged histories of its inputs. *)
Stamped(h, e) == set_sample(h, e)

Message(n, c, h, source) ==
    [history |-> h, node |-> n, seq |-> next_seq[n][c], channel |-> c, source |-> source]

(* The callback of n goes on with its output message m and input identities. *)
Start(n, m, inputs) ==
    /\ pc' = [pc EXCEPT ![n] = FirstStep(n)]
    /\ work' = [work EXCEPT ![n] = [msg |-> m, inputs |-> inputs]]

(* get_missed_samples_and_update_seq_nr for the messages ms of some inputs. *)
Missed(n, i, m) == missed_samples(m.history, in_seq[n][i])

Account(n, ms) ==
    LET own(m) == get_sample_sequence_number(m.history)
        new(i) == used[n][i] = 0 \/ own(ms[i]) # in_seq[n][i]
    IN  /\ in_seq' = [in_seq EXCEPT ![n] = [i \in DOMAIN @ |->
                        IF i \in DOMAIN ms THEN own(ms[i]) ELSE @[i]]]
        /\ used' = [used EXCEPT ![n] = [i \in DOMAIN @ |->
                        IF i \in DOMAIN ms /\ new(i) THEN @[i] + 1 ELSE @[i]]]
        /\ counted' = [counted EXCEPT ![n] = [i \in DOMAIN @ |->
                        IF i \in DOMAIN ms THEN @[i] + Missed(n, i, ms[i]) ELSE @[i]]]

Take(n, i) ==
    /\ queue[n][i] # <<>>
    /\ queue' = [queue EXCEPT ![n][i] = Tail(@)]

(* The message that was taken replaces the one its subscription had cached. *)
Cache(n, i) == cache' = [cache EXCEPT ![n][i] = Head(queue[n][i])]

-----------------------------------------------------------------------------
(* Sensor::timer_callback up to the source record. *)
SensorTimer(n) ==
    /\ Type[n] = "Sensor"
    /\ MayStart(n)
    /\ fires[n] < MaxFires[n]
    /\ fires' = [fires EXCEPT ![n] = @ + 1]
    /\ Draw(n, 0)
    /\ Start(n, Message(n, 0, Stamped(<<>>, Entry(n, 0, 0)),
                        [kind |-> SourceKind[n], seq |-> next_seq[n][0], t |-> clock]), <<>>)
    /\ UNCHANGED <<clock, queue, cache, in_seq, log, used, counted>>

(* The channel on which an input is passed on. *)
ChannelOf(n, i) == IF Type[n] = "Intersection" THEN i - 1 ELSE 0

(* Transform::input_callback, and Intersection::input_callback for the *)
(* connection of input i, up to publish().                             *)
Relay(n, i) ==
    /\ Type[n] \in {"Transform", "Intersection"}
    /\ MayStart(n)
    /\ Take(n, i)
    /\ LET m == Head(queue[n][i])
           c == ChannelOf(n, i)
           h == merge_history_into_sample(<<>>, m.history)
       IN  /\ Account(n, [k \in {i} |-> m])
           /\ Draw(n, c)
           /\ Start(n, Message(n, c, Stamped(h, Entry(n, c, Missed(n, i, m))), m.source),
                    <<IdentityOf(m)>>)
    /\ UNCHANGED <<clock, cache, fires, log>>

(* Fusion::input_callback where nothing is fused: the second input is only   *)
(* cached, and the first too as long as the second has never been received. *)
FusionCache(n, i) ==
    /\ Type[n] = "Fusion"
    /\ MayStart(n)
    /\ i = 2 \/ cache[n][2] = None
    /\ Take(n, i)
    /\ Cache(n, i)
    /\ UNCHANGED <<clock, next_seq, in_seq, pc, work, fires, log, used, counted>>

(* Fusion::input_callback for the first input with both caches set. The caches *)
(* are kept: the second input's message may be fused again.                    *)
FusionTrigger(n) ==
    /\ Type[n] = "Fusion"
    /\ MayStart(n)
    /\ cache[n][2] # None
    /\ Take(n, 1)
    /\ Cache(n, 1)
    /\ LET ms == <<Head(queue[n][1]), cache[n][2]>>
           h == merge_history_into_sample(
                    merge_history_into_sample(<<>>, ms[1].history), ms[2].history)
           missed == Missed(n, 1, ms[1]) + Missed(n, 2, ms[2])
       IN  /\ Account(n, ms)
           /\ Draw(n, 0)
           /\ \E source \in oldest_provenance_source(<<ms[1].source, ms[2].source>>) :
                 Start(n, Message(n, 0, Stamped(h, Entry(n, 0, missed)), source), <<>>)
    /\ UNCHANGED <<clock, fires, log>>

(* Cyclic::input_callback. *)
CyclicInput(n, i) ==
    /\ Type[n] = "Cyclic"
    /\ MayStart(n)
    /\ Take(n, i)
    /\ Cache(n, i)
    /\ UNCHANGED <<clock, next_seq, in_seq, pc, work, fires, log, used, counted>>

(* Cyclic::timer_callback up to publish(): whatever is cached is merged and *)
(* the caches are reset; it publishes even when nothing was received.       *)
Reset(n) == cache' = [cache EXCEPT ![n] = [i \in DOMAIN @ |-> None]]

(* Its output's history and drops: of the messages that are cached. *)
MergeCached(h, m) == IF m = None THEN h ELSE merge_history_into_sample(h, m.history)
MergedHistory(ms) == FoldLeft(MergeCached, <<>>, ms)
MissedOf(n, cached) == FoldFunction(+, 0, [i \in DOMAIN cached |-> Missed(n, i, cached[i])])

CyclicTimer(n) ==
    /\ Type[n] = "Cyclic"
    /\ MayStart(n)
    /\ fires[n] < MaxFires[n]
    /\ fires' = [fires EXCEPT ![n] = @ + 1]
    /\ LET cached == [i \in {k \in DOMAIN cache[n] : cache[n][k] # None} |-> cache[n][i]]
           h == MergedHistory(cache[n])
       IN  /\ Account(n, cached)
           /\ Draw(n, 0)
           /\ \E source \in oldest_provenance_source([i \in DOMAIN cached |-> cached[i].source]) :
                 Start(n, Message(n, 0, Stamped(h, Entry(n, 0, MissedOf(n, cached))), source),
                       [i \in DOMAIN cached |-> IdentityOf(cached[i])])
    /\ Reset(n)
    /\ UNCHANGED <<clock, queue, log>>

(* Command::input_callback up to the sink record. *)
CommandInput(n) ==
    /\ Type[n] = "Command"
    /\ MayStart(n)
    /\ Take(n, 1)
    /\ LET m == Head(queue[n][1])
       IN  /\ Account(n, <<m>>)
           /\ Draw(n, 0)
           /\ Start(n, Message(n, 0, <<>>, m.source), <<IdentityOf(m)>>)
    /\ UNCHANGED <<clock, cache, fires, log>>

-----------------------------------------------------------------------------
(* KEEP_LAST: a full subscription queue loses its oldest message. *)
KeepLast(q, d) == IF Len(q) > d THEN Tail(q) ELSE q

(* publish() delivers the message to every subscription of the topic. *)
Publish(n) ==
    /\ pc[n] = "publish"
    /\ LET m == work[n].msg
       IN  queue' = [s \in Nodes |-> [i \in DOMAIN Inputs[s] |->
                        IF Inputs[s][i] = <<n, m.channel>>
                        THEN KeepLast(Append(queue[s][i], m), Depth(s))
                        ELSE queue[s][i]]]
    /\ pc' = [pc EXCEPT ![n] = AfterPublish(n)]
    /\ work' = [work EXCEPT ![n] = IF AfterPublish(n) = "idle" THEN None ELSE @]
    /\ UNCHANGED <<clock, cache, next_seq, in_seq, fires, log, used, counted>>

(* A Fusion names its inputs from its caches, read again after publish(). *)
LinkInputs(n) ==
    IF Type[n] = "Fusion" THEN [i \in DOMAIN cache[n] |-> IdentityOf(cache[n][i])]
    ELSE work[n].inputs

(* The output number a link names. *)
OutputSequence_Next(n) == work[n].msg.seq + 1
OutputSequence(n) == work[n].msg.seq

Event(n) == IF Type[n] = "Sensor" THEN "source" ELSE IF Type[n] = "Command" THEN "sink" ELSE "link"

(* emit_provenance_source, emit_provenance_link and emit_provenance_sink. A *)
(* source record carries the timestamp of the sample, the others read the   *)
(* clock again.                                                             *)
Emit(n) ==
    /\ pc[n] = "emit"
    /\ log' = log \cup
          {[event |-> Event(n), node |-> n, seq |-> OutputSequence(n),
            channel |-> work[n].msg.channel, inputs |-> LinkInputs(n),
            source |-> provenance_source_json(work[n].msg.source),
            t |-> IF Type[n] = "Sensor" THEN work[n].msg.source.t ELSE clock]}
    /\ pc' = [pc EXCEPT ![n] = AfterEmit(n)]
    /\ work' = [work EXCEPT ![n] = IF AfterEmit(n) = "idle" THEN None ELSE @]
    /\ UNCHANGED <<clock, queue, cache, next_seq, in_seq, fires, used, counted>>

(* A callback of n for one of its inputs, or the rest of one that has started. *)
Step(n) ==
    \/ \E i \in DOMAIN Inputs[n] : Relay(n, i) \/ FusionCache(n, i) \/ CyclicInput(n, i)
    \/ FusionTrigger(n)
    \/ CommandInput(n)
    \/ Publish(n)
    \/ Emit(n)

Next ==
    /\ UNCHANGED Inputs
    /\ \/ Tick
       \/ \E n \in Nodes : SensorTimer(n) \/ CyclicTimer(n) \/ Step(n)

Spec == Init /\ [][Next]_vars

-----------------------------------------------------------------------------
(* Where a message can be between the callback that makes it and the last one *)
(* that uses it.                                                              *)
HeldBy(n, i) == {queue[n][i][k] : k \in DOMAIN queue[n][i]} \cup ({cache[n][i]} \ {None})

InTransit == UNION {UNION {HeldBy(n, i) : i \in DOMAIN Inputs[n]} : n \in Nodes}

(* Whatever link or sink record names a sensor sample, the source record of that *)
(* sample is already in the output: a reader never meets a latency whose start   *)
(* it has not seen, although sensors and the other nodes write concurrently.     *)
SourceRecordedFirst ==
    \A r \in log : r.source.kind # 0 =>
        \E s \in log : s.event = "source" /\ s.source = r.source /\ s.t <= r.t

(* The record that introduced the message id, if it is written. *)
RecordsOf(id) ==
    {r \in log : r.event \in {"source", "link"} /\ r.node = id.node /\ r.seq = id.seq
                 /\ r.channel = id.channel}

(* The records form a connected graph: every input that a record names has one *)
(* record of its own, except while its node is between publish() and the link, *)
(* or if it comes from a sensor without a source kind.                         *)
Traceable ==
    \A r \in log : \A k \in DOMAIN r.inputs :
        LET id == r.inputs[k]
        IN  \/ \E s \in RecordsOf(id) : RecordsOf(id) = {s}
            \/ pc[id.node] = "emit" /\ IdentityOf(work[id.node].msg) = id
            \/ Type[id.node] = "Sensor" /\ SourceKind[id.node] = 0

(* Every sample that a record names can be followed back: its source is one that a sensor
   has recorded before, and so is every message on the way
   (sensor.hpp:82-84, transform.hpp:75-79). *)
SamplesTraceable == SourceRecordedFirst /\ Traceable

(* The source a record names is the oldest one among the sources that the     *)
(* records of its own inputs name: the end-to-end chain that is read off the  *)
(* records agrees with the one carried in the messages. It needs that a node's *)
(* callbacks exclude each other, because Fusion reads its caches twice.       *)
SourceInherited ==
    \A r \in log :
        LET known == UNION {RecordsOf(r.inputs[k]) : k \in DOMAIN r.inputs}
            valid == {s \in known : s.source.kind # 0}
        IN  /\ r.event # "source"
            /\ \A k \in DOMAIN r.inputs : RecordsOf(r.inputs[k]) # {}
            => IF valid = {} THEN r.source = NoSource
               ELSE /\ r.source \in {s.source : s \in valid}
                    /\ \A s \in valid : r.source.t <= s.source.t

(* The last entry of a message's history is its publisher's, with the output's *)
(* own number: get_sample_sequence_number counts on it.                        *)
HistoryEndsWithPublisher ==
    \A m \in InTransit :
        LET e == m.history[Len(m.history)] IN e.node = m.node /\ e.seq = m.seq

(* The latency measured from a message's source is never too small: no sensor *)
(* sample in its history, which keeps the newest one of each sensor, is older. *)
LatencyNotUnderestimated ==
    \A m \in InTransit : \A k \in DOMAIN m.history :
        SourceKind[m.history[k].node] # 0 => m.source.kind # 0 /\ m.source.t <= m.history[k].t

(* dropped_samples adds up: what a subscription processed and what it reported *)
(* as dropped are the messages published up to the last one processed, but for *)
(* the very first, whose loss get_missed_samples_and_update_seq_nr cannot see. *)
DropAccounting ==
    \A n \in Nodes : \A i \in DOMAIN Inputs[n] : used[n][i] > 0 =>
        used[n][i] + counted[n][i] \in {in_seq[n][i], in_seq[n][i] + 1}

(* The sources of a sink's successive records never go back in time, provided *)
(* no Cyclic forgets an input in between.                                     *)
SinkMovesForward ==
    (\A n \in Nodes : Type[n] # "Cyclic") => \A r, s \in log :
        r.event = "sink" /\ s.event = "sink" /\ r.node = s.node /\ r.seq < s.seq
        => r.source.t <= s.source.t

(* A message's history ends with the node that published it, whose number of it the drop
   counts rely on; the latency that a sink reports is never less than the age of any input
   its sample was made of, and no sink reports a source older than one it has reported,
   provided no Cyclic forgets an input in between (sample_management.hpp:443-526,
   provenance.hpp:56-66, command.hpp:58-100). *)
LatencySound == TypeOK /\ HistoryEndsWithPublisher /\ LatencyNotUnderestimated /\ SinkMovesForward

(* The node makes one output of every message. *)
Relays(n) == Type[n] \in {"Transform", "Intersection", "Command"}

(* What is sent on topic is relayed, over topics of P, until it is in a sink. *)
RelayedOver(P, topic) ==
    /\ topic \in P
    /\ \A t \in P : Type[t[1]] = "Command" \/
          \E n \in Nodes : Relays(n) /\ \E i \in DOMAIN Inputs[n] :
              Inputs[n][i] = t /\ <<n, ChannelOf(n, i)>> \in P

Topics == UNION {{n} \X Channels(n) : n \in Nodes}

(* When everything delivered has been processed, the last sample of every sensor   *)
(* that has a way to a sink over Transforms and Intersections has reached one,     *)
(* although the queues in between keep only one message. A Fusion or Cyclic on all *)
(* ways may wait for its other input or for its timer instead.                     *)
SinkCatchesUp ==
    /\ \A n \in Nodes : pc[n] = "idle"
    /\ \A n \in Nodes : \A i \in DOMAIN Inputs[n] : queue[n][i] = <<>>
    => \A s \in log : s.event = "source" /\ (\E P \in SUBSET Topics : RelayedOver(P, <<s.node, 0>>)) =>
          \E r \in log : r.event = "sink" /\ r.source.kind = s.source.kind
                         /\ r.source.seq >= s.source.seq

(* "Transform nodes should not drop messages though, and these should be counted": *)
(* all messages before the last one processed are processed or counted.            *)
TransformDropsCounted ==
    \A n \in Nodes : \A i \in DOMAIN Inputs[n] : Type[n] = "Transform" /\ used[n][i] > 0 =>
        used[n][i] + counted[n][i] = in_seq[n][i] + 1
=============================================================================
