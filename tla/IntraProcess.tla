----------------------------- MODULE IntraProcess -----------------------------
(***************************************************************************)
(* Intra-process communication: Publisher::publish, IntraProcessManager,   *)
(* the buffers of SubscriptionIntraProcess and the executor thread that    *)
(* takes from them, beside the inter-process path through the middleware   *)
(* that delivers a second copy of a message to the same process.           *)
(*                                                                         *)
(* A message object is <<message, name>>: the object the publisher passed  *)
(* is "original", every copy has a name of its own.  The publishers and    *)
(* subscriptions are on one topic; the ring buffer of a subscription is    *)
(* the bounded queue that RingBuffer implements.                           *)
(***************************************************************************)
EXTENDS CallbackDispatch, FiniteSets, Sequences, FiniteSetsExt

CONSTANTS
    Publishers, Subscriptions,
    UseIntraProcess,    \* the subscriptions whose setting resolves to intra-process
    Callback,           \* Subscriptions -> CallbackTypes(FALSE)
    BufferType,         \* Subscriptions -> the intra_process_buffer_type option
    can_communicate,    \* Publishers \X Subscriptions -> BOOLEAN: topic and QoS match
    Depth,              \* QoS history depth
    Remotes,            \* subscriptions of other processes
    DiscoveryLag,       \* the graph may not yet know a new local subscription
    PublishersDie,      \* a publisher may be destroyed while its messages travel
    MaxMessages         \* bound: messages per publisher

(* What the instance has to satisfy. *)
Assumption ==
    /\ Callback \in [Subscriptions -> CallbackTypes(FALSE)]
    /\ BufferType \in [Subscriptions -> {"CallbackDefault", "SharedPtr", "UniquePtr"}]
    /\ UseIntraProcess \subseteq Subscriptions
    /\ can_communicate \in [Publishers \X Subscriptions -> BOOLEAN]
    /\ Depth \in Nat \ {0}

VARIABLES
    publishers,     \* IntraProcessManager::publishers_
    subscriptions,  \* IntraProcessManager::subscriptions_
    pub_to_subs,    \* pub -> the two lists of SplittedSubscriptions
    buffer,         \* subscription -> queue of message objects
    gc,             \* subscription -> its guard condition is triggered
    sent,           \* publisher -> messages published so far
    phase,          \* publisher -> where it is in publish()
    todo,           \* publisher -> what it still has to provide: {<<sub, object>>}
    triggering,     \* publisher -> the subscription it has provided for and not yet triggered
    inter,          \* publisher -> it decided to publish inter-process too
    shared_msg,     \* publisher -> the object it keeps for the middleware, if any
    pc,             \* subscription -> where the executor is with it
    taken,          \* subscription -> the object taken from the buffer
    network,        \* reader -> messages the middleware holds for it
    known,          \* the subscriptions of this and of other processes the graph knows of
    delivered,      \* reader -> messages its callback has run for
    thrown          \* subscriptions whose dispatch threw out of the executor

manager == <<publishers, subscriptions, pub_to_subs>>
publishing == <<sent, phase, todo, triggering, inter, shared_msg>>
taking == <<pc, taken>>
received == <<delivered, thrown>>
vars == <<manager, publishing, taking, buffer, gc, network, known, received>>

Nothing == <<>>
Readers == Subscriptions \cup Remotes

Init ==
    /\ publishers = {} /\ subscriptions = {}
    /\ pub_to_subs = [p \in Publishers |-> [take_shared |-> {}, take_ownership |-> {}]]
    /\ buffer = [s \in Subscriptions |-> <<>>]
    /\ gc = [s \in Subscriptions |-> FALSE]
    /\ sent = [p \in Publishers |-> 0]
    /\ phase = [p \in Publishers |-> "idle"]
    /\ todo = [p \in Publishers |-> {}]
    /\ triggering = [p \in Publishers |-> {}]
    /\ inter = [p \in Publishers |-> FALSE]
    /\ shared_msg = [p \in Publishers |-> Nothing]
    /\ pc = [s \in Subscriptions |-> "wait"]
    /\ taken = [s \in Subscriptions |-> Nothing]
    /\ network = [r \in Readers |-> <<>>]
    /\ known \in SUBSET Remotes
    /\ delivered = [r \in Readers |-> <<>>]
    /\ thrown = {}

-----------------------------------------------------------------------------
(* resolve_intra_process_buffer_type and create_intra_process_buffer. *)
SharedBuffer(s) ==
    IF BufferType[s] = "CallbackDefault" THEN use_take_shared_method(Callback[s], FALSE)
    ELSE BufferType[s] = "SharedPtr"

(* insert_sub_id_for_pub. *)
Insert(splitted, s) ==
    IF SharedBuffer(s) THEN [splitted EXCEPT !.take_shared = @ \cup {s}]
    ELSE [splitted EXCEPT !.take_ownership = @ \cup {s}]

SplittedFor(S) == [take_shared |-> {s \in S : SharedBuffer(s)},
                   take_ownership |-> {s \in S : ~SharedBuffer(s)}]

(* publishers hold mutex_ shared from the lookup to the last buffer; the manager
   is changed under the exclusive lock. *)
Unlocked == \A p \in Publishers : phase[p] # "providing"

add_publisher(p) ==
    /\ p \notin publishers /\ phase[p] = "idle" /\ sent[p] = 0
    /\ Unlocked
    /\ publishers' = publishers \cup {p}
    /\ pub_to_subs' = [pub_to_subs EXCEPT ![p] =
                         SplittedFor({s \in subscriptions : can_communicate[p, s]})]
    /\ UNCHANGED <<subscriptions, publishing, taking, buffer, gc, network, known, received>>

remove_publisher(p) ==
    /\ PublishersDie
    /\ p \in publishers /\ phase[p] = "idle" /\ sent[p] > 0
    /\ Unlocked
    /\ publishers' = publishers \ {p}
    /\ pub_to_subs' = [pub_to_subs EXCEPT ![p] = SplittedFor({})]
    /\ UNCHANGED <<subscriptions, publishing, taking, buffer, gc, network, known, received>>

(* The constructor of an intra-process Subscription. *)
add_subscription(s) ==
    /\ s \in UseIntraProcess \ subscriptions
    /\ Unlocked
    /\ subscriptions' = subscriptions \cup {s}
    /\ pub_to_subs' = [p \in Publishers |->
                         IF p \in publishers /\ can_communicate[p, s]
                         THEN Insert(pub_to_subs[p], s) ELSE pub_to_subs[p]]
    /\ known' = IF DiscoveryLag THEN known ELSE known \cup {s}
    /\ UNCHANGED <<publishers, publishing, taking, buffer, gc, network, received>>

(* The graph learns of a subscription. *)
Discover(s) ==
    /\ s \in (subscriptions \cup (Subscriptions \ UseIntraProcess)) \ known
    /\ known' = known \cup {s}
    /\ UNCHANGED <<manager, publishing, taking, buffer, gc, network, received>>

(* ~SubscriptionBase, before the intra-process waitable goes away. *)
remove_subscription(s) ==
    /\ s \in subscriptions /\ pc[s] = "wait"
    /\ Unlocked
    /\ subscriptions' = subscriptions \ {s}
    /\ pub_to_subs' = [p \in Publishers |->
                         [take_shared |-> pub_to_subs[p].take_shared \ {s},
                          take_ownership |-> pub_to_subs[p].take_ownership \ {s}]]
    /\ known' = known \ {s}
    /\ buffer' = [buffer EXCEPT ![s] = <<>>]
    /\ gc' = [gc EXCEPT ![s] = FALSE]
    /\ network' = [network EXCEPT ![s] = <<>>]
    /\ UNCHANGED <<publishers, publishing, taking, received>>

-----------------------------------------------------------------------------
(* Publisher::publish. *)
Current(p) == <<p, sent[p]>>
IntraCount(p) == Cardinality(pub_to_subs[p].take_shared \cup pub_to_subs[p].take_ownership)
Matched(p) == {r \in known : r \in Remotes \/ can_communicate[p, r]}

(* publish(): somebody is matched whom the manager does not know. *)
inter_process_publish_needed(p) == Cardinality(Matched(p)) > IntraCount(p)

publish(p) ==
    /\ p \in publishers /\ phase[p] = "idle" /\ sent[p] < MaxMessages
    /\ sent' = [sent EXCEPT ![p] = @ + 1]
    /\ inter' = [inter EXCEPT ![p] = inter_process_publish_needed(p)]
    /\ phase' = [phase EXCEPT ![p] = "splitting"]
    /\ UNCHANGED <<manager, taking, buffer, gc, todo, triggering, shared_msg, network, known, received>>

Original(m) == <<m, <<"original">>>>
Copy(m, name) == <<m, name>>

(* Every subscription gets a copy, but the last, which gets the message itself. *)
add_owned_msg_to_buffers(m, S, last) ==
    {<<s, IF s = last THEN Original(m) ELSE Copy(m, <<"for", s>>)>> : s \in S}

add_shared_msg_to_buffers(o, S) == {<<s, o>> : s \in S}

Lasts(S) == IF S = {} THEN {Nothing} ELSE S

(* do_intra_process_publish: no copy for shared subscriptions alone; one list for
   owners and at most one shared subscription; otherwise one shared copy. *)
do_intra_process_publish(p, m) ==
    LET sh == pub_to_subs[p].take_shared
        ow == pub_to_subs[p].take_ownership
    IN /\ \E last \in Lasts(ow) :
            todo' = [todo EXCEPT ![p] =
               IF ow = {} THEN add_shared_msg_to_buffers(Original(m), sh)
               ELSE IF Cardinality(sh) <= 1 THEN add_owned_msg_to_buffers(m, sh \cup ow, last)
               ELSE add_shared_msg_to_buffers(Copy(m, <<"shared">>), sh)
                       \cup add_owned_msg_to_buffers(m, ow, last)]
       /\ shared_msg' = [shared_msg EXCEPT ![p] = Nothing]

do_intra_process_publish_and_return_shared(p, m) ==
    LET sh == pub_to_subs[p].take_shared
        ow == pub_to_subs[p].take_ownership
        o == IF ow = {} THEN Original(m) ELSE Copy(m, <<"shared">>)
    IN /\ \E last \in Lasts(ow) :
            todo' = [todo EXCEPT ![p] = add_shared_msg_to_buffers(o, sh)
                                          \cup add_owned_msg_to_buffers(m, ow, last)]
       /\ shared_msg' = [shared_msg EXCEPT ![p] = o]

(* The manager looks its lists up under the shared lock. *)
Split(p) ==
    /\ phase[p] = "splitting"
    /\ IF inter[p] THEN do_intra_process_publish_and_return_shared(p, Current(p))
       ELSE do_intra_process_publish(p, Current(p))
    /\ phase' = [phase EXCEPT ![p] = "providing"]
    /\ UNCHANGED <<manager, taking, buffer, gc, sent, triggering, inter, network, known, received>>

(* RingBufferImplementation::enqueue through TypedIntraProcessBuffer: a message a shared
   buffer gets is the object itself; only shared buffers are ever given shared messages. *)
enqueue(q, o) == IF Len(q) = Depth THEN Append(Tail(q), o) ELSE Append(q, o)

(* provide_intra_process_data: the buffer, then the guard condition. *)
Provide(p, s, o) ==
    /\ phase[p] = "providing" /\ triggering[p] = {}
    /\ buffer' = [buffer EXCEPT ![s] = enqueue(@, o)]
    /\ todo' = [todo EXCEPT ![p] = @ \ {<<s, o>>}]
    /\ triggering' = [triggering EXCEPT ![p] = {s}]
    /\ UNCHANGED <<manager, taking, gc, sent, phase, inter, shared_msg, network, known, received>>

Trigger(p, s) ==
    /\ gc' = [gc EXCEPT ![s] = TRUE]
    /\ triggering' = [triggering EXCEPT ![p] = {}]
    /\ UNCHANGED <<manager, taking, buffer, todo, sent, phase, inter, shared_msg, network, known,
                   received>>

(* do_inter_process_publish, if it is needed, ends the call. *)
Finish(p) ==
    /\ phase[p] = "providing" /\ todo[p] = {} /\ triggering[p] = {}
    /\ network' = [r \in Readers |-> IF inter[p] /\ r \in Matched(p)
                                     THEN Append(network[r], Current(p)) ELSE network[r]]
    /\ phase' = [phase EXCEPT ![p] = "idle"]
    /\ shared_msg' = [shared_msg EXCEPT ![p] = Nothing]
    /\ UNCHANGED <<manager, taking, buffer, gc, sent, todo, triggering, inter, known, received>>

-----------------------------------------------------------------------------
(* The executor and the intra-process waitable of a subscription. *)

(* rcl_wait clears the guard condition it reports. *)
Wake(s) ==
    /\ pc[s] = "wait" /\ gc[s] /\ s \in subscriptions
    /\ gc' = [gc EXCEPT ![s] = FALSE]
    /\ pc' = [pc EXCEPT ![s] = "awake"]
    /\ UNCHANGED <<manager, publishing, taken, buffer, network, known, received>>

(* is_ready, then take_data: consume_shared or consume_unique. *)
take_data(s) ==
    /\ pc[s] = "awake"
    /\ IF buffer[s] = <<>>
       THEN /\ pc' = [pc EXCEPT ![s] = "wait"]
            /\ UNCHANGED <<taken, buffer>>
       ELSE /\ taken' = [taken EXCEPT ![s] =
                 IF SharedBuffer(s) /\ ~use_take_shared_method(Callback[s], FALSE)
                 THEN Copy(Head(buffer[s])[1], <<"taken", s>>) ELSE Head(buffer[s])]
            /\ buffer' = [buffer EXCEPT ![s] = Tail(@)]
            /\ pc' = [pc EXCEPT ![s] = "taken"]
    /\ UNCHANGED <<manager, publishing, gc, network, known, received>>

MoreData_NotLooked(s) == FALSE

(* take_data looks again after it has taken, and triggers for the rest. *)
MoreData(s) == buffer[s] # <<>>

Retrigger(s) ==
    /\ pc[s] = "taken"
    /\ gc' = [gc EXCEPT ![s] = @ \/ MoreData(s)]
    /\ pc' = [pc EXCEPT ![s] = "execute"]
    /\ UNCHANGED <<manager, publishing, taken, buffer, network, known, received>>

(* execute_impl: the callback runs. *)
Execute(s) ==
    /\ pc[s] = "execute"
    /\ delivered' = [delivered EXCEPT ![s] = Append(@, taken[s][1])]
    /\ taken' = [taken EXCEPT ![s] = Nothing]
    /\ pc' = [pc EXCEPT ![s] = "wait"]
    /\ UNCHANGED <<manager, publishing, buffer, gc, network, known, thrown>>

matches_any_publishers(p) == p \in publishers

(* execute_subscription and handle_message: what comes from a publisher of this process
   to an intra-process subscription was delivered already, so this copy is ignored. *)
handle_message(s) ==
    LET m == Head(network[s])
    IN /\ network[s] # <<>> /\ s \notin thrown
       /\ network' = [network EXCEPT ![s] = Tail(@)]
       /\ IF s \in UseIntraProcess /\ matches_any_publishers(m[1])
          THEN UNCHANGED received
          ELSE IF execute_subscription(Callback[s], FALSE) = "throws"
          THEN thrown' = thrown \cup {s} /\ UNCHANGED delivered
          ELSE delivered' = [delivered EXCEPT ![s] = Append(@, m)] /\ UNCHANGED thrown
       /\ UNCHANGED <<manager, publishing, taking, buffer, gc, known>>

Receive(r) ==
    /\ network[r] # <<>>
    /\ network' = [network EXCEPT ![r] = Tail(@)]
    /\ delivered' = [delivered EXCEPT ![r] = Append(@, Head(network[r]))]
    /\ UNCHANGED <<manager, publishing, taking, buffer, gc, known, thrown>>

Providing(p) == \/ \E e \in todo[p] : Provide(p, e[1], e[2])
                \/ \E s \in triggering[p] : Trigger(p, s)

Publishing(p) == publish(p) \/ Split(p) \/ Providing(p) \/ Finish(p)
Taking(s) == Wake(s) \/ take_data(s) \/ Retrigger(s) \/ Execute(s)

Next == \/ \E p \in Publishers : add_publisher(p) \/ remove_publisher(p) \/ Publishing(p)
        \/ \E s \in Subscriptions : add_subscription(s) \/ remove_subscription(s) \/ Discover(s)
                                    \/ Taking(s) \/ handle_message(s)
        \/ \E r \in Remotes : Receive(r)

(* Publishing threads and the executor run. *)
Fairness == /\ \A p \in Publishers : WF_vars(Split(p) \/ Providing(p) \/ Finish(p))
            /\ \A s \in Subscriptions : WF_vars(Taking(s))
            /\ \A s \in Subscriptions : WF_vars(handle_message(s))
            /\ \A r \in Remotes : WF_vars(Receive(r))

Spec == Init /\ [][Next]_vars /\ Fairness

-----------------------------------------------------------------------------
(* Every buffer, list and counter has its type; a buffer never exceeds the QoS depth. *)
IntraProcessTypeOK ==
    /\ publishers \subseteq Publishers /\ subscriptions \subseteq Subscriptions
    /\ \A s \in Subscriptions : Len(buffer[s]) <= Depth
    /\ sent \in [Publishers -> 0..MaxMessages]
    /\ known \subseteq Readers /\ thrown \subseteq Subscriptions
    /\ pc \in [Subscriptions -> {"wait", "awake", "taken", "execute"}]

(* Where objects are: <<object, place, may be modified there>>. *)
Places ==
    {<<buffer[s][i], <<"buffer", s, i>>, ~SharedBuffer(s)>> :
        <<s, i>> \in {<<u, j>> \in Subscriptions \X (1..Depth) : j <= Len(buffer[u])}}
    \cup {<<taken[s], <<"taken", s>>, Callback[s].form \in Mutable /\ execute_intra_process(Callback[s], FALSE) = "same">> :
            s \in {u \in Subscriptions : taken[u] # Nothing}}
    \cup {<<shared_msg[p], <<"publisher", p>>, FALSE>> :
            p \in {q \in Publishers : shared_msg[q] # Nothing}}

(* An object a subscription owns (a unique_ptr in its buffer, or in a callback that
   may modify it) is not at the same time in any other buffer, callback, or in the
   hands of the publisher: copies are made whenever ownership is shared. *)
ExclusiveOwnership ==
    \A a, b \in Places : a[1] = b[1] /\ a[2] # b[2] => ~a[3] /\ ~b[3]

(* do_intra_process_publish never throws: every listed id is a registered
   subscription, whatever order publishers and subscriptions come and go in. *)
ListedAreRegistered ==
    \A p \in Publishers : pub_to_subs[p].take_shared \cup pub_to_subs[p].take_ownership
                             \subseteq subscriptions

(* A publisher's lists hold every registered subscription it can communicate with. *)
ListsComplete ==
    \A p \in publishers : \A s \in subscriptions :
        can_communicate[p, s] => s \in pub_to_subs[p].take_shared \cup pub_to_subs[p].take_ownership

(* One guard condition stands for all buffered messages: while there are some, it is
   triggered, or somebody is about to look or to trigger. *)
NoStrandedMessage ==
    \A s \in subscriptions :
        buffer[s] # <<>> => \/ gc[s]
                            \/ pc[s] \in {"awake", "taken"}
                            \/ \E p \in Publishers : s \in triggering[p]

(* No callback runs twice for one message, although it travels on two paths. *)
AtMostOnce ==
    \A r \in Readers : \A i, j \in DOMAIN delivered[r] :
        delivered[r][i] = delivered[r][j] => i = j

(* A subscription of another process gets every message published, although publish()
   only compares two counts to find out whether there is one. *)
RemotesReached ==
    \A r \in Remotes \cap known : \A p \in Publishers :
        phase[p] = "idle" =>
            \A k \in 1..sent[p] :
                \/ \E i \in DOMAIN delivered[r] : delivered[r][i] = <<p, k>>
                \/ \E i \in DOMAIN network[r] : network[r][i] = <<p, k>>

Took(s) == buffer[s] = <<>> \/ pc[s] = "taken"

===============================================================================
