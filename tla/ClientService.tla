------------------------------ MODULE ClientService ------------------------------
(***************************************************************************)
(* Clients of a service: requests sent under the pending-requests mutex,    *)
(* answered at once or later by the service, responses taken by executor    *)
(* threads and matched by sequence number, requests removed or pruned, and  *)
(* a caller that spins until its future is complete.  The middleware may    *)
(* lose messages; the service may restart.                                  *)
(***************************************************************************)
EXTENDS Naturals, Sequences, Functions

CONSTANTS Clients,
          Postponed,    \* the clients whose requests the service's callback answers later
          Unreliable,   \* whether requests and responses can be lost and the service restarts
          Twice,        \* whether a deferred callback may send its response twice
          Pruning,      \* whether the client's users remove and prune pending requests
          MaxRequests,  \* bound on the requests of a client
          MaxTaken,     \* bound on the threads that hold a response to the same request
          MaxTime       \* bound on system_clock

ASSUME ClientAssumption ==
    /\ Postponed \subseteq Clients
    /\ {Unreliable, Twice, Pruning} \subseteq BOOLEAN
    /\ MaxRequests \in Nat \ {0} /\ MaxTaken \in Nat \ {0} /\ MaxTime \in Nat

Numbers == 1..MaxRequests
Header(c, n) == [client |-> c, number |-> n]

VARIABLES
    next,       \* the sequence number rcl_send_request returns next
    sending,    \* the request sent and not yet recorded, 0 if none: pending_requests_mutex_ is held
    pending,    \* pending_requests_: number -> time it was recorded
    requests,   \* requests on their way to the service
    deferred,   \* headers a deferred callback still holds
    responses,  \* responses on their way to the client
    taken,      \* number -> executor threads that took a response and did not look it up yet
    handling,   \* requests erased from pending_requests_ whose promise is not yet set
    promise,    \* none, waiting, set or broken (destroyed without a value)
    callbacks,  \* how often the request's callback was called
    removed,    \* requests for which removal said that it succeeded
    ignored,    \* numbers of the responses for which no request was pending
    spin,       \* spin_until_future_complete of the client's caller: [number, state]
    ok,         \* rclcpp::ok
    now

allVars == <<next, sending, pending, requests, deferred, responses, taken, handling, promise,
             callbacks, removed, ignored, spin, ok, now>>
clientVars == <<next, sending, pending, promise, callbacks, removed, ignored>>
serviceVars == <<requests, deferred>>

ClientInit ==
    /\ next = [c \in Clients |-> 1] /\ sending = [c \in Clients |-> 0]
    /\ pending = [c \in Clients |-> <<>>]
    /\ requests = <<>> /\ deferred = {}
    /\ responses = [c \in Clients |-> <<>>]
    /\ taken = [c \in Clients |-> [n \in Numbers |-> 0]]
    /\ handling = [c \in Clients |-> {}]
    /\ promise = [c \in Clients |-> [n \in Numbers |-> "none"]]
    /\ callbacks = [c \in Clients |-> [n \in Numbers |-> 0]]
    /\ removed = [c \in Clients |-> {}] /\ ignored = [c \in Clients |-> {}]
    /\ spin = [c \in Clients |-> [number |-> 0, state |-> "idle"]]
    /\ ok = TRUE /\ now = 0

-----------------------------------------------------------------------------
(* async_send_request, in its three forms, and async_send_request_impl: the request is
   sent and then recorded, under one lock. *)
async_send_request(c) ==
    /\ ok /\ sending[c] = 0 /\ next[c] <= MaxRequests
    /\ sending' = [sending EXCEPT ![c] = next[c]]
    /\ next' = [next EXCEPT ![c] = @ + 1]
    /\ promise' = [promise EXCEPT ![c][next[c]] = "waiting"]
    /\ requests' = Append(requests, Header(c, next[c]))
    /\ UNCHANGED <<pending, deferred, responses, taken, handling, callbacks, removed, ignored, spin, ok, now>>

Record(c) ==
    /\ sending[c] # 0
    /\ pending' = [pending EXCEPT ![c] = [n \in DOMAIN @ \cup {sending[c]} |->
                                             IF n = sending[c] THEN now ELSE @[n]]]
    /\ sending' = [sending EXCEPT ![c] = 0]
    /\ UNCHANGED <<next, serviceVars, responses, taken, handling, promise, callbacks, removed, ignored,
                   spin, ok, now>>

Without(f, S) == [n \in DOMAIN f \ S |-> f[n]]

(* Entries that leave pending_requests_ with their promises, when removal says so. *)
Removes(c, S) ==
    /\ pending' = [pending EXCEPT ![c] = Without(@, S)]
    /\ promise' = [promise EXCEPT ![c] = [n \in Numbers |-> IF n \in S THEN "broken" ELSE @[n]]]
    /\ removed' = [removed EXCEPT ![c] = @ \cup S]
    /\ UNCHANGED <<next, sending, serviceVars, responses, taken, handling, callbacks, ignored, spin, ok, now>>

(* remove_pending_request that returns true; one that finds nothing changes nothing. *)
remove_pending_request(c, n) ==
    /\ Pruning /\ sending[c] = 0 /\ n \in DOMAIN pending[c]
    /\ Removes(c, {n})

prune_pending_requests(c) ==
    /\ Pruning /\ sending[c] = 0 /\ DOMAIN pending[c] # {}
    /\ Removes(c, DOMAIN pending[c])

prune_requests_older_than(c, time) ==
    /\ Pruning /\ sending[c] = 0
    /\ \E n \in DOMAIN pending[c] : pending[c][n] < time
    /\ Removes(c, {n \in DOMAIN pending[c] : pending[c][n] < time})

-----------------------------------------------------------------------------
(* Executor::execute_service: take_type_erased_request and handle_request.  dispatch
   returns a response for the two plain callbacks and none for the two deferred ones. *)
dispatch(h) == IF h.client \in Postponed THEN <<>> ELSE <<h.number>>

handle_request ==
    /\ requests # <<>>
    /\ LET h == Head(requests)
           answer == dispatch(h)
       IN /\ responses' = [responses EXCEPT ![h.client] = @ \o answer]
          /\ deferred' = IF answer = <<>> THEN deferred \cup {h} ELSE deferred
    /\ requests' = Tail(requests)
    /\ UNCHANGED <<clientVars, taken, handling, spin, ok, now>>

(* Service::send_response, called by whoever kept the header. *)
send_response(h) ==
    /\ h \in deferred
    /\ responses' = [responses EXCEPT ![h.client] = Append(@, h.number)]
    /\ \/ deferred' = deferred \ {h}
       \/ Twice /\ h.number \notin Range(responses[h.client]) /\ UNCHANGED deferred
    /\ UNCHANGED <<clientVars, requests, taken, handling, spin, ok, now>>

-----------------------------------------------------------------------------
(* Executor::execute_client: take_type_erased_response; several threads may hold one. *)
take_response(c) ==
    /\ ok /\ responses[c] # <<>> /\ taken[c][Head(responses[c])] < MaxTaken
    /\ taken' = [taken EXCEPT ![c][Head(responses[c])] = @ + 1]
    /\ responses' = [responses EXCEPT ![c] = Tail(@)]
    /\ UNCHANGED <<clientVars, serviceVars, handling, spin, ok, now>>

get_and_erase_pending_request_NoLock(c, n) ==
    /\ taken[c][n] > 0
    /\ taken' = [taken EXCEPT ![c][n] = @ - 1]
    /\ IF n \in DOMAIN pending[c]
       THEN /\ pending' = [pending EXCEPT ![c] = Without(@, {n})]
            /\ handling' = [handling EXCEPT ![c] = @ \cup {n}]
            /\ UNCHANGED ignored
       ELSE /\ ignored' = [ignored EXCEPT ![c] = @ \cup {n}]
            /\ UNCHANGED <<pending, handling>>
    /\ UNCHANGED <<next, sending, promise, callbacks, removed, serviceVars, responses, spin, ok, now>>

(* handle_response, first half: under the lock, the request leaves pending_requests_;
   a number that is not there is ignored. *)
get_and_erase_pending_request(c, n) ==
    /\ sending[c] = 0 /\ taken[c][n] > 0
    /\ taken' = [taken EXCEPT ![c][n] = @ - 1]
    /\ IF n \in DOMAIN pending[c]
       THEN /\ pending' = [pending EXCEPT ![c] = Without(@, {n})]
            /\ handling' = [handling EXCEPT ![c] = @ \cup {n}]
            /\ UNCHANGED ignored
       ELSE /\ ignored' = [ignored EXCEPT ![c] = @ \cup {n}]
            /\ UNCHANGED <<pending, handling>>
    /\ UNCHANGED <<next, sending, promise, callbacks, removed, serviceVars, responses, spin, ok, now>>

(* Second half, without the lock: the promise is set, then the callback called. *)
handle_response(c, n) ==
    /\ n \in handling[c]
    /\ handling' = [handling EXCEPT ![c] = @ \ {n}]
    /\ promise' = [promise EXCEPT ![c][n] = "set"]
    /\ callbacks' = [callbacks EXCEPT ![c][n] = @ + 1]
    /\ UNCHANGED <<next, sending, pending, removed, ignored, serviceVars, responses, taken, spin, ok, now>>

-----------------------------------------------------------------------------
Ready(c, n) == promise[c][n] \in {"set", "broken"}

(* spin_until_future_complete: SUCCESS at once, or after an item of work; otherwise the
   loop goes on while ok, and its end is INTERRUPTED.  A timeout may pass at any time. *)
StartSpin(c) ==
    /\ spin[c].state = "idle" /\ next[c] > 1 /\ sending[c] = 0
    /\ LET n == next[c] - 1
       IN spin' = [spin EXCEPT ![c] = [number |-> n,
                                       state |-> IF Ready(c, n) THEN "SUCCESS" ELSE "spinning"]]
    /\ UNCHANGED <<clientVars, serviceVars, responses, taken, handling, ok, now>>

(* What one turn of the loop can come back with. *)
SpinResults(c) ==
    IF Ready(c, spin[c].number) THEN {"SUCCESS"}
    ELSE {"TIMEOUT"} \cup (IF ok THEN {} ELSE {"INTERRUPTED"})

EndSpin(c) ==
    /\ spin[c].state = "spinning"
    /\ \E r \in SpinResults(c) : spin' = [spin EXCEPT ![c].state = r]
    /\ UNCHANGED <<clientVars, serviceVars, responses, taken, handling, ok, now>>

(* The caller looks at the result and goes on. *)
EndCall(c) ==
    /\ spin[c].state \in {"SUCCESS", "TIMEOUT", "INTERRUPTED"}
    /\ spin' = [spin EXCEPT ![c] = [number |-> 0, state |-> "idle"]]
    /\ UNCHANGED <<clientVars, serviceVars, responses, taken, handling, ok, now>>

-----------------------------------------------------------------------------
(* The environment. *)
Lose ==
    /\ Unreliable
    /\ \/ /\ requests # <<>> /\ requests' = Tail(requests)
          /\ UNCHANGED <<responses, deferred>>
       \/ \E c \in Clients : /\ responses[c] # <<>>
                             /\ responses' = [responses EXCEPT ![c] = Tail(@)]
                             /\ UNCHANGED <<requests, deferred>>
       \/ /\ requests' = <<>> /\ deferred' = {} /\ UNCHANGED responses   \* the service restarts
    /\ UNCHANGED <<clientVars, taken, handling, spin, ok, now>>

ClientTick == now < MaxTime /\ now' = now + 1
              /\ UNCHANGED <<clientVars, serviceVars, responses, taken, handling, spin, ok>>

ClientShutdown == Unreliable /\ ok /\ ok' = FALSE
                  /\ UNCHANGED <<clientVars, serviceVars, responses, taken, handling, spin, now>>

ClientThread(c) ==
    \/ Record(c) \/ take_response(c)
    \/ \E n \in Numbers : get_and_erase_pending_request(c, n) \/ handle_response(c, n)

ServiceThread == handle_request \/ \E h \in deferred : send_response(h)

ClientNext ==
    \/ \E c \in Clients : \/ async_send_request(c) \/ ClientThread(c)
                          \/ prune_pending_requests(c)
                          \/ \E n \in Numbers : remove_pending_request(c, n)
                          \/ \E t \in 1..MaxTime : prune_requests_older_than(c, t)
                          \/ StartSpin(c) \/ EndSpin(c) \/ EndCall(c)
    \/ ServiceThread \/ Lose \/ ClientTick \/ ClientShutdown

ClientSpec == ClientInit /\ [][ClientNext]_allVars

(* The executors of client and service keep spinning, deferred callbacks answer. *)
ClientFairSpec ==
    /\ ClientSpec /\ WF_allVars(handle_request)
    /\ \A c \in Clients, n \in Numbers : /\ WF_allVars(send_response(Header(c, n)))
                                         /\ WF_allVars(get_and_erase_pending_request(c, n))
                                         /\ WF_allVars(handle_response(c, n))
    /\ \A c \in Clients : WF_allVars(Record(c)) /\ WF_allVars(take_response(c))

-----------------------------------------------------------------------------
(* Types; and a promise waits exactly as long as its request is being recorded, is
   pending, or is being handled. *)
ClientTypeOK ==
    \A c \in Clients :
        /\ next[c] \in 1..(MaxRequests + 1) /\ sending[c] \in 0..MaxRequests
        /\ \A n \in DOMAIN pending[c] : n \in Numbers /\ pending[c][n] \in 0..now
        /\ \A n \in Numbers : taken[c][n] \in 0..MaxTaken
        /\ {n \in Numbers : promise[c][n] = "waiting"} =
             DOMAIN pending[c] \cup handling[c] \cup ({sending[c]} \ {0})

(* A callback is called at most once for a request, whatever the number of responses. *)
CalledAtMostOnce == \A c \in Clients, n \in Numbers : callbacks[c][n] <= 1

(* A response that finds no pending request belongs to a request that was answered before
   or removed, never to one whose response merely overtook its own registration. *)
NoAnswerOvertakes ==
    \A c \in Clients : \A n \in ignored[c] : n \in handling[c] \/ promise[c][n] \in {"set", "broken"}

(* If removal of a request said it succeeded, its callback is never called. *)
RemovedNotCalled == \A c \in Clients : \A n \in removed[c] : callbacks[c][n] = 0

(* A caller told SUCCESS may get() without blocking, also when its timeout, a shutdown
   and the answer race. *)
SuccessIsComplete == \A c \in Clients : spin[c].state = "SUCCESS" => Ready(c, spin[c].number)

(* Requests and answers over a middleware that loses and repeats them, with a client that
   prunes what it waits for: no request's callback is called twice, or for a request that
   was removed, or before the request was recorded; a spin that reports SUCCESS has its
   answer (client.hpp, service.hpp, executor.hpp). *)
ClientSafe == CalledAtMostOnce /\ NoAnswerOvertakes /\ RemovedNotCalled /\ SuccessIsComplete

Unanswered(c, n) == promise[c][n] = "waiting"
==================================================================================
