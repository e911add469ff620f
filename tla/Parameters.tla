------------------------------- MODULE Parameters -------------------------------
(***************************************************************************)
(* NodeParameters, the parameter services of a node and a synchronous       *)
(* client of them.  A call of NodeParameters holds mutex_ from its first to *)
(* its last line and is one action; set_parameters, local or in the         *)
(* service, takes the mutex once per parameter, so other threads come in    *)
(* between.  view is what a reader of the published events knows.           *)
(***************************************************************************)
EXTENDS ParameterValues, FiniteSets

CONSTANTS Names,          \* parameter names
          Values,         \* the values callers use, NotSet among them
          Descriptors,    \* the descriptors callers declare with
          Vectors,        \* the vectors callers set
          Overrides,      \* parameter_overrides_
          AllowUndeclared,\* the possible values of allow_undeclared_
          Handles,        \* handles of on-set callbacks
          Verdict,        \* what each of these callbacks does: accept, reject or mutate
          Threads,        \* threads of the node that call set_parameters
          Requests,       \* what the client asks: [op, arg]
          MaxCalls        \* bound on the calls made

NoCall == [op |-> "none"]
Throws == [type |-> "throws", v |-> 0]
HasName(vector, n) == \E i \in DOMAIN vector : vector[i].name = n
NamesIn(vector) == {vector[i].name : i \in DOMAIN vector}
LastOf(vector, n) ==
    LET ix == {i \in DOMAIN vector : vector[i].name = n}
    IN vector[CHOOSE i \in ix : \A j \in ix : j <= i].value
FirstIndex(vector, n) ==
    LET ix == {i \in DOMAIN vector : vector[i].name = n} IN CHOOSE i \in ix : \A j \in ix : i <= j

Assumption ==
    /\ NotSet \in Values
    /\ \A v \in Vectors : v # <<>> /\ \A i \in DOMAIN v : v[i].name \in Names /\ v[i].value \in Values
    /\ Verdict \in [Handles -> {"accept", "reject", "mutate"}]
    /\ AllowUndeclared \subseteq BOOLEAN /\ MaxCalls \in Nat

VARIABLES
    allow_undeclared_,
    parameters_,     \* name -> [value, descriptor]
    container,       \* on_parameters_set_callback_container_: weak handles
    live,            \* the handles their owners still hold
    pending,         \* what each thread's set_parameters has still to set
    last,            \* the last call: [vector, outcome, number]
    view,            \* the replay of all events: name -> value
    silent,          \* names undeclared without an event since they were last in one
    calls,
    call, requests, serving, returned  \* client call, service queue, request being served, answer

nodeVars == <<allow_undeclared_, parameters_, container, live, last, view, silent>>
clientVars == <<call, requests, serving, returned>>
vars == <<nodeVars, pending, calls, clientVars>>

Event(new, changed, deleted) == [new |-> new, changed |-> changed, deleted |-> deleted]
NoEvent == Event(<<>>, <<>>, <<>>)
EventNames(e) == NamesIn(e.new) \cup NamesIn(e.changed) \cup NamesIn(e.deleted)

(* ParameterEventHandler::get_parameter_from_event: the first of that name. *)
get_parameter_from_event(e, n) ==
    LET all == e.new \o e.changed
    IN IF HasName(all, n) THEN all[FirstIndex(all, n)].value ELSE NotSet

(* ParameterEventsFilter: the pairs of type and parameter that were asked for. *)
ParameterEventsFilter(e, names, types) ==
    UNION {{<<t, e[t][i]>> : i \in {j \in DOMAIN e[t] : e[t][j].name \in names}} : t \in types}

Replayed(v, e) ==
    LET deleted == {pair[2].name : pair \in ParameterEventsFilter(e, Names, {"deleted"})}
        gone == deleted \ NamesIn(e.new \o e.changed)
    IN [n \in Names |-> IF n \in NamesIn(e.new \o e.changed) THEN get_parameter_from_event(e, n)
                        ELSE IF n \in gone THEN NotSet ELSE v[n]]

-----------------------------------------------------------------------------
(* __check_parameters. *)
CheckParameters(infos, vector) ==
    \A i \in DOMAIN vector :
        LET n == vector[i].name
            d == IF n \in DOMAIN infos THEN infos[n].descriptor ELSE Dynamic
        IN (d.dynamic_typing \/ d.type = vector[i].value.type) /\ InRange(d, vector[i].value)

(* __call_on_parameters_set_callbacks: from the newest to the oldest, expired handles
   leave the container, and the first callback that does not accept ends the walk.  A
   callback that modifies a parameter meets the recursion guard, which throws. *)
Walked(c, alive) ==
    LET stop == {i \in DOMAIN c : c[i] \in alive /\ Verdict[c[i]] # "accept"}
        upto == IF stop = {} THEN Len(c) ELSE CHOOSE i \in stop : \A j \in stop : i <= j
    IN [verdict |-> IF stop = {} THEN "accept" ELSE Verdict[c[upto]],
        container |-> SelectSeq(SubSeq(c, 1, upto), LAMBDA h : h \in alive) \o SubSeq(c, upto + 1, Len(c))]

(* The assignments at the end of __set_parameters_atomically_common. *)
Assigned(infos, vector) ==
    LET Assign(m, p) ==
            LET d == IF p.name \in DOMAIN m THEN m[p.name].descriptor
                     ELSE Descriptor("not_set", FALSE, FALSE, <<>>)
            IN (p.name :> [value |-> p.value, descriptor |-> [d EXCEPT !.type = p.value.type]]) @@ m
    IN FoldLeft(Assign, infos, vector)

Result(outcome, infos, event, c) ==
    [outcome |-> outcome, parameters |-> infos, event |-> event, container |-> c]

SetCommon_RejectedTooLate(infos, vector, c) ==
    LET walk == Walked(c, live)
    IN CASE ~CheckParameters(infos, vector) -> Result("failed", infos, NoEvent, c)
         [] walk.verdict # "accept" ->
                Result("failed", Assigned(infos, <<Head(vector)>>), NoEvent, walk.container)
         [] OTHER -> Result("ok", Assigned(infos, vector), NoEvent, walk.container)

(* __set_parameters_atomically_common: nothing is assigned unless all is accepted. *)
SetCommon(infos, vector, c) ==
    LET walk == Walked(c, live)
    IN CASE ~CheckParameters(infos, vector) -> Result("failed", infos, NoEvent, c)
         [] walk.verdict = "reject" -> Result("failed", infos, NoEvent, walk.container)
         [] walk.verdict = "mutate" -> Result("modified_in_callback", infos, NoEvent, walk.container)
         [] OTHER -> Result("ok", Assigned(infos, vector), NoEvent, walk.container)

DeclareCommon_NoEvent(n, default, descriptor, overrides, c) ==
    LET v == IF n \in DOMAIN overrides THEN overrides[n] ELSE default
        r == SetCommon(n :> [value |-> NotSet, descriptor |-> descriptor], <<Parameter(n, v)>>, c)
    IN IF r.outcome # "ok" THEN Result(r.outcome, <<>>, NoEvent, r.container)
       ELSE Result("ok", r.parameters, NoEvent, r.container)

(* __declare_parameter_common: an uninitialized parameter skips the checks, the
   callbacks and the event. *)
DeclareCommon(n, default, descriptor, overrides, c) ==
    LET v == IF n \in DOMAIN overrides THEN overrides[n] ELSE default
        bare == [value |-> NotSet,
                 descriptor |-> IF descriptor.dynamic_typing
                                THEN [descriptor EXCEPT !.type = "not_set"] ELSE descriptor]
        r == SetCommon(n :> [bare EXCEPT !.descriptor = descriptor], <<Parameter(n, v)>>, c)
    IN IF v.type = "not_set" THEN Result("ok", n :> bare, NoEvent, c)
       ELSE IF r.outcome # "ok" THEN Result(r.outcome, <<>>, NoEvent, r.container)
       ELSE Result("ok", r.parameters, Event(<<Parameter(n, v)>>, <<>>, <<>>), r.container)

(* The parameters that leave parameters_ once everything else has been set. *)
Deleted(infos, gone) == [n \in DOMAIN infos \ gone |-> infos[n]]

(* The parameters set_parameters_atomically declares on the way: dynamically typed,
   with the last value of that name, whatever the overrides say. *)
Staged(vector) ==
    [n \in NamesIn(vector) \ DOMAIN parameters_ |->
        [value |-> LastOf(vector, n),
         descriptor |-> [Dynamic EXCEPT !.type = LastOf(vector, n).type]]]

Undeclares(vector, n) ==
    /\ \E i \in DOMAIN vector : vector[i].name = n /\ vector[i].value.type = "not_set"
    /\ n \in DOMAIN parameters_ /\ parameters_[n].value.type # "not_set"

(* NodeParameters::set_parameters_atomically from its first line to its last. *)
SetAtomically(vector) ==
    LET undeclared(i) == vector[i].name \notin DOMAIN parameters_
        refuses(i) == IF undeclared(i) THEN ~allow_undeclared_
                      ELSE parameters_[vector[i].name].descriptor.read_only
        refused == {i \in DOMAIN vector : refuses(i)}
        first == CHOOSE i \in refused : \A j \in refused : i <= j
        staged == Staged(vector)
        (* an implicitly declared parameter's first mention takes the staged value *)
        to_set == [i \in DOMAIN vector |->
                    LET n == vector[i].name
                    IN IF n \in DOMAIN staged /\ FirstIndex(vector, n) = i
                       THEN Parameter(n, staged[n].value) ELSE vector[i]]
        gone == {n \in NamesIn(to_set) : Undeclares(to_set, n)}
        common == SetCommon(parameters_, to_set, container)
        all_set == staged @@ common.parameters
        new == SelectSeq(vector, LAMBDA p : p.name \in DOMAIN staged /\ p.value.type # "not_set")
        changed == SelectSeq(to_set, LAMBDA p : p.name \notin DOMAIN staged \cup gone)
        deleted == [i \in 1..Cardinality(gone) |->
                      LET n == SetToSeq(gone)[i] IN Parameter(n, all_set[n].value)]
    IN CASE refused # {} -> Result(IF undeclared(first) THEN "not_declared" ELSE "failed",
                                   parameters_, NoEvent, container)
         [] \E n \in gone : ~parameters_[n].descriptor.dynamic_typing ->
                Result("failed", parameters_, NoEvent, container)
         [] common.outcome # "ok" -> common
         [] OTHER -> Result("ok", Deleted(all_set, gone), Event(new, changed, deleted), common.container)

(* The effect of a call: the state it leaves and the event it publishes. *)
Published(e) ==
    /\ view' = Replayed(view, e)
    /\ silent' = silent \ EventNames(e)

Apply(vector, r) ==
    /\ parameters_' = r.parameters /\ container' = r.container
    /\ last' = [vector |-> vector, outcome |-> r.outcome, number |-> calls]
    /\ Published(r.event)
    /\ calls' = calls + 1
    /\ UNCHANGED <<allow_undeclared_, live>>

More == calls < MaxCalls

-----------------------------------------------------------------------------
(* declare_parameter with a default value: the type of a static parameter is that of
   its default.  declare_parameter with a type leaves it uninitialized unless an
   override gives it a value. *)
Declared(n, default, d) ==
    LET r == DeclareCommon(n, default, d, Overrides, container)
    IN Apply(<<>>, [r EXCEPT !.parameters = @ @@ parameters_])

declare_parameter(n, default, d) ==
    /\ More /\ n \notin DOMAIN parameters_
    /\ d.dynamic_typing \/ default.type # "not_set"
    /\ Declared(n, default, IF d.dynamic_typing THEN d ELSE [d EXCEPT !.type = default.type])
    /\ UNCHANGED <<pending, clientVars>>

declare_parameter_of_type(n, type, d) ==
    /\ More /\ n \notin DOMAIN parameters_
    /\ type # "not_set" /\ ~d.dynamic_typing
    /\ Declared(n, NotSet, [d EXCEPT !.type = type])
    /\ UNCHANGED <<pending, clientVars>>

(* undeclare_parameter publishes no event. *)
undeclare_parameter(n) ==
    /\ More /\ n \in DOMAIN parameters_
    /\ ~parameters_[n].descriptor.read_only /\ parameters_[n].descriptor.dynamic_typing
    /\ parameters_' = Deleted(parameters_, {n})
    /\ silent' = silent \cup {n} /\ calls' = calls + 1
    /\ UNCHANGED <<allow_undeclared_, container, live, last, view, pending, clientVars>>

set_parameters_atomically(vector) ==
    /\ More
    /\ Apply(vector, SetAtomically(vector))
    /\ UNCHANGED <<pending, clientVars>>

(* set_parameters of a thread of the node: one atomic call per parameter, and an
   exception leaves the rest unset. *)
set_parameters(t, vector) ==
    /\ More /\ pending[t] = <<>>
    /\ pending' = [pending EXCEPT ![t] = vector]
    /\ calls' = calls + 1
    /\ UNCHANGED <<nodeVars, clientVars>>

set_parameters_next(t) ==
    /\ pending[t] # <<>>
    /\ LET one == <<Head(pending[t])>>
           r == SetAtomically(one)
       IN /\ Apply(one, r)
          /\ pending' = [pending EXCEPT ![t] = IF r.outcome \in {"ok", "failed"} THEN Tail(@) ELSE <<>>]
    /\ UNCHANGED clientVars

add_on_set_parameters_callback(h) ==
    /\ h \notin live /\ h \notin Range(container)
    /\ container' = <<h>> \o container /\ live' = live \cup {h}
    /\ UNCHANGED <<allow_undeclared_, parameters_, last, view, silent, pending, calls, clientVars>>

remove_on_set_parameters_callback(h) ==
    /\ h \in live /\ h \in Range(container)
    /\ container' = SelectSeq(container, LAMBDA x : x # h) /\ live' = live \ {h}
    /\ UNCHANGED <<allow_undeclared_, parameters_, last, view, silent, pending, calls, clientVars>>

(* The owner lets go of the handle; the container keeps an expired weak pointer. *)
DropHandle(h) ==
    /\ h \in live
    /\ live' = live \ {h}
    /\ UNCHANGED <<allow_undeclared_, parameters_, container, last, view, silent, pending, calls, clientVars>>

-----------------------------------------------------------------------------
(* What the readers of NodeParameters return. *)
has_parameter(n) == n \in DOMAIN parameters_

Missing(names) == ~allow_undeclared_ /\ \E i \in DOMAIN names : ~has_parameter(names[i])

get_parameters(names) ==
    IF Missing(names) THEN <<Throws>>
    ELSE [i \in DOMAIN names |-> IF has_parameter(names[i]) THEN parameters_[names[i]].value ELSE NotSet]

get_parameter(n) ==
    IF /\ has_parameter(n)
       /\ parameters_[n].value.type # "not_set" \/ parameters_[n].descriptor.dynamic_typing
    THEN parameters_[n].value
    ELSE IF allow_undeclared_ THEN NotSet ELSE Throws

(* The overload that returns false instead of throwing; NotSet stands for false. *)
get_parameter_if_set(n) == IF has_parameter(n) THEN parameters_[n].value ELSE NotSet

describe_parameters(names) ==
    IF Missing(names) THEN <<Throws>>
    ELSE [i \in DOMAIN names |-> IF has_parameter(names[i]) THEN parameters_[names[i]].descriptor
                                 ELSE Descriptor("not_set", FALSE, FALSE, <<>>)]

get_parameter_types(names) ==
    IF Missing(names) THEN <<"throws">>
    ELSE [i \in DOMAIN names |-> IF has_parameter(names[i]) THEN parameters_[names[i]].value.type
                                 ELSE "not_set"]

-----------------------------------------------------------------------------
(* The client: a call sends a request and spins until its future is complete or the
   timeout passes.  load_parameters and delete_parameters are set_parameters calls. *)
delete_parameters(names) == [i \in DOMAIN names |-> Parameter(names[i], NotSet)]

ClientCall(r) ==
    /\ More /\ call = NoCall
    /\ call' = IF r.op = "delete_parameters"
               THEN [op |-> "set_parameters", arg |-> delete_parameters(r.arg), id |-> calls]
               ELSE [op |-> r.op, arg |-> r.arg, id |-> calls]
    /\ requests' = Append(requests, call')
    /\ calls' = calls + 1
    /\ UNCHANGED <<nodeVars, pending, serving, returned>>

(* set_parameters_atomically and list_parameters throw, the others return an empty vector. *)
ClientTimeout ==
    /\ call # NoCall
    /\ returned' = [op |-> call.op, arg |-> call.arg, how |-> "timeout", value |-> <<>>]
    /\ call' = NoCall
    /\ UNCHANGED <<nodeVars, pending, calls, requests, serving>>

(* The answer completes the future of the request it was sent for, and no other. *)
Answers(req, value) ==
    IF call # NoCall /\ call.id = req.id
    THEN /\ returned' = [op |-> req.op, arg |-> req.arg, how |-> "answer", value |-> value]
         /\ call' = NoCall
    ELSE UNCHANGED <<call, returned>>

(* What a service answers to a request it serves at once: get_parameters,
   get_parameter_types and describe_parameters answer an empty vector for a name that
   is not declared. *)
Caught(names, result) == IF Missing(names) THEN <<>> ELSE result

ServiceAnswer(req) ==
    CASE req.op = "get_parameters" -> Caught(req.arg, get_parameters(req.arg))
      [] req.op = "get_parameter_types" -> Caught(req.arg, get_parameter_types(req.arg))
      [] req.op = "describe_parameters" -> Caught(req.arg, describe_parameters(req.arg))
      [] req.op = "list_parameters" -> list_parameters(DOMAIN parameters_, Range(req.arg), 1)

Serve ==
    /\ serving = NoCall /\ requests # <<>>
    /\ Head(requests).op \notin {"set_parameters", "set_parameters_atomically"}
    /\ requests' = Tail(requests)
    /\ Answers(Head(requests), ServiceAnswer(Head(requests)))
    /\ UNCHANGED <<nodeVars, pending, calls, serving>>

(* An exception other than ParameterNotDeclaredException leaves the service's callback. *)
ServeAtomically ==
    /\ serving = NoCall /\ requests # <<>>
    /\ Head(requests).op = "set_parameters_atomically"
    /\ requests' = Tail(requests)
    /\ LET r == SetAtomically(Head(requests).arg)
       IN /\ Apply(Head(requests).arg, r)
          /\ IF r.outcome = "modified_in_callback"
             THEN serving' = [op |-> "terminated"] /\ UNCHANGED <<call, returned>>
             ELSE serving' = NoCall /\ Answers(Head(requests), r.outcome = "ok")
    /\ UNCHANGED pending

ServeSet ==
    /\ serving = NoCall /\ requests # <<>>
    /\ Head(requests).op = "set_parameters"
    /\ requests' = Tail(requests)
    /\ serving' = [op |-> "set_parameters", req |-> Head(requests), results |-> <<>>]
    /\ UNCHANGED <<nodeVars, pending, calls, call, returned>>

(* The service catches a parameter that is not declared and goes on with the next. *)
ServeSetNext ==
    /\ serving.op = "set_parameters" /\ Len(serving.results) < Len(serving.req.arg)
    /\ LET one == <<serving.req.arg[Len(serving.results) + 1]>>
           r == SetAtomically(one)
       IN /\ Apply(one, r)
          /\ serving' = IF r.outcome = "modified_in_callback" THEN [op |-> "terminated"]
                        ELSE [serving EXCEPT !.results = Append(@, r.outcome = "ok")]
    /\ UNCHANGED <<pending, requests, call, returned>>

ServeSetDone ==
    /\ serving.op = "set_parameters" /\ Len(serving.results) = Len(serving.req.arg)
    /\ serving' = NoCall
    /\ Answers(serving.req, serving.results)
    /\ UNCHANGED <<nodeVars, pending, calls, requests>>

-----------------------------------------------------------------------------
Init ==
    /\ allow_undeclared_ \in AllowUndeclared
    /\ parameters_ = <<>> /\ container = <<>> /\ live = {}
    /\ pending = [t \in Threads |-> <<>>]
    /\ last = [vector |-> <<>>, outcome |-> "ok", number |-> 0]
    /\ view = [n \in Names |-> NotSet] /\ silent = {}
    /\ calls = 0
    /\ call = NoCall /\ requests = <<>> /\ serving = NoCall /\ returned = NoCall

Server == Serve \/ ServeAtomically \/ ServeSet \/ ServeSetNext \/ ServeSetDone

Next ==
    \/ \E n \in Names, v \in Values, d \in Descriptors : declare_parameter(n, v, d)
    \/ \E n \in Names, t \in {"integer"}, d \in Descriptors : declare_parameter_of_type(n, t, d)
    \/ \E n \in Names : undeclare_parameter(n)
    \/ \E v \in Vectors : set_parameters_atomically(v) \/ \E t \in Threads : set_parameters(t, v)
    \/ \E t \in Threads : set_parameters_next(t)
    \/ \E h \in Handles : \/ add_on_set_parameters_callback(h) \/ DropHandle(h)
                          \/ remove_on_set_parameters_callback(h)
    \/ \E r \in Requests : ClientCall(r)
    \/ ClientTimeout
    \/ Server

Spec == Init /\ [][Next]_vars

-----------------------------------------------------------------------------
(* Types; and a callback whose handle is held stays registered. *)
ParametersTypeOK ==
    /\ DOMAIN parameters_ \subseteq Names
    /\ \A n \in DOMAIN parameters_ : /\ parameters_[n].value \in Values
                                     /\ parameters_[n].descriptor.type \in ParameterTypes
    /\ live \subseteq Range(container) /\ Range(container) \subseteq Handles
    /\ view \in [Names -> Values] /\ silent \subseteq Names

(* Whatever sequence of declarations, overrides and sets led to it, an integer that has a
   range lies on the range's grid or is its end. *)
Conforms ==
    \A n \in DOMAIN parameters_ :
        LET p == parameters_[n] IN
        p.descriptor.range # <<>> /\ p.value.type = "integer" =>
            LET r == p.descriptor.range[1]
            IN \/ p.value.v = r.to
               \/ p.value.v \in r.from..r.to /\ \E k \in 0..(r.to - r.from) :
                                                p.value.v = r.from + k * (IF r.step = 0 THEN 1 ELSE r.step)

(* The type a statically typed parameter was declared with never changes, and it is
   never undeclared. *)
StaticTypeKept ==
    \A n \in DOMAIN parameters_ :
        ~parameters_[n].descriptor.dynamic_typing =>
            n \in DOMAIN parameters_' /\ parameters_'[n].descriptor = parameters_[n].descriptor

(* Events tell a remote reader the value of every parameter, whether it was declared,
   declared implicitly, set alone or with others, or deleted; undeclare_parameter alone
   is silent. *)
EventsTellAll == \A n \in Names \ silent : view[n] = get_parameter_if_set(n)

(* set_parameters_atomically is all or nothing: a call that does not succeed leaves the
   parameters as they were, one that does leaves every named parameter with its last
   value in the vector, or undeclared. *)
AllOrNothing ==
    last' # last =>
        IF last'.outcome # "ok" THEN parameters_' = parameters_
        ELSE \A n \in NamesIn(last'.vector) : get_parameter_if_set(n)' = LastOf(last'.vector, n)

(* Once declared, a read-only parameter keeps its value and its descriptor for ever. *)
ReadOnlyKept ==
    \A n \in DOMAIN parameters_ :
        parameters_[n].descriptor.read_only =>
            n \in DOMAIN parameters_' /\ parameters_'[n] = parameters_[n]

(* The ways to read a parameter agree: the two get_parameter overloads, get_parameters,
   get_parameter_types, the list and the client's has_parameter. *)
ReadsAgree ==
    \A n \in Names :
        /\ has_parameter(n) = (n \in list_parameters(DOMAIN parameters_, {}, 0))
        /\ has_parameter(n) = ClientHasParameter(DOMAIN parameters_, n)
        /\ get_parameter_if_set(n) # NotSet => /\ get_parameter(n) = get_parameter_if_set(n)
                                               /\ get_parameters(<<n>>) = <<get_parameter(n)>>
        /\ has_parameter(n) => get_parameter_types(<<n>>) = <<get_parameter_if_set(n).type>>
        /\ get_parameter(n) = Throws => ~allow_undeclared_ /\ get_parameter_if_set(n) = NotSet
        /\ has_parameter(n) /\ get_parameter(n) = Throws => ~describe_parameters(<<n>>)[1].dynamic_typing

(* A set_parameters call of the client that is answered has one result per parameter,
   even when some are not declared and other threads set parameters in between. *)
OneResultEach ==
    returned # NoCall => (returned.op = "set_parameters" /\ returned.how = "answer"
        => Len(returned.value) = Len(returned.arg))
===============================================================================
