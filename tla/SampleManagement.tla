-------------------------- MODULE SampleManagement --------------------------
(***************************************************************************)
(* The history a message carries: one entry per node it has passed, and    *)
(* the operations of sample_management.hpp and provenance.hpp on it. The   *)
(* names of nodes are compared for equality only.                          *)
(***************************************************************************)
EXTENDS Naturals, Sequences, SequencesExt

CONSTANT Capacity       \* message_t::STATS_CAPACITY

ASSUME CapacityAssumption == Capacity \in Nat \ {0}

Names(h) == {h[i].node : i \in DOMAIN h}
Index(h, n) == CHOOSE i \in DOMAIN h : h[i].node = n

(* A later snapshot of the same node: by sequence, then time, then drops. *)
is_newer_node_snapshot(a, b) ==
    \/ a.seq > b.seq
    \/ a.seq = b.seq /\ a.t > b.t
    \/ a.seq = b.seq /\ a.t = b.t /\ a.dropped > b.dropped

(* Room for e in h: its node has an entry already, or one more fits. *)
Fits(h, e) == e.node \in Names(h) \/ Len(h) < Capacity

(* set_sample puts e in place of an older entry of its node, or at the end. *)
set_sample(h, e) ==
    IF e.node \in Names(h)
    THEN LET i == Index(h, e.node)
         IN  IF is_newer_node_snapshot(e, h[i]) THEN [h EXCEPT ![i] = e] ELSE h
    ELSE IF Fits(h, e) THEN Append(h, e) ELSE h

(* merge_history_into_sample enters the entries of source one by one. The first *)
(* one without room is counted in metadata_overflow_count and ends the merge:   *)
(* later entries, even newer snapshots of nodes in sample, are not looked at.   *)
(* The duplicates its first loop removes do not arise: see UniqueNames.         *)
MergeEntry_FirstWins(m, e) ==
    IF m.full \/ ~Fits(m.h, e) THEN [m EXCEPT !.full = TRUE]
    ELSE IF e.node \in Names(m.h) THEN m
    ELSE [m EXCEPT !.h = Append(@, e)]

MergeEntry(m, e) ==
    IF m.full \/ ~Fits(m.h, e) THEN [m EXCEPT !.full = TRUE]
    ELSE [m EXCEPT !.h = set_sample(@, e)]

Merge(sample, source) == FoldLeft(MergeEntry, [h |-> sample, full |-> FALSE], source)

merge_history_into_sample(sample, source) == Merge(sample, source).h

(* The sequence number of the last entry stands for the message's own. *)
get_sample_sequence_number(h) == IF h = <<>> THEN 0 ELSE h[Len(h)].seq

missed_samples_OffByOne(h, last) ==
    LET s == get_sample_sequence_number(h) IN IF s > last THEN s - last ELSE 0

missed_samples(h, last) ==
    LET s == get_sample_sequence_number(h) IN IF s > last THEN s - last - 1 ELSE 0

-----------------------------------------------------------------------------
(* provenance.hpp: the sensor sample a message goes back to. *)

NoSource == [kind |-> 0, seq |-> 0, t |-> 0]

(* A record shows a source that is not valid as null. *)
provenance_source_json(s) == IF s.kind # 0 THEN s ELSE NoSource

(* oldest_provenance_source, as the set of its one result: the valid source  *)
(* with the least timestamp, the first of them in a tie, NoSource if no      *)
(* source is valid.                                                          *)
oldest_Newest(ss) ==
    LET valid == {i \in DOMAIN ss : ss[i].kind # 0}
    IN  IF valid = {} THEN {NoSource}
        ELSE {ss[i] : i \in {k \in valid : \A j \in valid :
                               ss[k].t > ss[j].t \/ (ss[k].t = ss[j].t /\ k <= j)}}

oldest_provenance_source(ss) ==
    LET valid == {i \in DOMAIN ss : ss[i].kind # 0}
    IN  IF valid = {} THEN {NoSource}
        ELSE {ss[i] : i \in {k \in valid : \A j \in valid :
                               ss[k].t < ss[j].t \/ (ss[k].t = ss[j].t /\ k <= j)}}
=============================================================================
