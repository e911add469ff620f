--------------------------- MODULE SampleHistory ----------------------------
(***************************************************************************)
(* A node fills the history of one output message: it merges the histories *)
(* of its cached inputs one after the other, as Fusion and Cyclic do, and  *)
(* then enters itself. The inputs are arbitrary, so that two of them may   *)
(* disagree about a node both have passed, and Capacity may be exhausted.  *)
(***************************************************************************)
EXTENDS SampleManagement, FiniteSets

CONSTANTS
    NodeNames,
    Numbers,        \* the sequence numbers, timestamps and drops that occur
    MaxLen,         \* bound: length of an input's history
    MaxMerges       \* bound: inputs of the node

ASSUME HistoryAssumption ==
    /\ Numbers \subseteq Nat
    /\ MaxLen \in Nat
    /\ MaxMerges \in Nat

VARIABLES
    sample,     \* the history of the output message
    overflow,   \* metadata_overflow_count
    merges,     \* inputs merged so far
    done,       \* set_sample was called
    given       \* history: every entry offered

historyVars == <<sample, overflow, merges, done, given>>

Entries == [node : NodeNames, seq : Numbers, t : Numbers, dropped : {0}]

(* No history that a node publishes has two entries of one node. *)
Unique(h) == \A i, j \in DOMAIN h : h[i].node = h[j].node => i = j

Histories == {h \in UNION {[1 .. k -> Entries] : k \in 0 .. MaxLen} : Unique(h)}

HistoryTypeOK ==
    /\ Len(sample) <= Capacity
    /\ \A i \in DOMAIN sample : sample[i] \in given
    /\ overflow \in 0 .. MaxMerges + 1
    /\ merges \in 0 .. MaxMerges
    /\ done \in BOOLEAN
    /\ given \subseteq Entries

(* output_message.get().size = 0 *)
HistoryInit ==
    /\ sample = <<>>
    /\ overflow = 0
    /\ merges = 0
    /\ done = FALSE
    /\ given = {}

Count(full) == overflow' = IF full THEN overflow + 1 ELSE overflow

MergeInput(source) ==
    /\ ~done
    /\ merges < MaxMerges
    /\ merges' = merges + 1
    /\ sample' = merge_history_into_sample(sample, source)
    /\ Count(Merge(sample, source).full)
    /\ given' = given \cup {source[i] : i \in DOMAIN source}
    /\ UNCHANGED done

SetSample(e) ==
    /\ ~done
    /\ done' = TRUE
    /\ sample' = set_sample(sample, e)
    /\ Count(~Fits(sample, e))
    /\ given' = given \cup {e}
    /\ UNCHANGED merges

HistoryNext == (\E h \in Histories : MergeInput(h)) \/ (\E e \in Entries : SetSample(e))

HistorySpec == HistoryInit /\ [][HistoryNext]_historyVars

-----------------------------------------------------------------------------
(* Whatever the order of the inputs, one entry per node is kept. *)
UniqueNames == Unique(sample)

(* Unless an overflow was counted, every node that any input has passed has an *)
(* entry, and it is the newest snapshot that any input had of it: merging is   *)
(* independent of the order of the inputs.                                     *)
NewestKept ==
    overflow = 0 => \A e \in given : \E i \in DOMAIN sample :
        sample[i].node = e.node /\ ~is_newer_node_snapshot(e, sample[i])

(* The message is full whenever an overflow is counted: no entry is refused *)
(* while there is room for it.                                              *)
OverflowOnlyWhenFull == overflow > 0 => Len(sample) = Capacity

(* Whatever the order in which the histories of the inputs are merged, each node they have
   passed keeps one entry, the newest, unless the message is full, and then the loss is
   counted (sample_management.hpp:540-600). *)
HistoryKept == HistoryTypeOK /\ UniqueNames /\ NewestKept /\ OverflowOnlyWhenFull
=============================================================================
