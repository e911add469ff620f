---------------------------- MODULE SampleProofs ----------------------------
(***************************************************************************)
(* Proofs about the history of a message (SampleManagement), and about the *)
(* node that fills it (SampleHistory), for every capacity and any inputs.  *)
(*                                                                         *)
(* Merging folds over the entries of the source. What a fold computes is   *)
(* shown by induction on the number of entries merged, from the principle  *)
(* that a set of numbers with 0 and the successor of each member has every *)
(* number: that one can be cited, because the set is not an operator.      *)
(***************************************************************************)
EXTENDS SampleHistory, WellFoundedInduction, TLAPS

-----------------------------------------------------------------------------
(* Induction and folds. *)

(* A set that has 0, and the successor of every number it has, has every number. *)
LEMMA NatSetInduction ==
    ASSUME NEW T, 0 \in T, \A n \in Nat : n \in T => n + 1 \in T
    PROVE  Nat \subseteq T
<1>1. PICK R : R = OpToRel(<, Nat)
  OBVIOUS
<1>2. IsWellFoundedOn(R, Nat)
  BY <1>1, NatLessThanWellFounded
<1>3. SUFFICES ASSUME ~(Nat \subseteq T) PROVE FALSE
  OBVIOUS
<1>4. PICK F : F = Nat \ T
  OBVIOUS
<1>5. F # {} /\ F \subseteq Nat
  BY <1>3, <1>4
<1>6. PICK x \in F : \A y \in F : ~(<<y, x>> \in R)
  BY <1>2, <1>5, WFMin
<1>7. \A a, b \in Nat : b < a => <<b, a>> \in R
  BY <1>1 DEF OpToRel
<1>8. x \in Nat /\ x # 0
  BY <1>4, <1>6
<1>9. x - 1 \in Nat /\ x - 1 < x /\ (x - 1) + 1 = x
  BY <1>8
<1>10. x - 1 \notin F
  BY <1>6, <1>7, <1>8, <1>9
<1>11. x \in T
  BY <1>4, <1>9, <1>10
<1> QED BY <1>4, <1>6, <1>11

(* The last number of a set that ends with n + 1, and a set that does not. *)
LEMMA MaxOfInterval ==
    ASSUME NEW n \in Nat, NEW u \in SUBSET (1 .. n + 1)
    PROVE  /\ n + 1 \in u => Max(u) = n + 1
           /\ n + 1 \notin u => u \in SUBSET (1 .. n)
<1>1. ASSUME n + 1 \in u PROVE Max(u) = n + 1
  <2>1. \A y \in u : n + 1 >= y
    OBVIOUS
  <2>2. \A x \in u : (\A y \in u : x >= y) => x = n + 1
    BY <1>1
  <2> QED BY <1>1, <2>1, <2>2 DEF Max
<1>2. ASSUME n + 1 \notin u PROVE u \in SUBSET (1 .. n)
  BY <1>2
<1> QED BY <1>1, <1>2

(* The last number of 1 .. k is k. *)
LEMMA MaxOfFirst ==
    ASSUME NEW k \in Nat, k # 0
    PROVE  Max(1 .. k) = k /\ (1 .. k) \ {k} = 1 .. (k - 1)
<1>1. PICK j \in Nat : j = k - 1
  OBVIOUS
<1>2. 1 .. k \in SUBSET (1 .. j + 1) /\ j + 1 = k /\ k \in 1 .. k
  BY <1>1
<1>3. Max(1 .. k) = k
  BY <1>2, MaxOfInterval
<1> QED BY <1>3

(* The fold of Merge, as a function of the set of entries merged. *)
MergeIter(g, base, s, n) ==
    g = [u \in SUBSET (1 .. n) |->
            IF u = {} THEN base ELSE MergeEntry(g[u \ {Max(u)}], s[Max(u)])]

LEMMA MergeIterExists ==
    ASSUME NEW base, NEW s, NEW n \in Nat
    PROVE  \E g : MergeIter(g, base, s, n)
<1> DEFINE T == {k \in Nat : \E g : MergeIter(g, base, s, k)}
<1>1. 0 \in T
  <2>1. PICK g : g = [u \in SUBSET (1 .. 0) |-> base]
    OBVIOUS
  <2>2. \A u \in SUBSET (1 .. 0) : u = {}
    OBVIOUS
  <2>3. [u \in SUBSET (1 .. 0) |-> base]
        = [u \in SUBSET (1 .. 0) |->
              IF u = {} THEN base ELSE MergeEntry(g[u \ {Max(u)}], s[Max(u)])]
    BY <2>2
  <2> QED BY <2>1, <2>3 DEF MergeIter
<1>2. ASSUME NEW k \in Nat, k \in T PROVE k + 1 \in T
  <2>1. PICK g : MergeIter(g, base, s, k)
    BY <1>2
  <2>2. PICK h : h = [u \in SUBSET (1 .. k + 1) |->
                        IF k + 1 \in u THEN MergeEntry(g[u \ {k + 1}], s[k + 1]) ELSE g[u]]
    OBVIOUS
  <2>3. \A u \in SUBSET (1 .. k + 1) :
            h[u] = IF k + 1 \in u THEN MergeEntry(g[u \ {k + 1}], s[k + 1]) ELSE g[u]
    BY <2>2
  <2>4. \A u \in SUBSET (1 .. k) :
            g[u] = IF u = {} THEN base ELSE MergeEntry(g[u \ {Max(u)}], s[Max(u)])
    BY <2>1 DEF MergeIter
  <2>5. \A u \in SUBSET (1 .. k) : u \in SUBSET (1 .. k + 1) /\ k + 1 \notin u
    OBVIOUS
  <2>6. \A u \in SUBSET (1 .. k) : h[u] = g[u]
    BY <2>3, <2>5
  <2>7. ASSUME NEW u \in SUBSET (1 .. k + 1)
        PROVE  h[u] = IF u = {} THEN base ELSE MergeEntry(h[u \ {Max(u)}], s[Max(u)])
    <3>1. CASE k + 1 \in u
      <4>1. Max(u) = k + 1
        BY <3>1, MaxOfInterval
      <4>2. u \ {k + 1} \in SUBSET (1 .. k)
        OBVIOUS
      <4> QED BY <4>1, <4>2, <2>3, <2>6, <3>1
    <3>2. CASE k + 1 \notin u
      <4>1. u \in SUBSET (1 .. k)
        BY <3>2, MaxOfInterval
      <4>2. u \ {Max(u)} \in SUBSET (1 .. k)
        BY <4>1
      <4> QED BY <4>1, <4>2, <2>4, <2>6
    <3> QED BY <3>1, <3>2
  <2>8. h = [u \in SUBSET (1 .. k + 1) |->
                IF u = {} THEN base ELSE MergeEntry(h[u \ {Max(u)}], s[Max(u)])]
    BY <2>2, <2>7
  <2>9. MergeIter(h, base, s, k + 1)
    BY <2>8 DEF MergeIter
  <2> QED BY <2>9
<1> HIDE DEF T
<1>3. Nat \subseteq T
  BY <1>1, <1>2, NatSetInduction
<1> QED BY <1>3 DEF T

(* f is what has been merged after each number of entries. *)
MergeSteps(f, base, s) ==
    /\ f[0] = base
    /\ \A k \in DOMAIN s : f[k] = MergeEntry(f[k - 1], s[k])

(* Merging enters one entry after the other. *)
LEMMA MergeUnfolds ==
    ASSUME NEW h0, NEW S, NEW s \in Seq(S)
    PROVE  \E f : MergeSteps(f, [h |-> h0, full |-> FALSE], s) /\ Merge(h0, s) = f[Len(s)]
<1>0. PICK base : base = [h |-> h0, full |-> FALSE]
  OBVIOUS
<1> DEFINE Body(gg) == [u \in SUBSET (DOMAIN s) |->
                          IF u = {} THEN base ELSE MergeEntry(gg[u \ {Max(u)}], s[Max(u)])]
<1>1. Len(s) \in Nat /\ DOMAIN s = 1 .. Len(s)
  OBVIOUS
<1>2. \E g : MergeIter(g, base, s, Len(s))
  BY <1>1, MergeIterExists
<1>3. \E gg : gg = Body(gg)
  BY <1>1, <1>2 DEF MergeIter
<1>4. PICK g : g = CHOOSE gg : gg = Body(gg)
  OBVIOUS
<1>5. g = Body(g)
  BY <1>3, <1>4
<1>6. Merge(h0, s) = g[DOMAIN s]
  BY <1>0, <1>4 DEF Merge, FoldLeft, MapThenFoldSet
<1>7. PICK f : f = [k \in 0 .. Len(s) |-> g[1 .. k]]
  OBVIOUS
<1>8. f[0] = base
  <2>1. 1 .. 0 = {} /\ {} \in SUBSET DOMAIN s /\ 0 \in 0 .. Len(s)
    BY <1>1
  <2> QED BY <2>1, <1>5, <1>7
<1>9. ASSUME NEW k \in DOMAIN s PROVE f[k] = MergeEntry(f[k - 1], s[k])
  <2>1. k \in Nat /\ k # 0 /\ k - 1 \in 0 .. Len(s) /\ k \in 0 .. Len(s)
    BY <1>1
  <2>2. 1 .. k \in SUBSET DOMAIN s /\ 1 .. k # {}
    BY <1>1, <2>1
  <2>3. Max(1 .. k) = k /\ (1 .. k) \ {k} = 1 .. (k - 1)
    BY <2>1, MaxOfFirst
  <2>4. g[1 .. k] = MergeEntry(g[(1 .. k) \ {Max(1 .. k)}], s[Max(1 .. k)])
    BY <1>5, <2>2
  <2> QED BY <2>1, <2>3, <2>4, <1>7
<1>10. MergeSteps(f, base, s)
  BY <1>8, <1>9 DEF MergeSteps
<1>11. Merge(h0, s) = f[Len(s)]
  BY <1>1, <1>6, <1>7
<1> QED BY <1>0, <1>10, <1>11

-----------------------------------------------------------------------------
(* Entries and histories. *)

(* Numbers that is_newer_node_snapshot can compare. *)
Comparable(E) == \A e \in E : e.seq \in Nat /\ e.t \in Nat /\ e.dropped \in Nat

(* h has the entries of E, one for each node, and is not too long. *)
Proper(h, E) == h \in Seq(E) /\ Unique(h) /\ Len(h) <= Capacity

(* h has an entry of x's node that is no older than x. *)
Covers(h, x) ==
    \E i \in DOMAIN h : h[i].node = x.node /\ ~is_newer_node_snapshot(x, h[i])

(* The entry of a node that has one. *)
LEMMA IndexFacts ==
    ASSUME NEW h, NEW n \in Names(h)
    PROVE  Index(h, n) \in DOMAIN h /\ h[Index(h, n)].node = n
<1>1. \E i \in DOMAIN h : h[i].node = n
  BY DEF Names
<1> QED BY <1>1 DEF Index

(* Three snapshots are ordered as numbers are. *)
LEMMA NewerFacts ==
    ASSUME NEW E, Comparable(E), NEW x \in E, NEW y \in E, NEW z \in E,
           ~is_newer_node_snapshot(x, y), is_newer_node_snapshot(z, y)
    PROVE  ~is_newer_node_snapshot(x, z)
BY DEF Comparable, is_newer_node_snapshot

LEMMA NotNewerThanItself ==
    ASSUME NEW E, Comparable(E), NEW x \in E
    PROVE  ~is_newer_node_snapshot(x, x)
BY DEF Comparable, is_newer_node_snapshot

(* What set_sample leaves: the entries it had and the new one, one for each node, no fewer
   than before; and the new one last if its node had none and there is room. *)
LEMMA SetSampleFacts ==
    ASSUME NEW E, NEW h, Proper(h, E), NEW e \in E
    PROVE  /\ Proper(set_sample(h, e), E)
           /\ Len(h) <= Len(set_sample(h, e))
           /\ e.node \notin Names(h) /\ Len(h) < Capacity => set_sample(h, e) = Append(h, e)
<1>0. h \in Seq(E) /\ Unique(h) /\ Len(h) <= Capacity /\ Len(h) \in Nat /\ DOMAIN h = 1 .. Len(h)
  BY DEF Proper
<1>1. CASE e.node \in Names(h)
  <2>1. PICK i \in DOMAIN h : i = Index(h, e.node) /\ h[i].node = e.node
    BY <1>1, IndexFacts
  <2>2. set_sample(h, e) = h \/ set_sample(h, e) = [h EXCEPT ![i] = e]
    BY <1>1, <2>1 DEF set_sample
  <2>3. PICK g : g = [h EXCEPT ![i] = e]
    OBVIOUS
  <2>4. g \in Seq(E) /\ Len(g) = Len(h) /\ DOMAIN g = DOMAIN h
    BY <1>0, <2>3
  <2>5. \A j \in DOMAIN h : g[j].node = h[j].node
    BY <2>1, <2>3
  <2>6. Unique(g)
    BY <1>0, <2>4, <2>5 DEF Unique
  <2>7. Proper(g, E) /\ Proper(h, E) /\ Len(h) <= Len(g) /\ Len(h) <= Len(h)
    BY <1>0, <2>4, <2>6 DEF Proper
  <2>8. set_sample(h, e) = h \/ set_sample(h, e) = g
    BY <2>2, <2>3
  <2> QED BY <1>1, <2>7, <2>8
<1>2. CASE e.node \notin Names(h) /\ Len(h) < Capacity
  <2>1. set_sample(h, e) = Append(h, e)
    BY <1>2 DEF set_sample, Fits
  <2>2. PICK g : g = Append(h, e)
    OBVIOUS
  <2>3. /\ g \in Seq(E) /\ Len(g) = Len(h) + 1 /\ DOMAIN g = 1 .. Len(h) + 1
        /\ g[Len(h) + 1] = e /\ \A j \in DOMAIN h : g[j] = h[j]
    BY <1>0, <2>2
  <2>4. \A j \in DOMAIN h : h[j].node # e.node
    BY <1>2 DEF Names
  <2>5. Unique(g)
    BY <1>0, <2>3, <2>4 DEF Unique
  <2>6. Len(g) <= Capacity
    BY <1>0, <1>2, <2>3, CapacityAssumption
  <2>7. Proper(g, E) /\ Len(h) <= Len(g)
    BY <1>0, <2>3, <2>5, <2>6 DEF Proper
  <2> QED BY <2>1, <2>2, <2>7
<1>3. CASE e.node \notin Names(h) /\ ~(Len(h) < Capacity)
  <2>1. set_sample(h, e) = h
    BY <1>3 DEF set_sample, Fits
  <2>2. Len(h) <= Len(h)
    BY <1>0
  <2> QED BY <1>3, <2>1, <2>2
<1> QED BY <1>1, <1>2, <1>3

(* set_sample covers what was covered, and the new entry if it fits. *)
LEMMA SetSampleCovers ==
    ASSUME NEW E, Comparable(E), NEW h, Proper(h, E), NEW e \in E
    PROVE  /\ \A x \in E : Covers(h, x) => Covers(set_sample(h, e), x)
           /\ Fits(h, e) => Covers(set_sample(h, e), e)
<1>0. h \in Seq(E) /\ Len(h) \in Nat /\ DOMAIN h = 1 .. Len(h)
  BY DEF Proper
<1>1. CASE e.node \in Names(h)
  <2>1. PICK i \in DOMAIN h : i = Index(h, e.node) /\ h[i].node = e.node
    BY <1>1, IndexFacts
  <2>2. h[i] \in E
    BY <1>0
  <2>3. CASE is_newer_node_snapshot(e, h[i])
    <3>1. PICK g : g = [h EXCEPT ![i] = e]
      OBVIOUS
    <3>2. set_sample(h, e) = g
      BY <1>1, <2>1, <2>3, <3>1 DEF set_sample
    <3>3. DOMAIN g = DOMAIN h /\ g[i] = e /\ \A j \in DOMAIN h : j # i => g[j] = h[j]
      BY <1>0, <3>1
    <3>4. Covers(g, e)
      BY <3>3, <2>1, NotNewerThanItself DEF Covers
    <3>5. ASSUME NEW x \in E, Covers(h, x) PROVE Covers(g, x)
      <4>1. PICK j \in DOMAIN h : h[j].node = x.node /\ ~is_newer_node_snapshot(x, h[j])
        BY <3>5 DEF Covers
      <4>2. CASE j = i
        <5>1. ~is_newer_node_snapshot(x, e)
          BY <2>2, <2>3, <4>1, <4>2, NewerFacts
        <5> QED BY <3>3, <2>1, <4>1, <4>2, <5>1 DEF Covers
      <4>3. CASE j # i
        BY <3>3, <4>1, <4>3 DEF Covers
      <4> QED BY <4>2, <4>3
    <3> QED BY <3>2, <3>4, <3>5
  <2>4. CASE ~is_newer_node_snapshot(e, h[i])
    <3>1. set_sample(h, e) = h
      BY <1>1, <2>1, <2>4 DEF set_sample
    <3>2. Covers(h, e)
      BY <2>1, <2>4 DEF Covers
    <3> QED BY <3>1, <3>2
  <2> QED BY <2>3, <2>4
<1>2. CASE e.node \notin Names(h) /\ Fits(h, e)
  <2>1. PICK g : g = Append(h, e)
    OBVIOUS
  <2>2. set_sample(h, e) = g
    BY <1>2, <2>1 DEF set_sample
  <2>3. /\ DOMAIN g = 1 .. Len(h) + 1
        /\ g[Len(h) + 1] = e /\ \A j \in DOMAIN h : j \in DOMAIN g /\ g[j] = h[j]
    BY <1>0, <2>1
  <2>4. Len(h) + 1 \in DOMAIN g
    BY <1>0, <2>3
  <2>5. Covers(g, e)
    BY <2>3, <2>4, NotNewerThanItself DEF Covers
  <2>6. \A x \in E : Covers(h, x) => Covers(g, x)
    BY <2>3 DEF Covers
  <2> QED BY <2>2, <2>5, <2>6
<1>3. CASE ~Fits(h, e)
  <2>1. set_sample(h, e) = h
    BY <1>3 DEF set_sample, Fits
  <2> QED BY <1>3, <2>1
<1> QED BY <1>1, <1>2, <1>3

-----------------------------------------------------------------------------
(* Merging. *)

(* What is true of m after merging k entries of s into h. *)
MergeTrue(m, h, s, k, E) ==
    /\ m = [h |-> m.h, full |-> m.full]
    /\ m.full \in BOOLEAN
    /\ Proper(m.h, E)
    /\ Len(h) <= Len(m.h)
    /\ m.full => Len(m.h) = Capacity
    /\ Comparable(E) => /\ \A x \in E : Covers(h, x) => Covers(m.h, x)
                        /\ ~m.full => \A j \in 1 .. k : Covers(m.h, s[j])

(* One more entry. *)
LEMMA MergeOne ==
    ASSUME NEW E, NEW h, NEW s \in Seq(E), Proper(h, E), NEW k \in Nat, k + 1 \in DOMAIN s,
           NEW m, MergeTrue(m, h, s, k, E)
    PROVE  MergeTrue(MergeEntry(m, s[k + 1]), h, s, k + 1, E)
<1>0. PICK e \in E : e = s[k + 1]
  OBVIOUS
<1>1. /\ m = [h |-> m.h, full |-> m.full] /\ m.full \in BOOLEAN /\ Proper(m.h, E)
      /\ Len(h) <= Len(m.h) /\ (m.full => Len(m.h) = Capacity)
  BY DEF MergeTrue
<1>2. Len(h) \in Nat /\ Len(m.h) \in Nat /\ Len(m.h) <= Capacity
  BY <1>1 DEF Proper
<1>3. CASE m.full \/ ~Fits(m.h, e)
  <2>1. PICK r : r = MergeEntry(m, e)
    OBVIOUS
  <2>2. r.h = m.h /\ r.full = TRUE /\ r = [h |-> m.h, full |-> TRUE]
    BY <1>1, <1>3, <2>1 DEF MergeEntry
  <2>3. Len(m.h) = Capacity
    BY <1>1, <1>2, <1>3, CapacityAssumption DEF Fits
  <2>4. Comparable(E) => \A x \in E : Covers(h, x) => Covers(m.h, x)
    BY DEF MergeTrue
  <2> QED BY <1>0, <1>1, <2>1, <2>2, <2>3, <2>4 DEF MergeTrue
<1>4. CASE ~m.full /\ Fits(m.h, e)
  <2>1. PICK r : r = MergeEntry(m, e)
    OBVIOUS
  <2>2. PICK g : g = set_sample(m.h, e)
    OBVIOUS
  <2>3. r.h = g /\ r.full = FALSE /\ r = [h |-> g, full |-> FALSE]
    BY <1>1, <1>4, <2>1, <2>2 DEF MergeEntry
  <2>4. Proper(g, E) /\ Len(m.h) <= Len(g)
    BY <1>1, <2>2, SetSampleFacts
  <2>5. Len(g) \in Nat
    BY <2>4 DEF Proper
  <2>6. Len(h) <= Len(g)
    BY <1>1, <1>2, <2>4, <2>5
  <2>7. ASSUME Comparable(E)
        PROVE  /\ \A x \in E : Covers(h, x) => Covers(g, x)
               /\ \A j \in 1 .. k + 1 : Covers(g, s[j])
    <3>1. /\ \A x \in E : Covers(m.h, x) => Covers(g, x)
          /\ Covers(g, e)
      BY <1>1, <1>4, <2>2, <2>7, SetSampleCovers
    <3>2. /\ \A x \in E : Covers(h, x) => Covers(m.h, x)
          /\ \A j \in 1 .. k : Covers(m.h, s[j])
      BY <1>4, <2>7 DEF MergeTrue
    <3>3. \A j \in 1 .. k + 1 : j = k + 1 \/ (j \in 1 .. k /\ s[j] \in E)
      OBVIOUS
    <3> QED BY <1>0, <3>1, <3>2, <3>3
  <2> QED BY <1>0, <2>1, <2>3, <2>4, <2>6, <2>7 DEF MergeTrue
<1> QED BY <1>3, <1>4

(* What merging leaves: entries of both, one for each node, no fewer than the sample had and
   as many as fit if one was refused; what was covered stays so, and unless one was refused
   every entry of the source is. *)
LEMMA MergeFacts ==
    ASSUME NEW E, NEW h, NEW s \in Seq(E), Proper(h, E)
    PROVE  MergeTrue(Merge(h, s), h, s, Len(s), E)
<1>0. PICK base : base = [h |-> h, full |-> FALSE]
  OBVIOUS
<1>1. PICK f : MergeSteps(f, base, s) /\ Merge(h, s) = f[Len(s)]
  BY <1>0, MergeUnfolds
<1>2. Len(s) \in Nat /\ DOMAIN s = 1 .. Len(s)
  OBVIOUS
<1> DEFINE T == {k \in Nat : k <= Len(s) => MergeTrue(f[k], h, s, k, E)}
<1>3. 0 \in T
  <2>1. base.h = h /\ base.full = FALSE /\ f[0] = base
    BY <1>0, <1>1 DEF MergeSteps
  <2>2. Len(h) <= Len(h)
    BY DEF Proper
  <2>3. MergeTrue(base, h, s, 0, E)
    BY <1>0, <2>1, <2>2 DEF MergeTrue
  <2> QED BY <2>1, <2>3
<1>4. ASSUME NEW k \in Nat, k \in T PROVE k + 1 \in T
  <2>1. SUFFICES ASSUME k + 1 <= Len(s) PROVE MergeTrue(f[k + 1], h, s, k + 1, E)
    OBVIOUS
  <2>2. k + 1 \in DOMAIN s /\ k <= Len(s) /\ (k + 1) - 1 = k
    BY <1>2, <2>1
  <2>3. MergeTrue(f[k], h, s, k, E)
    BY <1>4, <2>2
  <2>4. f[k + 1] = MergeEntry(f[k], s[k + 1])
    BY <1>1, <2>2 DEF MergeSteps
  <2> QED BY <2>2, <2>3, <2>4, MergeOne
<1> HIDE DEF T
<1>5. Len(s) \in T
  BY <1>2, <1>3, <1>4, NatSetInduction
<1>6. Len(s) <= Len(s)
  BY <1>2
<1> QED BY <1>1, <1>5, <1>6 DEF T

-----------------------------------------------------------------------------
(* The node that fills a history. *)

LEMMA EntriesComparable == Comparable(Entries)
<1>1. Numbers \subseteq Nat
  BY HistoryAssumption
<1>2. ASSUME NEW e \in Entries PROVE e.seq \in Nat /\ e.t \in Nat /\ e.dropped \in Nat
  <2>1. e.seq \in Numbers /\ e.t \in Numbers /\ e.dropped = 0
    BY DEF Entries
  <2>2. e.seq \in Nat /\ e.t \in Nat
    BY <1>1, <2>1, Zenon
  <2>3. e.dropped \in Nat
    BY <2>1
  <2> QED BY <2>2, <2>3
<1> QED BY <1>2 DEF Comparable

HistoryInv ==
    /\ sample \in Seq(given)
    /\ HistoryKept
    /\ overflow <= merges + 1
    /\ ~done => overflow <= merges

(* What is true of sample as a history of Entries. *)
LEMMA SampleProper ==
    ASSUME HistoryInv
    PROVE  Proper(sample, Entries) /\ Proper(sample, given)
<1>1. sample \in Seq(given) /\ given \subseteq Entries /\ Len(sample) <= Capacity /\ Unique(sample)
  BY DEF HistoryInv, HistoryKept, HistoryTypeOK, UniqueNames
<1>2. sample \in Seq(Entries)
  BY <1>1
<1> QED BY <1>1, <1>2 DEF Proper

LEMMA HistoryInitInv == HistoryInit => HistoryInv
<1>1. SUFFICES ASSUME HistoryInit PROVE HistoryInv
  OBVIOUS
<1>2. /\ sample = <<>> /\ overflow = 0 /\ merges = 0 /\ done = FALSE /\ given = {}
  BY <1>1 DEF HistoryInit
<1>3. sample \in Seq(given) /\ Len(sample) = 0 /\ DOMAIN sample = {}
  BY <1>2
<1>4. HistoryTypeOK
  <2>1. MaxMerges \in Nat /\ Capacity \in Nat
    BY HistoryAssumption, CapacityAssumption
  <2>2. 0 \in 0 .. MaxMerges + 1 /\ 0 \in 0 .. MaxMerges /\ 0 <= Capacity
    BY <2>1
  <2> QED BY <1>2, <1>3, <2>2 DEF HistoryTypeOK
<1>5. UniqueNames /\ NewestKept /\ OverflowOnlyWhenFull
  BY <1>2, <1>3 DEF UniqueNames, Unique, NewestKept, OverflowOnlyWhenFull
<1> QED BY <1>2, <1>3, <1>4, <1>5 DEF HistoryInv, HistoryKept

(* A step that leaves a proper history with no fewer entries, in which either everything new
   is covered or, with an overflow counted, there is no room. *)
LEMMA HistoryStep ==
    ASSUME HistoryInv, NEW new \in SUBSET Entries,
           given' = given \cup new,
           Proper(sample', given'), Len(sample) <= Len(sample'),
           \A x \in given : Covers(sample, x) => Covers(sample', x),
           \/ overflow' = overflow /\ \A x \in new : Covers(sample', x)
           \/ overflow' = overflow + 1 /\ Len(sample') = Capacity,
           overflow' \in 0 .. MaxMerges + 1, merges' \in 0 .. MaxMerges, done' \in BOOLEAN
    PROVE  sample' \in Seq(given') /\ HistoryKept'
<1>0. MaxMerges \in Nat /\ Capacity \in Nat /\ overflow \in Nat
  BY HistoryAssumption, CapacityAssumption DEF HistoryInv, HistoryKept, HistoryTypeOK
<1>1. /\ sample' \in Seq(given') /\ Unique(sample') /\ Len(sample') <= Capacity
      /\ Len(sample') \in Nat /\ DOMAIN sample' = 1 .. Len(sample')
  BY DEF Proper
<1>2. Len(sample) \in Nat /\ given \subseteq Entries
  BY DEF HistoryInv, HistoryKept, HistoryTypeOK
<1>3. HistoryTypeOK'
  <2>1. \A i \in DOMAIN sample' : sample'[i] \in given'
    BY <1>1
  <2>2. given' \subseteq Entries
    BY <1>2
  <2> QED BY <1>1, <2>1, <2>2 DEF HistoryTypeOK
<1>4. UniqueNames'
  BY <1>1 DEF UniqueNames
<1>5. NewestKept'
  <2>1. SUFFICES ASSUME overflow' = 0, NEW x \in given' PROVE Covers(sample', x)
    BY DEF NewestKept, Covers
  <2>2. overflow = 0 /\ \A y \in new : Covers(sample', y)
    BY <1>0, <2>1
  <2>3. \A y \in given : Covers(sample, y)
    BY <2>2 DEF HistoryInv, HistoryKept, NewestKept, Covers
  <2> QED BY <2>2, <2>3
<1>6. OverflowOnlyWhenFull'
  <2>1. SUFFICES ASSUME overflow' > 0, overflow' = overflow PROVE Len(sample') = Capacity
    BY DEF OverflowOnlyWhenFull
  <2>2. Len(sample) = Capacity
    BY <2>1 DEF HistoryInv, HistoryKept, OverflowOnlyWhenFull
  <2>3. PICK a, b \in Nat : a = Len(sample) /\ b = Len(sample')
    BY <1>1, <1>2
  <2>4. a <= b /\ b <= Capacity /\ a = Capacity
    BY <1>1, <2>2, <2>3
  <2>5. b = Capacity
    BY <1>0, <2>4
  <2> QED BY <2>3, <2>5
<1> QED BY <1>1, <1>3, <1>4, <1>5, <1>6 DEF HistoryKept

LEMMA MergeInputInv ==
    ASSUME HistoryInv, NEW s \in Histories, MergeInput(s)
    PROVE  HistoryInv'
<1>0. PICK new : new = {s[i] : i \in DOMAIN s}
  OBVIOUS
<1>1. /\ ~done /\ merges < MaxMerges /\ merges' = merges + 1 /\ done' = done
      /\ sample' = Merge(sample, s).h /\ Count(Merge(sample, s).full)
      /\ given' = given \cup new
  BY <1>0 DEF MergeInput, merge_history_into_sample
<1>2. s \in Seq(Entries)
  BY HistoryAssumption DEF Histories
<1>3. s \in Seq(new)
  BY <1>0, <1>2
<1>4. new \in SUBSET Entries
  BY <1>0, <1>2
<1>5. given \subseteq Entries /\ overflow \in Nat /\ merges \in Nat
  BY DEF HistoryInv, HistoryKept, HistoryTypeOK
<1>6. PICK E : E = given \cup new
  OBVIOUS
<1>7. E \subseteq Entries /\ s \in Seq(E)
  BY <1>3, <1>4, <1>5, <1>6
<1>8. Proper(sample, E)
  <2>1. sample \in Seq(given)
    BY DEF HistoryInv
  <2>2. sample \in Seq(E)
    BY <1>6, <2>1
  <2> QED BY <2>2, SampleProper DEF Proper
<1>9. PICK m : m = Merge(sample, s)
  OBVIOUS
<1>10. MergeTrue(m, sample, s, Len(s), E)
  BY <1>7, <1>8, <1>9, MergeFacts
<1>11. Comparable(E)
  BY <1>7, EntriesComparable DEF Comparable
<1>12. /\ m.full \in BOOLEAN /\ Proper(m.h, E) /\ Len(sample) <= Len(m.h)
       /\ (m.full => Len(m.h) = Capacity)
       /\ \A x \in E : Covers(sample, x) => Covers(m.h, x)
       /\ ~m.full => \A j \in 1 .. Len(s) : Covers(m.h, s[j])
  BY <1>10, <1>11 DEF MergeTrue
<1>13. ~m.full => \A x \in new : Covers(m.h, x)
  BY <1>0, <1>2, <1>12
<1>14. overflow <= merges
  BY <1>1 DEF HistoryInv
<1>15. sample' = m.h /\ Count(m.full) /\ given' = E
  BY <1>1, <1>6, <1>9
<1>16. Proper(sample', given') /\ Len(sample) <= Len(sample')
  BY <1>12, <1>15
<1>17. \A x \in given : Covers(sample, x) => Covers(sample', x)
  BY <1>6, <1>12, <1>15
<1>18. \/ overflow' = overflow /\ \A x \in new : Covers(sample', x)
       \/ overflow' = overflow + 1 /\ Len(sample') = Capacity
  BY <1>12, <1>13, <1>15 DEF Count
<1>19. overflow' <= merges' /\ merges' \in 0 .. MaxMerges /\ overflow' \in Nat
  <2>1. overflow' = overflow \/ overflow' = overflow + 1
    BY <1>18
  <2> QED BY <1>1, <1>5, <1>14, <2>1, HistoryAssumption
<1>20. overflow' \in 0 .. MaxMerges + 1 /\ overflow' <= merges' + 1
  <2>1. MaxMerges \in Nat
    BY HistoryAssumption
  <2>2. PICK a, b \in Nat : a = overflow' /\ b = merges'
    BY <1>19
  <2>3. a <= b /\ b <= MaxMerges
    BY <1>19, <2>1, <2>2
  <2>4. a \in 0 .. MaxMerges + 1 /\ a <= b + 1
    BY <2>1, <2>3
  <2> QED BY <2>2, <2>4
<1>21. done' \in BOOLEAN
  BY <1>1 DEF HistoryInv, HistoryKept, HistoryTypeOK
<1>22. sample' \in Seq(given') /\ HistoryKept'
  BY <1>1, <1>4, <1>16, <1>17, <1>18, <1>19, <1>20, <1>21, HistoryStep
<1> QED BY <1>19, <1>20, <1>22 DEF HistoryInv

LEMMA SetSampleInv ==
    ASSUME HistoryInv, NEW e \in Entries, SetSample(e)
    PROVE  HistoryInv'
<1>0. PICK full \in BOOLEAN : full = ~Fits(sample, e)
  OBVIOUS
<1>1. /\ ~done /\ done' = TRUE /\ merges' = merges
      /\ sample' = set_sample(sample, e) /\ Count(full) /\ given' = given \cup {e}
  BY <1>0 DEF SetSample
<1>2. given \subseteq Entries /\ overflow \in Nat /\ merges \in 0 .. MaxMerges
  BY DEF HistoryInv, HistoryKept, HistoryTypeOK
<1>3. PICK E : E = given \cup {e}
  OBVIOUS
<1>4. E \subseteq Entries /\ e \in E
  BY <1>2, <1>3
<1>5. Proper(sample, E)
  <2>1. sample \in Seq(given)
    BY DEF HistoryInv
  <2>2. sample \in Seq(E)
    BY <1>3, <2>1
  <2> QED BY <2>2, SampleProper DEF Proper
<1>6. PICK g : g = set_sample(sample, e)
  OBVIOUS
<1>7. Proper(g, E) /\ Len(sample) <= Len(g)
  BY <1>4, <1>5, <1>6, SetSampleFacts
<1>8. Comparable(E)
  BY <1>4, EntriesComparable DEF Comparable
<1>9. /\ \A x \in E : Covers(sample, x) => Covers(g, x)
      /\ ~full => Covers(g, e)
  BY <1>0, <1>4, <1>5, <1>6, <1>8, SetSampleCovers
<1>10. full => Len(g) = Capacity
  <2>1. SUFFICES ASSUME full PROVE Len(g) = Capacity
    OBVIOUS
  <2>2. ~(Len(sample) < Capacity)
    BY <1>0, <2>1 DEF Fits
  <2>3. Len(sample) \in Nat /\ Len(g) \in Nat /\ Len(g) <= Capacity
    BY <1>5, <1>7 DEF Proper
  <2> QED BY <1>7, <2>2, <2>3, CapacityAssumption
<1>11. overflow <= merges
  BY <1>1 DEF HistoryInv
<1>13. sample' = g /\ given' = E
  BY <1>1, <1>3, <1>6
<1>14. Proper(sample', given') /\ Len(sample) <= Len(sample')
  BY <1>7, <1>13
<1>15. \A x \in given : Covers(sample, x) => Covers(sample', x)
  BY <1>3, <1>9, <1>13
<1>16. \/ overflow' = overflow /\ \A x \in {e} : Covers(sample', x)
       \/ overflow' = overflow + 1 /\ Len(sample') = Capacity
  BY <1>1, <1>9, <1>10, <1>13 DEF Count
<1>17. merges' \in 0 .. MaxMerges /\ done' \in BOOLEAN
  BY <1>1, <1>2
<1>18. overflow' <= merges' + 1 /\ overflow' \in 0 .. MaxMerges + 1
  <2>1. overflow' = overflow \/ overflow' = overflow + 1
    BY <1>16
  <2> QED BY <1>1, <1>2, <1>11, <2>1, HistoryAssumption
<1>19. {e} \in SUBSET Entries
  OBVIOUS
<1>20. sample' \in Seq(given') /\ HistoryKept'
  BY <1>1, <1>14, <1>15, <1>16, <1>17, <1>18, <1>19, HistoryStep
<1> QED BY <1>1, <1>18, <1>20 DEF HistoryInv

LEMMA HistoryNextInv == HistoryInv /\ [HistoryNext]_historyVars => HistoryInv'
<1>1. SUFFICES ASSUME HistoryInv, [HistoryNext]_historyVars PROVE HistoryInv'
  OBVIOUS
<1>2. CASE HistoryNext
  BY <1>1, <1>2, MergeInputInv, SetSampleInv DEF HistoryNext
<1>3. CASE UNCHANGED historyVars
  BY <1>1, <1>3 DEF historyVars, HistoryInv, HistoryKept, HistoryTypeOK, UniqueNames, Unique,
     NewestKept, OverflowOnlyWhenFull
<1> QED BY <1>1, <1>2, <1>3

(* Whatever histories a node merges, of any number of nodes and in any order, and whatever
   the capacity: each node they have passed keeps one entry, the newest anyone had of it,
   unless the message is full, and then the loss is counted. *)
THEOREM HistoryIsKept == HistorySpec => []HistoryKept
<1>1. HistoryInv => HistoryKept
  BY DEF HistoryInv
<1> QED BY HistoryInitInv, HistoryNextInv, <1>1, PTL DEF HistorySpec
=============================================================================
