------------------------------- MODULE IdSets -------------------------------
(***************************************************************************)
(* The id sets of the configuration (internal/config/config.go): the guest *)
(* classes are lists of single ids and of inclusive ranges, read from the  *)
(* configuration and compared range by range.  That validate() and its     *)
(* Overlap keep the classes apart, and the self-service VMs inside         *)
(* gamingGuard, is what ClassesAssumption of module Decide takes from it.  *)
(* An IDSet is unbounded, so these facts are for proof and not for a run.  *)
(***************************************************************************)
EXTENDS Integers, Sequences, TLAPS

idRange == {r \in [lo : Int, hi : Int] : r.lo <= r.hi}
IDSet == Seq(idRange)

(* IDSet.UnmarshalYAML with parseRange: an entry is an id, which becomes a  *)
(* range of one, or a range, which must not be turned round; one that is    *)
(* not refuses the whole list.  The entries are kept in order.              *)
Entry == {r \in [lo : Int, hi : Int] : TRUE}
Accepted(entries) == \A i \in DOMAIN entries : entries[i].lo <= entries[i].hi

(* IDSet.Contains *)
Contains(s, id) == \E i \in DOMAIN s : id >= s[i].lo /\ id <= s[i].hi

(* IDSet.Overlap: the span two ranges share, from the greater lower end to  *)
(* the smaller upper end, is empty when the ends are the wrong way round.   *)
(* Which pair of ranges is reported first is of no consequence.             *)
Shared(r, t) ==
    [lo |-> IF r.lo >= t.lo THEN r.lo ELSE t.lo,
     hi |-> IF r.hi <= t.hi THEN r.hi ELSE t.hi]
Overlap(s, t) ==
    {Shared(s[p[1]], t[p[2]]) :
       p \in {q \in (DOMAIN s) \X (DOMAIN t) : Shared(s[q[1]], t[q[2]]).lo <= Shared(s[q[1]], t[q[2]]).hi}}

(* Config.validate, its part about guests; vms are the selfService.vms when *)
(* the self-service is enabled.                                             *)
validate(migrate, stop, gamingGuard, vms) ==
    /\ \A id \in vms : Contains(gamingGuard, id)
    /\ Overlap(migrate, stop) = {}
    /\ Overlap(migrate, gamingGuard) = {}
    /\ Overlap(stop, gamingGuard) = {}

Class(s) == {id \in Int : Contains(s, id)}

-----------------------------------------------------------------------------
(* A list that UnmarshalYAML accepts is an IDSet: no range is turned round. *)
LEMMA AcceptedIsIDSet ==
    ASSUME NEW entries \in Seq(Entry), Accepted(entries)
    PROVE  entries \in IDSet
<1>1. entries \in [1 .. Len(entries) -> Entry] /\ Len(entries) \in Nat
    OBVIOUS
<1>2. \A i \in 1 .. Len(entries) : entries[i] \in idRange
    BY <1>1 DEF Accepted, Entry, idRange
<1> QED
    BY <1>1, <1>2 DEF IDSet

(* Two ranges share an id exactly when their shared span is not empty, and  *)
(* the span holds nothing but shared ids (IDSet.Overlap, its inner loop).   *)
LEMMA SharedSpan ==
    ASSUME NEW r \in idRange, NEW t \in idRange, NEW id \in Int
    PROVE  /\ Shared(r, t).lo <= id /\ id <= Shared(r, t).hi
                <=> (r.lo <= id /\ id <= r.hi) /\ (t.lo <= id /\ id <= t.hi)
           /\ Shared(r, t).lo \in Int /\ Shared(r, t).hi \in Int
    BY DEF Shared, idRange

(* Overlap misses no common id: with no overlap reported the two classes    *)
(* are disjoint, and an overlap that is reported is a real one, every id of *)
(* its span being in both classes (IDSet.Overlap against IDSet.Contains).   *)
THEOREM OverlapIsExact ==
    ASSUME NEW s \in IDSet, NEW t \in IDSet
    PROVE  /\ Overlap(s, t) = {} <=> Class(s) \cap Class(t) = {}
           /\ \A o \in Overlap(s, t) :
                 o.lo <= o.hi /\ o.lo .. o.hi \subseteq Class(s) \cap Class(t)
<1> DEFINE Meets(i, j) == Shared(s[i], t[j]).lo <= Shared(s[i], t[j]).hi
<1>1. \A i \in DOMAIN s : s[i] \in idRange
    BY DEF IDSet
<1>2. \A j \in DOMAIN t : t[j] \in idRange
    BY DEF IDSet
<1>3. ASSUME NEW o \in Overlap(s, t)
      PROVE  o.lo <= o.hi /\ o.lo .. o.hi \subseteq Class(s) \cap Class(t) /\ o.lo \in Int
    <2>1. PICK i \in DOMAIN s, j \in DOMAIN t : o = Shared(s[i], t[j]) /\ Meets(i, j)
        BY <1>3 DEF Overlap
    <2>2. s[i] \in idRange /\ t[j] \in idRange
        BY <1>1, <1>2
    <2>3. o.lo \in Int /\ o.hi \in Int /\ o.lo <= o.hi
        BY <2>1, <2>2, SharedSpan, 0 \in Int
    <2>4. ASSUME NEW id \in o.lo .. o.hi
          PROVE  id \in Class(s) \cap Class(t)
        <3>1. id \in Int /\ o.lo <= id /\ id <= o.hi
            BY <2>3
        <3>2. (s[i].lo <= id /\ id <= s[i].hi) /\ (t[j].lo <= id /\ id <= t[j].hi)
            BY <3>1, <2>1, <2>2, SharedSpan
        <3>3. s[i].lo \in Int /\ s[i].hi \in Int /\ t[j].lo \in Int /\ t[j].hi \in Int
            BY <2>2 DEF idRange
        <3> QED
            BY <3>1, <3>2, <3>3 DEF Class, Contains
    <2> QED
        BY <2>3, <2>4
<1>4. ASSUME NEW id \in Class(s) \cap Class(t)
      PROVE  Overlap(s, t) # {}
    <2>1. PICK i \in DOMAIN s : id >= s[i].lo /\ id <= s[i].hi
        BY <1>4 DEF Class, Contains
    <2>2. PICK j \in DOMAIN t : id >= t[j].lo /\ id <= t[j].hi
        BY <1>4 DEF Class, Contains
    <2>3. id \in Int /\ s[i] \in idRange /\ t[j] \in idRange
        BY <1>1, <1>2, <1>4 DEF Class
    <2>4. Shared(s[i], t[j]).lo <= id /\ id <= Shared(s[i], t[j]).hi
        BY <2>1, <2>2, <2>3 DEF Shared, idRange
    <2>5. Meets(i, j)
        BY <2>3, <2>4, SharedSpan
    <2>6. Shared(s[i], t[j]) \in Overlap(s, t)
        <3> DEFINE q == <<i, j>>
        <3>1. q \in (DOMAIN s) \X (DOMAIN t) /\ q[1] = i /\ q[2] = j
            OBVIOUS
        <3> QED
            BY <3>1, <2>5 DEF Overlap
    <2> QED
        BY <2>6
<1>5. ASSUME NEW o \in Overlap(s, t)
      PROVE  Class(s) \cap Class(t) # {}
    BY <1>3
<1> QED
    BY <1>3, <1>4, <1>5

(* A configuration that validate() lets through has disjoint guest classes, *)
(* and holds p1 up for every VM it offers to users: what the decision and   *)
(* the handlers take for granted (config.go:460-493).                       *)
THEOREM ClassesAreApart ==
    ASSUME NEW migrate \in IDSet, NEW stop \in IDSet, NEW gamingGuard \in IDSet,
           NEW vms \in SUBSET Int, validate(migrate, stop, gamingGuard, vms)
    PROVE  /\ Class(migrate) \cap Class(stop) = {}
           /\ Class(migrate) \cap Class(gamingGuard) = {}
           /\ Class(stop) \cap Class(gamingGuard) = {}
           /\ vms \subseteq Class(gamingGuard)
    BY OverlapIsExact DEF validate, Class
=============================================================================
