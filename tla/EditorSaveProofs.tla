-------------------------- MODULE EditorSaveProofs --------------------------
(***************************************************************************)
(* Proofs about EditorSave.  First its invariants on the timers, the       *)
(* requests under way and the rows; then NothingLost, HidingSaves and      *)
(* NeverBack: what was last typed in a field waits in a timer, is what the *)
(* last update under way carries, or is stored with no update under way;   *)
(* the text of the document shown may instead be in the editor alone,      *)
(* which then marks it as edited; and updates are under way in the order   *)
(* in which their values were typed.                                       *)
(***************************************************************************)
EXTENDS EditorSave, SequenceTheorems, TLAPS

-----------------------------------------------------------------------------
(* Sequences of requests.                                                  *)

\* RemoveAt takes one element out and moves the ones behind it up by one.
LEMMA RemoveAtEach ==
  ASSUME NEW S, NEW s \in Seq(S), NEW i \in 1..Len(s)
  PROVE  /\ RemoveAt(s, i) \in Seq(S)
         /\ Len(RemoveAt(s, i)) = Len(s) - 1
         /\ \A k \in 1..Len(RemoveAt(s, i)) :
               RemoveAt(s, i)[k] = s[IF k < i THEN k ELSE k + 1]
<1> DEFINE n == Len(s)
           left == SubSeq(s, 1, i - 1)
           right == SubSeq(s, i + 1, n)
<1>1. n \in Nat /\ i \in Nat /\ 1 <= i /\ i <= n /\ \A k \in 1..n : s[k] \in S
  BY LenProperties, ElementOfSeq
<1>2. /\ left \in Seq(S) /\ Len(left) = i - 1
      /\ \A k \in 1..(i - 1) : left[k] = s[k]
  <2>1. \A k \in 1..(i - 1) : s[k] \in S
    BY <1>1
  <2>2. 1 \in Int /\ i - 1 \in Int
    BY <1>1
  <2>3. /\ left \in Seq(S) /\ Len(left) = IF 1 <= i - 1 THEN i - 1 - 1 + 1 ELSE 0
        /\ \A k \in 1..(i - 1 - 1 + 1) : left[k] = s[1 + k - 1]
    BY <2>1, <2>2, SubSeqProperties
  <2>4. \A k \in 1..(i - 1) : left[k] = s[k]
    <3>1. SUFFICES ASSUME NEW k \in 1..(i - 1)  PROVE left[k] = s[k]
      OBVIOUS
    <3>2. k \in 1..(i - 1 - 1 + 1) /\ 1 + k - 1 = k
      BY <1>1, <3>1
    <3> QED
      BY <2>3, <3>2
  <2>5. Len(left) = i - 1
    BY <1>1, <2>3
  <2> QED
    BY <2>3, <2>4, <2>5
<1>3. /\ right \in Seq(S) /\ Len(right) = n - i
      /\ \A k \in 1..(n - i) : right[k] = s[i + k]
  <2>1. \A k \in (i + 1)..n : s[k] \in S
    BY <1>1
  <2>2. i + 1 \in Int /\ n \in Int
    BY <1>1
  <2>3. /\ right \in Seq(S) /\ Len(right) = IF i + 1 <= n THEN n - (i + 1) + 1 ELSE 0
        /\ \A k \in 1..(n - (i + 1) + 1) : right[k] = s[i + 1 + k - 1]
    BY <2>1, <2>2, SubSeqProperties
  <2>4. \A k \in 1..(n - i) : right[k] = s[i + k]
    <3>1. SUFFICES ASSUME NEW k \in 1..(n - i)  PROVE right[k] = s[i + k]
      OBVIOUS
    <3>2. k \in 1..(n - (i + 1) + 1) /\ i + 1 + k - 1 = i + k
      BY <1>1, <3>1
    <3> QED
      BY <2>3, <3>2
  <2>5. Len(right) = n - i
    BY <1>1, <2>3
  <2> QED
    BY <2>3, <2>4, <2>5
<1>4. /\ left \o right \in Seq(S) /\ Len(left \o right) = Len(left) + Len(right)
      /\ \A k \in 1..(Len(left) + Len(right)) :
            (left \o right)[k] = IF k <= Len(left) THEN left[k] ELSE right[k - Len(left)]
  BY <1>2, <1>3, ConcatProperties
<1>5. RemoveAt(s, i) = left \o right
  BY DEF RemoveAt
<1> HIDE DEF n, left, right
<1>6. Len(left \o right) = n - 1
  BY <1>1, <1>2, <1>3, <1>4
<1>7. ASSUME NEW k \in 1..(n - 1)
      PROVE  (left \o right)[k] = s[IF k < i THEN k ELSE k + 1]
  <2>1. k \in 1..(Len(left) + Len(right))
    BY <1>1, <1>2, <1>3
  <2>2. CASE k < i
    BY <1>1, <1>2, <1>4, <2>1, <2>2
  <2>3. CASE ~(k < i)
    <3>1. k - (i - 1) \in 1..(n - i) /\ i + (k - (i - 1)) = k + 1 /\ ~(k <= i - 1)
      BY <1>1, <2>3
    <3> QED
      BY <1>2, <1>3, <1>4, <2>1, <2>3, <3>1
  <2> QED
    BY <2>2, <2>3
<1> QED
  BY <1>4, <1>5, <1>6, <1>7 DEF n

LEMMA AppendEach ==
  ASSUME NEW S, NEW s \in Seq(S), NEW x \in S
  PROVE  /\ Append(s, x) \in Seq(S)
         /\ Len(Append(s, x)) = Len(s) + 1
         /\ \A k \in 1..Len(s) : Append(s, x)[k] = s[k]
         /\ Append(s, x)[Len(s) + 1] = x
  OBVIOUS

LEMMA OrphanedEach ==
  ASSUME NEW s \in Seq(Puts)
  PROVE  /\ Orphaned(s) \in Seq(Puts)
         /\ Len(Orphaned(s)) = Len(s)
         /\ \A k \in 1..Len(s) :
               /\ Orphaned(s)[k].doc = s[k].doc /\ Orphaned(s)[k].vals = s[k].vals
               /\ Orphaned(s)[k].stage = s[k].stage
               /\ Orphaned(s)[k].then = "summary" => s[k] = Orphaned(s)[k]
               /\ Orphaned(s)[k].then # "header"
<1>1. /\ Len(s) \in Nat /\ \A k \in 1..Len(s) : s[k] \in Puts
  BY LenProperties, ElementOfSeq
<1> DEFINE o == Orphaned(s)
<1>2. ASSUME NEW k \in 1..Len(s)
      PROVE  /\ o[k] \in Puts /\ o[k].doc = s[k].doc /\ o[k].vals = s[k].vals
             /\ o[k].stage = s[k].stage /\ o[k].then # "header"
             /\ o[k].then = "summary" => s[k] = o[k]
  <2>1. o[k] = IF s[k].then = "header" THEN [s[k] EXCEPT !.then = "none", !.keep = None] ELSE s[k]
    BY DEF Orphaned
  <2>2. s[k] \in Puts
    BY <1>1
  <2> HIDE DEF o
  <2>3. CASE s[k].then = "header"
    BY <2>1, <2>2, <2>3 DEF Puts
  <2>4. CASE s[k].then # "header"
    BY <2>1, <2>2, <2>4
  <2> QED
    BY <2>3, <2>4
<1>3. o \in [1..Len(s) -> Puts]
  BY <1>2 DEF Orphaned
<1>4. o \in Seq(Puts) /\ Len(o) = Len(s)
  BY <1>1, <1>3, SeqDef, LenProperties
<1> QED
  BY <1>2, <1>4

-----------------------------------------------------------------------------
(* Records.                                                                *)

LEMMA MetaType ==
  ASSUME NEW d \in Details
  PROVE  /\ Meta(d) \in Metas /\ Meta(d).id = d.id
         /\ Meta(d).name = d.name /\ Meta(d).summary = d.summary
  BY DEF Meta, Metas, Details

LEMMA RecordType ==
  ASSUME node \in [Docs -> [Fields -> Values]], NEW d \in Docs
  PROVE  /\ Record(d) \in Details /\ Record(d).id = d
         /\ Record(d).name = node[d]["name"] /\ Record(d).content = node[d]["content"]
         /\ Record(d).summary = node[d]["summary"]
  BY DEF Record, Details, Fields

LEMMA AtType ==
  ASSUME NEW v \in Values, NEW w \in Values
  PROVE  At(v, w) \in Contents /\ At(v, w).content = v /\ At(v, w).summary = w
  BY DEF At, Contents

LEMMA JustType ==
  ASSUME NEW f \in Fields, NEW v \in Values
  PROVE  /\ Just(f, v) \in Vals
         /\ \A g \in Fields : Just(f, v)[g] = IF g = f THEN v ELSE None
  BY DEF Just, Nothing, Vals

LEMMA MountedType ==
  ASSUME NEW d \in Details, NEW meta \in Metas
  PROVE  /\ Mounted(d, meta) \in Editors
         /\ Mounted(d, meta).id = d.id /\ Mounted(d, meta).text = d.content
         /\ Mounted(d, meta).first = meta /\ Mounted(d, meta).summary = d.summary
         /\ Mounted(d, meta).initial.content = d.content
  BY AtType DEF Mounted, Editors, Details, At

LEMMA CheckedType ==
  ASSUME NEW w \in Editors
  PROVE  /\ Checked(w) \in Editors
         /\ Checked(w).id = w.id /\ Checked(w).text = w.text /\ Checked(w).summary = w.summary
         /\ Checked(w).first = w.first /\ Checked(w).initial = w.initial
  BY DEF Checked, Editors, Differs

LEMMA CleanType ==
  ASSUME NEW w \in Editors
  PROVE  /\ Clean(w) \in Editors
         /\ Clean(w).id = w.id /\ Clean(w).text = w.text /\ Clean(w).summary = w.summary
         /\ Clean(w).first = w.first /\ Clean(w).initial.content = w.text
  BY AtType DEF Clean, Editors

LEMMA ShowsType ==
  ASSUME NEW w \in Editors \cup {None}, NEW meta \in Metas
  PROVE  /\ Shows(w, meta) \in Editors \cup {None}
         /\ Shows(w, meta) = None <=> w = None
         /\ w # None => /\ Shows(w, meta) \in Editors
                        /\ Shows(w, meta).id = w.id /\ Shows(w, meta).text = w.text
                        /\ Shows(w, meta).first = w.first /\ Shows(w, meta).initial = w.initial
<1>1. CASE w = None
  BY <1>1 DEF Shows
<1>2. CASE w # None /\ w.summary = meta.summary
  BY <1>2 DEF Shows
<1>3. CASE w # None /\ w.summary # meta.summary
  <2>1. [w EXCEPT !.summary = meta.summary] \in Editors
    BY <1>3 DEF Editors, Metas
  <2>2. /\ [w EXCEPT !.summary = meta.summary].id = w.id
        /\ [w EXCEPT !.summary = meta.summary].text = w.text
        /\ [w EXCEPT !.summary = meta.summary].first = w.first
        /\ [w EXCEPT !.summary = meta.summary].initial = w.initial
    BY <1>3 DEF Editors
  <2>3. Shows(w, meta) = Checked([w EXCEPT !.summary = meta.summary])
    BY <1>3 DEF Shows
  <2> QED
    BY <1>3, <2>1, <2>2, <2>3, CheckedType, NoneAssumption
<1> QED
  BY <1>1, <1>2, <1>3

LEMMA GivenType ==
  ASSUME NEW w \in Editors, NEW d \in Details
  PROVE  Given(w, d) \in Editors /\ Given(w, d).id = d.id /\ Given(w, d).text = w.text
<1>1. Meta(d) \in Metas /\ At(d.content, d.summary) \in Contents
  BY MetaType, AtType DEF Details
<1> QED
  BY <1>1 DEF Given, Editors, Details

-----------------------------------------------------------------------------
(* Types.  What TypeOK says, in parts, and what a step needs besides: a     *)
(* load the page waits for has an address, a record has its page's.        *)

StoreType == node \in [Docs -> [Fields -> Values]] /\ last \in [Docs -> [Fields -> Values]]
PageType == /\ url \in Docs \cup {None} /\ loading \in BOOLEAN
            /\ detail \in Details \cup {None} /\ nodeDetail \in Metas \cup {None}
            /\ detail # None => nodeDetail # None
LoadsType == loads \in Seq(Loads) /\ \A i \in 1..Len(loads) : loads[i].live => url # None
WrapType == wrap \in Editors \cup {None}
TimersType == timers \subseteq Timer /\ \A t \in timers : t.keep # None => Carries(t, "summary")
WireType == /\ wire \in Seq(Puts) /\ Len(wire) <= MaxWire /\ \A i \in 1..Len(wire) : PutOK(wire[i])
            /\ \A i \in 1..Len(wire) : wire[i].then = "header" => Shown
CountType == typed \in 0..MaxTyped /\ opens \in 0..MaxOpens /\ faults \in 0..MaxFaults
OddType == odd \subseteq Mishaps
ShownType == Shown <=> url # None /\ ~loading /\ detail # None

Types == /\ StoreType /\ PageType /\ LoadsType /\ WrapType /\ TimersType /\ WireType
         /\ CountType /\ OddType /\ ShownType

LEMMA TypesImply == Types => TypeOK
  BY DEF Types, StoreType, PageType, LoadsType, WrapType, TimersType, WireType, CountType,
         OddType, ShownType, TypeOK

LEMMA ShownTypes ==
  ASSUME Types, Shown
  PROVE  wrap \in Editors /\ nodeDetail \in Metas /\ detail \in Details /\ url \in Docs
  BY DEF Types, WrapType, ShownType, PageType, Shown

LEMMA BoundTypes ==
  MaxTyped \in Nat /\ MaxOpens \in Nat /\ MaxFaults \in Nat /\ MaxWire \in Nat /\ MaxWire > 0
  BY BoundsAssumption

LEMMA SaveType ==
  ASSUME Types, Shown, NEW then \in {"none", "header"}
  PROVE  /\ Save(then) \in Puts /\ Save(then).doc = nodeDetail.id
         /\ Save(then).then = then /\ Save(then).stage = "sent"
         /\ Save(then).vals["name"] = nodeDetail.name
         /\ Save(then).vals["content"] = wrap.text
         /\ Save(then).vals["summary"] = None
         /\ then = "header" => Save(then).keep \in Contents
<1>1. wrap \in Editors /\ nodeDetail \in Metas
  BY ShownTypes
<1>2. nodeDetail.id \in Docs /\ nodeDetail.name \in Values /\ wrap.text \in Values
      /\ wrap.summary \in Values
  BY <1>1 DEF Metas, Editors
<1> DEFINE vals == [Nothing EXCEPT !["name"] = nodeDetail.name, !["content"] = wrap.text]
           keep == IF then = "none" THEN None ELSE At(wrap.text, wrap.summary)
<1>3. /\ vals \in Vals /\ vals["name"] = nodeDetail.name /\ vals["content"] = wrap.text
      /\ vals["summary"] = None
  BY <1>2 DEF Nothing, Vals, Fields
<1>4. At(wrap.text, wrap.summary) \in Contents
  BY <1>2, AtType
<1>5. keep \in Contents \cup {None} /\ (then = "header" => keep \in Contents)
  BY <1>4
<1>6. Save(then) = [doc |-> nodeDetail.id, vals |-> vals, then |-> then, keep |-> keep, stage |-> "sent"]
  BY DEF Save, Put
<1> HIDE DEF vals, keep
<1> QED
  BY <1>2, <1>3, <1>5, <1>6 DEF Puts

-----------------------------------------------------------------------------
(* What a step does to the sequence of requests.                           *)

LEMMA WireNow ==
  ASSUME Types
  PROVE  /\ wire \in Seq(Puts) /\ Len(wire) <= MaxWire /\ Len(wire) \in Nat
         /\ \A i \in 1..Len(wire) : /\ PutOK(wire[i]) /\ wire[i] \in Puts
                                    /\ wire[i].then = "header" => Shown
  BY LenProperties, ElementOfSeq DEF Types, WireType

LEMMA WireKept ==
  ASSUME Types, wire' = wire, Shown => Shown'
  PROVE  WireType'
  BY DEF Types, WireType

LEMMA WireAppended ==
  ASSUME Types, Room, NEW m \in Puts, PutOK(m), m.then = "header" => Shown',
         wire' = Append(wire, m), Shown => Shown'
  PROVE  WireType'
<1>1. /\ wire' \in Seq(Puts) /\ Len(wire') = Len(wire) + 1
      /\ \A k \in 1..Len(wire) : wire'[k] = wire[k]
      /\ wire'[Len(wire) + 1] = m
  BY WireNow, AppendEach
<1>2. Len(wire') <= MaxWire
  BY WireNow, <1>1, BoundTypes DEF Room
<1>3. ASSUME NEW i \in 1..Len(wire')  PROVE PutOK(wire'[i]) /\ (wire'[i].then = "header" => Shown')
  <2>1. CASE i \in 1..Len(wire)
    BY WireNow, <1>1, <2>1
  <2>2. CASE i = Len(wire) + 1
    BY <1>1, <2>2
  <2> QED
    BY WireNow, <1>1, <2>1, <2>2
<1> QED
  BY <1>1, <1>2, <1>3 DEF WireType

LEMMA WireRemoved ==
  ASSUME Types, NEW i \in 1..Len(wire), wire' = RemoveAt(wire, i), Shown => Shown'
  PROVE  WireType'
<1>1. /\ wire' \in Seq(Puts) /\ Len(wire') = Len(wire) - 1
      /\ \A k \in 1..Len(wire') : wire'[k] = wire[IF k < i THEN k ELSE k + 1]
  BY WireNow, RemoveAtEach
<1>2. Len(wire') <= MaxWire
  BY WireNow, <1>1, BoundTypes
<1>3. ASSUME NEW k \in 1..Len(wire')  PROVE PutOK(wire'[k]) /\ (wire'[k].then = "header" => Shown')
  <2>1. PICK j \in 1..Len(wire) : wire'[k] = wire[j]
    <3>1. (IF k < i THEN k ELSE k + 1) \in 1..Len(wire)
      BY WireNow, <1>1
    <3> QED
      BY <1>1, <3>1
  <2> QED
    BY WireNow, <2>1
<1> QED
  BY <1>1, <1>2, <1>3 DEF WireType

LEMMA WireStaged ==
  ASSUME Types, NEW i \in 1..Len(wire), NEW st \in {"sent", "done", "failed"},
         wire' = [wire EXCEPT ![i].stage = st], Shown => Shown'
  PROVE  /\ WireType' /\ Len(wire') = Len(wire)
         /\ \A k \in 1..Len(wire) : /\ wire'[k].doc = wire[k].doc /\ wire'[k].vals = wire[k].vals
                                    /\ wire'[k].then = wire[k].then /\ wire'[k].keep = wire[k].keep
                                    /\ wire'[k].stage = IF k = i THEN st ELSE wire[k].stage
<1> DEFINE m == [wire[i] EXCEPT !.stage = st]
<1>1. /\ m \in Puts /\ m.then = wire[i].then /\ m.keep = wire[i].keep /\ m.vals = wire[i].vals
      /\ m.doc = wire[i].doc /\ m.stage = st
  BY WireNow DEF Puts
<1>2. wire' = [wire EXCEPT ![i] = m]
  OBVIOUS
<1> HIDE DEF m
<1>3. /\ wire' \in Seq(Puts) /\ Len(wire') = Len(wire)
      /\ \A k \in 1..Len(wire) : wire'[k] = IF k = i THEN m ELSE wire[k]
  BY WireNow, <1>1, <1>2, ExceptSeq
<1>4. ASSUME NEW k \in 1..Len(wire')  PROVE PutOK(wire'[k]) /\ (wire'[k].then = "header" => Shown')
  BY WireNow, <1>1, <1>3 DEF PutOK, Carries
<1>5. WireType'
  BY WireNow, <1>3, <1>4 DEF WireType
<1> QED
  BY <1>1, <1>3, <1>5

LEMMA WireOrphaned ==
  ASSUME NEW s \in Seq(Puts), Len(s) <= MaxWire,
         \A i \in 1..Len(s) : PutOK(s[i]), wire' = Orphaned(s)
  PROVE  WireType'
<1>1. /\ wire' \in Seq(Puts) /\ Len(wire') = Len(s)
      /\ \A k \in 1..Len(s) : /\ wire'[k].then = "summary" => s[k] = wire'[k]
                              /\ wire'[k].then # "header"
  BY OrphanedEach
<1>2. ASSUME NEW k \in 1..Len(wire')  PROVE PutOK(wire'[k])
  BY <1>1 DEF PutOK
<1> QED
  BY <1>1, <1>2 DEF WireType

-----------------------------------------------------------------------------
(* Types: each step keeps them.                                            *)

\* The parts a step leaves alone.
LEMMA Frame ==
  ASSUME Types
  PROVE  /\ UNCHANGED <<node, last>> => StoreType'
         /\ UNCHANGED page => PageType'
         /\ UNCHANGED <<loads, url>> => LoadsType'
         /\ UNCHANGED wrap => WrapType'
         /\ UNCHANGED timers => TimersType'
         /\ UNCHANGED <<typed, opens, faults>> => CountType'
         /\ UNCHANGED odd => OddType'
         /\ UNCHANGED <<wrap, page>> => ShownType'
  BY DEF Types, StoreType, PageType, LoadsType, WrapType, TimersType, CountType, OddType,
         ShownType, Shown, page, Carries

LEMMA AllParts ==
  ASSUME StoreType', PageType', LoadsType', WrapType', TimersType', WireType', CountType',
         OddType', ShownType'
  PROVE  Types'
  BY DEF Types

\* An editor that goes leaves its timers and the answers it waited for.
LEMMA UnmountTypes ==
  ASSUME Types, Unmount
  PROVE  WrapType' /\ TimersType' /\ ~Shown'
<1>1. ASSUME NEW t \in timers
      PROVE  /\ [t EXCEPT !.live = FALSE] \in Timer
             /\ [t EXCEPT !.live = FALSE].keep = t.keep /\ [t EXCEPT !.live = FALSE].vals = t.vals
  BY DEF Types, TimersType, Timer
<1>2. TimersType'
  BY <1>1, ZenonT(40) DEF Types, TimersType, Unmount, Carries
<1> QED
  BY <1>2 DEF WrapType, Unmount, Shown

LEMMA TypedTypes ==
  ASSUME Types, NEW d \in Docs, NEW f \in Fields, Typed(d, f)
  PROVE  /\ last' \in [Docs -> [Fields -> Values]] /\ typed' \in 0..MaxTyped
         /\ last'[d][f] = [doc |-> d, rev |-> typed + 1] /\ last'[d][f] \in Values
         /\ \A e \in Docs, g \in Fields : e # d \/ g # f => last'[e][g] = last[e][g]
<1>1. typed \in Nat /\ typed + 1 \in 0..MaxTyped
  BY BoundTypes DEF Types, CountType, Typed
<1>2. [doc |-> d, rev |-> typed + 1] \in Values
  BY <1>1 DEF Values
<1>3. last \in [Docs -> [Fields -> Values]]
  BY DEF Types, StoreType
<1>4. last' = [last EXCEPT ![d] = [last[d] EXCEPT ![f] = [doc |-> d, rev |-> typed + 1]]]
  BY DEF Typed
<1>5. [last[d] EXCEPT ![f] = [doc |-> d, rev |-> typed + 1]] \in [Fields -> Values]
  BY <1>2, <1>3
<1> QED
  BY <1>1, <1>2, <1>3, <1>4, <1>5 DEF Typed

LEMMA DebounceTypes ==
  ASSUME Types, Shown, NEW f \in Fields, NEW keep \in Metas \cup {None},
         keep # None => f = "summary", last'[wrap.id][f] \in Values, Debounce(f, keep)
  PROVE  TimersType'
<1> DEFINE t == [doc |-> wrap.id, vals |-> Just(f, last'[wrap.id][f]), keep |-> keep, live |-> TRUE]
<1>1. wrap.id \in Docs
  BY ShownTypes DEF Editors
<1>2. /\ Just(f, last'[wrap.id][f]) \in Vals
      /\ Just(f, last'[wrap.id][f])[f] = last'[wrap.id][f]
  BY JustType
<1>3. t \in Timer /\ t.vals[f] # None /\ t.keep = keep
  BY <1>1, <1>2, NoneAssumption DEF Timer
<1>4. timers' = {x \in timers : ~(x.live /\ Carries(x, f))} \cup {t}
  BY DEF Debounce
<1> HIDE DEF t
<1> QED
  BY <1>3, <1>4 DEF Types, TimersType, Carries

LEMMA TypesInit == Init => Types
<1>1. SUFFICES ASSUME Init  PROVE Types
  OBVIOUS
<1>2. \A d \in Docs : [doc |-> d, rev |-> 0] \in Values
  BY BoundTypes DEF Values
<1>3. StoreType
  BY <1>1, <1>2 DEF Init, StoreType
<1>4. PageType /\ WrapType /\ OddType /\ ShownType
  BY <1>1 DEF Init, PageType, WrapType, OddType, ShownType, Shown
<1>5. LoadsType /\ TimersType /\ WireType /\ CountType
  BY <1>1, BoundTypes DEF Init, LoadsType, TimersType, WireType, CountType
<1> QED
  BY <1>3, <1>4, <1>5 DEF Types

LEMMA TypesOpen ==
  ASSUME Types, NEW d \in Docs, Open(d)
  PROVE  Types'
<1>1. WrapType' /\ TimersType' /\ ~Shown'
  BY UnmountTypes DEF Open
<1>2. PageType' /\ ShownType'
  BY <1>1 DEF Open, Types, PageType, ShownType
<1>3. LoadsType'
  <2>1. loads \in Seq(Loads) /\ [doc |-> d, live |-> TRUE] \in Loads
    BY DEF Types, LoadsType, Loads
  <2>2. /\ loads' \in Seq(Loads) /\ url' # None
    BY <2>1, AppendEach, NoneAssumption DEF Open
  <2> QED
    BY <2>2 DEF LoadsType
<1>4. WireType'
  <2>1. CASE ShowsOther(d)
    <3>1. Save("none") \in Puts /\ Save("none").then = "none" /\ Room
      BY <2>1, SaveType DEF Open, ShowsOther
    <3>2. /\ Append(wire, Save("none")) \in Seq(Puts)
          /\ Len(Append(wire, Save("none"))) = Len(wire) + 1
          /\ \A k \in 1..Len(wire) : Append(wire, Save("none"))[k] = wire[k]
          /\ Append(wire, Save("none"))[Len(wire) + 1] = Save("none")
      BY <3>1, WireNow, AppendEach
    <3>3. ASSUME NEW k \in 1..(Len(wire) + 1)  PROVE PutOK(Append(wire, Save("none"))[k])
      <4>1. CASE k \in 1..Len(wire)
        BY <3>2, <4>1, WireNow
      <4>2. CASE k = Len(wire) + 1
        BY <3>1, <3>2, <4>2 DEF PutOK
      <4> QED
        BY <4>1, <4>2, WireNow
    <3>4. Len(wire) + 1 <= MaxWire
      BY <3>1, WireNow, BoundTypes DEF Room
    <3> QED
      BY <2>1, <3>2, <3>3, <3>4, WireOrphaned DEF Open
  <2>2. CASE ~ShowsOther(d)
    BY <2>2, WireNow, WireOrphaned DEF Open
  <2> QED
    BY <2>1, <2>2
<1>5. CountType' /\ StoreType' /\ OddType'
  BY Frame, BoundTypes DEF Open, Types, CountType
<1> QED
  BY <1>1, <1>2, <1>3, <1>4, <1>5, AllParts

LEMMA TypesLeave == ASSUME Types, Leave  PROVE Types'
<1>1. WrapType' /\ TimersType' /\ ~Shown'
  BY UnmountTypes DEF Leave
<1>2. PageType' /\ ShownType'
  BY <1>1 DEF Leave, Types, PageType, ShownType
<1>3. LoadsType'
  <2>1. loads \in Seq(Loads) /\ Len(loads) \in Nat /\ \A i \in 1..Len(loads) : loads[i] \in Loads
    BY LenProperties, ElementOfSeq DEF Types, LoadsType
  <2>2. \A i \in 1..Len(loads) : /\ [loads[i] EXCEPT !.live = FALSE] \in Loads
                                 /\ [loads[i] EXCEPT !.live = FALSE].live = FALSE
    BY <2>1 DEF Loads
  <2>3. loads' = [i \in 1..Len(loads) |-> [loads[i] EXCEPT !.live = FALSE]]
    BY DEF Leave
  <2>4. loads' \in [1..Len(loads) -> Loads]
    BY <2>2, <2>3
  <2>5. loads' \in Seq(Loads) /\ Len(loads') = Len(loads)
    BY <2>1, <2>4, SeqDef, LenProperties
  <2>6. \A i \in 1..Len(loads') : loads'[i].live = FALSE
    BY <2>2, <2>3, <2>5
  <2> QED
    BY <2>5, <2>6 DEF LoadsType
<1>4. WireType'
  BY WireOrphaned, WireNow DEF Leave
<1>5. StoreType'
  BY Frame DEF Leave
<1>6. CountType' /\ OddType'
  BY BoundTypes DEF Leave, Types, CountType, OddType, Mishaps
<1> QED
  BY <1>1, <1>2, <1>3, <1>4, <1>5, <1>6, AllParts

LEMMA TypesTypeText == ASSUME Types, TypeText  PROVE Types'
<1>1. wrap \in Editors /\ Shown /\ wrap.text.doc \in Docs
  BY ShownTypes DEF TypeText, Editors, Values
<1>2. Typed(wrap.text.doc, "content") /\ "content" \in Fields
  BY DEF TypeText, Fields
<1>3. /\ last' \in [Docs -> [Fields -> Values]] /\ typed' \in 0..MaxTyped
      /\ last'[wrap.text.doc]["content"] \in Values
  BY <1>1, <1>2, TypedTypes
<1> DEFINE w == [wrap EXCEPT !.text = last'[wrap.text.doc]["content"]]
<1>4. w \in Editors
  BY <1>1, <1>3 DEF Editors
<1>5. wrap' = Checked(w)
  BY DEF TypeText
<1> HIDE DEF w
<1>6. wrap' \in Editors /\ Shown'
  BY <1>4, <1>5, CheckedType, NoneAssumption DEF Shown
<1>7. StoreType' /\ CountType' /\ WrapType'
  BY <1>3, <1>6 DEF TypeText, Types, StoreType, CountType, WrapType
<1>8. ShownType' /\ WireType'
  BY <1>1, <1>6, WireKept DEF TypeText, Types, ShownType, page
<1>9. PageType' /\ LoadsType' /\ TimersType' /\ OddType'
  BY Frame DEF TypeText, page
<1> QED
  BY <1>7, <1>8, <1>9, AllParts

LEMMA TypesTypeTitle == ASSUME Types, TypeTitle  PROVE Types'
<1>1. wrap \in Editors /\ nodeDetail \in Metas /\ Shown /\ wrap.id \in Docs
  BY ShownTypes DEF TypeTitle, Editors
<1>2. Typed(wrap.id, "name") /\ "name" \in Fields
  BY DEF TypeTitle, Fields
<1>3. /\ last' \in [Docs -> [Fields -> Values]] /\ typed' \in 0..MaxTyped
      /\ last'[wrap.id]["name"] \in Values
  BY <1>1, <1>2, TypedTypes
<1>4. nodeDetail' \in Metas
  BY <1>1, <1>3 DEF TypeTitle, Metas
<1>5. wrap' \in Editors /\ Shown'
  BY <1>1, <1>4, ShowsType DEF TypeTitle, Shown
<1>6. StoreType' /\ CountType' /\ WrapType'
  BY <1>3, <1>5 DEF TypeTitle, Types, StoreType, CountType, WrapType
<1>7. ShownType' /\ WireType'
  BY <1>1, <1>5, WireKept DEF TypeTitle, Types, ShownType
<1>8. PageType'
  BY <1>4, NoneAssumption DEF TypeTitle, Types, PageType
<1>9. TimersType'
  BY <1>1, <1>2, <1>3, DebounceTypes DEF TypeTitle
<1>10. LoadsType' /\ OddType'
  BY Frame DEF TypeTitle
<1> QED
  BY <1>6, <1>7, <1>8, <1>9, <1>10, AllParts

LEMMA TypesTypeSummary == ASSUME Types, TypeSummary  PROVE Types'
<1>1. wrap \in Editors /\ Shown /\ wrap.id \in Docs /\ wrap.first \in Metas
  BY ShownTypes DEF TypeSummary, Editors
<1>2. Typed(wrap.id, "summary") /\ "summary" \in Fields
  BY DEF TypeSummary, Fields
<1>3. /\ last' \in [Docs -> [Fields -> Values]] /\ typed' \in 0..MaxTyped
      /\ last'[wrap.id]["summary"] \in Values
  BY <1>1, <1>2, TypedTypes
<1> DEFINE w == [wrap EXCEPT !.summary = last'[wrap.id]["summary"]]
<1>4. w \in Editors
  BY <1>1, <1>3 DEF Editors
<1>5. wrap' = Checked(w)
  BY DEF TypeSummary
<1> HIDE DEF w
<1>6. wrap' \in Editors /\ Shown'
  BY <1>4, <1>5, CheckedType, NoneAssumption DEF Shown
<1>7. StoreType' /\ CountType' /\ WrapType'
  BY <1>3, <1>6 DEF TypeSummary, Types, StoreType, CountType, WrapType
<1>8. ShownType' /\ WireType'
  BY <1>1, <1>6, WireKept DEF TypeSummary, Types, ShownType, page
<1>9. TimersType'
  BY <1>1, <1>2, <1>3, DebounceTypes DEF TypeSummary
<1>10. PageType' /\ LoadsType' /\ OddType'
  BY Frame DEF TypeSummary, page
<1> QED
  BY <1>7, <1>8, <1>9, <1>10, AllParts

\* What the ways to save have in common: an update is sent, the editor stays.
LEMMA TypesSaved ==
  ASSUME Types, Shown, Room, NEW then \in {"none", "header"}, wire' = Append(wire, Save(then)),
         wrap' \in Editors, UNCHANGED <<node, page, loads, timers, typed, opens, faults, last, odd>>
  PROVE  Types'
<1>1. /\ Save(then) \in Puts /\ Save(then).then = then
      /\ then = "header" => Save(then).keep \in Contents
  BY SaveType
<1>2. PutOK(Save(then))
  BY <1>1 DEF PutOK
<1>3. Shown' /\ WrapType'
  BY NoneAssumption DEF Shown, WrapType
<1>4. WireType'
  BY <1>1, <1>2, <1>3, WireAppended
<1>5. ShownType'
  BY <1>3 DEF Types, ShownType, page
<1>6. StoreType' /\ PageType' /\ LoadsType' /\ TimersType' /\ CountType' /\ OddType'
  BY Frame DEF page
<1> QED
  BY <1>3, <1>4, <1>5, <1>6, AllParts

\* The editor after a save: clean or as it was, and showing the page's record.
LEMMA SavedEditor ==
  ASSUME Types, Shown, NEW w \in Editors
  PROVE  Shows(w, nodeDetail) \in Editors
  BY ShownTypes, ShowsType, NoneAssumption

LEMMA TypesSaves ==
  ASSUME Types, Shortcut \/ SaveButton \/ Hide \/ SaveAgain
  PROVE  Types'
<1>1. Shown /\ Room /\ wrap \in Editors
  BY ShownTypes DEF Shortcut, SaveButton, Hide, SaveAgain
<1>2. Clean(wrap) \in Editors /\ [wrap EXCEPT !.initial = At(wrap.text, wrap.summary)] \in Editors
  BY <1>1, CleanType, AtType DEF Editors
<1>3. /\ Shows(Clean(wrap), nodeDetail) \in Editors /\ Shows(wrap, nodeDetail) \in Editors
      /\ Shows([wrap EXCEPT !.initial = At(wrap.text, wrap.summary)], nodeDetail) \in Editors
  BY <1>1, <1>2, SavedEditor
<1>4. CASE Shortcut
  BY <1>1, <1>3, <1>4, TypesSaved DEF Shortcut
<1>5. CASE SaveButton
  BY <1>1, <1>3, <1>5, TypesSaved DEF SaveButton
<1>6. CASE Hide
  BY <1>1, <1>3, <1>6, TypesSaved DEF Hide
<1>7. CASE SaveAgain
  BY <1>1, <1>3, <1>7, TypesSaved DEF SaveAgain
<1> QED
  BY <1>4, <1>5, <1>6, <1>7

LEMMA TypesFire ==
  ASSUME Types, NEW t \in timers, Fire(t)
  PROVE  Types'
<1>1. t \in Timer /\ (t.keep # None => Carries(t, "summary"))
  BY DEF Types, TimersType
<1> DEFINE then == IF t.keep = None THEN "none" ELSE "summary"
           m == Put(t.doc, t.vals, then, t.keep)
<1>2. m \in Puts /\ PutOK(m) /\ m.then # "header"
  BY <1>1 DEF Put, Puts, PutOK, Carries, Timer
<1>3. wire' = Append(wire, m) /\ Room /\ UNCHANGED <<wrap, page>>
  BY DEF Fire
<1> HIDE DEF m
<1>4. WireType'
  BY <1>2, <1>3, WireAppended DEF Shown
<1>5. TimersType'
  BY DEF Fire, Types, TimersType, Carries
<1>6. StoreType' /\ PageType' /\ LoadsType' /\ WrapType' /\ CountType' /\ OddType' /\ ShownType'
  BY Frame DEF Fire, page
<1> QED
  BY <1>4, <1>5, <1>6, AllParts

\* A load taken out of those under way.
LEMMA LoadsNow ==
  ASSUME Types, NEW i \in 1..Len(loads)
  PROVE  loads[i] \in Loads /\ loads[i].doc \in Docs /\ (loads[i].live => url # None)
<1>1. loads \in Seq(Loads) /\ (loads[i].live => url # None)
  BY DEF Types, LoadsType
<1>2. loads[i] \in Loads
  BY <1>1, ElementOfSeq
<1> QED
  BY <1>1, <1>2 DEF Loads

LEMMA LoadsRemoved ==
  ASSUME Types, NEW i \in 1..Len(loads), loads' = RemoveAt(loads, i), url' = url
  PROVE  LoadsType'
<1>1. loads \in Seq(Loads) /\ Len(loads) \in Nat
  BY LenProperties DEF Types, LoadsType
<1>2. /\ loads' \in Seq(Loads) /\ Len(loads') = Len(loads) - 1
      /\ \A k \in 1..Len(loads') : loads'[k] = loads[IF k < i THEN k ELSE k + 1]
  BY <1>1, RemoveAtEach
<1>3. ASSUME NEW k \in 1..Len(loads')  PROVE loads'[k].live => url' # None
  <2>1. (IF k < i THEN k ELSE k + 1) \in 1..Len(loads)
    BY <1>1, <1>2
  <2> QED
    BY <1>2, <2>1, LoadsNow
<1> QED
  BY <1>2, <1>3 DEF LoadsType

\* An editor that is given up for another leaves its timers.
LEMMA TimersLeft ==
  ASSUME Types, timers' = {[t EXCEPT !.live = FALSE] : t \in timers}
  PROVE  TimersType'
<1>1. ASSUME NEW t \in timers
      PROVE  /\ [t EXCEPT !.live = FALSE] \in Timer
             /\ [t EXCEPT !.live = FALSE].keep = t.keep /\ [t EXCEPT !.live = FALSE].vals = t.vals
  BY DEF Types, TimersType, Timer
<1> QED
  BY <1>1, ZenonT(40) DEF Types, TimersType, Carries

LEMMA TypesLoaded ==
  ASSUME Types, NEW i \in 1..Len(loads), Loaded(i)
  PROVE  Types'
<1> DEFINE d == Record(loads[i].doc)
<1>1. d \in Details /\ Meta(d) \in Metas
  BY LoadsNow, RecordType, MetaType DEF Types, StoreType
<1>2. wrap \in Editors \cup {None}
  BY DEF Types, WrapType
<1>3. nodeDetail' = Meta(d) /\ loads' = RemoveAt(loads, i) /\ UNCHANGED url
  BY DEF Loaded
<1>4. /\ StoreType' /\ CountType'
  BY Frame DEF Loaded
<1>5. OddType'
  BY DEF Loaded, Types, OddType, Mishaps
<1>6. LoadsType'
  BY <1>3, LoadsRemoved
<1>7. CASE loads[i].live
  <2>1. detail' = d /\ loading' = FALSE /\ url # None
    BY <1>7, LoadsNow DEF Loaded
  <2>2. wrap' \in Editors
    BY <1>1, <1>2, <1>7, GivenType, MountedType DEF Loaded, Shown
  <2>3. TimersType'
    <3>1. CASE Shown /\ wrap.id # d.id
      BY <1>7, <3>1, TimersLeft DEF Loaded
    <3>2. CASE ~(Shown /\ wrap.id # d.id)
      BY <1>7, <3>2, Frame DEF Loaded
    <3> QED
      BY <3>1, <3>2
  <2>4. WrapType' /\ Shown'
    BY <2>2, NoneAssumption DEF WrapType, Shown
  <2> HIDE DEF d
  <2>5. PageType' /\ ShownType'
    BY <1>1, <1>3, <2>1, <2>4, NoneAssumption DEF Types, PageType, ShownType
  <2>6. WireType'
    BY <2>4, WireKept DEF Loaded
  <2> QED
    BY <1>4, <1>5, <1>6, <2>3, <2>4, <2>5, <2>6, AllParts
<1>8. CASE ~loads[i].live
  <2>1. wrap' = Shows(wrap, Meta(d)) /\ UNCHANGED <<detail, loading, timers>>
    BY <1>8 DEF Loaded
  <2> HIDE DEF d
  <2>2. WrapType' /\ (Shown' <=> Shown)
    BY <1>1, <1>2, <2>1, ShowsType DEF WrapType, Shown
  <2>3. TimersType'
    BY <2>1, Frame
  <2>4. PageType' /\ ShownType'
    BY <1>1, <1>3, <2>1, <2>2, NoneAssumption DEF Types, PageType, ShownType
  <2>5. WireType'
    BY <2>2, WireKept DEF Loaded
  <2> QED
    BY <1>4, <1>5, <1>6, <2>2, <2>3, <2>4, <2>5, AllParts
<1> QED
  BY <1>7, <1>8

LEMMA TypesNotLoaded ==
  ASSUME Types, NEW i \in 1..Len(loads), NotLoaded(i)
  PROVE  Types'
<1>1. loads' = RemoveAt(loads, i) /\ UNCHANGED <<url, detail, nodeDetail, wire>>
  BY DEF NotLoaded
<1>2. StoreType' /\ TimersType'
  BY Frame DEF NotLoaded
<1>3. CountType' /\ OddType'
  BY BoundTypes DEF NotLoaded, Types, CountType, OddType, Mishaps
<1>4. LoadsType'
  BY <1>1, LoadsRemoved
<1>5. CASE loads[i].live
  <2>1. /\ loading' = FALSE /\ url # None
        /\ wrap' = IF Shown \/ detail = None THEN wrap ELSE Mounted(detail, nodeDetail)
    BY <1>5, LoadsNow DEF NotLoaded
  <2>2. WrapType' /\ (Shown' <=> Shown \/ detail # None)
    <3>1. CASE Shown \/ detail = None
      BY <2>1, <3>1 DEF Types, WrapType, Shown
    <3>2. CASE ~Shown /\ detail # None
      <4>1. detail \in Details /\ nodeDetail \in Metas
        BY <3>2 DEF Types, PageType
      <4>2. wrap' \in Editors
        BY <2>1, <3>2, <4>1, MountedType
      <4> QED
        BY <3>2, <4>2, NoneAssumption DEF WrapType, Shown
    <3> QED
      BY <3>1, <3>2
  <2>3. PageType' /\ ShownType'
    BY <1>1, <2>1, <2>2 DEF Types, PageType, ShownType
  <2>4. WireType'
    BY <1>1, <2>2, WireKept
  <2> QED
    BY <1>2, <1>3, <1>4, <2>2, <2>3, <2>4, AllParts
<1>6. CASE ~loads[i].live
  <2>1. UNCHANGED <<wrap, page>>
    BY <1>1, <1>6 DEF NotLoaded, page
  <2>2. WrapType' /\ PageType' /\ ShownType' /\ WireType'
    BY <1>1, <2>1, Frame, WireKept DEF Shown
  <2> QED
    BY <1>2, <1>3, <1>4, <2>2, AllParts
<1> QED
  BY <1>5, <1>6

\* What a request writes has the types of what is stored.
LEMMA WrittenType ==
  ASSUME NEW n \in [Fields -> Values], NEW vals \in Vals
  PROVE  /\ Written(n, vals) \in [Fields -> Values]
         /\ \A f \in Fields : Written(n, vals)[f] = IF vals[f] # None THEN vals[f] ELSE n[f]
  BY DEF Written, Vals

\* A request that is over, or waits to be answered.
LEMMA WireOver ==
  ASSUME Types, NEW i \in 1..Len(wire), NEW st \in {"done", "failed"}, Shown => Shown',
         wire' = Over(i, st) \/ wire' = RemoveAt(wire, i)
  PROVE  WireType'
<1>1. CASE wire' = RemoveAt(wire, i)
  BY <1>1, WireRemoved
<1>2. CASE wire' = [wire EXCEPT ![i].stage = st]
  BY <1>2, WireStaged
<1> QED
  BY <1>1, <1>2 DEF Over

LEMMA TypesUpdate ==
  ASSUME Types, NEW i \in 1..Len(wire), Update(i)
  PROVE  Types'
<1>1. wire[i] \in Puts /\ wire[i].doc \in Docs /\ wire[i].vals \in Vals
  BY WireNow DEF Puts
<1>2. node \in [Docs -> [Fields -> Values]] /\ last \in [Docs -> [Fields -> Values]]
  BY DEF Types, StoreType
<1>3. /\ node' = [node EXCEPT ![wire[i].doc] = Written(node[wire[i].doc], wire[i].vals)]
      /\ wire' = Over(i, "done") /\ UNCHANGED <<wrap, page, last>>
  BY DEF Update
<1>4. Written(node[wire[i].doc], wire[i].vals) \in [Fields -> Values]
  BY <1>1, <1>2, WrittenType
<1>5. StoreType'
  BY <1>1, <1>2, <1>3, <1>4 DEF StoreType
<1>6. WireType'
  BY <1>3, WireOver DEF Shown
<1>7. OddType'
  BY DEF Update, Types, OddType, Mishaps
<1>8. PageType' /\ LoadsType' /\ WrapType' /\ TimersType' /\ CountType' /\ ShownType'
  BY Frame DEF Update, page
<1> QED
  BY <1>5, <1>6, <1>7, <1>8, AllParts

LEMMA TypesNotUpdated ==
  ASSUME Types, NEW i \in 1..Len(wire), NotUpdated(i)
  PROVE  Types'
<1>1. (wire' = Over(i, "failed") \/ wire' = RemoveAt(wire, i)) /\ UNCHANGED wrap
  BY DEF NotUpdated
<1>2. WireType'
  BY <1>1, WireOver DEF Shown
<1>3. CountType' /\ OddType'
  BY BoundTypes DEF NotUpdated, Types, CountType, OddType, Mishaps
<1>4. StoreType' /\ PageType' /\ LoadsType' /\ WrapType' /\ TimersType' /\ ShownType'
  BY Frame DEF NotUpdated, page
<1> QED
  BY <1>2, <1>3, <1>4, AllParts

LEMMA TypesSaveAnswered ==
  ASSUME Types, NEW i \in 1..Len(wire), SaveAnswered(i)
  PROVE  Types'
<1>1. wire[i].then = "header" /\ Shown /\ wire[i].keep \in Contents
  BY WireNow DEF SaveAnswered, PutOK
<1>2. wrap \in Editors
  BY <1>1, ShownTypes
<1>3. wrap' = [wrap EXCEPT !.initial = wire[i].keep, !.editing = FALSE]
  BY DEF SaveAnswered
<1>4. wrap' \in Editors
  BY <1>1, <1>2, <1>3 DEF Editors
<1>5. WrapType' /\ Shown'
  BY <1>4, NoneAssumption DEF WrapType, Shown
<1>6. WireType'
  BY <1>5, WireRemoved DEF SaveAnswered
<1>7. ShownType'
  BY <1>1, <1>5 DEF SaveAnswered, Types, ShownType, page
<1>8. OddType'
  BY DEF SaveAnswered, Types, OddType, Mishaps
<1>9. StoreType' /\ PageType' /\ LoadsType' /\ TimersType' /\ CountType'
  BY Frame DEF SaveAnswered, page
<1> QED
  BY <1>5, <1>6, <1>7, <1>8, <1>9, AllParts

LEMMA TypesUnheard ==
  ASSUME Types, NEW i \in 1..Len(wire), Unheard(i)
  PROVE  Types'
<1>1. WireType'
  BY WireRemoved DEF Unheard, Shown
<1>2. /\ StoreType' /\ PageType' /\ LoadsType' /\ WrapType' /\ TimersType' /\ CountType'
      /\ OddType' /\ ShownType'
  BY Frame DEF Unheard, page
<1> QED
  BY <1>1, <1>2, AllParts

\* What the page's record becomes when a summary is answered.
LEMMA AnsweredMeta ==
  ASSUME Types, NEW i \in 1..Len(wire), wire[i].then = "summary"
  PROVE  /\ [wire[i].keep EXCEPT !.summary = wire[i].vals["summary"]] \in Metas
         /\ [wire[i].keep EXCEPT !.summary = wire[i].vals["summary"]].id = wire[i].keep.id
         /\ [wire[i].keep EXCEPT !.summary = wire[i].vals["summary"]].name = wire[i].keep.name
         /\ [wire[i].keep EXCEPT !.summary = wire[i].vals["summary"]].summary = wire[i].vals["summary"]
         /\ wire[i].vals["summary"] # None
<1>1. wire[i].keep \in Metas /\ wire[i].vals["summary"] # None /\ wire[i].vals \in Vals
  BY WireNow DEF PutOK, Carries, Puts
<1>2. wire[i].vals["summary"] \in Values
  BY <1>1 DEF Vals, Fields
<1> QED
  BY <1>1, <1>2 DEF Metas

LEMMA TypesSummaryAnswered ==
  ASSUME Types, NEW i \in 1..Len(wire), SummaryAnswered(i)
  PROVE  Types'
<1> DEFINE meta == [wire[i].keep EXCEPT !.summary = wire[i].vals["summary"]]
<1>1. /\ nodeDetail' = meta /\ wrap' = Shows(wrap, meta) /\ wire' = RemoveAt(wire, i)
      /\ UNCHANGED <<url, loading, detail>>
  BY DEF SummaryAnswered
<1>2. meta \in Metas
  BY AnsweredMeta DEF SummaryAnswered
<1> HIDE DEF meta
<1>3. wrap \in Editors \cup {None}
  BY DEF Types, WrapType
<1>4. WrapType' /\ (Shown' <=> Shown)
  BY <1>1, <1>2, <1>3, ShowsType DEF WrapType, Shown
<1>5. WireType'
  BY <1>1, <1>4, WireRemoved
<1>6. PageType' /\ ShownType'
  BY <1>1, <1>2, <1>4, NoneAssumption DEF Types, PageType, ShownType
<1>7. OddType'
  BY DEF SummaryAnswered, Types, OddType, Mishaps
<1>8. StoreType' /\ LoadsType' /\ TimersType' /\ CountType'
  BY Frame DEF SummaryAnswered
<1> QED
  BY <1>4, <1>5, <1>6, <1>7, <1>8, AllParts

LEMMA TypesStutter == ASSUME Types, UNCHANGED vars  PROVE Types'
  BY Frame, WireKept, AllParts DEF vars, page, Shown

LEMMA TypesNext == Types /\ [Next]_vars => Types'
<1>1. SUFFICES ASSUME Types, [Next]_vars  PROVE Types'
  OBVIOUS
<1>2. CASE Reader
  BY <1>1, <1>2, TypesLeave, TypesTypeText, TypesTypeTitle, TypesTypeSummary, TypesSaves DEF Reader
<1>3. CASE Clicks
  BY <1>1, <1>3, TypesOpen DEF Clicks
<1>4. CASE SaveAgain
  BY <1>1, <1>4, TypesSaves
<1>5. CASE Timers
  BY <1>1, <1>5, TypesFire DEF Timers
<1>6. CASE Loading
  BY <1>1, <1>6, TypesLoaded DEF Loading
<1>7. CASE Updating
  BY <1>1, <1>7, TypesUpdate DEF Updating
<1>8. CASE Answering
  BY <1>1, <1>8, TypesSaveAnswered, TypesUnheard, TypesSummaryAnswered DEF Answering
<1>9. CASE Faults
  BY <1>1, <1>9, TypesNotLoaded, TypesNotUpdated DEF Faults
<1>10. CASE UNCHANGED vars
  BY <1>1, <1>10, TypesStutter
<1> QED
  BY <1>1, <1>2, <1>3, <1>4, <1>5, <1>6, <1>7, <1>8, <1>9, <1>10 DEF Next

\* Types hold always: the parts of TypeOK and the two facts it needs besides.
THEOREM TypesHold == Spec => []Types
  BY TypesInit, TypesNext, PTL DEF Spec

\* The editor's state has its types, the editor is shown exactly when the page has a
\* record and no skeleton, and no answer of the save button comes to an editor that
\* is gone.
THEOREM TypeCorrect == Spec => []TypeOK
  BY TypesHold, TypesImply, PTL

-----------------------------------------------------------------------------
(* OwnDocument.  What is stored, sent, waiting and shown of a document was  *)
(* typed for it, and the page's two records and the editor name the same    *)
(* document, until an answer comes late.                                    *)

OwnMeta(m) == m.name.doc = m.id /\ m.summary.doc = m.id
OwnRecord(d) == d.name.doc = d.id /\ d.content.doc = d.id /\ d.summary.doc = d.id
OwnVals(d, vals) == \A f \in Fields : vals[f] # None => vals[f].doc = d
OwnKeep(d, meta) == meta.id = d /\ meta.name.doc = d
OwnPut(m) == OwnVals(m.doc, m.vals) /\ (m.then = "summary" => OwnKeep(m.doc, m.keep))
OwnTimer(t) == OwnVals(t.doc, t.vals) /\ (t.keep # None => OwnKeep(t.doc, t.keep))

LastOwn == \A d \in Docs, f \in Fields : last[d][f].doc = d
StoreOwn == \A d \in Docs, f \in Fields : node[d][f].doc = d
WireOwn == \A i \in 1..Len(wire) : OwnPut(wire[i])
TimersOwn == \A t \in timers : OwnTimer(t)
PageOwn == /\ nodeDetail # None => OwnMeta(nodeDetail)
           /\ detail # None => OwnRecord(detail) /\ detail.id = nodeDetail.id
WrapOwn == Shown => /\ wrap.id = nodeDetail.id /\ wrap.text.doc = wrap.id
                    /\ OwnKeep(wrap.id, wrap.first)
UrlOwn == Shown /\ odd \cap {"late", "back"} = {} => wrap.id = url

InTime == StoreOwn /\ WireOwn /\ TimersOwn /\ PageOwn /\ WrapOwn
Own == Types /\ LastOwn /\ UrlOwn /\ ("late" \notin odd => InTime)

LEMMA OwnImplies == Own => OwnDocument
<1>1. SUFFICES ASSUME Own  PROVE OwnDocument
  OBVIOUS
<1>2. CASE "late" \in odd
  BY <1>1, <1>2 DEF Own, OwnDocument
<1>3. CASE "late" \notin odd
  BY <1>1, <1>3 DEF Own, InTime, UrlOwn, StoreOwn, WireOwn, OwnPut, OwnVals, WrapOwn, Carries,
                    OwnDocument
<1> QED
  BY <1>2, <1>3

\* The parts a step leaves alone.
LEMMA OwnFrame ==
  ASSUME Own
  PROVE  /\ UNCHANGED last => LastOwn'
         /\ UNCHANGED <<wrap, url, odd>> => UrlOwn'
         /\ "late" \notin odd =>
              /\ UNCHANGED node => StoreOwn'
              /\ UNCHANGED wire => WireOwn'
              /\ UNCHANGED timers => TimersOwn'
              /\ UNCHANGED <<detail, nodeDetail>> => PageOwn'
              /\ UNCHANGED <<wrap, nodeDetail>> => WrapOwn'
  BY DEF Own, InTime, LastOwn, StoreOwn, WireOwn, TimersOwn, PageOwn, WrapOwn, UrlOwn, Shown,
         OwnPut, OwnTimer, OwnVals, OwnKeep, OwnMeta, OwnRecord

LEMMA WireOwnAppended ==
  ASSUME Types, WireOwn, NEW m \in Puts, OwnPut(m), wire' = Append(wire, m)
  PROVE  WireOwn'
<1>1. /\ Len(wire') = Len(wire) + 1
      /\ \A k \in 1..Len(wire) : wire'[k] = wire[k]
      /\ wire'[Len(wire) + 1] = m
  BY WireNow, AppendEach
<1>2. ASSUME NEW i \in 1..Len(wire')  PROVE OwnPut(wire'[i])
  <2>1. CASE i \in 1..Len(wire)
    BY <1>1, <2>1 DEF WireOwn
  <2>2. CASE i = Len(wire) + 1
    BY <1>1, <2>2
  <2> QED
    BY WireNow, <1>1, <2>1, <2>2
<1> QED
  BY <1>2 DEF WireOwn, OwnPut, OwnVals, OwnKeep

LEMMA WireOwnRemoved ==
  ASSUME Types, WireOwn, NEW i \in 1..Len(wire), wire' = RemoveAt(wire, i)
  PROVE  WireOwn'
<1>1. /\ Len(wire') = Len(wire) - 1
      /\ \A k \in 1..Len(wire') : wire'[k] = wire[IF k < i THEN k ELSE k + 1]
  BY WireNow, RemoveAtEach
<1>2. ASSUME NEW k \in 1..Len(wire')  PROVE OwnPut(wire'[k])
  <2>1. (IF k < i THEN k ELSE k + 1) \in 1..Len(wire)
    BY WireNow, <1>1
  <2> QED
    BY <1>1, <2>1 DEF WireOwn
<1> QED
  BY <1>2 DEF WireOwn, OwnPut, OwnVals, OwnKeep

LEMMA WireOwnOver ==
  ASSUME Types, Types', WireOwn, NEW i \in 1..Len(wire), NEW st \in {"done", "failed"},
         Shown => Shown', wire' = Over(i, st) \/ wire' = RemoveAt(wire, i)
  PROVE  WireOwn'
<1>1. CASE wire' = RemoveAt(wire, i)
  BY <1>1, WireOwnRemoved
<1>2. CASE wire' = [wire EXCEPT ![i].stage = st]
  <2>1. /\ Len(wire') = Len(wire)
        /\ \A k \in 1..Len(wire) : /\ wire'[k].doc = wire[k].doc /\ wire'[k].vals = wire[k].vals
                                   /\ wire'[k].then = wire[k].then /\ wire'[k].keep = wire[k].keep
    BY <1>2, WireStaged
  <2> QED
    BY <2>1 DEF WireOwn, OwnPut, OwnVals, OwnKeep
<1> QED
  BY <1>1, <1>2 DEF Over

LEMMA WireOwnOrphaned ==
  ASSUME NEW s \in Seq(Puts), \A i \in 1..Len(s) : OwnPut(s[i]), wire' = Orphaned(s)
  PROVE  WireOwn'
<1>1. /\ Len(wire') = Len(s)
      /\ \A k \in 1..Len(s) : /\ wire'[k].doc = s[k].doc /\ wire'[k].vals = s[k].vals
                              /\ wire'[k].then = "summary" => s[k] = wire'[k]
  BY OrphanedEach
<1> QED
  BY <1>1 DEF WireOwn, OwnPut, OwnVals, OwnKeep

\* Timers left behind are still of their document.
LEMMA TimersOwnLeft ==
  ASSUME Types, TimersOwn, timers' = {[t EXCEPT !.live = FALSE] : t \in timers}
  PROVE  TimersOwn'
<1>1. ASSUME NEW t \in timers
      PROVE  /\ [t EXCEPT !.live = FALSE].doc = t.doc
             /\ [t EXCEPT !.live = FALSE].keep = t.keep /\ [t EXCEPT !.live = FALSE].vals = t.vals
  BY DEF Types, TimersType, Timer
<1> QED
  <2>1. ASSUME NEW x \in timers'  PROVE OwnTimer(x)
    <3>1. PICK t \in timers : x = [t EXCEPT !.live = FALSE]
      OBVIOUS
    <3>2. OwnTimer(t)
      BY DEF TimersOwn
    <3> QED
      BY <1>1, <3>1, <3>2 DEF OwnTimer, OwnVals, OwnKeep
  <2> QED
    BY <2>1 DEF TimersOwn, OwnTimer, OwnVals, OwnKeep

\* What the editor sends when it saves.
LEMMA SaveOwn ==
  ASSUME Types, Shown, PageOwn, WrapOwn, NEW then \in {"none", "header"}
  PROVE  OwnPut(Save(then))
<1>1. nodeDetail \in Metas /\ nodeDetail # None
  BY ShownTypes, NoneAssumption
<1>2. nodeDetail.name.doc = nodeDetail.id /\ wrap.text.doc = nodeDetail.id
  BY <1>1 DEF PageOwn, WrapOwn, OwnMeta
<1>3. OwnVals(Save(then).doc, Save(then).vals)
  BY <1>2, SaveType DEF OwnVals, Fields
<1> QED
  BY <1>3, SaveType DEF OwnPut

LEMMA OwnInit == Init => Own
<1>1. SUFFICES ASSUME Init  PROVE Own
  OBVIOUS
<1>2. Types
  BY <1>1, TypesInit
<1>3. LastOwn /\ StoreOwn
  BY <1>1 DEF Init, LastOwn, StoreOwn
<1>4. WireOwn /\ TimersOwn /\ PageOwn /\ WrapOwn /\ UrlOwn
  BY <1>1 DEF Init, WireOwn, TimersOwn, PageOwn, WrapOwn, UrlOwn, Shown
<1> QED
  BY <1>2, <1>3, <1>4 DEF Own, InTime

LEMMA OwnOpen ==
  ASSUME Own, Types', NEW d \in Docs, Open(d)
  PROVE  Own'
<1>1. ~Shown' /\ timers' = {[t EXCEPT !.live = FALSE] : t \in timers} /\ odd' = odd
  BY DEF Open, Unmount, Shown
<1>2. Types /\ LastOwn' /\ UrlOwn'
  BY <1>1, OwnFrame DEF Open, Own, UrlOwn
<1>3. ASSUME "late" \notin odd  PROVE InTime'
  <2>1. StoreOwn /\ WireOwn /\ TimersOwn /\ PageOwn /\ WrapOwn
    BY <1>3 DEF Own, InTime
  <2>2. StoreOwn' /\ PageOwn' /\ WrapOwn'
    BY <1>1, <1>3, OwnFrame DEF Open, WrapOwn
  <2>3. TimersOwn'
    BY <1>1, <1>2, <2>1, TimersOwnLeft
  <2>4. CASE ShowsOther(d)
    <3>1. Save("none") \in Puts /\ OwnPut(Save("none"))
      BY <1>2, <2>1, <2>4, SaveType, SaveOwn DEF ShowsOther
    <3>2. /\ Append(wire, Save("none")) \in Seq(Puts)
          /\ Len(Append(wire, Save("none"))) = Len(wire) + 1
          /\ \A k \in 1..Len(wire) : Append(wire, Save("none"))[k] = wire[k]
          /\ Append(wire, Save("none"))[Len(wire) + 1] = Save("none")
      BY <1>2, <3>1, WireNow, AppendEach
    <3>3. ASSUME NEW k \in 1..(Len(wire) + 1)  PROVE OwnPut(Append(wire, Save("none"))[k])
      <4>1. CASE k \in 1..Len(wire)
        BY <2>1, <3>2, <4>1 DEF WireOwn
      <4>2. CASE k = Len(wire) + 1
        BY <3>1, <3>2, <4>2
      <4> QED
        BY <1>2, <4>1, <4>2, WireNow
    <3>4. WireOwn'
      BY <2>4, <3>2, <3>3, WireOwnOrphaned DEF Open
    <3> QED
      BY <2>2, <2>3, <3>4 DEF InTime
  <2>5. CASE ~ShowsOther(d)
    <3>1. WireOwn'
      BY <1>2, <2>1, <2>5, WireNow, WireOwnOrphaned DEF Open, WireOwn
    <3> QED
      BY <2>2, <2>3, <3>1 DEF InTime
  <2> QED
    BY <2>4, <2>5
<1> QED
  BY <1>1, <1>2, <1>3 DEF Own

LEMMA OwnLeave ==
  ASSUME Own, Types', Leave
  PROVE  Own'
<1>1. /\ ~Shown' /\ detail' = None /\ wire' = Orphaned(wire)
      /\ timers' = {[t EXCEPT !.live = FALSE] : t \in timers}
  BY DEF Leave, Unmount, Shown
<1>2. Types /\ LastOwn' /\ UrlOwn'
  BY <1>1, OwnFrame DEF Leave, Own, UrlOwn
<1>3. ASSUME "late" \notin odd'  PROVE InTime'
  <2>1. "late" \notin odd
    BY <1>3 DEF Leave
  <2>2. WireOwn /\ TimersOwn /\ PageOwn
    BY <2>1 DEF Own, InTime
  <2>3. StoreOwn' /\ WrapOwn'
    BY <1>1, <2>1, OwnFrame DEF Leave, WrapOwn
  <2>4. PageOwn'
    BY <1>1, <2>2 DEF Leave, PageOwn, OwnMeta
  <2>5. TimersOwn'
    BY <1>1, <1>2, <2>2, TimersOwnLeft
  <2>6. WireOwn'
    BY <1>1, <1>2, <2>2, WireNow, WireOwnOrphaned DEF WireOwn
  <2> QED
    BY <2>3, <2>4, <2>5, <2>6 DEF InTime
<1> QED
  BY <1>2, <1>3 DEF Own

\* What is typed next is of the document it is typed for.
LEMMA TypedOwn ==
  ASSUME Own, NEW d \in Docs, NEW f \in Fields, Typed(d, f)
  PROVE  LastOwn' /\ last'[d][f].doc = d
<1>1. last \in [Docs -> [Fields -> Values]] /\ LastOwn
  BY DEF Own, Types, StoreType
<1>2. last' = [last EXCEPT ![d] = [last[d] EXCEPT ![f] = [doc |-> d, rev |-> typed + 1]]]
  BY DEF Typed
<1> QED
  BY <1>1, <1>2 DEF LastOwn

LEMMA DebounceOwn ==
  ASSUME Types, Shown, TimersOwn, NEW f \in Fields, NEW keep, keep # None => OwnKeep(wrap.id, keep),
         last'[wrap.id][f].doc = wrap.id, last'[wrap.id][f] \in Values, Debounce(f, keep)
  PROVE  TimersOwn'
<1> DEFINE t == [doc |-> wrap.id, vals |-> Just(f, last'[wrap.id][f]), keep |-> keep, live |-> TRUE]
<1>1. \A g \in Fields : Just(f, last'[wrap.id][f])[g] = IF g = f THEN last'[wrap.id][f] ELSE None
  BY JustType
<1>2. OwnTimer(t)
  BY <1>1 DEF OwnTimer, OwnVals
<1>3. timers' = {x \in timers : ~(x.live /\ Carries(x, f))} \cup {t}
  BY DEF Debounce
<1> HIDE DEF t
<1>4. ASSUME NEW x \in timers'  PROVE OwnTimer(x)
  BY <1>2, <1>3 DEF TimersOwn
<1> QED
  BY <1>4 DEF TimersOwn, OwnTimer, OwnVals, OwnKeep

LEMMA OwnTypeText ==
  ASSUME Own, Types', TypeText
  PROVE  Own'
<1>1. Types /\ wrap \in Editors /\ Shown /\ wrap.text.doc \in Docs /\ wrap.text \in Values
  BY ShownTypes DEF Own, TypeText, Editors, Values
<1>2. Typed(wrap.text.doc, "content") /\ "content" \in Fields
  BY DEF TypeText, Fields
<1>3. LastOwn' /\ last'[wrap.text.doc]["content"].doc = wrap.text.doc
  BY <1>1, <1>2, TypedOwn
<1>4. last'[wrap.text.doc]["content"] \in Values
  BY <1>1, <1>2, TypedTypes
<1> DEFINE w == [wrap EXCEPT !.text = last'[wrap.text.doc]["content"]]
<1>5. w \in Editors /\ w.id = wrap.id /\ w.first = wrap.first /\ w.text.doc = wrap.text.doc
  BY <1>1, <1>3, <1>4 DEF Editors
<1>6. wrap' = Checked(w)
  BY DEF TypeText
<1> HIDE DEF w
<1>7. wrap'.id = wrap.id /\ wrap'.first = wrap.first /\ wrap'.text.doc = wrap.text.doc
  BY <1>5, <1>6, CheckedType
<1>8. UrlOwn'
  BY <1>1, <1>7 DEF TypeText, page, Own, UrlOwn
<1>9. ASSUME "late" \notin odd  PROVE InTime'
  <2>1. StoreOwn' /\ WireOwn' /\ TimersOwn' /\ PageOwn'
    BY <1>9, OwnFrame DEF TypeText, page
  <2>2. WrapOwn'
    BY <1>1, <1>7, <1>9 DEF TypeText, page, Own, InTime, WrapOwn, OwnKeep
  <2> QED
    BY <2>1, <2>2 DEF InTime
<1> QED
  BY <1>3, <1>8, <1>9 DEF Own, TypeText

LEMMA OwnTypeTitle ==
  ASSUME Own, Types', TypeTitle
  PROVE  Own'
<1>1. Types /\ wrap \in Editors /\ nodeDetail \in Metas /\ Shown /\ wrap.id \in Docs
  BY ShownTypes DEF Own, TypeTitle, Editors
<1>2. Typed(wrap.id, "name") /\ "name" \in Fields
  BY DEF TypeTitle, Fields
<1>3. LastOwn' /\ last'[wrap.id]["name"].doc = wrap.id
  BY <1>1, <1>2, TypedOwn
<1>4. last'[wrap.id]["name"] \in Values
  BY <1>1, <1>2, TypedTypes
<1>5. /\ nodeDetail' \in Metas /\ nodeDetail'.id = nodeDetail.id
      /\ nodeDetail'.name = last'[wrap.id]["name"] /\ nodeDetail'.summary = nodeDetail.summary
  BY <1>1, <1>4 DEF TypeTitle, Metas
<1>6. wrap'.id = wrap.id /\ wrap'.first = wrap.first /\ wrap'.text = wrap.text
  BY <1>1, <1>5, ShowsType DEF TypeTitle, Shown
<1>7. UrlOwn'
  BY <1>1, <1>6 DEF TypeTitle, Own, UrlOwn
<1>8. ASSUME "late" \notin odd  PROVE InTime'
  <2>1. PageOwn /\ WrapOwn /\ TimersOwn
    BY <1>8 DEF Own, InTime
  <2>2. StoreOwn' /\ WireOwn'
    BY <1>8, OwnFrame DEF TypeTitle
  <2>3. wrap.id = nodeDetail.id /\ OwnMeta(nodeDetail)
    BY <1>1, <2>1, NoneAssumption DEF PageOwn, WrapOwn
  <2>4. PageOwn'
    BY <1>3, <1>5, <2>1, <2>3 DEF TypeTitle, PageOwn, OwnMeta, OwnRecord
  <2>5. WrapOwn'
    BY <1>1, <1>5, <1>6, <2>1 DEF WrapOwn, OwnKeep
  <2>6. TimersOwn'
    BY <1>1, <1>2, <1>3, <1>4, <2>1, DebounceOwn DEF TypeTitle
  <2> QED
    BY <2>2, <2>4, <2>5, <2>6 DEF InTime
<1> QED
  BY <1>3, <1>7, <1>8 DEF Own, TypeTitle

LEMMA OwnTypeSummary ==
  ASSUME Own, Types', TypeSummary
  PROVE  Own'
<1>1. Types /\ wrap \in Editors /\ Shown /\ wrap.id \in Docs
  BY ShownTypes DEF Own, TypeSummary, Editors
<1>2. Typed(wrap.id, "summary") /\ "summary" \in Fields
  BY DEF TypeSummary, Fields
<1>3. LastOwn' /\ last'[wrap.id]["summary"].doc = wrap.id
  BY <1>1, <1>2, TypedOwn
<1>4. last'[wrap.id]["summary"] \in Values
  BY <1>1, <1>2, TypedTypes
<1> DEFINE w == [wrap EXCEPT !.summary = last'[wrap.id]["summary"]]
<1>5. w \in Editors /\ w.id = wrap.id /\ w.first = wrap.first /\ w.text = wrap.text
  BY <1>1, <1>4 DEF Editors
<1>6. wrap' = Checked(w)
  BY DEF TypeSummary
<1> HIDE DEF w
<1>7. wrap'.id = wrap.id /\ wrap'.first = wrap.first /\ wrap'.text = wrap.text
  BY <1>5, <1>6, CheckedType
<1>8. UrlOwn'
  BY <1>1, <1>7 DEF TypeSummary, page, Own, UrlOwn
<1>9. ASSUME "late" \notin odd  PROVE InTime'
  <2>1. WrapOwn /\ TimersOwn
    BY <1>9 DEF Own, InTime
  <2>2. StoreOwn' /\ WireOwn' /\ PageOwn'
    BY <1>9, OwnFrame DEF TypeSummary, page
  <2>3. WrapOwn'
    BY <1>1, <1>7, <2>1 DEF TypeSummary, page, WrapOwn, OwnKeep
  <2>4. TimersOwn'
    BY <1>1, <1>2, <1>3, <1>4, <2>1, DebounceOwn DEF TypeSummary, WrapOwn
  <2> QED
    BY <2>2, <2>3, <2>4 DEF InTime
<1> QED
  BY <1>3, <1>8, <1>9 DEF Own, TypeSummary

\* A save sends the text and the title to the document both belong to.
LEMMA OwnSaved ==
  ASSUME Own, Types', Shown, NEW then \in {"none", "header"}, wire' = Append(wire, Save(then)),
         wrap' \in Editors, wrap'.id = wrap.id, wrap'.text = wrap.text, wrap'.first = wrap.first,
         UNCHANGED <<node, page, loads, timers, typed, opens, faults, last, odd>>
  PROVE  Own'
<1>1. Types /\ LastOwn' /\ UrlOwn'
  BY OwnFrame DEF Own, UrlOwn, page
<1>2. ASSUME "late" \notin odd  PROVE InTime'
  <2>1. WireOwn /\ PageOwn /\ WrapOwn
    BY <1>2 DEF Own, InTime
  <2>2. StoreOwn' /\ TimersOwn' /\ PageOwn'
    BY <1>2, OwnFrame DEF page
  <2>3. WrapOwn'
    BY <2>1 DEF WrapOwn, OwnKeep, page
  <2>4. WireOwn'
    BY <1>1, <2>1, SaveType, SaveOwn, WireOwnAppended
  <2> QED
    BY <2>2, <2>3, <2>4 DEF InTime
<1> QED
  BY <1>1, <1>2 DEF Own

LEMMA OwnSaves ==
  ASSUME Own, Types', Shortcut \/ SaveButton \/ Hide \/ SaveAgain
  PROVE  Own'
<1>1. Types /\ Shown /\ wrap \in Editors /\ nodeDetail \in Metas /\ wrap # None
  BY ShownTypes DEF Own, Shortcut, SaveButton, Hide, SaveAgain, Shown
<1> DEFINE w == [wrap EXCEPT !.initial = At(wrap.text, wrap.summary)]
<1>2. /\ Clean(wrap) \in Editors /\ Clean(wrap).id = wrap.id /\ Clean(wrap).text = wrap.text
      /\ Clean(wrap).first = wrap.first
  BY <1>1, CleanType
<1>3. w \in Editors /\ w.id = wrap.id /\ w.text = wrap.text /\ w.first = wrap.first
  BY <1>1, AtType DEF Editors
<1> HIDE DEF w
<1>4. ASSUME NEW x \in {Clean(wrap), wrap, w}
      PROVE  /\ Shows(x, nodeDetail) \in Editors /\ Shows(x, nodeDetail).id = wrap.id
             /\ Shows(x, nodeDetail).text = wrap.text /\ Shows(x, nodeDetail).first = wrap.first
  BY <1>1, <1>2, <1>3, ShowsType, NoneAssumption
<1>5. CASE Shortcut
  BY <1>1, <1>4, <1>5, OwnSaved DEF Shortcut
<1>6. CASE SaveButton
  BY <1>1, <1>4, <1>6, OwnSaved DEF SaveButton
<1>7. CASE Hide
  BY <1>1, <1>4, <1>7, OwnSaved DEF Hide, w
<1>8. CASE SaveAgain
  BY <1>1, <1>4, <1>8, OwnSaved DEF SaveAgain
<1> QED
  BY <1>5, <1>6, <1>7, <1>8

LEMMA OwnFire ==
  ASSUME Own, Types', NEW t \in timers, Fire(t)
  PROVE  Own'
<1>1. Types /\ t \in Timer /\ (t.keep # None => Carries(t, "summary"))
  BY DEF Own, Types, TimersType
<1>2. LastOwn' /\ UrlOwn'
  BY OwnFrame DEF Fire, page
<1>3. ASSUME "late" \notin odd  PROVE InTime'
  <2> DEFINE m == Put(t.doc, t.vals, IF t.keep = None THEN "none" ELSE "summary", t.keep)
  <2>1. m \in Puts /\ m.doc = t.doc /\ m.vals = t.vals /\ m.keep = t.keep
        /\ (m.then = "summary" => t.keep # None)
    BY <1>1 DEF Put, Puts, Timer
  <2>2. wire' = Append(wire, m)
    BY DEF Fire
  <2> HIDE DEF m
  <2>3. WireOwn /\ TimersOwn
    BY <1>3 DEF Own, InTime
  <2>4. OwnPut(m)
    BY <2>1, <2>3 DEF TimersOwn, OwnTimer, OwnPut
  <2>5. WireOwn'
    BY <1>1, <2>1, <2>2, <2>3, <2>4, WireOwnAppended
  <2>6. TimersOwn'
    BY <2>3 DEF Fire, TimersOwn, OwnTimer, OwnVals, OwnKeep
  <2>7. StoreOwn' /\ PageOwn' /\ WrapOwn'
    BY <1>3, OwnFrame DEF Fire, page
  <2> QED
    BY <2>5, <2>6, <2>7 DEF InTime
<1> QED
  BY <1>2, <1>3 DEF Own, Fire

\* An answer in time finds no editor and is for the document of the address: the page
\* and the editor take all they show from its record.
LEMMA OwnLoaded ==
  ASSUME Own, Types', NEW i \in 1..Len(loads), Loaded(i)
  PROVE  Own'
<1> DEFINE d == Record(loads[i].doc)
<1>1. Types /\ node \in [Docs -> [Fields -> Values]] /\ loads[i].doc \in Docs
  BY LoadsNow DEF Own, Types, StoreType
<1>2. /\ d \in Details /\ d.id = loads[i].doc /\ d.name = node[d.id]["name"]
      /\ d.content = node[d.id]["content"] /\ d.summary = node[d.id]["summary"]
  BY <1>1, RecordType
<1>3. /\ Meta(d) \in Metas /\ Meta(d).id = d.id /\ Meta(d).name = d.name
      /\ Meta(d).summary = d.summary
  BY <1>2, MetaType
<1>4. LastOwn'
  BY OwnFrame DEF Loaded
<1>5. CASE "late" \in odd'
  BY <1>4, <1>5 DEF Own, UrlOwn
<1>6. CASE "late" \notin odd'
  <2>1. "late" \notin odd /\ ~Shown /\ loads[i].live /\ d.id = url
    BY <1>6 DEF Loaded
  <2>2. /\ wrap' = Mounted(d, Meta(d)) /\ detail' = d /\ nodeDetail' = Meta(d)
        /\ UNCHANGED <<node, url, wire, timers>>
    BY <2>1 DEF Loaded
  <2> HIDE DEF d
  <2>3. /\ wrap'.id = d.id /\ wrap'.text = d.content /\ wrap'.first = Meta(d)
    BY <1>2, <1>3, <2>2, MountedType
  <2>4. OwnRecord(d) /\ OwnMeta(Meta(d))
    <3>1. StoreOwn /\ {"name", "content", "summary"} \subseteq Fields
      BY <2>1 DEF Own, InTime, Fields
    <3>2. d.id \in Docs
      BY <1>2 DEF Details
    <3> QED
      BY <1>2, <1>3, <3>1, <3>2 DEF StoreOwn, OwnRecord, OwnMeta
  <2>5. StoreOwn' /\ WireOwn' /\ TimersOwn'
    BY <2>1, <2>2, OwnFrame
  <2>6. PageOwn'
    BY <1>3, <2>2, <2>4 DEF PageOwn, OwnRecord, OwnMeta
  <2>7. WrapOwn'
    BY <1>3, <2>2, <2>3, <2>4 DEF WrapOwn, OwnKeep, OwnRecord
  <2>8. UrlOwn'
    BY <2>1, <2>2, <2>3 DEF UrlOwn
  <2> QED
    BY <1>4, <2>5, <2>6, <2>7, <2>8 DEF Own, InTime
<1> QED
  BY <1>5, <1>6

LEMMA OwnNotLoaded ==
  ASSUME Own, Types', NEW i \in 1..Len(loads), NotLoaded(i)
  PROVE  Own'
<1>1. Types /\ LastOwn' /\ UNCHANGED <<node, url, detail, nodeDetail, timers, wire>>
  BY OwnFrame DEF Own, NotLoaded
<1>2. CASE loads[i].live /\ ~Shown /\ detail # None
  <2>1. wrap' = Mounted(detail, nodeDetail) /\ "back" \in odd'
    BY <1>2 DEF NotLoaded
  <2>2. detail \in Details /\ nodeDetail \in Metas /\ nodeDetail # None
    BY <1>1, <1>2, NoneAssumption DEF Types, PageType
  <2>3. /\ wrap'.id = detail.id /\ wrap'.text = detail.content /\ wrap'.first = nodeDetail
    BY <2>1, <2>2, MountedType
  <2>4. ASSUME "late" \notin odd'  PROVE InTime'
    <3>1. "late" \notin odd
      BY <2>4 DEF NotLoaded
    <3>2. /\ OwnRecord(detail) /\ OwnMeta(nodeDetail) /\ detail.id = nodeDetail.id
      BY <1>2, <2>2, <3>1 DEF Own, InTime, PageOwn
    <3>3. StoreOwn' /\ WireOwn' /\ TimersOwn' /\ PageOwn'
      BY <1>1, <3>1, OwnFrame
    <3>4. WrapOwn'
      BY <1>1, <2>3, <3>2 DEF WrapOwn, OwnKeep, OwnRecord, OwnMeta
    <3> QED
      BY <3>3, <3>4 DEF InTime
  <2> QED
    BY <1>1, <2>1, <2>4 DEF Own, UrlOwn
<1>3. CASE ~(loads[i].live /\ ~Shown /\ detail # None)
  <2>1. UNCHANGED <<wrap, odd>>
    BY <1>3 DEF NotLoaded
  <2>2. UrlOwn' /\ ("late" \notin odd => InTime')
    BY <1>1, <2>1, OwnFrame DEF InTime
  <2> QED
    BY <1>1, <2>1, <2>2 DEF Own
<1> QED
  BY <1>2, <1>3

LEMMA OwnUpdate ==
  ASSUME Own, Types', NEW i \in 1..Len(wire), Update(i)
  PROVE  Own'
<1>1. /\ Types /\ node \in [Docs -> [Fields -> Values]]
      /\ wire[i].doc \in Docs /\ wire[i].vals \in Vals
  BY WireNow DEF Own, Types, StoreType, Puts
<1>2. /\ node' = [node EXCEPT ![wire[i].doc] = Written(node[wire[i].doc], wire[i].vals)]
      /\ wire' = Over(i, "done") /\ UNCHANGED <<wrap, page, timers, last>>
      /\ (odd' = odd \/ odd' = odd \cup {"overtaken"})
  BY DEF Update
<1>3. LastOwn' /\ UrlOwn'
  BY <1>2, OwnFrame DEF Own, UrlOwn, page, Shown
<1>4. ASSUME "late" \notin odd'  PROVE InTime'
  <2>1. "late" \notin odd
    BY <1>2, <1>4
  <2>2. StoreOwn /\ WireOwn
    BY <2>1 DEF Own, InTime
  <2>3. OwnVals(wire[i].doc, wire[i].vals)
    BY <2>2 DEF WireOwn, OwnPut
  <2>4. \A f \in Fields : Written(node[wire[i].doc], wire[i].vals)[f].doc = wire[i].doc
    BY <1>1, <2>2, <2>3, WrittenType, SMTT(20) DEF StoreOwn, OwnVals
  <2>5. StoreOwn'
    BY <1>1, <1>2, <2>2, <2>4 DEF StoreOwn
  <2>6. WireOwn'
    BY <1>1, <1>2, <2>2, WireOwnOver DEF Shown
  <2>7. TimersOwn' /\ PageOwn' /\ WrapOwn'
    BY <1>2, <2>1, OwnFrame DEF page
  <2> QED
    BY <2>5, <2>6, <2>7 DEF InTime
<1> QED
  BY <1>3, <1>4 DEF Own

LEMMA OwnNotUpdated ==
  ASSUME Own, Types', NEW i \in 1..Len(wire), NotUpdated(i)
  PROVE  Own'
<1>1. /\ Types /\ (wire' = Over(i, "failed") \/ wire' = RemoveAt(wire, i))
      /\ UNCHANGED <<node, wrap, page, timers, last>> /\ odd' = odd \cup {"failed"}
  BY DEF NotUpdated, Own
<1>2. LastOwn' /\ UrlOwn'
  BY <1>1, OwnFrame DEF Own, UrlOwn, page, Shown
<1>3. ASSUME "late" \notin odd'  PROVE InTime'
  <2>1. "late" \notin odd
    BY <1>1, <1>3
  <2>2. WireOwn
    BY <2>1 DEF Own, InTime
  <2>3. WireOwn'
    BY <1>1, <2>2, WireOwnOver DEF Shown
  <2>4. StoreOwn' /\ TimersOwn' /\ PageOwn' /\ WrapOwn'
    BY <1>1, <2>1, OwnFrame DEF page
  <2> QED
    BY <2>3, <2>4 DEF InTime
<1> QED
  BY <1>2, <1>3 DEF Own

LEMMA OwnSaveAnswered ==
  ASSUME Own, Types', NEW i \in 1..Len(wire), SaveAnswered(i) \/ Unheard(i)
  PROVE  Own'
<1>1. /\ Types /\ wire' = RemoveAt(wire, i) /\ UNCHANGED <<node, page, timers, last>>
      /\ (odd' = odd \/ odd' = odd \cup {"during"})
  BY DEF SaveAnswered, Unheard, Own
<1>2. /\ Shown' <=> Shown
      /\ Shown => wrap'.id = wrap.id /\ wrap'.text = wrap.text /\ wrap'.first = wrap.first
  <2>1. CASE SaveAnswered(i)
    <3>1. Shown /\ wire[i].keep \in Contents
      BY <1>1, <2>1, WireNow DEF SaveAnswered, PutOK
    <3>2. wrap \in Editors /\ wrap' = [wrap EXCEPT !.initial = wire[i].keep, !.editing = FALSE]
      BY <1>1, <2>1, <3>1, ShownTypes DEF SaveAnswered
    <3>3. /\ wrap' \in Editors /\ wrap'.id = wrap.id /\ wrap'.text = wrap.text
          /\ wrap'.first = wrap.first
      BY <3>1, <3>2 DEF Editors
    <3> QED
      BY <3>1, <3>3, NoneAssumption DEF Shown
  <2>2. CASE Unheard(i)
    BY <2>2 DEF Unheard, Shown
  <2> QED
    BY <2>1, <2>2
<1>3. LastOwn' /\ UrlOwn'
  BY <1>1, <1>2, OwnFrame DEF Own, UrlOwn, page
<1>4. ASSUME "late" \notin odd'  PROVE InTime'
  <2>1. "late" \notin odd
    BY <1>1, <1>4
  <2>2. WireOwn /\ WrapOwn
    BY <2>1 DEF Own, InTime
  <2>3. WireOwn'
    BY <1>1, <2>2, WireOwnRemoved
  <2>4. WrapOwn'
    BY <1>1, <1>2, <2>2 DEF WrapOwn, OwnKeep, page
  <2>5. StoreOwn' /\ TimersOwn' /\ PageOwn'
    BY <1>1, <2>1, OwnFrame DEF page
  <2> QED
    BY <2>3, <2>4, <2>5 DEF InTime
<1> QED
  BY <1>3, <1>4 DEF Own

\* The closure of the first render answers in time when it still has the document of
\* the page.
LEMMA OwnSummaryAnswered ==
  ASSUME Own, Types', NEW i \in 1..Len(wire), SummaryAnswered(i)
  PROVE  Own'
<1> DEFINE meta == [wire[i].keep EXCEPT !.summary = wire[i].vals["summary"]]
<1>1. Types /\ wire[i].then = "summary"
  BY DEF SummaryAnswered, Own
<1>2. /\ meta \in Metas /\ meta.id = wire[i].keep.id /\ meta.name = wire[i].keep.name
      /\ meta.summary = wire[i].vals["summary"] /\ wire[i].vals["summary"] # None
  BY <1>1, AnsweredMeta
<1>3. /\ nodeDetail' = meta /\ wrap' = Shows(wrap, meta) /\ wire' = RemoveAt(wire, i)
      /\ UNCHANGED <<node, url, detail, timers, last>>
      /\ odd \subseteq odd' /\ (meta.id # nodeDetail.id => "late" \in odd')
  BY DEF SummaryAnswered
<1> HIDE DEF meta
<1>4. wrap \in Editors \cup {None}
  BY <1>1 DEF Types, WrapType
<1>5. /\ Shown' <=> Shown
      /\ Shown => wrap'.id = wrap.id /\ wrap'.text = wrap.text /\ wrap'.first = wrap.first
  BY <1>2, <1>3, <1>4, ShowsType DEF Shown
<1>6. LastOwn' /\ UrlOwn'
  BY <1>3, <1>5, OwnFrame DEF Own, UrlOwn
<1>7. ASSUME "late" \notin odd'  PROVE InTime'
  <2>1. "late" \notin odd /\ meta.id = nodeDetail.id
    BY <1>3, <1>7
  <2>2. WireOwn /\ WrapOwn /\ PageOwn
    BY <2>1 DEF Own, InTime
  <2>3. OwnPut(wire[i]) /\ "summary" \in Fields
    BY <2>2 DEF WireOwn, Fields
  <2>4. OwnMeta(meta)
    BY <1>1, <1>2, <2>3 DEF OwnPut, OwnVals, OwnKeep, OwnMeta
  <2>5. WireOwn'
    BY <1>1, <1>3, <2>2, WireOwnRemoved
  <2>6. PageOwn'
    BY <1>3, <2>1, <2>2, <2>4 DEF PageOwn, OwnMeta, OwnRecord
  <2>7. WrapOwn'
    BY <1>3, <1>5, <2>1, <2>2 DEF WrapOwn, OwnKeep
  <2>8. StoreOwn' /\ TimersOwn'
    BY <1>3, <2>1, OwnFrame
  <2> QED
    BY <2>5, <2>6, <2>7, <2>8 DEF InTime
<1> QED
  BY <1>6, <1>7 DEF Own

LEMMA OwnStutter == ASSUME Own, Types', UNCHANGED vars  PROVE Own'
  BY OwnFrame DEF Own, InTime, vars, page

LEMMA OwnNext == Own /\ Types' /\ [Next]_vars => Own'
<1>1. SUFFICES ASSUME Own, Types', [Next]_vars  PROVE Own'
  OBVIOUS
<1>2. CASE Reader
  BY <1>1, <1>2, OwnLeave, OwnTypeText, OwnTypeTitle, OwnTypeSummary, OwnSaves DEF Reader
<1>3. CASE Clicks
  BY <1>1, <1>3, OwnOpen DEF Clicks
<1>4. CASE SaveAgain
  BY <1>1, <1>4, OwnSaves
<1>5. CASE Timers
  BY <1>1, <1>5, OwnFire DEF Timers
<1>6. CASE Loading
  BY <1>1, <1>6, OwnLoaded DEF Loading
<1>7. CASE Updating
  BY <1>1, <1>7, OwnUpdate DEF Updating
<1>8. CASE Answering
  BY <1>1, <1>8, OwnSaveAnswered, OwnSummaryAnswered DEF Answering
<1>9. CASE Faults
  BY <1>1, <1>9, OwnNotLoaded, OwnNotUpdated DEF Faults
<1>10. CASE UNCHANGED vars
  BY <1>1, <1>10, OwnStutter
<1> QED
  BY <1>1, <1>2, <1>3, <1>4, <1>5, <1>6, <1>7, <1>8, <1>9, <1>10 DEF Next

\* Unless an answer came late, what is stored of a document was typed for it and what
\* is under way will be stored where it belongs; and unless the page went back to an
\* older record, the editor shows the document the address names.
THEOREM EachItsOwn == Spec => []OwnDocument
<1>1. Own /\ [Next]_vars => Own'
  BY OwnNext, TypesNext DEF Own
<1> QED
  BY <1>1, OwnInit, OwnImplies, PTL DEF Spec

-----------------------------------------------------------------------------
(* Updates under way.                                                      *)

\* A request still to be written, with field f of document d.
On(m, d, f) == m.doc = d /\ m.stage = "sent" /\ Carries(m, f)

\* Once all of s has been written in order, field f of d holds v.
Landed(s, d, f, stored, v) ==
    \/ stored = v /\ \A i \in 1..Len(s) : ~On(s[i], d, f)
    \/ \E i \in 1..Len(s) : /\ On(s[i], d, f) /\ s[i].vals[f] = v
                            /\ \A k \in (i + 1)..Len(s) : ~On(s[k], d, f)

\* A request added keeps the value, or brings it.
LEMMA LandedAppended ==
  ASSUME NEW s \in Seq(Puts), NEW m \in Puts, NEW d, NEW f, NEW stored, NEW v,
         On(m, d, f) => m.vals[f] = v,
         Landed(s, d, f, stored, v) \/ On(m, d, f)
  PROVE  Landed(Append(s, m), d, f, stored, v)
<1> DEFINE t == Append(s, m)
<1>1. /\ Len(s) \in Nat /\ Len(t) = Len(s) + 1
      /\ \A k \in 1..Len(s) : t[k] = s[k]
      /\ t[Len(s) + 1] = m
  BY AppendEach, LenProperties
<1> HIDE DEF t
<1>2. CASE On(m, d, f)
  <2>1. Len(s) + 1 \in 1..Len(t) /\ \A k \in (Len(s) + 1 + 1)..Len(t) : ~On(t[k], d, f)
    BY <1>1
  <2> QED
    BY <1>1, <1>2, <2>1 DEF Landed, t
<1>3. CASE ~On(m, d, f) /\ stored = v /\ \A i \in 1..Len(s) : ~On(s[i], d, f)
  <2>1. \A k \in 1..Len(t) : k \in 1..Len(s) \/ k = Len(s) + 1
    BY <1>1
  <2>2. \A k \in 1..Len(t) : ~On(t[k], d, f)
    BY <1>1, <1>3, <2>1
  <2> QED
    BY <1>3, <2>2 DEF Landed, t
<1>4. ASSUME ~On(m, d, f), NEW i \in 1..Len(s), On(s[i], d, f), s[i].vals[f] = v,
             \A k \in (i + 1)..Len(s) : ~On(s[k], d, f)
      PROVE  Landed(t, d, f, stored, v)
  <2>1. \A k \in (i + 1)..Len(t) : (k \in 1..Len(s) /\ k \in (i + 1)..Len(s)) \/ k = Len(s) + 1
    BY <1>1
  <2>2. \A k \in (i + 1)..Len(t) : ~On(t[k], d, f)
    BY <1>1, <1>4, <2>1
  <2>3. i \in 1..Len(t) /\ t[i] = s[i]
    BY <1>1
  <2> QED
    BY <1>4, <2>2, <2>3 DEF Landed
<1> QED
  BY <1>2, <1>3, <1>4 DEF Landed, t

\* A request taken out that was not to be written with the field.
LEMMA LandedRemoved ==
  ASSUME NEW s \in Seq(Puts), NEW j \in 1..Len(s), NEW d, NEW f, NEW stored, NEW v,
         ~On(s[j], d, f), Landed(s, d, f, stored, v)
  PROVE  Landed(RemoveAt(s, j), d, f, stored, v)
<1> DEFINE t == RemoveAt(s, j)
<1>1. /\ Len(s) \in Nat /\ Len(t) = Len(s) - 1
      /\ \A k \in 1..Len(t) : t[k] = s[IF k < j THEN k ELSE k + 1]
  BY RemoveAtEach, LenProperties
<1> HIDE DEF t
<1>2. CASE stored = v /\ \A i \in 1..Len(s) : ~On(s[i], d, f)
  <2>1. \A k \in 1..Len(t) : (IF k < j THEN k ELSE k + 1) \in 1..Len(s)
    BY <1>1
  <2>2. \A k \in 1..Len(t) : ~On(t[k], d, f)
    BY <1>1, <1>2, <2>1
  <2> QED
    BY <1>2, <2>2 DEF Landed, t
<1>3. ASSUME NEW i \in 1..Len(s), On(s[i], d, f), s[i].vals[f] = v,
             \A k \in (i + 1)..Len(s) : ~On(s[k], d, f)
      PROVE  Landed(t, d, f, stored, v)
  <2> DEFINE n == IF i < j THEN i ELSE i - 1
  <2>1. i # j
    BY <1>3
  <2>2. n \in 1..Len(t) /\ t[n] = s[i]
    <3>1. CASE i < j
      BY <1>1, <3>1
    <3>2. CASE i > j
      <4>1. n = i - 1 /\ n \in 1..Len(t) /\ ~(n < j) /\ n + 1 = i
        BY <1>1, <3>2
      <4> QED
        BY <1>1, <4>1
    <3> QED
      BY <2>1, <3>1, <3>2
  <2>3. \A k \in (n + 1)..Len(t) : /\ k \in 1..Len(t)
                                   /\ (IF k < j THEN k ELSE k + 1) \in (i + 1)..Len(s)
    BY <1>1, <2>1
  <2>4. \A k \in (n + 1)..Len(t) : ~On(t[k], d, f)
    BY <1>1, <1>3, <2>3
  <2> HIDE DEF n
  <2> QED
    BY <1>3, <2>2, <2>4 DEF Landed
<1> QED
  BY <1>2, <1>3 DEF Landed, t

\* A sequence with the same requests still to be written.
LEMMA LandedSame ==
  ASSUME NEW s, NEW t, NEW d, NEW f, NEW stored, NEW v, Len(s) \in Nat, Len(t) = Len(s),
         \A k \in 1..Len(s) : (On(t[k], d, f) <=> On(s[k], d, f)) /\ t[k].vals = s[k].vals,
         Landed(s, d, f, stored, v)
  PROVE  Landed(t, d, f, stored, v)
<1>1. CASE stored = v /\ \A i \in 1..Len(s) : ~On(s[i], d, f)
  BY <1>1 DEF Landed
<1>2. ASSUME NEW i \in 1..Len(s), On(s[i], d, f), s[i].vals[f] = v,
             \A k \in (i + 1)..Len(s) : ~On(s[k], d, f)
      PROVE  Landed(t, d, f, stored, v)
  <2>1. \A k \in (i + 1)..Len(t) : k \in 1..Len(s)
    OBVIOUS
  <2>2. \A k \in (i + 1)..Len(t) : ~On(t[k], d, f)
    BY <1>2, <2>1
  <2> QED
    BY <1>2, <2>2 DEF Landed
<1> QED
  BY <1>1, <1>2 DEF Landed

\* The first request with the field is written: what it carries is stored now, and a
\* later one still comes after it.
LEMMA LandedFirst ==
  ASSUME NEW s \in Seq(Puts), NEW j \in 1..Len(s), NEW d, NEW f, NEW stored, NEW v,
         On(s[j], d, f), \A k \in 1..(j - 1) : ~On(s[k], d, f), Landed(s, d, f, stored, v)
  PROVE  /\ \A k \in 1..Len(s) : k # j => ~On(s[k], d, f)
         /\ s[j].vals[f] = v
      \/ \E i \in (j + 1)..Len(s) : /\ On(s[i], d, f) /\ s[i].vals[f] = v
                                    /\ \A k \in (i + 1)..Len(s) : ~On(s[k], d, f)
<1>1. Len(s) \in Nat /\ j \in Nat
  BY LenProperties
<1>2. PICK i \in 1..Len(s) : /\ On(s[i], d, f) /\ s[i].vals[f] = v
                             /\ \A k \in (i + 1)..Len(s) : ~On(s[k], d, f)
  BY DEF Landed
<1>3. ~(i < j)
  BY <1>1, <1>2
<1>4. CASE i = j
  <2>1. \A k \in 1..Len(s) : k # j => k \in 1..(j - 1) \/ k \in (j + 1)..Len(s)
    BY <1>1
  <2> QED
    BY <1>2, <1>4, <2>1
<1>5. CASE i > j
  <2>1. i \in (j + 1)..Len(s)
    BY <1>1, <1>5
  <2> QED
    BY <1>2, <2>1
<1> QED
  BY <1>1, <1>3, <1>4, <1>5

\* Written and answered: the request taken out, or no longer to be written.
LEMMA LandedStruck ==
  ASSUME Types, NEW j \in 1..Len(wire), NEW d, NEW f, NEW stored, NEW v, Shown => Shown',
         wire' = Over(j, "done"), wire[j].stage = "sent",
         On(wire[j], d, f), \A k \in 1..(j - 1) : ~On(wire[k], d, f),
         Landed(wire, d, f, stored, v)
  PROVE  Landed(wire', d, f, wire[j].vals[f], v)
<1>1. wire \in Seq(Puts) /\ Len(wire) \in Nat
  BY WireNow
<1>2. \/ (\A k \in 1..Len(wire) : k # j => ~On(wire[k], d, f)) /\ wire[j].vals[f] = v
      \/ \E i \in (j + 1)..Len(wire) : /\ On(wire[i], d, f) /\ wire[i].vals[f] = v
                                       /\ \A k \in (i + 1)..Len(wire) : ~On(wire[k], d, f)
  BY <1>1, LandedFirst
<1>3. CASE wire' = RemoveAt(wire, j)
  <2>1. /\ Len(wire') = Len(wire) - 1
        /\ \A k \in 1..Len(wire') : wire'[k] = wire[IF k < j THEN k ELSE k + 1]
    BY <1>1, <1>3, RemoveAtEach
  <2>2. CASE (\A k \in 1..Len(wire) : k # j => ~On(wire[k], d, f)) /\ wire[j].vals[f] = v
    <3>1. \A k \in 1..Len(wire') : /\ (IF k < j THEN k ELSE k + 1) \in 1..Len(wire)
                                   /\ (IF k < j THEN k ELSE k + 1) # j
      BY <1>1, <2>1
    <3>2. \A k \in 1..Len(wire') : ~On(wire'[k], d, f)
      BY <2>1, <2>2, <3>1
    <3> QED
      BY <2>2, <3>2 DEF Landed
  <2>3. ASSUME NEW i \in (j + 1)..Len(wire), On(wire[i], d, f), wire[i].vals[f] = v,
               \A k \in (i + 1)..Len(wire) : ~On(wire[k], d, f)
        PROVE  Landed(wire', d, f, wire[j].vals[f], v)
    <3>1. i - 1 \in 1..Len(wire') /\ ~(i - 1 < j) /\ i - 1 + 1 = i
      BY <1>1, <2>1
    <3>2. wire'[i - 1] = wire[i]
      BY <2>1, <3>1
    <3>3. \A k \in (i - 1 + 1)..Len(wire') : /\ k \in 1..Len(wire') /\ ~(k < j)
                                             /\ k + 1 \in (i + 1)..Len(wire)
      BY <1>1, <2>1
    <3>4. \A k \in (i - 1 + 1)..Len(wire') : ~On(wire'[k], d, f)
      BY <2>1, <2>3, <3>3
    <3> QED
      BY <2>3, <3>1, <3>2, <3>4 DEF Landed
  <2> QED
    BY <1>2, <2>2, <2>3
<1>4. CASE wire' = [wire EXCEPT ![j].stage = "done"]
  <2>1. /\ Len(wire') = Len(wire)
        /\ \A k \in 1..Len(wire) : /\ wire'[k].doc = wire[k].doc /\ wire'[k].vals = wire[k].vals
                                   /\ wire'[k].stage = IF k = j THEN "done" ELSE wire[k].stage
    BY <1>4, WireStaged
  <2>2. \A k \in 1..Len(wire) : On(wire'[k], d, f) <=> k # j /\ On(wire[k], d, f)
    BY <2>1 DEF On, Carries
  <2>3. CASE (\A k \in 1..Len(wire) : k # j => ~On(wire[k], d, f)) /\ wire[j].vals[f] = v
    BY <2>1, <2>2, <2>3 DEF Landed
  <2>4. ASSUME NEW i \in (j + 1)..Len(wire), On(wire[i], d, f), wire[i].vals[f] = v,
               \A k \in (i + 1)..Len(wire) : ~On(wire[k], d, f)
        PROVE  Landed(wire', d, f, wire[j].vals[f], v)
    <3>1. i \in 1..Len(wire') /\ i # j /\ \A k \in (i + 1)..Len(wire') : k \in 1..Len(wire)
      BY <1>1, <2>1
    <3>2. On(wire'[i], d, f) /\ wire'[i].vals[f] = v
      BY <2>1, <2>2, <2>4, <3>1
    <3>3. \A k \in (i + 1)..Len(wire') : ~On(wire'[k], d, f)
      BY <2>1, <2>2, <2>4, <3>1
    <3> QED
      BY <3>1, <3>2, <3>3 DEF Landed
  <2> QED
    BY <1>2, <2>3, <2>4
<1> QED
  BY <1>3, <1>4 DEF Over

\* A request that does not carry the field is written, or one is answered.
LEMMA LandedBeside ==
  ASSUME Types, NEW j \in 1..Len(wire), NEW d, NEW f, NEW stored, NEW v, Shown => Shown',
         wire' = Over(j, "done") \/ wire' = RemoveAt(wire, j),
         ~On(wire[j], d, f), Landed(wire, d, f, stored, v)
  PROVE  Landed(wire', d, f, stored, v)
<1>1. wire \in Seq(Puts) /\ Len(wire) \in Nat
  BY WireNow
<1>2. CASE wire' = RemoveAt(wire, j)
  BY <1>1, <1>2, LandedRemoved
<1>3. CASE wire' = [wire EXCEPT ![j].stage = "done"]
  <2>1. /\ Len(wire') = Len(wire)
        /\ \A k \in 1..Len(wire) : /\ wire'[k].doc = wire[k].doc /\ wire'[k].vals = wire[k].vals
                                   /\ wire'[k].stage = IF k = j THEN "done" ELSE wire[k].stage
    BY <1>3, WireStaged
  <2>2. \A k \in 1..Len(wire) : On(wire'[k], d, f) <=> On(wire[k], d, f)
    BY <2>1 DEF On, Carries
  <2> QED
    BY <1>1, <2>1, <2>2, LandedSame
<1> QED
  BY <1>2, <1>3 DEF Over

LEMMA LandedOrphaned ==
  ASSUME NEW s \in Seq(Puts), NEW d, NEW f, NEW stored, NEW v, Landed(s, d, f, stored, v)
  PROVE  Landed(Orphaned(s), d, f, stored, v)
<1> DEFINE t == Orphaned(s)
<1>1. /\ Len(s) \in Nat /\ Len(t) = Len(s)
      /\ \A k \in 1..Len(s) : t[k].doc = s[k].doc /\ t[k].vals = s[k].vals /\ t[k].stage = s[k].stage
  BY OrphanedEach, LenProperties
<1> HIDE DEF t
<1>2. \A k \in 1..Len(s) : On(t[k], d, f) <=> On(s[k], d, f)
  BY <1>1 DEF On, Carries
<1> QED
  BY <1>1, <1>2, LandedSame DEF t

-----------------------------------------------------------------------------
(* The invariant: about texts it needs less to have gone well.              *)

Stands(d, f) == Landed(wire, d, f, node[d][f], last[d][f])
Waits(d, f) == \E t \in timers : t.doc = d /\ Carries(t, f)

\* What is typed next is new.
LastOld == \A d \in Docs, f \in Fields : last[d][f].rev <= typed

\* No timer holds a text.
TimersPlain == \A t \in timers : ~Carries(t, "content")

\* The editor has the last text; one that is as it was when it was last saved or read
\* stands without the editor, and any other is marked as edited.
TextLast ==
    Shown => /\ wrap.text = last[wrap.id]["content"]
             /\ wrap.initial.content.rev <= typed
             /\ wrap.text = wrap.initial.content => Stands(wrap.id, "content")
             /\ wrap.editing \/ wrap.text = wrap.initial.content

\* What the save button sent stands if it is still the text.
HeaderLast(m) ==
    m.then = "header" =>
        /\ m.keep.content.rev <= typed
        /\ m.keep.content = last[wrap.id]["content"] => Stands(wrap.id, "content")
HeadersLast == \A i \in 1..Len(wire) : HeaderLast(wire[i])

TextsStand == \A d \in Docs : (Shown /\ wrap.id = d) \/ Stands(d, "content")

Texts == LastOld /\ TimersPlain /\ TextLast /\ HeadersLast /\ TextsStand

\* A timer holds one field and what was last typed in it, and it is the editor's
\* exactly when it is of the document shown.
TimerLast(t) ==
    /\ t.live <=> (Shown /\ t.doc = wrap.id)
    /\ \A f \in Fields : Carries(t, f) => t.vals[f] = last[t.doc][f]
    /\ \A f, g \in Fields : Carries(t, f) /\ Carries(t, g) => f = g
TimersLast == \A t \in timers : TimerLast(t)

\* The page has the last title.
TitleLast == Shown => nodeDetail.name = last[wrap.id]["name"]

MetasStand == \A d \in Docs, f \in {"name", "summary"} : Waits(d, f) \/ Stands(d, f)

Titles == TimersLast /\ TitleLast /\ MetasStand

Kept == Own /\ (odd \subseteq {"reset"} => Texts) /\ (odd = {} => Titles)

LEMMA KeptImplies == Kept => NothingLost
<1>1. SUFFICES ASSUME Kept, odd = {}, NEW d \in Docs, NEW f \in Fields  PROVE Safe(d, f)
  BY DEF NothingLost
<1>2. Texts /\ Titles /\ Types /\ InTime
  BY <1>1 DEF Kept, Own
<1>3. CASE Stands(d, f)
  BY <1>3 DEF Stands, Landed, On, Safe, Sent
<1>4. CASE Waits(d, f)
  BY <1>2, <1>4 DEF Waits, Titles, TimersLast, TimerLast, Safe, Pending
<1>5. CASE f = "content" /\ Shown /\ wrap.id = d
  BY <1>2, <1>5 DEF Texts, TextLast, InTime, WrapOwn, Safe, InEditor
<1> QED
  BY <1>2, <1>3, <1>4, <1>5 DEF Texts, TextsStand, Titles, MetasStand, Fields

LEMMA KeptHides == Kept => HidingSaves
<1>1. SUFFICES ASSUME Kept, Shown, odd \subseteq {"reset"}, ~wrap.editing
               PROVE  wrap.text = node[wrap.id]["content"] \/ Sent(wrap.id, "content")
  BY DEF HidingSaves
<1>2. wrap.text = last[wrap.id]["content"] /\ Stands(wrap.id, "content")
  BY <1>1 DEF Kept, Texts, TextLast
<1> QED
  BY <1>2 DEF Stands, Landed, On, Sent

LEMMA KeptInit == Init => Kept
<1>1. SUFFICES ASSUME Init  PROVE Kept
  OBVIOUS
<1>2. Own
  BY <1>1, OwnInit
<1>3. LastOld
  BY <1>1 DEF Init, LastOld
<1>4. TimersPlain /\ TextLast /\ HeadersLast /\ TimersLast /\ TitleLast
  BY <1>1 DEF Init, TimersPlain, TextLast, HeadersLast, TimersLast, TitleLast, Shown
<1>5. TextsStand /\ MetasStand
  BY <1>1 DEF Init, TextsStand, MetasStand, Stands, Landed, Fields
<1> QED
  BY <1>2, <1>3, <1>4, <1>5 DEF Kept, Texts, Titles

-----------------------------------------------------------------------------
(* Each step that meets no mishap keeps it.                                *)

LEMMA Facts ==
  ASSUME Own, "late" \notin odd
  PROVE  /\ Types /\ InTime
         /\ Shown => /\ wrap \in Editors /\ nodeDetail \in Metas /\ wrap.id \in Docs
                     /\ wrap.id = nodeDetail.id /\ wrap.text.doc = wrap.id
                     /\ wrap.text \in Values /\ nodeDetail.name \in Values
                     /\ wrap.initial.content \in Values
<1>1. Types /\ InTime
  BY DEF Own
<1>2. ASSUME Shown
      PROVE  /\ wrap \in Editors /\ nodeDetail \in Metas /\ wrap.id \in Docs
             /\ wrap.id = nodeDetail.id /\ wrap.text.doc = wrap.id
             /\ wrap.text \in Values /\ nodeDetail.name \in Values
             /\ wrap.initial.content \in Values
  <2>1. wrap \in Editors /\ nodeDetail \in Metas
    BY <1>1, <1>2, ShownTypes
  <2> QED
    BY <1>1, <1>2, <2>1 DEF InTime, WrapOwn, Editors, Metas, Contents
<1> QED
  BY <1>1, <1>2

\* Steps that leave the requests alone.
LEMMA StandsFrame ==
  ASSUME UNCHANGED <<wire, node>>, NEW d, NEW f, last'[d][f] = last[d][f], Stands(d, f)
  PROVE  Stands(d, f)'
  BY DEF Stands, Landed, On, Carries

LEMMA StandsAppended ==
  ASSUME Types, NEW m \in Puts, wire' = Append(wire, m), UNCHANGED <<node, last>>, NEW d, NEW f,
         On(m, d, f) => m.vals[f] = last[d][f], Stands(d, f) \/ On(m, d, f)
  PROVE  Stands(d, f)'
<1>1. wire \in Seq(Puts)
  BY WireNow
<1>2. Landed(Append(wire, m), d, f, node[d][f], last[d][f])
  BY <1>1, LandedAppended DEF Stands
<1>3. Landed(wire', d, f, node'[d][f], last'[d][f])
  BY <1>2
<1> QED
  BY <1>3 DEF Stands, Landed, On, Carries

\* An editor that marks a text that is not as it was.
Marked(w) == w.editing \/ w.text = w.initial.content

LEMMA CheckedMarked ==
  ASSUME NEW w \in Editors
  PROVE  Marked(Checked(w))
<1>1. Checked(w).editing = Differs(w)
  BY DEF Checked, Editors
<1>2. ~Differs(w) => w.text = w.initial.content
  BY DEF Differs, At
<1> QED
  BY <1>1, <1>2, CheckedType DEF Marked

LEMMA ShowsMarked ==
  ASSUME NEW w \in Editors, NEW meta \in Metas, Marked(w)
  PROVE  Marked(Shows(w, meta))
<1>1. CASE w.summary = meta.summary
  BY <1>1 DEF Shows
<1>2. CASE w.summary # meta.summary
  <2>1. [w EXCEPT !.summary = meta.summary] \in Editors
    BY DEF Editors, Metas
  <2> QED
    BY <1>2, <2>1, CheckedMarked, NoneAssumption DEF Shows
<1> QED
  BY <1>1, <1>2

\* A save sends the text, and it is the last.
LEMMA SaveText ==
  ASSUME Own, "late" \notin odd, Texts, Shown, NEW then \in {"none", "header"}
  PROVE  /\ Save(then) \in Puts /\ On(Save(then), wrap.id, "content")
         /\ \A d \in Docs : On(Save(then), d, "content") =>
                               Save(then).vals["content"] = last[d]["content"]
         /\ Save(then).then = then
         /\ then = "header" => Save(then).keep.content = wrap.text
<1>1. Types /\ nodeDetail.id = wrap.id /\ wrap.text \in Values
  BY Facts
<1>2. wrap.text = last[wrap.id]["content"]
  BY DEF Texts, TextLast
<1>3. /\ Save(then) \in Puts /\ Save(then).doc = wrap.id
      /\ Save(then).then = then /\ Save(then).stage = "sent"
      /\ Save(then).vals["content"] = wrap.text
  BY <1>1, SaveType
<1>4. then = "header" => Save(then).keep.content = wrap.text
  BY DEF Save, Put, At
<1> QED
  BY <1>1, <1>2, <1>3, <1>4, NoneAssumption DEF On, Carries

\* And the title.
LEMMA SaveLast ==
  ASSUME Own, odd = {}, Texts, Titles, Shown, NEW then \in {"none", "header"}
  PROVE  \A d \in Docs, f \in Fields : On(Save(then), d, f) => Save(then).vals[f] = last[d][f]
<1>1. Types /\ nodeDetail.id = wrap.id
  BY Facts
<1>2. nodeDetail.name = last[wrap.id]["name"] /\ wrap.text = last[wrap.id]["content"]
  BY DEF Texts, TextLast, Titles, TitleLast
<1>3. /\ Save(then).doc = wrap.id
      /\ Save(then).vals["name"] = nodeDetail.name
      /\ Save(then).vals["content"] = wrap.text
      /\ Save(then).vals["summary"] = None
  BY <1>1, SaveType
<1> QED
  BY <1>2, <1>3 DEF On, Carries, Fields

LEMMA TextsSaved ==
  ASSUME Own, Texts, "late" \notin odd, Shown, NEW then \in {"none", "header"},
         wire' = Append(wire, Save(then)), wrap' \in Editors, wrap'.id = wrap.id,
         wrap'.text = wrap.text, Marked(wrap'),
         wrap'.initial = wrap.initial \/ wrap'.initial.content = wrap.text,
         UNCHANGED <<node, timers, typed, last>>
  PROVE  Texts'
<1>1. Types /\ wrap.id \in Docs /\ wrap.text \in Values
  BY Facts
<1>2. /\ Save(then) \in Puts /\ On(Save(then), wrap.id, "content")
      /\ \A d \in Docs : On(Save(then), d, "content") =>
                            Save(then).vals["content"] = last[d]["content"]
      /\ Save(then).then = then /\ (then = "header" => Save(then).keep.content = wrap.text)
  BY SaveText
<1>3. ASSUME NEW d \in Docs, Stands(d, "content")  PROVE Stands(d, "content")'
  BY <1>1, <1>2, <1>3, StandsAppended
<1>4. Stands(wrap.id, "content")'
  BY <1>1, <1>2, StandsAppended
<1>5. Shown' /\ wrap.text = last[wrap.id]["content"] /\ last[wrap.id]["content"].rev <= typed
  BY <1>1, NoneAssumption DEF Shown, Texts, TextLast, LastOld, Fields
<1>6. LastOld' /\ TimersPlain'
  BY DEF Texts, LastOld, TimersPlain, Carries
<1>7. TextLast'
  BY <1>4, <1>5 DEF Texts, TextLast, Marked
<1>8. HeadersLast'
  <2>1. /\ Len(wire') = Len(wire) + 1 /\ Len(wire) \in Nat
        /\ \A k \in 1..Len(wire) : wire'[k] = wire[k]
        /\ wire'[Len(wire) + 1] = Save(then)
    BY <1>1, <1>2, WireNow, AppendEach
  <2>2. ASSUME NEW i \in 1..Len(wire'), wire'[i].then = "header"
        PROVE  wire'[i].keep.content.rev <= typed
    <3>1. CASE i \in 1..Len(wire)
      BY <2>1, <2>2, <3>1 DEF Texts, HeadersLast, HeaderLast
    <3>2. CASE i = Len(wire) + 1
      BY <1>2, <1>5, <2>1, <2>2, <3>2
    <3> QED
      BY <2>1, <3>1, <3>2
  <2> QED
    BY <1>4, <2>2 DEF HeadersLast, HeaderLast
<1>9. TextsStand'
  BY <1>3, <1>5 DEF Texts, TextsStand
<1> QED
  BY <1>6, <1>7, <1>8, <1>9 DEF Texts

LEMMA TitlesSaved ==
  ASSUME Own, Texts, Titles, odd = {}, Shown, NEW then \in {"none", "header"},
         wire' = Append(wire, Save(then)), wrap' \in Editors, wrap'.id = wrap.id,
         UNCHANGED <<node, nodeDetail, timers, last>>
  PROVE  Titles'
<1>1. Types /\ Save(then) \in Puts
  BY Facts, SaveText
<1>2. ASSUME NEW d \in Docs, NEW f \in Fields, Stands(d, f)  PROVE Stands(d, f)'
  <2>1. On(Save(then), d, f) => Save(then).vals[f] = last[d][f]
    BY SaveLast
  <2> QED
    BY <1>1, <1>2, <2>1, StandsAppended
<1>3. Shown'
  BY NoneAssumption DEF Shown
<1>4. TimersLast' /\ TitleLast'
  BY <1>3 DEF Titles, TimersLast, TimerLast, TitleLast, Carries
<1>5. MetasStand'
  BY <1>2 DEF Titles, MetasStand, Waits, Fields, Carries
<1> QED
  BY <1>4, <1>5 DEF Titles

\* The four ways to save and stay.
LEMMA KeptSaves ==
  ASSUME Own, "late" \notin odd, Shortcut \/ SaveButton \/ Hide \/ SaveAgain
  PROVE  /\ Texts => Texts'
         /\ Texts /\ Titles /\ odd = {} => Titles'
<1>1. Types /\ Shown /\ wrap \in Editors /\ nodeDetail \in Metas /\ wrap # None
  BY Facts DEF Shortcut, SaveButton, Hide, SaveAgain, Shown
<1> DEFINE w == [wrap EXCEPT !.initial = At(wrap.text, wrap.summary)]
<1>2. /\ Clean(wrap) \in Editors /\ Clean(wrap).id = wrap.id /\ Clean(wrap).text = wrap.text
      /\ Clean(wrap).initial.content = wrap.text
  BY <1>1, CleanType
<1>3. w \in Editors /\ w.id = wrap.id /\ w.text = wrap.text /\ w.initial.content = wrap.text
  BY <1>1, AtType DEF Editors
<1> HIDE DEF w
<1>4. Marked(Clean(wrap)) /\ Marked(w) /\ (Texts => Marked(wrap))
  BY <1>1, <1>2, <1>3 DEF Marked, Texts, TextLast
<1>5. ASSUME NEW x \in {Clean(wrap), wrap, w}
      PROVE  /\ Shows(x, nodeDetail) \in Editors /\ Shows(x, nodeDetail).id = wrap.id
             /\ Shows(x, nodeDetail).text = wrap.text
             /\ \/ Shows(x, nodeDetail).initial = wrap.initial
                \/ Shows(x, nodeDetail).initial.content = wrap.text
             /\ Texts => Marked(Shows(x, nodeDetail))
  <2>1. x \in Editors /\ x.id = wrap.id /\ x.text = wrap.text /\ (Texts => Marked(x))
        /\ (x.initial = wrap.initial \/ x.initial.content = wrap.text)
    BY <1>1, <1>2, <1>3, <1>4
  <2>2. x # None
    BY <2>1, NoneAssumption
  <2> QED
    BY <1>1, <2>1, <2>2, ShowsType, ShowsMarked
<1>6. PICK then \in {"none", "header"}, x \in {Clean(wrap), wrap, w} :
         wire' = Append(wire, Save(then)) /\ wrap' = Shows(x, nodeDetail)
  BY DEF Shortcut, SaveButton, Hide, SaveAgain, w
<1>7. UNCHANGED <<node, nodeDetail, timers, typed, last>>
  BY DEF Shortcut, SaveButton, Hide, SaveAgain, page
<1>8. /\ wrap' \in Editors /\ wrap'.id = wrap.id /\ wrap'.text = wrap.text
      /\ wrap'.initial = wrap.initial \/ wrap'.initial.content = wrap.text
      /\ Texts => Marked(wrap')
  BY <1>5, <1>6
<1>9. Texts => Texts'
  BY <1>1, <1>6, <1>7, <1>8, TextsSaved
<1>10. Texts /\ Titles /\ odd = {} => Titles'
  BY <1>1, <1>6, <1>7, <1>8, TitlesSaved
<1> QED
  BY <1>9, <1>10

\* The editor goes: its timers stay behind, and nothing waits for its answers.
LEMMA UnmountLast ==
  ASSUME Types, Unmount, last' = last
  PROVE  /\ ~Shown' /\ TextLast' /\ TitleLast'
         /\ TimersPlain => TimersPlain'
         /\ TimersLast => TimersLast'
         /\ \A d, f : Waits(d, f) => Waits(d, f)'
<1>1. timers' = {[t EXCEPT !.live = FALSE] : t \in timers} /\ ~Shown'
  BY DEF Unmount, Shown
<1>2. ASSUME NEW t \in timers
      PROVE  /\ [t EXCEPT !.live = FALSE].live = FALSE
             /\ [t EXCEPT !.live = FALSE].doc = t.doc /\ [t EXCEPT !.live = FALSE].vals = t.vals
  BY DEF Types, TimersType, Timer
<1>3. ASSUME NEW x \in timers'
      PROVE  \E t \in timers : x.live = FALSE /\ x.doc = t.doc /\ x.vals = t.vals
  BY <1>1, <1>2
<1>4. TimersPlain => TimersPlain'
  BY <1>3 DEF TimersPlain, Carries
<1>5. ASSUME TimersLast  PROVE TimersLast'
  <2>1. ASSUME NEW x \in timers'
        PROVE  /\ ~x.live
               /\ \A f \in Fields : Carries(x, f) => x.vals[f] = last[x.doc][f]
               /\ \A f, g \in Fields : Carries(x, f) /\ Carries(x, g) => f = g
    <3>1. PICK t \in timers : x.live = FALSE /\ x.doc = t.doc /\ x.vals = t.vals
      BY <1>3
    <3>2. TimerLast(t)
      BY <1>5 DEF TimersLast
    <3> QED
      BY <3>1, <3>2 DEF TimerLast, Carries
  <2> QED
    BY <1>1, <2>1 DEF TimersLast, TimerLast, Carries
<1>6. ASSUME NEW d, NEW f, Waits(d, f)  PROVE Waits(d, f)'
  <2>1. PICK t \in timers : t.doc = d /\ Carries(t, f)
    BY <1>6 DEF Waits
  <2>2. [t EXCEPT !.live = FALSE] \in timers'
    BY <1>1
  <2> QED
    BY <1>2, <2>1, <2>2 DEF Waits, Carries
<1> QED
  BY <1>1, <1>4, <1>5, <1>6 DEF TextLast, TitleLast

\* What Open puts under way: what stood stands, and so does what it saves.
LEMMA OpenStands ==
  ASSUME Types, NEW d \in Docs, Open(d), NEW e \in Docs, NEW f \in Fields,
         Shown => wrap.id # d,
         Shown => /\ Save("none") \in Puts
                  /\ On(Save("none"), e, f) => Save("none").vals[f] = last[e][f],
         Stands(e, f) \/ (Shown /\ On(Save("none"), e, f))
  PROVE  Stands(e, f)'
<1>1. CASE Shown
  <2> DEFINE s == Append(wire, Save("none"))
  <2>1. wire \in Seq(Puts) /\ s \in Seq(Puts)
    BY <1>1, WireNow, AppendEach
  <2>2. Landed(s, e, f, node[e][f], last[e][f])
    BY <1>1, <2>1, LandedAppended DEF Stands
  <2>3. wire' = Orphaned(s) /\ UNCHANGED <<node, last>>
    BY <1>1 DEF Open, ShowsOther
  <2> HIDE DEF s
  <2>4. Landed(wire', e, f, node'[e][f], last'[e][f])
    BY <2>1, <2>2, <2>3, LandedOrphaned
  <2> QED
    BY <2>4 DEF Stands, Landed, On, Carries
<1>2. CASE ~Shown
  <2>1. Stands(e, f) /\ wire' = Orphaned(wire) /\ UNCHANGED <<node, last>>
    BY <1>2 DEF Open, ShowsOther
  <2>2. Landed(wire', e, f, node'[e][f], last'[e][f])
    BY <2>1, WireNow, LandedOrphaned DEF Stands
  <2> QED
    BY <2>2 DEF Stands, Landed, On, Carries
<1> QED
  BY <1>1, <1>2

LEMMA KeptOpen ==
  ASSUME Own, Types', odd \cap {"late", "back"} = {}, Texts, NEW d \in Docs, Open(d)
  PROVE  /\ Texts'
         /\ Titles /\ odd = {} => Titles'
<1>1. /\ Types /\ Unmount /\ UNCHANGED <<node, last, typed>> /\ "late" \notin odd
      /\ Shown => wrap.id # d
  BY Facts DEF Open, Own, UrlOwn
<1>2. /\ ~Shown' /\ TimersPlain' /\ TextLast' /\ TitleLast' /\ (TimersLast => TimersLast')
      /\ \A e, f : Waits(e, f) => Waits(e, f)'
  BY <1>1, UnmountLast DEF Texts
<1>3. LastOld'
  BY <1>1 DEF Texts, LastOld
<1>4. HeadersLast'
  BY <1>2 DEF Types, WireType, HeadersLast, HeaderLast
<1>5. ASSUME NEW e \in Docs  PROVE Stands(e, "content")'
  <2>1. Stands(e, "content") \/ (Shown /\ e = wrap.id)
    BY DEF Texts, TextsStand
  <2>2. Shown => /\ Save("none") \in Puts /\ On(Save("none"), wrap.id, "content")
                 /\ On(Save("none"), e, "content") => Save("none").vals["content"] = last[e]["content"]
    BY <1>1, SaveText
  <2> QED
    BY <1>1, <2>1, <2>2, OpenStands DEF Fields
<1>6. Texts'
  BY <1>2, <1>3, <1>4, <1>5 DEF Texts, TextsStand
<1>7. ASSUME Titles, odd = {}  PROVE Titles'
  <2>1. ASSUME NEW e \in Docs, NEW f \in Fields, Stands(e, f)  PROVE Stands(e, f)'
    <3>1. Shown => /\ Save("none") \in Puts
                   /\ On(Save("none"), e, f) => Save("none").vals[f] = last[e][f]
      BY <1>1, <1>7, SaveText, SaveLast
    <3> QED
      BY <1>1, <2>1, <3>1, OpenStands
  <2> QED
    BY <1>2, <1>7, <2>1 DEF Titles, MetasStand, Fields
<1> QED
  BY <1>6, <1>7

\* To the history of versions, with nothing typed since the last save.
LEMMA KeptLeave ==
  ASSUME Own, Types', "late" \notin odd, "left" \notin odd', Texts, Leave
  PROVE  /\ Texts'
         /\ Titles => Titles'
<1>1. Types /\ Unmount /\ wire' = Orphaned(wire) /\ UNCHANGED <<node, last, typed>>
  BY Facts DEF Leave
<1>2. /\ ~Shown' /\ TimersPlain' /\ TextLast' /\ TitleLast' /\ (TimersLast => TimersLast')
      /\ \A e, f : Waits(e, f) => Waits(e, f)'
  BY <1>1, UnmountLast DEF Texts
<1>3. LastOld'
  BY <1>1 DEF Texts, LastOld
<1>4. HeadersLast'
  BY <1>2 DEF Types, WireType, HeadersLast, HeaderLast
<1>5. Shown => wrap.text = wrap.initial.content
  BY DEF Leave
<1>6. Shown => Stands(wrap.id, "content")
  BY <1>5 DEF Texts, TextLast
<1>7. ASSUME NEW e \in Docs, NEW f \in Fields, Stands(e, f)  PROVE Stands(e, f)'
  <2>1. Landed(wire', e, f, node'[e][f], last'[e][f])
    BY <1>1, <1>7, WireNow, LandedOrphaned DEF Stands
  <2> QED
    BY <2>1 DEF Stands, Landed, On, Carries
<1>8. TextsStand'
  BY <1>2, <1>6, <1>7 DEF Texts, TextsStand, Fields
<1>9. Titles => Titles'
  BY <1>2, <1>7 DEF Titles, MetasStand, Fields
<1> QED
  BY <1>2, <1>3, <1>4, <1>8, <1>9 DEF Texts

\* Typing gives one field of one document a new value and leaves the rest.
LEMMA TypedLast ==
  ASSUME Types, LastOld, NEW d \in Docs, NEW f \in Fields, Typed(d, f)
  PROVE  /\ LastOld' /\ typed' = typed + 1 /\ typed \in Nat
         /\ last'[d][f] \in Values /\ last'[d][f].rev = typed + 1 /\ last'[d][f].doc = d
         /\ \A e \in Docs, g \in Fields : e # d \/ g # f => last'[e][g] = last[e][g]
<1>1. Types /\ last \in [Docs -> [Fields -> Values]] /\ typed \in Nat
  BY BoundTypes DEF Types, StoreType, CountType
<1>2. last' = [last EXCEPT ![d] = [last[d] EXCEPT ![f] = [doc |-> d, rev |-> typed + 1]]]
      /\ typed' = typed + 1
  BY DEF Typed
<1>3. /\ last'[d][f] = [doc |-> d, rev |-> typed + 1]
      /\ \A e \in Docs, g \in Fields : e # d \/ g # f => last'[e][g] = last[e][g]
  BY <1>1, <1>2
<1>4. last'[d][f] \in Values
  BY <1>1, TypedTypes
<1>5. ASSUME NEW e \in Docs, NEW g \in Fields  PROVE last'[e][g].rev <= typed + 1
  <2>1. CASE e = d /\ g = f
    BY <1>1, <1>3, <2>1
  <2>2. CASE e # d \/ g # f
    <3>1. last'[e][g] = last[e][g] /\ last[e][g].rev \in Nat /\ last[e][g].rev <= typed
      BY <1>1, <1>3, <2>2 DEF LastOld, Values
    <3> QED
      BY <1>1, <3>1
  <2> QED
    BY <2>1, <2>2
<1> QED
  BY <1>1, <1>2, <1>3, <1>4, <1>5 DEF LastOld

LEMMA KeptTypeText ==
  ASSUME Own, Types', "late" \notin odd, Texts, TypeText
  PROVE  /\ Texts'
         /\ Titles => Titles'
<1>1. /\ Types /\ Shown /\ wrap \in Editors /\ wrap.id \in Docs /\ wrap.text.doc = wrap.id
      /\ wrap.initial.content \in Values
  BY Facts DEF TypeText
<1>2. Typed(wrap.id, "content") /\ "content" \in Fields
  BY <1>1 DEF TypeText, Fields
<1>3. /\ LastOld' /\ typed' = typed + 1 /\ typed \in Nat
      /\ last'[wrap.id]["content"] \in Values /\ last'[wrap.id]["content"].rev = typed + 1
      /\ \A e \in Docs, g \in Fields : e # wrap.id \/ g # "content" => last'[e][g] = last[e][g]
  BY <1>1, <1>2, TypedLast DEF Texts
<1> DEFINE w == [wrap EXCEPT !.text = last'[wrap.id]["content"]]
<1>4. /\ w \in Editors /\ w.id = wrap.id /\ w.initial = wrap.initial
      /\ w.text = last'[wrap.id]["content"]
  BY <1>1, <1>3 DEF Editors
<1>5. wrap' = Checked(w)
  BY <1>1 DEF TypeText
<1> HIDE DEF w
<1>6. /\ Shown' /\ wrap'.id = wrap.id /\ wrap'.initial = wrap.initial
      /\ wrap'.text = last'[wrap.id]["content"] /\ Marked(wrap')
  BY <1>4, <1>5, CheckedType, CheckedMarked, NoneAssumption DEF Shown
<1>7. UNCHANGED <<node, wire, timers, nodeDetail>>
  BY DEF TypeText, page
<1>8. TimersPlain'
  BY <1>7 DEF Texts, TimersPlain, Carries
<1>9. TextLast'
  <2>1. wrap.initial.content.rev \in Nat /\ wrap.initial.content.rev <= typed
    BY <1>1 DEF Values, Texts, TextLast
  <2>2. wrap.initial.content.rev <= typed + 1 /\ wrap.initial.content.rev # typed + 1
    BY <1>3, <2>1
  <2> QED
    BY <1>3, <1>6, <2>2 DEF TextLast, Marked
<1>10. HeadersLast'
  <2>1. ASSUME NEW i \in 1..Len(wire), wire[i].then = "header"
        PROVE  /\ wire[i].keep.content.rev <= typed + 1
               /\ wire[i].keep.content # last'[wrap.id]["content"]
    <3>1. wire[i].keep \in Contents /\ wire[i].keep.content.rev <= typed
      BY <1>1, <2>1, WireNow DEF PutOK, Texts, HeadersLast, HeaderLast
    <3>2. wire[i].keep.content.rev \in Nat
      BY <3>1 DEF Contents, Values
    <3> QED
      BY <1>3, <3>1, <3>2
  <2> QED
    BY <1>3, <1>6, <1>7, <2>1 DEF HeadersLast, HeaderLast
<1>11. ASSUME NEW e \in Docs, NEW f \in Fields, e # wrap.id \/ f # "content", Stands(e, f)
       PROVE  Stands(e, f)'
  BY <1>3, <1>7, <1>11, StandsFrame
<1>12. TextsStand'
  BY <1>2, <1>6, <1>11 DEF Texts, TextsStand
<1>13. ASSUME Titles  PROVE Titles'
  <2>1. ASSUME NEW t \in timers, NEW f \in Fields, Carries(t, f)
        PROVE  t.vals[f] = last'[t.doc][f]
    <3>1. t.doc \in Docs /\ f # "content" /\ t.vals[f] = last[t.doc][f]
      BY <1>1, <1>13, <2>1 DEF Types, TimersType, Timer, Texts, TimersPlain, Titles, TimersLast, TimerLast
    <3> QED
      BY <1>3, <3>1
  <2>2. TimersLast'
    BY <1>1, <1>6, <1>7, <1>13, <2>1 DEF Titles, TimersLast, TimerLast, Carries
  <2>3. TitleLast'
    BY <1>1, <1>3, <1>6, <1>7, <1>13 DEF Titles, TitleLast, Fields
  <2>4. MetasStand'
    BY <1>7, <1>11, <1>13 DEF Titles, MetasStand, Waits, Fields, Carries
  <2> QED
    BY <2>2, <2>3, <2>4 DEF Titles
<1> QED
  BY <1>3, <1>8, <1>9, <1>10, <1>12, <1>13 DEF Texts

\* A title or a summary typed: the timer that had the old one is replaced, and no
\* other has it.
LEMMA DebounceLast ==
  ASSUME Types, Titles, LastOld, Shown, NEW f \in {"name", "summary"}, NEW keep,
         Typed(wrap.id, f), Debounce(f, keep), UNCHANGED <<node, wire>>,
         Shown', wrap'.id = wrap.id
  PROVE  TimersLast' /\ MetasStand'
<1>1. wrap.id \in Docs /\ f \in Fields
  BY ShownTypes DEF Editors, Fields
<1>2. /\ last'[wrap.id][f] \in Values
      /\ \A e \in Docs, g \in Fields : e # wrap.id \/ g # f => last'[e][g] = last[e][g]
  BY <1>1, TypedLast
<1> DEFINE n == [doc |-> wrap.id, vals |-> Just(f, last'[wrap.id][f]), keep |-> keep, live |-> TRUE]
<1>3. timers' = {t \in timers : ~(t.live /\ Carries(t, f))} \cup {n}
  BY DEF Debounce
<1>4. /\ n.doc = wrap.id /\ n.live = TRUE
      /\ \A g \in Fields : n.vals[g] = IF g = f THEN last'[wrap.id][f] ELSE None
  BY <1>1, <1>2, JustType
<1> HIDE DEF n
<1>5. Carries(n, f) /\ \A g \in Fields : g # f => ~Carries(n, g)
  BY <1>1, <1>2, <1>4, NoneAssumption DEF Carries
<1>6. ASSUME NEW t \in timers, ~(t.live /\ Carries(t, f))
      PROVE  /\ t.live <=> t.doc = wrap.id
             /\ \A g \in Fields : Carries(t, g) => t.vals[g] = last'[t.doc][g]
             /\ \A g, h \in Fields : Carries(t, g) /\ Carries(t, h) => g = h
  <2>1. TimerLast(t) /\ t.doc \in Docs
    BY DEF Titles, TimersLast, Types, TimersType, Timer
  <2> QED
    BY <1>2, <1>6, <2>1 DEF TimerLast
<1>7. /\ n.live <=> n.doc = wrap.id
      /\ \A g \in Fields : Carries(n, g) => n.vals[g] = last'[n.doc][g]
      /\ \A g, h \in Fields : Carries(n, g) /\ Carries(n, h) => g = h
  BY <1>1, <1>4, <1>5
<1>8. TimersLast'
  <2>1. ASSUME NEW t \in timers'
        PROVE  /\ t.live <=> t.doc = wrap.id
               /\ \A g \in Fields : Carries(t, g) => t.vals[g] = last'[t.doc][g]
               /\ \A g, h \in Fields : Carries(t, g) /\ Carries(t, h) => g = h
    BY <1>3, <1>6, <1>7
  <2> QED
    BY <2>1 DEF TimersLast, TimerLast, Carries
<1>9. ASSUME NEW e \in Docs, NEW g \in {"name", "summary"}
      PROVE  Waits(e, g)' \/ Stands(e, g)'
  <2>1. CASE e = wrap.id /\ g = f
    BY <1>3, <1>4, <1>5, <2>1 DEF Waits, Carries
  <2>2. CASE (e # wrap.id \/ g # f) /\ Waits(e, g)
    <3>1. PICK t \in timers : t.doc = e /\ Carries(t, g)
      BY <2>2 DEF Waits
    <3>2. ~(t.live /\ Carries(t, f))
      BY <1>1, <2>2, <3>1 DEF Titles, TimersLast, TimerLast, Fields
    <3> QED
      BY <1>3, <3>1, <3>2 DEF Waits, Carries
  <2>3. CASE (e # wrap.id \/ g # f) /\ Stands(e, g)
    BY <1>2, <2>3, StandsFrame DEF Fields
  <2> QED
    BY <2>1, <2>2, <2>3 DEF Titles, MetasStand
<1> QED
  BY <1>8, <1>9 DEF MetasStand

\* The texts, and what was read or sent of them, stay.
LEMMA TypedBeside ==
  ASSUME Own, "late" \notin odd, Texts, Shown, NEW f \in {"name", "summary"}, NEW keep,
         Typed(wrap.id, f), Debounce(f, keep), UNCHANGED <<node, wire>>, Shown',
         wrap'.id = wrap.id, wrap'.text = wrap.text, wrap'.initial = wrap.initial, Marked(wrap')
  PROVE  Texts'
<1>1. Types /\ wrap.id \in Docs /\ wrap.initial.content \in Values /\ f \in Fields
  BY Facts DEF Fields
<1>2. /\ LastOld' /\ typed' = typed + 1 /\ typed \in Nat /\ last'[wrap.id][f] \in Values
      /\ \A e \in Docs, g \in Fields : e # wrap.id \/ g # f => last'[e][g] = last[e][g]
  BY <1>1, TypedLast DEF Texts
<1>3. \A e \in Docs : last'[e]["content"] = last[e]["content"]
  BY <1>2 DEF Fields
<1>4. \A e \in Docs : Stands(e, "content") => Stands(e, "content")'
  BY <1>3, StandsFrame
<1>5. TimersPlain'
  <2> DEFINE n == [doc |-> wrap.id, vals |-> Just(f, last'[wrap.id][f]), keep |-> keep, live |-> TRUE]
  <2>1. timers' = {t \in timers : ~(t.live /\ Carries(t, f))} \cup {n}
    BY DEF Debounce
  <2>2. n.vals["content"] = None
    BY <1>1, <1>2, JustType DEF Fields
  <2> HIDE DEF n
  <2>3. \A t \in timers' : t.vals["content"] = None
    BY <2>1, <2>2 DEF Texts, TimersPlain, Carries
  <2> QED
    BY <2>3 DEF TimersPlain, Carries
<1>6. TextLast'
  <2>1. wrap.initial.content.rev \in Nat /\ wrap.initial.content.rev <= typed
    BY <1>1 DEF Values, Texts, TextLast
  <2>2. wrap.initial.content.rev <= typed'
    BY <1>2, <2>1
  <2>3. /\ wrap'.text = last'[wrap.id]["content"]
        /\ wrap'.text = wrap'.initial.content => Stands(wrap.id, "content")'
    BY <1>1, <1>3, <1>4 DEF Texts, TextLast
  <2> QED
    BY <2>2, <2>3 DEF TextLast, Stands, Marked
<1>7. HeadersLast'
  <2>1. ASSUME NEW i \in 1..Len(wire), wire[i].then = "header"
        PROVE  /\ wire[i].keep.content.rev <= typed'
               /\ wire[i].keep.content = last'[wrap.id]["content"] => Stands(wrap.id, "content")'
    <3>1. wire[i].keep \in Contents /\ HeaderLast(wire[i])
      BY <1>1, <2>1, WireNow DEF PutOK, Texts, HeadersLast
    <3>2. wire[i].keep.content.rev \in Nat /\ wire[i].keep.content.rev <= typed
      BY <2>1, <3>1 DEF Contents, Values, HeaderLast
    <3>3. wire[i].keep.content.rev <= typed'
      BY <1>2, <3>2
    <3> QED
      BY <1>1, <1>3, <1>4, <2>1, <3>1, <3>3 DEF HeaderLast
  <2> QED
    BY <2>1 DEF HeadersLast, HeaderLast, Stands
<1>8. TextsStand'
  BY <1>4 DEF Texts, TextsStand
<1> QED
  BY <1>2, <1>5, <1>6, <1>7, <1>8 DEF Texts

LEMMA KeptTypeTitle ==
  ASSUME Own, Types', "late" \notin odd, Texts, TypeTitle
  PROVE  /\ Texts'
         /\ Titles => Titles'
<1>1. Types /\ Shown /\ wrap \in Editors /\ nodeDetail \in Metas /\ wrap.id \in Docs
  BY Facts DEF TypeTitle
<1>2. Typed(wrap.id, "name") /\ Debounce("name", None) /\ UNCHANGED <<node, wire>>
  BY DEF TypeTitle
<1>3. last'[wrap.id]["name"] \in Values
  BY <1>1, <1>2, TypedLast DEF Fields, Texts
<1>4. nodeDetail' \in Metas /\ nodeDetail'.name = last'[wrap.id]["name"]
  BY <1>1, <1>3 DEF TypeTitle, Metas
<1>5. Marked(wrap)
  BY <1>1 DEF Texts, TextLast, Marked
<1>6. /\ Shown' /\ wrap'.id = wrap.id /\ wrap'.text = wrap.text /\ wrap'.initial = wrap.initial
      /\ Marked(wrap')
  BY <1>1, <1>4, <1>5, ShowsType, ShowsMarked, NoneAssumption DEF TypeTitle, Shown
<1>7. Texts'
  BY <1>1, <1>2, <1>6, TypedBeside
<1>8. ASSUME Titles  PROVE Titles'
  <2>1. TimersLast' /\ MetasStand'
    BY <1>1, <1>2, <1>6, <1>8, DebounceLast DEF Texts
  <2>2. TitleLast'
    BY <1>4, <1>6 DEF TitleLast
  <2> QED
    BY <2>1, <2>2 DEF Titles
<1> QED
  BY <1>7, <1>8

LEMMA KeptTypeSummary ==
  ASSUME Own, Types', "late" \notin odd, Texts, TypeSummary
  PROVE  /\ Texts'
         /\ Titles => Titles'
<1>1. Types /\ Shown /\ wrap \in Editors /\ wrap.id \in Docs
  BY Facts DEF TypeSummary
<1>2. /\ Typed(wrap.id, "summary") /\ Debounce("summary", wrap.first)
      /\ UNCHANGED <<node, wire, nodeDetail>>
  BY DEF TypeSummary, page
<1>3. /\ last'[wrap.id]["summary"] \in Values
      /\ last'[wrap.id]["name"] = last[wrap.id]["name"]
  BY <1>1, <1>2, TypedLast DEF Fields, Texts
<1> DEFINE w == [wrap EXCEPT !.summary = last'[wrap.id]["summary"]]
<1>4. w \in Editors /\ w.id = wrap.id /\ w.text = wrap.text /\ w.initial = wrap.initial
  BY <1>1, <1>3 DEF Editors
<1>5. wrap' = Checked(w)
  BY DEF TypeSummary
<1> HIDE DEF w
<1>6. /\ Shown' /\ wrap'.id = wrap.id /\ wrap'.text = wrap.text /\ wrap'.initial = wrap.initial
      /\ Marked(wrap')
  BY <1>4, <1>5, CheckedType, CheckedMarked, NoneAssumption DEF Shown
<1>7. Texts'
  BY <1>1, <1>2, <1>6, TypedBeside
<1>8. ASSUME Titles  PROVE Titles'
  <2>1. TimersLast' /\ MetasStand'
    BY <1>1, <1>2, <1>6, <1>8, DebounceLast DEF Texts
  <2>2. TitleLast'
    BY <1>1, <1>2, <1>3, <1>6, <1>8 DEF Titles, TitleLast
  <2> QED
    BY <2>1, <2>2 DEF Titles
<1> QED
  BY <1>7, <1>8

\* Each request that is left was there, with the same answer to wait for.
HeadersFrom ==
    \A i \in 1..Len(wire') : wire'[i].then = "header" =>
        \E k \in 1..Len(wire) : wire[k].then = "header" /\ wire[k].keep = wire'[i].keep

LEMMA HeadersOver ==
  ASSUME Types, NEW j \in 1..Len(wire), Shown => Shown',
         wire' = Over(j, "done") \/ wire' = RemoveAt(wire, j)
  PROVE  HeadersFrom
<1>1. wire \in Seq(Puts) /\ Len(wire) \in Nat
  BY WireNow
<1>2. CASE wire' = RemoveAt(wire, j)
  <2>1. /\ Len(wire') = Len(wire) - 1
        /\ \A k \in 1..Len(wire') : wire'[k] = wire[IF k < j THEN k ELSE k + 1]
    BY <1>1, <1>2, RemoveAtEach
  <2>2. \A k \in 1..Len(wire') : (IF k < j THEN k ELSE k + 1) \in 1..Len(wire)
    BY <1>1, <2>1
  <2> QED
    BY <2>1, <2>2 DEF HeadersFrom
<1>3. CASE wire' = [wire EXCEPT ![j].stage = "done"]
  <2>1. /\ Len(wire') = Len(wire)
        /\ \A k \in 1..Len(wire) : /\ wire'[k].then = wire[k].then /\ wire'[k].keep = wire[k].keep
    BY <1>3, WireStaged
  <2> QED
    BY <2>1 DEF HeadersFrom
<1> QED
  BY <1>2, <1>3 DEF Over

\* A step of the server or the wire: what stood stands, the editor stays as it is or
\* compares with what was sent and stands.
LEMMA TextsBelow ==
  ASSUME Texts, UNCHANGED <<last, typed>>, timers' \subseteq timers, HeadersFrom,
         \A d \in Docs : Stands(d, "content") => Stands(d, "content")',
         Shown' <=> Shown,
         Shown => /\ wrap.id \in Docs /\ wrap'.id = wrap.id /\ wrap'.text = wrap.text
                  /\ Marked(wrap')
                  /\ \/ wrap'.initial.content = wrap.initial.content
                     \/ wrap'.initial.content.rev <= typed /\ Stands(wrap.id, "content"),
         \A i \in 1..Len(wire) : wire[i].then = "header" => Shown
  PROVE  Texts'
<1>1. LastOld' /\ TimersPlain'
  BY DEF Texts, LastOld, TimersPlain, Carries
<1>2. Shown /\ Stands(wrap.id, "content") => Stands(wrap.id, "content")'
  <2>1. SUFFICES ASSUME Shown, Stands(wrap.id, "content")  PROVE Stands(wrap.id, "content")'
    OBVIOUS
  <2>2. PICK d \in Docs : d = wrap.id
    BY <2>1
  <2>3. Stands(d, "content")'
    BY <2>1, <2>2
  <2> QED
    BY <2>1, <2>2, <2>3 DEF Stands, Landed, On, Carries
<1>3. TextLast'
  <2>1. SUFFICES ASSUME Shown'
                 PROVE  /\ wrap'.text = last'[wrap'.id]["content"]
                        /\ wrap'.initial.content.rev <= typed'
                        /\ wrap'.text = wrap'.initial.content => Stands(wrap.id, "content")'
                        /\ wrap'.editing \/ wrap'.text = wrap'.initial.content
    BY DEF TextLast
  <2>2. Shown /\ wrap.text = last[wrap.id]["content"] /\ wrap.initial.content.rev <= typed
    BY <2>1 DEF Texts, TextLast
  <2>3. CASE wrap'.initial.content = wrap.initial.content
    BY <1>2, <2>2, <2>3 DEF Texts, TextLast, Marked
  <2>4. CASE wrap'.initial.content.rev <= typed /\ Stands(wrap.id, "content")
    BY <1>2, <2>2, <2>4 DEF Marked
  <2> QED
    BY <2>2, <2>3, <2>4
<1>4. ASSUME NEW i \in 1..Len(wire'), wire'[i].then = "header"
      PROVE  /\ wire'[i].keep.content.rev <= typed'
             /\ wire'[i].keep.content = last'[wrap'.id]["content"] => Stands(wrap.id, "content")'
  <2>1. PICK k \in 1..Len(wire) : wire[k].then = "header" /\ wire[k].keep = wire'[i].keep
    BY <1>4 DEF HeadersFrom
  <2>2. Shown /\ HeaderLast(wire[k])
    BY <2>1 DEF Texts, HeadersLast
  <2> QED
    BY <1>2, <2>1, <2>2 DEF HeaderLast
<1>5. HeadersLast'
  BY <1>4 DEF HeadersLast, HeaderLast, Stands
<1>6. TextsStand'
  BY DEF Texts, TextsStand
<1> QED
  BY <1>1, <1>3, <1>5, <1>6 DEF Texts

LEMMA TitlesBelow ==
  ASSUME Titles, UNCHANGED <<last, timers>>,
         \A d \in Docs, f \in Fields : Stands(d, f) => Stands(d, f)',
         Shown' <=> Shown,
         Shown => wrap'.id = wrap.id /\ nodeDetail'.name = nodeDetail.name
  PROVE  Titles'
<1>1. TimersLast' /\ TitleLast'
  BY DEF Titles, TimersLast, TimerLast, TitleLast, Carries
<1>2. \A d, f : Waits(d, f) => Waits(d, f)'
  BY DEF Waits, Carries
<1>3. MetasStand'
  BY <1>2 DEF Titles, MetasStand, Fields
<1> QED
  BY <1>1, <1>3 DEF Titles

LEMMA KeptFire ==
  ASSUME Own, Types', "late" \notin odd, Texts, NEW t \in timers, Fire(t)
  PROVE  /\ Texts'
         /\ Titles => Titles'
<1>1. /\ Types /\ t \in Timer
      /\ (Shown => wrap.id \in Docs)
      /\ UNCHANGED <<node, last, typed, wrap, nodeDetail>> /\ timers' = timers \ {t}
  BY Facts DEF Types, TimersType, Fire, page
<1> DEFINE m == Put(t.doc, t.vals, IF t.keep = None THEN "none" ELSE "summary", t.keep)
<1>2. m \in Puts /\ m.doc = t.doc /\ m.vals = t.vals /\ m.stage = "sent" /\ m.then # "header"
  BY <1>1 DEF Put, Puts, Timer
<1>3. wire' = Append(wire, m)
  BY DEF Fire
<1> HIDE DEF m
<1>4. \A d \in Docs, f \in Fields : On(m, d, f) <=> t.doc = d /\ Carries(t, f)
  BY <1>2 DEF On, Carries
<1>5. \A d \in Docs : ~On(m, d, "content")
  BY <1>4 DEF Texts, TimersPlain, Fields
<1>6. HeadersFrom
  <2>1. /\ Len(wire') = Len(wire) + 1 /\ Len(wire) \in Nat
        /\ \A k \in 1..Len(wire) : wire'[k] = wire[k]
        /\ wire'[Len(wire) + 1] = m
    BY <1>1, <1>2, <1>3, WireNow, AppendEach
  <2>2. \A i \in 1..Len(wire') : i \in 1..Len(wire) \/ i = Len(wire) + 1
    BY <2>1
  <2> QED
    BY <1>2, <2>1, <2>2 DEF HeadersFrom
<1>7. Texts'
  <2>1. ASSUME NEW d \in Docs, Stands(d, "content")  PROVE Stands(d, "content")'
    BY <1>1, <1>2, <1>3, <1>5, <2>1, StandsAppended
  <2>2. Shown => Marked(wrap')
    BY <1>1 DEF Texts, TextLast, Marked
  <2> QED
    BY <1>1, <1>6, <2>1, <2>2, WireNow, TextsBelow DEF Shown
<1>8. ASSUME Titles  PROVE Titles'
  <2>1. TimerLast(t)
    BY <1>8 DEF Titles, TimersLast
  <2>2. \A d \in Docs, f \in Fields : On(m, d, f) => m.vals[f] = last[d][f]
    BY <1>2, <1>4, <2>1 DEF TimerLast
  <2>3. ASSUME NEW d \in Docs, NEW f \in Fields, Stands(d, f) \/ On(m, d, f)  PROVE Stands(d, f)'
    BY <1>1, <1>2, <1>3, <2>2, <2>3, StandsAppended
  <2>4. TimersLast' /\ TitleLast'
    BY <1>1, <1>8 DEF Titles, TimersLast, TimerLast, TitleLast, Shown, Carries
  <2>5. ASSUME NEW d \in Docs, NEW f \in Fields, Waits(d, f)  PROVE Waits(d, f)' \/ Stands(d, f)'
    <3>1. PICK u \in timers : u.doc = d /\ Carries(u, f)
      BY <2>5 DEF Waits
    <3>2. CASE u = t
      BY <1>4, <2>3, <3>1, <3>2
    <3>3. CASE u # t
      BY <1>1, <3>1, <3>3 DEF Waits, Carries
    <3> QED
      BY <3>2, <3>3
  <2> QED
    BY <1>8, <2>3, <2>4, <2>5 DEF Titles, MetasStand, Fields
<1> QED
  BY <1>7, <1>8

LEMMA KeptUpdate ==
  ASSUME Own, Types', "late" \notin odd, "overtaken" \notin odd', Texts,
         NEW i \in 1..Len(wire), Update(i)
  PROVE  /\ Texts'
         /\ Titles => Titles'
<1>1. /\ Types /\ node \in [Docs -> [Fields -> Values]]
      /\ wire[i].doc \in Docs /\ wire[i].vals \in Vals
  BY Facts, WireNow DEF Types, StoreType, Puts
<1>2. /\ node' = [node EXCEPT ![wire[i].doc] = Written(node[wire[i].doc], wire[i].vals)]
      /\ wire' = Over(i, "done") /\ wire[i].stage = "sent"
      /\ UNCHANGED <<wrap, nodeDetail, timers, last, typed>>
  BY DEF Update, page
<1>3. \A k \in 1..(i - 1), d \in Docs, f \in Fields : On(wire[i], d, f) => ~On(wire[k], d, f)
  BY DEF Update, On
<1>4. ASSUME NEW d \in Docs, NEW f \in Fields, Stands(d, f)  PROVE Stands(d, f)'
  <2>1. CASE On(wire[i], d, f)
    <3>1. node'[d][f] = wire[i].vals[f]
      BY <1>1, <1>2, <2>1, WrittenType DEF On, Carries
    <3>2. Landed(wire', d, f, wire[i].vals[f], last[d][f])
      BY <1>1, <1>2, <1>3, <1>4, <2>1, LandedStruck DEF Stands, Shown
    <3>3. Landed(wire', d, f, node'[d][f], last'[d][f])
      BY <1>2, <3>1, <3>2
    <3> QED
      BY <3>3 DEF Stands, Landed, On, Carries
  <2>2. CASE ~On(wire[i], d, f)
    <3>1. node'[d][f] = node[d][f]
      BY <1>1, <1>2, <2>2, WrittenType DEF On, Carries
    <3>2. Landed(wire', d, f, node[d][f], last[d][f])
      BY <1>1, <1>2, <1>4, <2>2, LandedBeside DEF Stands, Shown
    <3>3. Landed(wire', d, f, node'[d][f], last'[d][f])
      BY <1>2, <3>1, <3>2
    <3> QED
      BY <3>3 DEF Stands, Landed, On, Carries
  <2> QED
    BY <2>1, <2>2
<1>5. HeadersFrom
  BY <1>1, <1>2, HeadersOver DEF Shown
<1>6. Shown => Marked(wrap') /\ wrap.id \in Docs
  BY <1>2, Facts DEF Texts, TextLast, Marked
<1>7. Texts'
  BY <1>1, <1>2, <1>4, <1>5, <1>6, WireNow, TextsBelow DEF Shown, Fields
<1>8. Titles => Titles'
  BY <1>2, <1>4, TitlesBelow DEF Shown
<1> QED
  BY <1>7, <1>8

\* A request that was answered is taken out.
LEMMA StandsAnswered ==
  ASSUME Types, NEW i \in 1..Len(wire), wire[i].stage # "sent", wire' = RemoveAt(wire, i),
         UNCHANGED <<node, last>>, Shown => Shown'
  PROVE  HeadersFrom /\ \A d \in Docs, f \in Fields : Stands(d, f) => Stands(d, f)'
<1>1. HeadersFrom
  BY HeadersOver
<1>2. ASSUME NEW d \in Docs, NEW f \in Fields, Stands(d, f)  PROVE Stands(d, f)'
  <2>1. ~On(wire[i], d, f)
    BY DEF On
  <2>2. Landed(wire', d, f, node[d][f], last[d][f])
    BY <1>2, <2>1, LandedBeside DEF Stands
  <2>3. Landed(wire', d, f, node'[d][f], last'[d][f])
    BY <2>2
  <2> QED
    BY <2>3 DEF Stands, Landed, On, Carries
<1> QED
  BY <1>1, <1>2

LEMMA KeptSaveAnswered ==
  ASSUME Own, Types', "late" \notin odd, "during" \notin odd', Texts,
         NEW i \in 1..Len(wire), SaveAnswered(i)
  PROVE  /\ Texts'
         /\ Titles => Titles'
<1>1. /\ Types /\ wire[i].then = "header" /\ wire[i].stage # "sent" /\ wire' = RemoveAt(wire, i)
      /\ wrap' = [wrap EXCEPT !.initial = wire[i].keep, !.editing = FALSE]
      /\ At(wrap.text, wrap.summary) = wire[i].keep
      /\ UNCHANGED <<node, nodeDetail, timers, last, typed>>
  BY Facts DEF SaveAnswered, page
<1>2. Shown /\ wire[i].keep \in Contents /\ wrap \in Editors /\ wrap.id \in Docs
  BY <1>1, Facts, WireNow DEF PutOK
<1>3. /\ wrap' \in Editors /\ wrap'.id = wrap.id /\ wrap'.text = wrap.text
      /\ wrap'.initial = wire[i].keep
  BY <1>1, <1>2 DEF Editors
<1>4. Shown'
  BY <1>3, NoneAssumption DEF Shown
<1>5. wire[i].keep.content = wrap.text
  BY <1>1 DEF At
<1>6. wire[i].keep.content.rev <= typed /\ Stands(wrap.id, "content")
  BY <1>1, <1>2, <1>5 DEF Texts, TextLast, HeadersLast, HeaderLast
<1>7. HeadersFrom /\ \A d \in Docs, f \in Fields : Stands(d, f) => Stands(d, f)'
  BY <1>1, <1>4, StandsAnswered
<1>8. Marked(wrap')
  BY <1>3, <1>5 DEF Marked
<1>9. Texts'
  BY <1>1, <1>2, <1>3, <1>4, <1>6, <1>7, <1>8, WireNow, TextsBelow DEF Fields
<1>10. Titles => Titles'
  BY <1>1, <1>2, <1>3, <1>4, <1>7, TitlesBelow
<1> QED
  BY <1>9, <1>10

LEMMA KeptUnheard ==
  ASSUME Own, Types', "late" \notin odd, Texts, NEW i \in 1..Len(wire), Unheard(i)
  PROVE  /\ Texts'
         /\ Titles => Titles'
<1>1. /\ Types /\ wire[i].stage # "sent" /\ wire' = RemoveAt(wire, i)
      /\ UNCHANGED <<node, wrap, nodeDetail, timers, last, typed>>
  BY Facts DEF Unheard, page
<1>2. HeadersFrom /\ \A d \in Docs, f \in Fields : Stands(d, f) => Stands(d, f)'
  BY <1>1, StandsAnswered DEF Shown
<1>3. Shown => Marked(wrap') /\ wrap.id \in Docs
  BY <1>1, Facts DEF Texts, TextLast, Marked
<1>4. Texts'
  BY <1>1, <1>2, <1>3, WireNow, TextsBelow DEF Shown, Fields
<1>5. Titles => Titles'
  BY <1>1, <1>2, TitlesBelow DEF Shown
<1> QED
  BY <1>4, <1>5

\* The record put back is the page's, or its title is not: the text is the editor's.
LEMMA KeptSummaryAnswered ==
  ASSUME Own, Types', "late" \notin odd, "late" \notin odd', Texts,
         NEW i \in 1..Len(wire), SummaryAnswered(i)
  PROVE  /\ Texts'
         /\ Titles /\ odd' = {} => Titles'
<1> DEFINE meta == [wire[i].keep EXCEPT !.summary = wire[i].vals["summary"]]
<1>1. /\ Types /\ wire[i].then = "summary" /\ wire[i].stage = "done" /\ wire' = RemoveAt(wire, i)
      /\ nodeDetail' = meta /\ wrap' = Shows(wrap, meta)
      /\ (odd' = {} => meta.name = nodeDetail.name)
      /\ UNCHANGED <<node, timers, last, typed>>
  BY Facts DEF SummaryAnswered
<1>2. meta \in Metas
  BY <1>1, AnsweredMeta
<1> HIDE DEF meta
<1>3. wrap \in Editors \cup {None}
  BY <1>1 DEF Types, WrapType
<1>4. /\ Shown' <=> Shown
      /\ Shown => /\ wrap'.id = wrap.id /\ wrap'.text = wrap.text /\ wrap'.initial = wrap.initial
  BY <1>1, <1>2, <1>3, ShowsType DEF Shown
<1>5. Shown => Marked(wrap') /\ wrap.id \in Docs
  <2>1. SUFFICES ASSUME Shown  PROVE Marked(wrap') /\ wrap.id \in Docs
    OBVIOUS
  <2>2. wrap \in Editors /\ Marked(wrap)
    BY <2>1, Facts DEF Texts, TextLast, Marked
  <2> QED
    BY <1>1, <1>2, <2>1, <2>2, ShowsMarked, Facts
<1>6. HeadersFrom /\ \A d \in Docs, f \in Fields : Stands(d, f) => Stands(d, f)'
  BY <1>1, <1>4, StandsAnswered
<1>7. Texts'
  BY <1>1, <1>4, <1>5, <1>6, WireNow, TextsBelow DEF Fields
<1>8. Titles /\ odd' = {} => Titles'
  BY <1>1, <1>4, <1>6, TitlesBelow
<1> QED
  BY <1>7, <1>8

\* Nothing the editor or the requests depend on changes.
LEMMA KeptStutter ==
  ASSUME UNCHANGED <<node, wire, wrap, nodeDetail, timers, last, typed>>
  PROVE  (Texts => Texts') /\ (Titles => Titles')
<1>1. Texts => Texts'
  BY DEF Texts, LastOld, TimersPlain, TextLast, HeadersLast, HeaderLast, TextsStand,
         Stands, Landed, On, Carries, Shown
<1>2. Titles => Titles'
  BY DEF Titles, TimersLast, TimerLast, TitleLast, MetasStand, Stands, Landed, On, Waits, Carries, Shown
<1> QED
  BY <1>1, <1>2

\* An answer in time, with nothing of the document under way: the record has what was
\* last typed.
LEMMA KeptLoaded ==
  ASSUME Own, Types', "late" \notin odd, odd' \cap {"late", "early"} = {}, Texts,
         NEW i \in 1..Len(loads), Loaded(i)
  PROVE  /\ Texts'
         /\ Titles => Titles'
<1> DEFINE d == Record(loads[i].doc)
<1>1. Types /\ node \in [Docs -> [Fields -> Values]] /\ loads[i].doc \in Docs
  BY Facts, LoadsNow DEF Types, StoreType
<1>2. /\ d \in Details /\ d.id = loads[i].doc /\ d.name = node[d.id]["name"]
      /\ d.content = node[d.id]["content"] /\ d.id \in Docs
  BY <1>1, RecordType
<1>3. Meta(d) \in Metas /\ Meta(d).name = d.name
  BY <1>2, MetaType
<1>4. /\ ~Shown /\ loads[i].live
      /\ \A t \in timers : t.doc # d.id
      /\ \A k \in 1..Len(wire) : ~(wire[k].doc = d.id /\ wire[k].stage = "sent")
  BY DEF Loaded
<1>5. /\ wrap' = Mounted(d, Meta(d)) /\ nodeDetail' = Meta(d)
      /\ UNCHANGED <<node, wire, timers, last, typed>>
  BY <1>4 DEF Loaded
<1> HIDE DEF d
<1>6. /\ wrap' \in Editors /\ wrap'.id = d.id /\ wrap'.text = d.content
      /\ wrap'.initial.content = d.content
  BY <1>2, <1>3, <1>5, MountedType
<1>7. Shown'
  BY <1>6, NoneAssumption DEF Shown
<1>8. ASSUME NEW f \in Fields, Stands(d.id, f)  PROVE node[d.id][f] = last[d.id][f]
  <2>1. \A k \in 1..Len(wire) : ~On(wire[k], d.id, f)
    BY <1>4 DEF On
  <2> QED
    BY <1>8, <2>1 DEF Stands, Landed
<1>9. \A e \in Docs, f \in Fields : Stands(e, f) => Stands(e, f)'
  BY <1>5, StandsFrame
<1>10. LastOld' /\ TimersPlain'
  BY <1>5 DEF Texts, LastOld, TimersPlain, Carries
<1>11. TextLast'
  <2>1. Stands(d.id, "content")
    BY <1>2, <1>4 DEF Texts, TextsStand
  <2>2. d.content = last[d.id]["content"]
    BY <1>2, <1>8, <2>1 DEF Fields
  <2>3. d.content.rev <= typed
    BY <1>2, <2>2 DEF Texts, LastOld, Fields
  <2>4. PICK e \in Docs : e = d.id
    BY <1>2
  <2>5. Stands(e, "content")'
    BY <1>9, <2>1, <2>4 DEF Fields
  <2>6. Stands(wrap.id, "content")'
    BY <1>6, <2>4, <2>5 DEF Stands, Landed, On, Carries
  <2> QED
    BY <1>5, <1>6, <2>2, <2>3, <2>6 DEF TextLast
<1>12. HeadersLast'
  BY <1>1, <1>4, <1>5, WireNow DEF HeadersLast, HeaderLast
<1>13. TextsStand'
  BY <1>4, <1>9 DEF Texts, TextsStand, Fields
<1>14. ASSUME Titles  PROVE Titles'
  <2>1. TimersLast'
    BY <1>4, <1>5, <1>6, <1>14 DEF Titles, TimersLast, TimerLast, Carries
  <2>2. Stands(d.id, "name")
    BY <1>2, <1>4, <1>14 DEF Titles, MetasStand, Waits
  <2>3. TitleLast'
    BY <1>2, <1>3, <1>5, <1>6, <1>8, <2>2 DEF TitleLast, Fields
  <2>4. MetasStand'
    BY <1>5, <1>9, <1>14 DEF Titles, MetasStand, Waits, Fields, Carries
  <2> QED
    BY <2>1, <2>3, <2>4 DEF Titles
<1> QED
  BY <1>10, <1>11, <1>12, <1>13, <1>14 DEF Texts

\* What is odd stays odd.
LEMMA OddGrows == [Next]_vars => odd \subseteq odd'
  BY DEF Next, Reader, Clicks, Timers, Loading, Updating, Answering, Faults, Open, Leave,
         TypeText, TypeTitle, TypeSummary, Shortcut, SaveButton, Hide, SaveAgain, Fire,
         Loaded, NotLoaded, Update, NotUpdated, SaveAnswered, Unheard, SummaryAnswered, vars

LEMMA KeptNext == Kept /\ Own' /\ Types' /\ [Next]_vars => Kept'
<1>1. SUFFICES ASSUME Kept, Own', Types', [Next]_vars, odd' \subseteq {"reset"}
               PROVE  Texts' /\ (odd' = {} => Titles')
  BY DEF Kept
<1>2. odd \subseteq odd'
  BY <1>1, OddGrows
<1>3. /\ Own /\ Texts /\ (odd' = {} => odd = {} /\ Titles)
      /\ "late" \notin odd /\ odd \cap {"late", "back"} = {}
      /\ odd' \cap {"late", "early"} = {}
      /\ \A x \in {"left", "late", "overtaken", "during", "failed"} : x \notin odd'
  BY <1>1, <1>2 DEF Kept
<1>4. CASE Reader
  BY <1>1, <1>3, <1>4, KeptLeave, KeptTypeText, KeptTypeTitle, KeptTypeSummary, KeptSaves
     DEF Reader
<1>5. CASE Clicks
  BY <1>1, <1>3, <1>5, KeptOpen DEF Clicks
<1>6. CASE SaveAgain
  BY <1>3, <1>6, KeptSaves
<1>7. CASE Timers
  BY <1>1, <1>3, <1>7, KeptFire DEF Timers
<1>8. CASE Loading
  BY <1>1, <1>3, <1>8, KeptLoaded DEF Loading
<1>9. CASE Updating
  BY <1>1, <1>3, <1>9, KeptUpdate DEF Updating
<1>10. CASE Answering
  BY <1>1, <1>3, <1>10, KeptSaveAnswered, KeptUnheard, KeptSummaryAnswered DEF Answering
<1>11. CASE Faults
  <2>1. ASSUME NEW i \in 1..Len(loads), NotLoaded(i)  PROVE Texts' /\ (odd' = {} => Titles')
    <3>1. wrap' = wrap
      BY <1>1, <2>1 DEF NotLoaded
    <3>2. UNCHANGED <<node, wire, wrap, nodeDetail, timers, last, typed>>
      BY <2>1, <3>1 DEF NotLoaded
    <3> QED
      BY <1>3, <3>2, KeptStutter
  <2>2. ASSUME NEW i \in 1..Len(wire), NotUpdated(i)  PROVE FALSE
    BY <1>3, <2>2 DEF NotUpdated
  <2> QED
    BY <1>11, <2>1, <2>2 DEF Faults
<1>12. CASE UNCHANGED vars
  BY <1>3, <1>12, KeptStutter DEF vars, page
<1> QED
  BY <1>1, <1>4, <1>5, <1>6, <1>7, <1>8, <1>9, <1>10, <1>11, <1>12 DEF Next

LEMMA KeptAlways == Spec => []Kept
<1>1. Init => Kept /\ Own /\ Types
  BY KeptInit DEF Kept, Own
<1>2. Kept /\ Own /\ Types /\ [Next]_vars => (Kept /\ Own /\ Types)'
  BY KeptNext, OwnNext, TypesNext
<1> QED
  BY <1>1, <1>2, PTL DEF Spec

\* With none of the named mishaps, what was last typed in any field of any document is
\* stored, in a request under way, in a timer or, for the text of the document shown,
\* in the editor: whatever the order of clicks, keys, timers, loads, updates, answers.
THEOREM NothingIsLost == Spec => []NothingLost
  BY KeptAlways, KeptImplies, PTL

\* The flag with which the editor decides whether to save when the tab is hidden is up
\* whenever it has to be: a text neither stored nor under way is marked as edited, even
\* after an answer to a summary has put the page's title back.
THEOREM HidingIsSafe == Spec => []HidingSaves
  BY KeptAlways, KeptHides, PTL

-----------------------------------------------------------------------------
(* NeverBack: the updates of a field are under way in the order in which    *)
(* their values were typed, none older than what is stored, and what a      *)
(* timer or the editor has to send is not older than any of them.           *)

\* What is stored and what s has to write of the field is no newer than n.
Upto(s, d, f, old, n) ==
    /\ old.rev <= n
    /\ \A i \in 1..Len(s) : On(s[i], d, f) => s[i].vals[f].rev <= n

InOrder(s, d, f, old) ==
    /\ \A i \in 1..Len(s) : On(s[i], d, f) => old.rev <= s[i].vals[f].rev
    /\ \A i, k \in 1..Len(s) :
          i < k /\ On(s[i], d, f) /\ On(s[k], d, f) => s[i].vals[f].rev <= s[k].vals[f].rev

\* t has some of the requests of s, in their order.
Some(s, t) ==
    \E g \in [1..Len(t) -> 1..Len(s)] :
        /\ \A i, k \in 1..Len(t) : i < k => g[i] < g[k]
        /\ \A k \in 1..Len(t) : /\ t[k].vals = s[g[k]].vals
                                /\ \A d, f : On(t[k], d, f) => On(s[g[k]], d, f)

LEMMA RevNat ==
  ASSUME NEW m \in Puts, NEW d, NEW f \in Fields, On(m, d, f)
  PROVE  m.vals[f] \in Values /\ m.vals[f].rev \in Nat
<1>1. m.vals[f] \in Values
  BY DEF On, Carries, Puts, Vals
<1> QED
  BY <1>1, BoundTypes DEF Values

LEMMA OrderAppended ==
  ASSUME NEW s \in Seq(Puts), NEW m \in Puts, NEW d, NEW f, NEW old
  PROVE  /\ \A n : Upto(s, d, f, old, n) /\ (On(m, d, f) => m.vals[f].rev <= n)
                      => Upto(Append(s, m), d, f, old, n)
         /\ InOrder(s, d, f, old) /\ (On(m, d, f) => Upto(s, d, f, old, m.vals[f].rev))
               => InOrder(Append(s, m), d, f, old)
<1> DEFINE t == Append(s, m)
<1>1. /\ Len(s) \in Nat /\ Len(t) = Len(s) + 1
      /\ \A k \in 1..Len(s) : t[k] = s[k]
      /\ t[Len(s) + 1] = m
  BY AppendEach, LenProperties
<1> HIDE DEF t
<1>2. \A k \in 1..Len(t) : k \in 1..Len(s) \/ k = Len(s) + 1
  BY <1>1
<1>3. ASSUME NEW n, Upto(s, d, f, old, n), On(m, d, f) => m.vals[f].rev <= n
      PROVE  Upto(t, d, f, old, n)
  BY <1>1, <1>2, <1>3 DEF Upto
<1>4. ASSUME InOrder(s, d, f, old), On(m, d, f) => Upto(s, d, f, old, m.vals[f].rev)
      PROVE  InOrder(t, d, f, old)
  <2>1. \A i \in 1..Len(t) : On(t[i], d, f) => old.rev <= t[i].vals[f].rev
    BY <1>1, <1>2, <1>4 DEF InOrder, Upto
  <2>2. ASSUME NEW i \in 1..Len(t), NEW k \in 1..Len(t), i < k, On(t[i], d, f), On(t[k], d, f)
        PROVE  t[i].vals[f].rev <= t[k].vals[f].rev
    <3>1. i \in 1..Len(s)
      BY <1>1, <2>2
    <3>2. CASE k \in 1..Len(s)
      BY <1>1, <1>4, <2>2, <3>1, <3>2 DEF InOrder
    <3>3. CASE k = Len(s) + 1
      BY <1>1, <1>4, <2>2, <3>1, <3>3 DEF Upto
    <3> QED
      BY <1>2, <3>2, <3>3
  <2> QED
    BY <2>1, <2>2 DEF InOrder
<1> QED
  BY <1>3, <1>4 DEF t

LEMMA OrderSome ==
  ASSUME NEW s, NEW t, Some(s, t), NEW d, NEW f, NEW old
  PROVE  /\ \A n : Upto(s, d, f, old, n) => Upto(t, d, f, old, n)
         /\ InOrder(s, d, f, old) => InOrder(t, d, f, old)
<1>1. PICK g \in [1..Len(t) -> 1..Len(s)] :
         /\ \A i, k \in 1..Len(t) : i < k => g[i] < g[k]
         /\ \A k \in 1..Len(t) : /\ t[k].vals = s[g[k]].vals
                                 /\ On(t[k], d, f) => On(s[g[k]], d, f)
  BY DEF Some
<1>2. \A k \in 1..Len(t) : g[k] \in 1..Len(s)
  BY <1>1
<1> QED
  BY <1>1, <1>2 DEF Upto, InOrder

LEMMA SomeRemoved ==
  ASSUME NEW s \in Seq(Puts), NEW j \in 1..Len(s)
  PROVE  Some(s, RemoveAt(s, j))
<1> DEFINE t == RemoveAt(s, j)
           g == [k \in 1..Len(t) |-> IF k < j THEN k ELSE k + 1]
<1>1. /\ Len(s) \in Nat /\ Len(t) = Len(s) - 1
      /\ \A k \in 1..Len(t) : t[k] = s[IF k < j THEN k ELSE k + 1]
  BY RemoveAtEach, LenProperties
<1> HIDE DEF t
<1>2. \A k \in 1..Len(t) : (IF k < j THEN k ELSE k + 1) \in 1..Len(s)
  BY <1>1
<1>3. g \in [1..Len(t) -> 1..Len(s)]
  BY <1>2
<1>4. \A i, k \in 1..Len(t) : i < k => g[i] < g[k]
  BY <1>1
<1>5. \A k \in 1..Len(t) : t[k] = s[g[k]]
  BY <1>1
<1> HIDE DEF g
<1>6. Some(s, t)
  BY <1>3, <1>4, <1>5 DEF Some
<1> QED
  BY <1>6 DEF t

LEMMA SomeSame ==
  ASSUME NEW s, NEW t, Len(s) \in Nat, Len(t) = Len(s),
         \A k \in 1..Len(s) : /\ t[k].vals = s[k].vals
                              /\ \A d, f : On(t[k], d, f) => On(s[k], d, f)
  PROVE  Some(s, t)
<1> DEFINE g == [k \in 1..Len(t) |-> k]
<1>1. g \in [1..Len(t) -> 1..Len(s)] /\ \A k \in 1..Len(t) : g[k] = k
  OBVIOUS
<1> HIDE DEF g
<1> QED
  BY <1>1 DEF Some

LEMMA SomeOver ==
  ASSUME Types, NEW j \in 1..Len(wire), NEW st \in {"done", "failed"}, Shown => Shown',
         wire' = Over(j, st) \/ wire' = RemoveAt(wire, j)
  PROVE  Some(wire, wire')
<1>1. wire \in Seq(Puts) /\ Len(wire) \in Nat
  BY WireNow
<1>2. CASE wire' = RemoveAt(wire, j)
  BY <1>1, <1>2, SomeRemoved
<1>3. CASE wire' = [wire EXCEPT ![j].stage = st]
  <2>1. /\ Len(wire') = Len(wire)
        /\ \A k \in 1..Len(wire) : /\ wire'[k].doc = wire[k].doc /\ wire'[k].vals = wire[k].vals
                                   /\ wire'[k].stage = IF k = j THEN st ELSE wire[k].stage
    BY <1>3, WireStaged
  <2>2. \A k \in 1..Len(wire) : \A d, f : On(wire'[k], d, f) => On(wire[k], d, f)
    BY <2>1 DEF On, Carries
  <2> QED
    BY <1>1, <2>1, <2>2, SomeSame
<1> QED
  BY <1>2, <1>3 DEF Over

LEMMA SomeOrphaned ==
  ASSUME NEW s \in Seq(Puts)
  PROVE  Some(s, Orphaned(s))
<1>1. /\ Len(s) \in Nat /\ Len(Orphaned(s)) = Len(s)
      /\ \A k \in 1..Len(s) : /\ Orphaned(s)[k].doc = s[k].doc /\ Orphaned(s)[k].vals = s[k].vals
                              /\ Orphaned(s)[k].stage = s[k].stage
  BY OrphanedEach, LenProperties
<1>2. \A k \in 1..Len(s) : \A d, f : On(Orphaned(s)[k], d, f) => On(s[k], d, f)
  BY <1>1 DEF On, Carries
<1> QED
  BY <1>1, <1>2, SomeSame

LEMMA SomeItself ==
  ASSUME Types
  PROVE  Some(wire, wire)
  BY WireNow, SomeSame

-----------------------------------------------------------------------------
(* The invariant.                                                          *)

\* What lets a document go back to an older value.
Setbacks == {"late", "back", "early", "overtaken", "reset"}

Newest(d, f, n) == Upto(wire, d, f, node[d][f], n)

WireOrdered == \A d \in Docs, f \in Fields : /\ InOrder(wire, d, f, node[d][f])
                                             /\ Newest(d, f, typed)

\* A timer is the editor's exactly when it is of the document shown, and holds no text;
\* what it has to send is the newest, and of a title what the page has.
TimerOrdered(t) ==
    /\ t.live <=> (Shown /\ t.doc = wrap.id)
    /\ ~Carries(t, "content")
    /\ \A f \in Fields : Carries(t, f) => /\ Newest(t.doc, f, t.vals[f].rev)
                                          /\ t.vals[f].rev <= typed
    /\ t.live /\ Carries(t, "name") => t.vals["name"].rev = nodeDetail.name.rev

\* One timer for a field of a document.
OneTimer == \A t, u \in timers, f \in Fields :
               t.doc = u.doc /\ Carries(t, f) /\ Carries(u, f) => t = u

\* What a save would send is the newest.
EditorOrdered ==
    Shown => /\ Newest(wrap.id, "name", nodeDetail.name.rev) /\ nodeDetail.name.rev <= typed
             /\ Newest(wrap.id, "content", wrap.text.rev) /\ wrap.text.rev <= typed

Ordered == WireOrdered /\ (\A t \in timers : TimerOrdered(t)) /\ OneTimer /\ EditorOrdered

Forward == Own /\ (odd \cap Setbacks = {} => Ordered)

LEMMA ForwardInit == Init => Forward
<1>1. SUFFICES ASSUME Init  PROVE Forward
  OBVIOUS
<1>2. Own
  BY <1>1, OwnInit
<1>3. WireOrdered
  BY <1>1 DEF Init, WireOrdered, InOrder, Newest, Upto
<1> QED
  BY <1>1, <1>2, <1>3 DEF Init, Forward, Ordered, OneTimer, EditorOrdered, Shown

\* Steps after which s takes the place of the requests, each field stored as it was or
\* newer, and the editor and its timers have what they had.
LEMMA OrderedBelow ==
  ASSUME Ordered, UNCHANGED <<timers, typed>>,
         \A d \in Docs, f \in Fields :
            /\ InOrder(wire, d, f, node[d][f]) => InOrder(wire', d, f, node'[d][f])
            /\ \A n : Upto(wire, d, f, node[d][f], n) => Upto(wire', d, f, node'[d][f], n),
         timers \subseteq Timer, Shown' <=> Shown,
         Shown => /\ wrap.id \in Docs /\ wrap'.id = wrap.id /\ wrap'.text = wrap.text
                  /\ nodeDetail'.name = nodeDetail.name
  PROVE  Ordered'
<1>1. \A d \in Docs, f \in Fields : \A n :
         Newest(d, f, n) => Upto(wire', d, f, node'[d][f], n)
  BY DEF Newest
<1>2. WireOrdered'
  BY <1>1 DEF Ordered, WireOrdered, Newest
<1>3. ASSUME NEW t \in timers, NEW f \in Fields, Carries(t, f)
      PROVE  Upto(wire', t.doc, f, node'[t.doc][f], t.vals[f].rev)
  BY <1>1, <1>3 DEF Timer, Ordered, TimerOrdered
<1>4. (\A t \in timers : TimerOrdered(t))'
  BY <1>3 DEF Ordered, TimerOrdered, Newest, Carries
<1>5. OneTimer'
  BY DEF Ordered, OneTimer, Carries
<1>6. EditorOrdered'
  BY <1>1 DEF Ordered, EditorOrdered, Newest, Fields
<1> QED
  BY <1>2, <1>4, <1>5, <1>6 DEF Ordered

LEMMA OrderedStutter ==
  ASSUME Own, "late" \notin odd, Ordered,
         UNCHANGED <<node, wire, wrap, nodeDetail, timers, typed>>
  PROVE  Ordered'
<1>1. timers \subseteq Timer /\ (Shown => wrap.id \in Docs)
  BY Facts DEF Types, TimersType
<1> QED
  BY <1>1, OrderedBelow DEF Shown

\* An answer, or an update that failed.
LEMMA OrderedOver ==
  ASSUME Own, "late" \notin odd, Ordered, NEW i \in 1..Len(wire),
         NEW st \in {"done", "failed"}, wire' = Over(i, st) \/ wire' = RemoveAt(wire, i),
         UNCHANGED <<node, timers, typed>>, Shown' <=> Shown,
         Shown => wrap'.id = wrap.id /\ wrap'.text = wrap.text /\ nodeDetail'.name = nodeDetail.name
  PROVE  Ordered'
<1>1. Types /\ timers \subseteq Timer /\ (Shown => wrap.id \in Docs)
  BY Facts DEF Types, TimersType
<1>2. Some(wire, wire')
  BY <1>1, SomeOver
<1>3. \A d \in Docs, f \in Fields :
         /\ InOrder(wire, d, f, node[d][f]) => InOrder(wire', d, f, node'[d][f])
         /\ \A n : Upto(wire, d, f, node[d][f], n) => Upto(wire', d, f, node'[d][f], n)
  BY <1>2, OrderSome
<1> QED
  BY <1>1, <1>3, OrderedBelow

LEMMA OrderedAnswers ==
  ASSUME Own, "late" \notin odd, Ordered, odd' \cap {"late", "reset"} = {}, NEW i \in 1..Len(wire),
         NotUpdated(i) \/ SaveAnswered(i) \/ Unheard(i) \/ SummaryAnswered(i)
  PROVE  Ordered'
<1>1. Types /\ wrap \in Editors \cup {None}
  BY Facts DEF Types, WrapType
<1>2. CASE NotUpdated(i) \/ Unheard(i)
  <2>1. /\ wire' = Over(i, "failed") \/ wire' = RemoveAt(wire, i)
        /\ UNCHANGED <<node, timers, typed, wrap, nodeDetail>>
    BY <1>2 DEF NotUpdated, Unheard, page
  <2> QED
    BY <2>1, OrderedOver DEF Shown
<1>3. CASE SaveAnswered(i)
  <2>1. /\ wire[i].then = "header" /\ wire' = RemoveAt(wire, i)
        /\ wrap' = [wrap EXCEPT !.initial = wire[i].keep, !.editing = FALSE]
        /\ UNCHANGED <<node, timers, typed, nodeDetail>>
    BY <1>3 DEF SaveAnswered, page
  <2>2. Shown /\ wire[i].keep \in Contents /\ wrap \in Editors
    BY <1>1, <2>1, WireNow DEF PutOK, Shown
  <2>3. wrap' \in Editors /\ wrap'.id = wrap.id /\ wrap'.text = wrap.text
    BY <2>1, <2>2 DEF Editors
  <2>4. Shown'
    BY <2>3, NoneAssumption DEF Shown
  <2> QED
    BY <2>1, <2>2, <2>3, <2>4, OrderedOver
<1>4. CASE SummaryAnswered(i)
  <2> DEFINE meta == [wire[i].keep EXCEPT !.summary = wire[i].vals["summary"]]
  <2>1. /\ wire[i].then = "summary" /\ wire' = RemoveAt(wire, i)
        /\ nodeDetail' = meta /\ wrap' = Shows(wrap, meta) /\ meta.name = nodeDetail.name
        /\ UNCHANGED <<node, timers, typed>>
    BY <1>4 DEF SummaryAnswered
  <2>2. meta \in Metas
    BY <1>1, <2>1, AnsweredMeta
  <2> HIDE DEF meta
  <2>3. /\ Shown' <=> Shown
        /\ Shown => wrap'.id = wrap.id /\ wrap'.text = wrap.text
    BY <1>1, <2>1, <2>2, ShowsType DEF Shown
  <2> QED
    BY <2>1, <2>3, OrderedOver
<1> QED
  BY <1>2, <1>3, <1>4

\* The first update of its fields is written: no later one is older.
LEMMA OrderedUpdate ==
  ASSUME Own, "late" \notin odd, Ordered, "overtaken" \notin odd', NEW i \in 1..Len(wire), Update(i)
  PROVE  /\ Ordered'
         /\ \A d \in Docs, f \in Fields : node'[d][f].rev >= node[d][f].rev
<1>1. /\ Types /\ node \in [Docs -> [Fields -> Values]] /\ Len(wire) \in Nat
      /\ wire[i] \in Puts /\ wire[i].doc \in Docs /\ wire[i].vals \in Vals
      /\ timers \subseteq Timer /\ (Shown => wrap.id \in Docs)
  BY Facts, WireNow DEF Types, StoreType, TimersType, Puts
<1>2. /\ node' = [node EXCEPT ![wire[i].doc] = Written(node[wire[i].doc], wire[i].vals)]
      /\ wire' = Over(i, "done") /\ wire[i].stage = "sent"
      /\ UNCHANGED <<wrap, nodeDetail, timers, typed>>
  BY DEF Update, page
<1>3. \A k \in 1..(i - 1), d \in Docs, f \in Fields : On(wire[i], d, f) => ~On(wire[k], d, f)
  BY DEF Update, On
<1>4. Some(wire, wire')
  BY <1>1, <1>2, SomeOver DEF Shown
<1>5. PICK g \in [1..Len(wire') -> 1..Len(wire)] :
         \A k \in 1..Len(wire') : /\ wire'[k].vals = wire[g[k]].vals
                                  /\ \A d, f : On(wire'[k], d, f) => On(wire[g[k]], d, f)
  BY <1>4 DEF Some
<1>6. ASSUME NEW d \in Docs, NEW f \in Fields
      PROVE  /\ InOrder(wire', d, f, node'[d][f])
             /\ \A n : Upto(wire, d, f, node[d][f], n) => Upto(wire', d, f, node'[d][f], n)
             /\ node'[d][f].rev >= node[d][f].rev
  <2>1. /\ InOrder(wire, d, f, node[d][f]) /\ node[d][f].rev \in Nat
        /\ InOrder(wire', d, f, node[d][f])
        /\ \A n : Upto(wire, d, f, node[d][f], n) => Upto(wire', d, f, node[d][f], n)
    BY <1>1, <1>4, OrderSome DEF Ordered, WireOrdered, Values
  <2>2. CASE On(wire[i], d, f)
    <3>1. node'[d][f] = wire[i].vals[f]
      BY <1>1, <1>2, <2>2, WrittenType DEF On, Carries
    <3>2. node[d][f].rev <= wire[i].vals[f].rev /\ wire[i].vals[f].rev \in Nat
      BY <1>1, <2>1, <2>2, RevNat DEF InOrder
    <3>3. ASSUME NEW k \in 1..Len(wire'), On(wire'[k], d, f)
          PROVE  wire[i].vals[f].rev <= wire'[k].vals[f].rev
      <4>1. g[k] \in 1..Len(wire) /\ On(wire[g[k]], d, f) /\ wire'[k].vals = wire[g[k]].vals
        BY <1>5, <3>3
      <4>2. g[k] \notin 1..(i - 1)
        BY <1>3, <2>2, <4>1
      <4>3. g[k] = i \/ i < g[k]
        BY <1>1, <4>1, <4>2
      <4>4. PICK h \in 1..Len(wire) : h = g[k]
        BY <4>1
      <4>5. i \in 1..Len(wire) /\ (h = i \/ i < h) /\ On(wire[h], d, f)
        BY <4>1, <4>3, <4>4
      <4>6. wire[i].vals[f].rev <= wire[h].vals[f].rev
        <5>1. CASE h = i
          BY <3>2, <5>1
        <5>2. CASE i < h
          BY <2>1, <2>2, <4>5, <5>2 DEF InOrder
        <5> QED
          BY <4>5, <5>1, <5>2
      <4> QED
        BY <4>1, <4>4, <4>6
    <3>4. InOrder(wire', d, f, node'[d][f])
      BY <2>1, <3>1, <3>3 DEF InOrder
    <3>5. ASSUME NEW n, Upto(wire, d, f, node[d][f], n)  PROVE Upto(wire', d, f, node'[d][f], n)
      BY <2>1, <2>2, <3>1, <3>5 DEF Upto
    <3> QED
      BY <3>1, <3>2, <3>4, <3>5
  <2>3. CASE ~On(wire[i], d, f)
    <3>1. node'[d][f] = node[d][f]
      BY <1>1, <1>2, <2>3, WrittenType DEF On, Carries
    <3> QED
      BY <2>1, <3>1
  <2> QED
    BY <2>2, <2>3
<1>7. Ordered'
  BY <1>1, <1>2, <1>6, OrderedBelow DEF Shown
<1> QED
  BY <1>6, <1>7

\* Sending what the page and the editor hold keeps the order.
LEMMA SaveOrdered ==
  ASSUME Own, "late" \notin odd, Ordered, Shown, NEW then \in {"none", "header"}
  PROVE  LET s == Append(wire, Save(then))
         IN /\ s \in Seq(Puts)
            /\ \A d \in Docs, f \in Fields : /\ InOrder(s, d, f, node[d][f])
                                             /\ Upto(s, d, f, node[d][f], typed)
            /\ \A t \in timers, f \in Fields :
                  Carries(t, f) => Upto(s, t.doc, f, node[t.doc][f], t.vals[f].rev)
            /\ Upto(s, wrap.id, "name", node[wrap.id]["name"], nodeDetail.name.rev)
            /\ Upto(s, wrap.id, "content", node[wrap.id]["content"], wrap.text.rev)
<1> DEFINE m == Save(then)
           s == Append(wire, m)
<1>1. /\ Types /\ wrap.id = nodeDetail.id /\ wrap.id \in Docs /\ timers \subseteq Timer
      /\ nodeDetail.name \in Values /\ wrap.text \in Values /\ wire \in Seq(Puts)
  BY Facts, WireNow DEF Types, TimersType
<1>2. /\ m \in Puts /\ m.doc = wrap.id /\ m.vals["name"] = nodeDetail.name
      /\ m.vals["content"] = wrap.text /\ m.vals["summary"] = None
  BY <1>1, SaveType
<1>3. nodeDetail.name.rev \in Nat /\ wrap.text.rev \in Nat
  BY <1>1, BoundTypes DEF Values
<1> HIDE DEF m
<1>4. s \in Seq(Puts)
  BY <1>1, <1>2, AppendEach
<1>5. \A d, f : On(m, d, f) => d = wrap.id /\ Carries(m, f)
  BY <1>2 DEF On
<1>6. \A f \in Fields : f = "name" \/ f = "content" \/ ~Carries(m, f)
  BY <1>2 DEF Fields, Carries
<1>7. ASSUME NEW d \in Docs, NEW f \in Fields
      PROVE  /\ InOrder(s, d, f, node[d][f])
             /\ Upto(s, d, f, node[d][f], typed)
  <2>1. InOrder(wire, d, f, node[d][f]) /\ Upto(wire, d, f, node[d][f], typed)
    BY DEF Ordered, WireOrdered, Newest
  <2>2. On(m, d, f) => Upto(wire, d, f, node[d][f], m.vals[f].rev) /\ m.vals[f].rev <= typed
    BY <1>2, <1>5, <1>6 DEF Ordered, EditorOrdered, Newest
  <2> QED
    BY <1>1, <1>2, <2>1, <2>2, OrderAppended
<1>8. ASSUME NEW t \in timers, NEW f \in Fields, Carries(t, f)
      PROVE  Upto(s, t.doc, f, node[t.doc][f], t.vals[f].rev)
  <2>1. TimerOrdered(t) /\ t.doc \in Docs
    BY <1>1 DEF Ordered, Timer
  <2>2. Upto(wire, t.doc, f, node[t.doc][f], t.vals[f].rev)
    BY <1>8, <2>1 DEF TimerOrdered, Newest
  <2>3. ASSUME On(m, t.doc, f)  PROVE m.vals[f].rev <= t.vals[f].rev
    <3>1. t.doc = wrap.id /\ f = "name"
      BY <1>5, <1>6, <1>8, <2>1, <2>3 DEF TimerOrdered
    <3>2. t.vals["name"].rev = nodeDetail.name.rev
      BY <1>8, <2>1, <3>1 DEF TimerOrdered
    <3> QED
      BY <1>2, <1>3, <3>1, <3>2
  <2> QED
    BY <1>1, <1>2, <2>2, <2>3, OrderAppended
<1>9. Upto(s, wrap.id, "name", node[wrap.id]["name"], nodeDetail.name.rev)
  <2>1. Upto(wire, wrap.id, "name", node[wrap.id]["name"], nodeDetail.name.rev)
    BY DEF Ordered, EditorOrdered, Newest
  <2>2. m.vals["name"].rev <= nodeDetail.name.rev
    BY <1>2, <1>3
  <2> QED
    BY <1>1, <1>2, <2>1, <2>2, OrderAppended
<1>10. Upto(s, wrap.id, "content", node[wrap.id]["content"], wrap.text.rev)
  <2>1. Upto(wire, wrap.id, "content", node[wrap.id]["content"], wrap.text.rev)
    BY DEF Ordered, EditorOrdered, Newest
  <2>2. m.vals["content"].rev <= wrap.text.rev
    BY <1>2, <1>3
  <2> QED
    BY <1>1, <1>2, <2>1, <2>2, OrderAppended
<1> QED
  BY <1>4, <1>7, <1>8, <1>9, <1>10 DEF m

LEMMA OrderedSaves ==
  ASSUME Own, "late" \notin odd, Ordered, Shortcut \/ SaveButton \/ Hide \/ SaveAgain
  PROVE  Ordered'
<1>1. Types /\ Shown /\ wrap \in Editors /\ nodeDetail \in Metas /\ wrap # None
  BY Facts DEF Shortcut, SaveButton, Hide, SaveAgain, Shown
<1> DEFINE w == [wrap EXCEPT !.initial = At(wrap.text, wrap.summary)]
<1>2. /\ Clean(wrap) \in Editors /\ Clean(wrap).id = wrap.id /\ Clean(wrap).text = wrap.text
      /\ w \in Editors /\ w.id = wrap.id /\ w.text = wrap.text
  BY <1>1, CleanType, AtType DEF Editors
<1> HIDE DEF w
<1>3. PICK then \in {"none", "header"}, x \in {Clean(wrap), wrap, w} :
         wire' = Append(wire, Save(then)) /\ wrap' = Shows(x, nodeDetail)
  BY DEF Shortcut, SaveButton, Hide, SaveAgain, w
<1>4. UNCHANGED <<node, nodeDetail, timers, typed>>
  BY DEF Shortcut, SaveButton, Hide, SaveAgain, page
<1>5. wrap' \in Editors /\ wrap'.id = wrap.id /\ wrap'.text = wrap.text /\ Shown'
  <2>1. x \in Editors /\ x.id = wrap.id /\ x.text = wrap.text /\ x # None
    BY <1>1, <1>2, NoneAssumption
  <2> QED
    BY <1>1, <1>3, <2>1, ShowsType, NoneAssumption DEF Shown
<1>6. /\ \A d \in Docs, f \in Fields : /\ InOrder(wire', d, f, node[d][f])
                                       /\ Upto(wire', d, f, node[d][f], typed)
      /\ \A t \in timers, f \in Fields :
            Carries(t, f) => Upto(wire', t.doc, f, node[t.doc][f], t.vals[f].rev)
      /\ Upto(wire', wrap.id, "name", node[wrap.id]["name"], nodeDetail.name.rev)
      /\ Upto(wire', wrap.id, "content", node[wrap.id]["content"], wrap.text.rev)
  BY <1>1, <1>3, SaveOrdered
<1>7. WireOrdered'
  BY <1>4, <1>6 DEF WireOrdered, Newest
<1>8. (\A t \in timers : TimerOrdered(t))'
  BY <1>1, <1>4, <1>5, <1>6 DEF Ordered, TimerOrdered, Newest, Carries
<1>9. OneTimer' /\ EditorOrdered'
  BY <1>1, <1>4, <1>5, <1>6 DEF Ordered, OneTimer, EditorOrdered, Newest, Carries
<1> QED
  BY <1>7, <1>8, <1>9 DEF Ordered

\* The editor goes: what its timers have to send is still the newest.
LEMMA OrderedUnmount ==
  ASSUME Types, Ordered, Unmount, typed' = typed, Shown => wrap.id \in Docs,
         \A d \in Docs, f \in Fields : /\ InOrder(wire', d, f, node'[d][f])
                                       /\ Upto(wire', d, f, node'[d][f], typed),
         \A t \in timers, f \in Fields :
            Carries(t, f) => Upto(wire', t.doc, f, node'[t.doc][f], t.vals[f].rev)
  PROVE  Ordered'
<1>1. timers' = {[t EXCEPT !.live = FALSE] : t \in timers} /\ ~Shown'
  BY DEF Unmount, Shown
<1>2. ASSUME NEW t \in timers
      PROVE  /\ [t EXCEPT !.live = FALSE].live = FALSE
             /\ [t EXCEPT !.live = FALSE].doc = t.doc /\ [t EXCEPT !.live = FALSE].vals = t.vals
  BY DEF Types, TimersType, Timer
<1>3. WireOrdered'
  BY DEF WireOrdered, Newest
<1>4. ASSUME NEW x \in timers'
      PROVE  /\ x.live = FALSE /\ ~Carries(x, "content")
             /\ \A f \in Fields : Carries(x, f) => /\ Upto(wire', x.doc, f, node'[x.doc][f], x.vals[f].rev)
                                                   /\ x.vals[f].rev <= typed
  <2>1. PICK t \in timers : x.live = FALSE /\ x.doc = t.doc /\ x.vals = t.vals
    BY <1>1, <1>2
  <2>2. TimerOrdered(t)
    BY DEF Ordered
  <2> QED
    BY <2>1, <2>2 DEF TimerOrdered, Carries
<1>5. (\A t \in timers : TimerOrdered(t))'
  BY <1>1, <1>4 DEF TimerOrdered, Newest, Carries
<1>6. ASSUME NEW x \in timers', NEW y \in timers', NEW f \in Fields,
             x.doc = y.doc, Carries(x, f), Carries(y, f)
      PROVE  x = y
  <2>1. PICK t \in timers : x = [t EXCEPT !.live = FALSE]
    BY <1>1
  <2>2. PICK u \in timers : y = [u EXCEPT !.live = FALSE]
    BY <1>1
  <2>3. t.doc = u.doc /\ Carries(t, f) /\ Carries(u, f)
    BY <1>2, <1>6, <2>1, <2>2 DEF Carries
  <2> QED
    BY <2>1, <2>2, <2>3 DEF Ordered, OneTimer
<1>7. OneTimer' /\ EditorOrdered'
  BY <1>1, <1>6 DEF OneTimer, EditorOrdered, Carries
<1> QED
  BY <1>3, <1>5, <1>7 DEF Ordered

LEMMA OrderedOpen ==
  ASSUME Own, "late" \notin odd, Ordered, NEW d \in Docs, Open(d)
  PROVE  Ordered'
<1>1. /\ Types /\ Unmount /\ UNCHANGED <<node, typed>> /\ timers \subseteq Timer
      /\ (Shown => wrap.id \in Docs)
  BY Facts DEF Open, Types, TimersType
<1> DEFINE s == IF ShowsOther(d) THEN Append(wire, Save("none")) ELSE wire
<1>2. /\ \A e \in Docs, f \in Fields : /\ InOrder(s, e, f, node[e][f])
                                       /\ Upto(s, e, f, node[e][f], typed)
      /\ \A t \in timers, f \in Fields :
            Carries(t, f) => Upto(s, t.doc, f, node[t.doc][f], t.vals[f].rev)
  <2>1. CASE ShowsOther(d)
    BY <2>1, SaveOrdered DEF ShowsOther
  <2>2. CASE ~ShowsOther(d)
    BY <2>2 DEF Ordered, WireOrdered, TimerOrdered, Newest
  <2> QED
    BY <2>1, <2>2
<1>3. s \in Seq(Puts) /\ Some(s, wire')
  <2>1. s \in Seq(Puts)
    BY <1>1, SaveOrdered, WireNow DEF ShowsOther
  <2>2. wire' = Orphaned(s)
    BY DEF Open
  <2> QED
    BY <2>1, <2>2, SomeOrphaned
<1> HIDE DEF s
<1>4. ASSUME NEW e \in Docs, NEW f \in Fields
      PROVE  /\ InOrder(wire', e, f, node'[e][f])
             /\ \A n : Upto(s, e, f, node[e][f], n) => Upto(wire', e, f, node'[e][f], n)
  BY <1>1, <1>2, <1>3, OrderSome
<1>5. ASSUME NEW t \in timers, NEW f \in Fields, Carries(t, f)
      PROVE  Upto(wire', t.doc, f, node'[t.doc][f], t.vals[f].rev)
  <2>1. t.doc \in Docs
    BY <1>1 DEF Timer
  <2> QED
    BY <1>2, <1>4, <1>5, <2>1
<1> QED
  BY <1>1, <1>2, <1>4, <1>5, OrderedUnmount

LEMMA OrderedLeave ==
  ASSUME Own, "late" \notin odd, Ordered, Leave
  PROVE  Ordered'
<1>1. /\ Types /\ Unmount /\ UNCHANGED <<node, typed>> /\ timers \subseteq Timer
      /\ (Shown => wrap.id \in Docs) /\ wire' = Orphaned(wire)
  BY Facts DEF Leave, Types, TimersType
<1>2. Some(wire, wire')
  BY <1>1, WireNow, SomeOrphaned
<1>3. ASSUME NEW e \in Docs, NEW f \in Fields
      PROVE  /\ InOrder(wire', e, f, node'[e][f])
             /\ \A n : Newest(e, f, n) => Upto(wire', e, f, node'[e][f], n)
  BY <1>1, <1>2, OrderSome DEF Ordered, WireOrdered, Newest
<1>4. ASSUME NEW t \in timers, NEW f \in Fields, Carries(t, f)
      PROVE  Upto(wire', t.doc, f, node'[t.doc][f], t.vals[f].rev)
  <2>1. t.doc \in Docs /\ Newest(t.doc, f, t.vals[f].rev)
    BY <1>1, <1>4 DEF Timer, Ordered, TimerOrdered
  <2> QED
    BY <1>3, <2>1
<1>5. \A e \in Docs, f \in Fields : Upto(wire', e, f, node'[e][f], typed)
  BY <1>3 DEF Ordered, WireOrdered
<1> QED
  BY <1>1, <1>3, <1>4, <1>5, OrderedUnmount

\* What is typed next is newer than all there is.
LEMMA TypedNewest ==
  ASSUME Types, Ordered, NEW d \in Docs, NEW f \in Fields, Typed(d, f), UNCHANGED <<node, wire>>
  PROVE  /\ typed \in Nat /\ typed' = typed + 1 /\ last'[d][f].rev = typed + 1
         /\ WireOrdered'
         /\ \A e \in Docs, g \in Fields : Newest(e, g, typed + 1)
<1>1. /\ typed \in Nat /\ node \in [Docs -> [Fields -> Values]]
      /\ typed' = typed + 1 /\ last'[d][f].rev = typed + 1
  BY TypedTypes, BoundTypes DEF Types, StoreType, CountType, Typed
<1>2. ASSUME NEW e \in Docs, NEW g \in Fields  PROVE Newest(e, g, typed + 1)
  <2>1. node[e][g].rev \in Nat /\ Newest(e, g, typed)
    BY <1>1 DEF Values, Ordered, WireOrdered
  <2>2. ASSUME NEW i \in 1..Len(wire), On(wire[i], e, g)  PROVE wire[i].vals[g].rev \in Nat
    BY <2>2, WireNow, RevNat
  <2> QED
    BY <1>1, <2>1, <2>2 DEF Newest, Upto
<1>3. WireOrdered'
  <2>1. \A e \in Docs, g \in Fields : /\ InOrder(wire', e, g, node'[e][g])
                                      /\ Upto(wire', e, g, node'[e][g], typed')
    BY <1>1, <1>2 DEF Ordered, WireOrdered, Newest
  <2> QED
    BY <2>1 DEF WireOrdered, Newest
<1> QED
  BY <1>1, <1>2, <1>3

LEMMA OrderedTypeText ==
  ASSUME Own, "late" \notin odd, Ordered, TypeText
  PROVE  Ordered'
<1>1. /\ Types /\ Shown /\ wrap \in Editors /\ wrap.id \in Docs /\ wrap.text.doc = wrap.id
      /\ nodeDetail.name \in Values /\ timers \subseteq Timer
  BY Facts DEF TypeText, Types, TimersType
<1>2. Typed(wrap.id, "content") /\ UNCHANGED <<node, wire, timers, nodeDetail>>
  BY <1>1 DEF TypeText, page
<1>3. /\ typed \in Nat /\ typed' = typed + 1 /\ last'[wrap.id]["content"].rev = typed + 1
      /\ WireOrdered' /\ \A e \in Docs, g \in Fields : Newest(e, g, typed + 1)
  BY <1>1, <1>2, TypedNewest DEF Fields
<1>4. last'[wrap.id]["content"] \in Values
  BY <1>1, <1>2, TypedTypes DEF Fields
<1> DEFINE w == [wrap EXCEPT !.text = last'[wrap.id]["content"]]
<1>5. w \in Editors /\ w.id = wrap.id /\ w.text = last'[wrap.id]["content"]
  BY <1>1, <1>4 DEF Editors
<1>6. wrap' = Checked(w)
  BY <1>1 DEF TypeText
<1> HIDE DEF w
<1>7. Shown' /\ wrap'.id = wrap.id /\ wrap'.text.rev = typed + 1
  BY <1>3, <1>5, <1>6, CheckedType, NoneAssumption DEF Shown
<1>8. \A t \in timers, f \in Fields : Carries(t, f) => t.vals[f].rev <= typed + 1
  <2>1. ASSUME NEW t \in timers, NEW f \in Fields, Carries(t, f)
        PROVE  t.vals[f].rev <= typed + 1
    <3>1. t.vals[f] \in Values /\ t.vals[f].rev <= typed
      BY <1>1, <2>1 DEF Timer, Vals, Carries, Ordered, TimerOrdered
    <3> QED
      BY <1>3, <3>1, BoundTypes DEF Values
  <2> QED
    BY <2>1
<1>9. (\A t \in timers : TimerOrdered(t))'
  BY <1>1, <1>2, <1>3, <1>7, <1>8 DEF Ordered, TimerOrdered, Newest, Carries
<1>10. nodeDetail.name.rev <= typed + 1
  BY <1>1, <1>3, BoundTypes DEF Values, Ordered, EditorOrdered
<1>11. EditorOrdered'
  BY <1>1, <1>2, <1>3, <1>7, <1>10 DEF Ordered, EditorOrdered, Newest, Fields
<1>12. OneTimer'
  BY <1>2 DEF Ordered, OneTimer, Carries
<1> QED
  BY <1>3, <1>9, <1>11, <1>12 DEF Ordered

\* A title or a summary typed: its timer takes the place of the one that had an older.
LEMMA OrderedDebounce ==
  ASSUME Types, Ordered, Shown, NEW f \in {"name", "summary"}, NEW keep,
         Typed(wrap.id, f), Debounce(f, keep), UNCHANGED <<node, wire>>, Shown',
         wrap'.id = wrap.id,
         nodeDetail'.name.rev = IF f = "name" THEN typed + 1 ELSE nodeDetail.name.rev
  PROVE  (\A t \in timers : TimerOrdered(t))' /\ OneTimer' /\ WireOrdered'
<1>1. wrap.id \in Docs /\ f \in Fields /\ f # "content" /\ timers \subseteq Timer
  BY ShownTypes DEF Editors, Fields, Types, TimersType
<1>2. /\ typed \in Nat /\ typed' = typed + 1 /\ last'[wrap.id][f].rev = typed + 1
      /\ WireOrdered' /\ \A e \in Docs, g \in Fields : Newest(e, g, typed + 1)
      /\ last'[wrap.id][f] \in Values
  BY <1>1, TypedNewest, TypedTypes
<1> DEFINE n == [doc |-> wrap.id, vals |-> Just(f, last'[wrap.id][f]), keep |-> keep, live |-> TRUE]
<1>3. timers' = {t \in timers : ~(t.live /\ Carries(t, f))} \cup {n}
  BY DEF Debounce
<1>4. /\ n.doc = wrap.id /\ n.live = TRUE
      /\ \A g \in Fields : n.vals[g] = IF g = f THEN last'[wrap.id][f] ELSE None
  BY <1>1, <1>2, JustType
<1> HIDE DEF n
<1>5. Carries(n, f) /\ \A g \in Fields : g # f => ~Carries(n, g)
  BY <1>1, <1>2, <1>4, NoneAssumption DEF Carries
<1>6. ASSUME NEW t \in timers, ~(t.live /\ Carries(t, f))
      PROVE  /\ t.live <=> t.doc = wrap.id
             /\ ~Carries(t, "content")
             /\ \A g \in Fields : Carries(t, g) => /\ Newest(t.doc, g, t.vals[g].rev)
                                                   /\ t.vals[g].rev <= typed + 1
             /\ t.live /\ Carries(t, "name") => t.vals["name"].rev = nodeDetail'.name.rev
  <2>1. TimerOrdered(t) /\ t \in Timer
    BY <1>1 DEF Ordered
  <2>2. ASSUME NEW g \in Fields, Carries(t, g)  PROVE t.vals[g].rev <= typed + 1
    <3>1. t.vals[g] \in Values /\ t.vals[g].rev <= typed
      BY <2>1, <2>2 DEF Timer, Vals, Carries, TimerOrdered
    <3> QED
      BY <1>2, <3>1, BoundTypes DEF Values
  <2> QED
    BY <1>6, <2>1, <2>2 DEF TimerOrdered
<1>7. /\ n.live <=> n.doc = wrap.id
      /\ ~Carries(n, "content")
      /\ \A g \in Fields : Carries(n, g) => /\ Newest(n.doc, g, n.vals[g].rev)
                                            /\ n.vals[g].rev <= typed + 1
      /\ n.live /\ Carries(n, "name") => n.vals["name"].rev = nodeDetail'.name.rev
  BY <1>1, <1>2, <1>4, <1>5 DEF Fields
<1>8. ASSUME NEW t \in timers'
      PROVE  /\ t.live <=> t.doc = wrap.id
             /\ ~Carries(t, "content")
             /\ \A g \in Fields : Carries(t, g) => /\ Newest(t.doc, g, t.vals[g].rev)
                                                   /\ t.vals[g].rev <= typed + 1
             /\ t.live /\ Carries(t, "name") => t.vals["name"].rev = nodeDetail'.name.rev
  BY <1>3, <1>6, <1>7
<1>9. (\A t \in timers : TimerOrdered(t))'
  BY <1>2, <1>8 DEF TimerOrdered, Newest, Carries
<1>10. ASSUME NEW t \in timers', NEW u \in timers', NEW g \in Fields,
              t.doc = u.doc, Carries(t, g), Carries(u, g)
       PROVE  t = u
  <2>1. ASSUME NEW x \in timers, ~(x.live /\ Carries(x, f)), x.doc = wrap.id, Carries(n, g)
        PROVE  ~Carries(x, g)
    BY <1>5, <1>6, <2>1
  <2>2. CASE t = n \/ u = n
    BY <1>3, <1>4, <1>10, <2>1, <2>2
  <2>3. CASE t # n /\ u # n
    BY <1>3, <1>10, <2>3 DEF Ordered, OneTimer
  <2> QED
    BY <2>2, <2>3
<1>11. OneTimer'
  BY <1>10 DEF OneTimer, Carries
<1> QED
  BY <1>2, <1>9, <1>11

LEMMA OrderedTypeMeta ==
  ASSUME Own, "late" \notin odd, Ordered, TypeTitle \/ TypeSummary
  PROVE  Ordered'
<1>1. /\ Types /\ Shown /\ wrap \in Editors /\ nodeDetail \in Metas /\ wrap.id \in Docs
      /\ nodeDetail.name \in Values /\ wrap.text \in Values /\ UNCHANGED <<node, wire>>
  BY Facts DEF TypeTitle, TypeSummary
<1>2. PICK f \in {"name", "summary"}, keep \in {None, wrap.first} :
         /\ Typed(wrap.id, f) /\ Debounce(f, keep)
         /\ IF f = "name" THEN TypeTitle ELSE TypeSummary
  BY DEF TypeTitle, TypeSummary
<1>3. f \in Fields /\ last'[wrap.id][f] \in Values
  BY <1>1, <1>2, TypedTypes DEF Fields
<1>4. /\ typed \in Nat /\ typed' = typed + 1 /\ last'[wrap.id][f].rev = typed + 1
      /\ \A e \in Docs, g \in Fields : Newest(e, g, typed + 1)
  BY <1>1, <1>2, <1>3, TypedNewest
<1>5. /\ Shown' /\ wrap'.id = wrap.id /\ wrap'.text = wrap.text
      /\ nodeDetail'.name.rev = IF f = "name" THEN typed + 1 ELSE nodeDetail.name.rev
  <2>1. CASE f = "name"
    <3>1. nodeDetail' = [nodeDetail EXCEPT !.name = last'[wrap.id]["name"]] /\ wrap' = Shows(wrap, nodeDetail')
      BY <1>2, <2>1 DEF TypeTitle
    <3>2. nodeDetail' \in Metas /\ nodeDetail'.name = last'[wrap.id]["name"]
      BY <1>1, <1>3, <2>1, <3>1 DEF Metas
    <3> QED
      BY <1>1, <1>4, <2>1, <3>1, <3>2, ShowsType, NoneAssumption DEF Shown
  <2>2. CASE f = "summary"
    <3> DEFINE w == [wrap EXCEPT !.summary = last'[wrap.id]["summary"]]
    <3>1. w \in Editors /\ w.id = wrap.id /\ w.text = wrap.text
      BY <1>1, <1>3, <2>2 DEF Editors
    <3>2. wrap' = Checked(w) /\ nodeDetail' = nodeDetail
      BY <1>2, <2>2 DEF TypeSummary, page
    <3> HIDE DEF w
    <3> QED
      BY <2>2, <3>1, <3>2, CheckedType, NoneAssumption DEF Shown
  <2> QED
    BY <1>2, <2>1, <2>2
<1>6. (\A t \in timers : TimerOrdered(t))' /\ OneTimer' /\ WireOrdered'
  BY <1>1, <1>2, <1>5, OrderedDebounce
<1>7. EditorOrdered'
  <2>1. /\ Newest(wrap.id, "name", nodeDetail.name.rev) /\ nodeDetail.name.rev <= typed
        /\ Newest(wrap.id, "content", wrap.text.rev) /\ wrap.text.rev <= typed
    BY <1>1 DEF Ordered, EditorOrdered
  <2>2. nodeDetail.name.rev <= typed + 1 /\ wrap.text.rev <= typed + 1
    BY <1>1, <1>4, <2>1, BoundTypes DEF Values
  <2>3. Newest(wrap.id, "name", nodeDetail'.name.rev) /\ nodeDetail'.name.rev <= typed + 1
    BY <1>1, <1>4, <1>5, <2>1, <2>2 DEF Fields
  <2> QED
    BY <1>1, <1>4, <1>5, <2>1, <2>2, <2>3 DEF EditorOrdered, Newest
<1> QED
  BY <1>6, <1>7 DEF Ordered

LEMMA OrderedFire ==
  ASSUME Own, "late" \notin odd, Ordered, NEW t \in timers, Fire(t)
  PROVE  Ordered'
<1>1. /\ Types /\ t \in Timer /\ timers \subseteq Timer /\ wire \in Seq(Puts)
      /\ (Shown => wrap.id \in Docs) /\ TimerOrdered(t)
      /\ UNCHANGED <<node, typed, wrap, nodeDetail>> /\ timers' = timers \ {t}
  BY Facts, WireNow DEF Types, TimersType, Fire, page, Ordered
<1> DEFINE m == Put(t.doc, t.vals, IF t.keep = None THEN "none" ELSE "summary", t.keep)
<1>2. m \in Puts /\ m.doc = t.doc /\ m.vals = t.vals /\ m.stage = "sent"
  BY <1>1 DEF Put, Puts, Timer
<1>3. wire' = Append(wire, m)
  BY DEF Fire
<1> HIDE DEF m
<1>4. \A d, f : On(m, d, f) <=> t.doc = d /\ Carries(t, f)
  BY <1>2 DEF On, Carries
<1>5. ASSUME NEW d \in Docs, NEW f \in Fields
      PROVE  /\ InOrder(wire', d, f, node'[d][f])
             /\ \A n : Newest(d, f, n) /\ (On(m, d, f) => t.vals[f].rev <= n)
                          => Upto(wire', d, f, node'[d][f], n)
  <2>1. On(m, d, f) => Upto(wire, d, f, node[d][f], m.vals[f].rev)
    BY <1>1, <1>2, <1>4 DEF TimerOrdered, Newest
  <2>2. InOrder(wire, d, f, node[d][f])
    BY DEF Ordered, WireOrdered
  <2> QED
    BY <1>1, <1>2, <1>3, <2>1, <2>2, OrderAppended DEF Newest
<1>6. WireOrdered'
  <2>1. ASSUME NEW d \in Docs, NEW f \in Fields
        PROVE  Upto(wire', d, f, node'[d][f], typed)
    <3>1. Newest(d, f, typed) /\ (On(m, d, f) => t.vals[f].rev <= typed)
      BY <1>1, <1>4 DEF Ordered, WireOrdered, TimerOrdered
    <3> QED
      BY <1>5, <3>1
  <2> QED
    BY <1>1, <1>5, <2>1 DEF WireOrdered, Newest
<1>7. ASSUME NEW u \in timers, u # t, NEW f \in Fields, Carries(u, f)
      PROVE  Upto(wire', u.doc, f, node'[u.doc][f], u.vals[f].rev)
  <2>1. u.doc \in Docs /\ Newest(u.doc, f, u.vals[f].rev)
    BY <1>1, <1>7 DEF Timer, Ordered, TimerOrdered
  <2>2. ~On(m, u.doc, f)
    BY <1>4, <1>7 DEF Ordered, OneTimer
  <2> QED
    BY <1>5, <2>1, <2>2
<1>8. (\A u \in timers : TimerOrdered(u))'
  BY <1>1, <1>7 DEF Ordered, TimerOrdered, Newest, Shown, Carries
<1>9. OneTimer'
  BY <1>1 DEF Ordered, OneTimer, Carries
<1>10. EditorOrdered'
  <2>1. SUFFICES ASSUME Shown
                 PROVE  /\ Upto(wire', wrap.id, "name", node'[wrap.id]["name"], nodeDetail.name.rev)
                        /\ Upto(wire', wrap.id, "content", node'[wrap.id]["content"], wrap.text.rev)
    BY <1>1 DEF Ordered, EditorOrdered, Newest, Shown
  <2>2. wrap.id \in Docs /\ nodeDetail.name.rev \in Nat
    BY <1>1, <2>1, Facts, BoundTypes DEF Values
  <2>3. Newest(wrap.id, "name", nodeDetail.name.rev) /\ Newest(wrap.id, "content", wrap.text.rev)
    BY <2>1 DEF Ordered, EditorOrdered
  <2>4. On(m, wrap.id, "name") => t.vals["name"].rev <= nodeDetail.name.rev
    BY <1>1, <1>4, <2>1, <2>2 DEF TimerOrdered
  <2>5. ~On(m, wrap.id, "content")
    BY <1>1, <1>4 DEF TimerOrdered
  <2> QED
    BY <1>5, <2>2, <2>3, <2>4, <2>5 DEF Fields
<1> QED
  BY <1>6, <1>8, <1>9, <1>10 DEF Ordered

\* An answer in time, with nothing of the document under way, is the newest.
LEMMA OrderedLoaded ==
  ASSUME Own, "late" \notin odd, Ordered, odd' \cap {"late", "early"} = {},
         NEW i \in 1..Len(loads), Loaded(i)
  PROVE  Ordered'
<1> DEFINE d == Record(loads[i].doc)
<1>1. Types /\ node \in [Docs -> [Fields -> Values]] /\ loads[i].doc \in Docs
  BY Facts, LoadsNow DEF Types, StoreType
<1>2. /\ d \in Details /\ d.id = loads[i].doc /\ d.name = node[d.id]["name"]
      /\ d.content = node[d.id]["content"] /\ d.id \in Docs
  BY <1>1, RecordType
<1>3. Meta(d) \in Metas /\ Meta(d).name = d.name
  BY <1>2, MetaType
<1>4. /\ ~Shown /\ loads[i].live
      /\ \A t \in timers : t.doc # d.id
      /\ \A k \in 1..Len(wire) : ~(wire[k].doc = d.id /\ wire[k].stage = "sent")
  BY DEF Loaded
<1>5. /\ wrap' = Mounted(d, Meta(d)) /\ nodeDetail' = Meta(d)
      /\ UNCHANGED <<node, wire, timers, typed>>
  BY <1>4 DEF Loaded
<1> HIDE DEF d
<1>6. wrap' \in Editors /\ wrap'.id = d.id /\ wrap'.text = d.content
  BY <1>2, <1>3, <1>5, MountedType
<1>7. Shown'
  BY <1>6, NoneAssumption DEF Shown
<1>8. ASSUME NEW f \in Fields
      PROVE  Newest(d.id, f, node[d.id][f].rev) /\ node[d.id][f].rev <= typed
  <2>1. node[d.id][f].rev <= node[d.id][f].rev
    BY <1>1, <1>2, BoundTypes DEF Values
  <2>2. \A k \in 1..Len(wire) : ~On(wire[k], d.id, f)
    BY <1>4 DEF On
  <2>3. Newest(d.id, f, typed)
    BY <1>2 DEF Ordered, WireOrdered
  <2> QED
    BY <2>1, <2>2, <2>3 DEF Newest, Upto
<1>9. EditorOrdered'
  BY <1>2, <1>3, <1>5, <1>6, <1>8 DEF EditorOrdered, Newest, Fields
<1>10. WireOrdered' /\ OneTimer'
  BY <1>5 DEF Ordered, WireOrdered, OneTimer, Newest, Carries
<1>11. (\A t \in timers : TimerOrdered(t))'
  BY <1>4, <1>5, <1>6, <1>7 DEF Ordered, TimerOrdered, Newest, Carries
<1> QED
  BY <1>9, <1>10, <1>11 DEF Ordered

LEMMA ForwardStep ==
  ASSUME Own, Ordered, [Next]_vars, odd' \cap Setbacks = {}
  PROVE  /\ Ordered'
         /\ \A d \in Docs, f \in Fields : node'[d][f].rev >= node[d][f].rev
<1>1. /\ odd \subseteq odd' /\ "late" \notin odd
      /\ odd' \cap {"late", "early"} = {} /\ odd' \cap {"late", "reset"} = {}
      /\ "overtaken" \notin odd' /\ "back" \notin odd'
  BY OddGrows DEF Setbacks
<1>2. CASE Updating
  BY <1>1, <1>2, OrderedUpdate DEF Updating
<1>3. CASE ~Updating
  <2>1. node' = node
    BY <1>3 DEF Next, Reader, Clicks, Timers, Loading, Updating, Answering, Faults, Open, Leave,
                TypeText, TypeTitle, TypeSummary, Shortcut, SaveButton, Hide, SaveAgain, Fire,
                Loaded, NotLoaded, NotUpdated, SaveAnswered, Unheard, SummaryAnswered, vars
  <2>2. \A d \in Docs, f \in Fields : node'[d][f].rev >= node[d][f].rev
    BY <1>1, <2>1, Facts, BoundTypes DEF Types, StoreType, Values
  <2> SUFFICES Ordered'
    BY <2>2
  <2>3. CASE Reader
    BY <1>1, <2>3, OrderedLeave, OrderedTypeText, OrderedTypeMeta, OrderedSaves DEF Reader
  <2>4. CASE Clicks
    BY <1>1, <2>4, OrderedOpen DEF Clicks
  <2>5. CASE SaveAgain
    BY <1>1, <2>5, OrderedSaves
  <2>6. CASE Timers
    BY <1>1, <2>6, OrderedFire DEF Timers
  <2>7. CASE Loading
    BY <1>1, <2>7, OrderedLoaded DEF Loading
  <2>8. CASE Answering
    BY <1>1, <2>8, OrderedAnswers DEF Answering
  <2>9. CASE Faults
    <3>1. ASSUME NEW i \in 1..Len(loads), NotLoaded(i)  PROVE Ordered'
      <4>1. wrap' = wrap
        BY <1>1, <3>1 DEF NotLoaded
      <4>2. UNCHANGED <<node, wire, wrap, nodeDetail, timers, typed>>
        BY <3>1, <4>1 DEF NotLoaded
      <4> QED
        BY <1>1, <4>2, OrderedStutter
    <3> QED
      BY <1>1, <2>9, <3>1, OrderedAnswers DEF Faults
  <2>10. CASE UNCHANGED vars
    BY <1>1, <2>10, OrderedStutter DEF vars, page
  <2> QED
    BY <1>3, <2>2, <2>3, <2>4, <2>5, <2>6, <2>7, <2>8, <2>9, <2>10 DEF Next
<1> QED
  BY <1>2, <1>3

LEMMA ForwardNext == Forward /\ Own' /\ [Next]_vars => Forward'
<1>1. SUFFICES ASSUME Forward, Own', [Next]_vars, odd' \cap Setbacks = {}  PROVE Ordered'
  BY DEF Forward, Setbacks
<1>2. Own /\ Ordered
  BY <1>1, OddGrows DEF Forward
<1> QED
  BY <1>1, <1>2, ForwardStep

\* What is stored of a field never goes back to what was typed before it, as long as no
\* answer came late or early, no update overtook another and the page held no older
\* record: whether or not requests fail, the reader leaves or types during a save.
THEOREM StoredNeverGoesBack == Spec => NeverBack
<1> DEFINE Ahead == odd' \cap {"late", "back", "early", "overtaken", "reset"} = {} =>
                      \A d \in Docs, f \in Fields : node'[d][f].rev >= node[d][f].rev
<1>1. Init => Forward /\ Own /\ Types
  BY ForwardInit DEF Forward, Own
<1>2. Forward /\ Own /\ Types /\ [Next]_vars => (Forward /\ Own /\ Types)'
  BY ForwardNext, OwnNext, TypesNext
<1>3. Forward /\ Own /\ Types /\ [Next]_vars => [Ahead]_vars
  <2> SUFFICES ASSUME Forward, [Next]_vars, odd' \cap Setbacks = {}
               PROVE  \A d \in Docs, f \in Fields : node'[d][f].rev >= node[d][f].rev
    BY DEF Setbacks
  <2>1. Own /\ Ordered
    BY OddGrows DEF Forward
  <2> QED
    BY <2>1, ForwardStep
<1> QED
  BY <1>1, <1>2, <1>3, PTL DEF Spec, NeverBack

=============================================================================
