----------------------------- MODULE EditorSave -----------------------------
(***************************************************************************)
(* The document editor of the admin app (pages/document/editor): one tab   *)
(* that opens documents from the catalogue, edits their text, title and    *)
(* summary, and saves them without ever being asked to: on a click on      *)
(* another document, when the tab is hidden, half a second after a title   *)
(* or a summary was typed.  Requests overtake one another, and fail.       *)
(*                                                                         *)
(* A value is what was typed and for which document: rev 0 is what the     *)
(* document held at first, and each typing takes the next number.          *)
(***************************************************************************)
EXTENDS Naturals, Sequences, FiniteSets, SequencesExt

CONSTANTS
    Docs,       \* HTML documents of the knowledge base
    None,       \* no document, no record
    MaxTyped,   \* bound: things typed
    MaxOpens,   \* bound: clicks on documents of the catalogue and on the history
    MaxFaults,  \* bound: requests that fail
    MaxWire,    \* bound: updates under way at a time
    MaxOdd      \* bound: kinds of mishap after which the reader still goes on

ASSUME BoundsAssumption ==
    {MaxTyped, MaxOpens, MaxFaults, MaxWire, MaxOdd} \subseteq Nat /\ MaxWire > 0

Fields == {"name", "content", "summary"}
Values == [doc : Docs, rev : 0..MaxTyped]
Metas == [id : Docs, name : Values, summary : Values]
Details == [id : Docs, name : Values, content : Values, summary : Values]
Contents == [content : Values, summary : Values]
Editors == [id : Docs, text : Values, summary : Values, initial : Contents,
            editing : BOOLEAN, first : Metas]

ASSUME NoneAssumption == None \notin Docs \cup Values \cup Metas \cup Details \cup Editors

VARIABLES
    node,       \* what PostgreSQL holds of each document
    url,        \* the document the address names (None: the history page)
    loading,    \* Edit shows its skeleton
    loads,      \* GETs under way: the document, and whether Edit still waits
    detail,     \* Edit's: the record the editor is given
    nodeDetail, \* the record of the page around it: its id, name and summary
    wrap,       \* the state of the editor (None: it is not shown)
    timers,     \* debounced updates
    wire,       \* PUTs under way, in the order they were sent
    typed, opens, faults,
    last,       \* history: what was last typed of each document
    odd         \* history: what went wrong on the way

page == <<url, loading, detail, nodeDetail>>
vars == <<node, page, loads, wrap, timers, wire, typed, opens, faults, last, odd>>

Shown == wrap # None
Room == Len(wire) < MaxWire
Goes == Cardinality(odd) <= MaxOdd
Meta(d) == [id |-> d.id, name |-> d.name, summary |-> d.summary]
At(text, summary) == [content |-> text, summary |-> summary]
Record(d) == [id |-> d, name |-> node[d]["name"], content |-> node[d]["content"],
              summary |-> node[d]["summary"]]

\* The fields of a request: what is None is not sent.
Nothing == [f \in Fields |-> None]
Just(f, v) == [Nothing EXCEPT ![f] = v]
Carries(m, f) == m.vals[f] # None

\* Mutant: checkIfEdited forgets the text.
DiffersInSummary(w) == w.summary # w.initial.summary
Differs(w) == At(w.text, w.summary) # w.initial
Checked(w) == [w EXCEPT !.editing = Differs(w)]          \* checkIfEdited
Clean(w) == [w EXCEPT !.initial = At(w.text, w.summary), !.editing = FALSE]

Init ==
    /\ node = [d \in Docs |-> [f \in Fields |-> [doc |-> d, rev |-> 0]]]
    /\ url = None /\ loading = FALSE /\ loads = <<>>
    /\ detail = None /\ nodeDetail = None /\ wrap = None
    /\ timers = {} /\ wire = <<>>
    /\ typed = 0 /\ opens = 0 /\ faults = 0
    /\ last = node /\ odd = {}

-----------------------------------------------------------------------------
(* The effects of a render. *)

\* The editor as it is created: it takes its text from the record it is given, and
\* its debounced callbacks keep the page's record of this first render.
Mounted(d, meta) ==
    [id |-> d.id, text |-> d.content, summary |-> d.summary,
     initial |-> At(d.content, d.summary), editing |-> FALSE, first |-> meta]

\* The effects on nodeDetail and on summary: the field shows the page's record again.
Shows(w, meta) ==
    IF w = None \/ w.summary = meta.summary THEN w
    ELSE Checked([w EXCEPT !.summary = meta.summary])

\* The effect on defaultDetail, when a record arrives under an editor already
\* shown: everything is taken from it but the text in the editor.
Given(w, d) ==
    [id |-> d.id, text |-> w.text, summary |-> d.summary, initial |-> At(d.content, d.summary),
     editing |-> d.summary # w.summary /\ w.text # d.content,
     first |-> IF d.id = w.id THEN w.first ELSE Meta(d)]

\* Mutant: the callbacks of an editor that is gone are still answered.
OrphanedAsIs(s) == s
\* Mutant: debounced updates are cancelled with their editor.
UnmountCancels == wrap' = None /\ timers' = {t \in timers : ~t.live}

\* Timers and answers outlive the editor that started them.
Unmount ==
    /\ wrap' = None
    /\ timers' = {[t EXCEPT !.live = FALSE] : t \in timers}

Orphaned(s) ==
    [i \in 1..Len(s) |-> IF s[i].then = "header"
                         THEN [s[i] EXCEPT !.then = "none", !.keep = None] ELSE s[i]]

Put(d, vals, then, keep) ==
    [doc |-> d, vals |-> vals, then |-> then, keep |-> keep, stage |-> "sent"]

\* onSave: the text of the editor and the name of the page's record, to the
\* document of the page's record.
Save(then) ==
    Put(nodeDetail.id, [Nothing EXCEPT !["name"] = nodeDetail.name, !["content"] = wrap.text],
        then, IF then = "none" THEN None ELSE At(wrap.text, wrap.summary))

-----------------------------------------------------------------------------
(* The reader of the page. *)

\* The editor shows another document than the one clicked (a late answer or a
\* failed one can have put the clicked document under another address).
ShowsOther(d) == Shown /\ wrap.id # d

\* A click in the catalogue.  An editor of another document saves what it holds,
\* typed or not; any editor gives way to the skeleton until the document has come.
Open(d) ==
    /\ opens < MaxOpens /\ url # d /\ Goes
    /\ ShowsOther(d) => Room
    /\ url' = d /\ loading' = TRUE
    /\ loads' = Append(loads, [doc |-> d, live |-> TRUE])
    /\ wire' = Orphaned(IF ShowsOther(d) THEN Append(wire, Save("none")) ELSE wire)
    /\ Unmount
    /\ opens' = opens + 1
    /\ UNCHANGED <<node, detail, nodeDetail, typed, faults, last, odd>>

\* The link to the history of versions: the editor goes and nothing is saved.
Leave ==
    /\ opens < MaxOpens /\ url # None /\ Goes
    /\ opens' = opens + 1
    /\ url' = None /\ loading' = FALSE /\ detail' = None
    /\ loads' = [i \in 1..Len(loads) |-> [loads[i] EXCEPT !.live = FALSE]]
    /\ wire' = Orphaned(wire)
    /\ Unmount
    /\ odd' = odd \cup IF Shown /\ wrap.text # wrap.initial.content THEN {"left"} ELSE {}
    /\ UNCHANGED <<node, nodeDetail, typed, faults, last>>

Typed(d, f) ==
    /\ typed < MaxTyped /\ Goes
    /\ typed' = typed + 1
    /\ last' = [last EXCEPT ![d][f] = [doc |-> d, rev |-> typed + 1]]

Debounce(f, keep) ==
    timers' = {t \in timers : ~(t.live /\ Carries(t, f))} \cup
                {[doc |-> wrap.id, vals |-> Just(f, last'[wrap.id][f]), keep |-> keep, live |-> TRUE]}

TypeText ==
    /\ Shown
    /\ Typed(wrap.text.doc, "content")
    /\ wrap' = Checked([wrap EXCEPT !.text = last'[wrap.text.doc]["content"]])
    /\ UNCHANGED <<node, page, loads, timers, wire, opens, faults, odd>>

\* Mutant: the page's record does not follow the title.
TypeTitleAlone ==
    /\ Shown
    /\ Typed(wrap.id, "name")
    /\ Debounce("name", None)
    /\ UNCHANGED <<node, page, wrap, loads, wire, opens, faults, odd>>

TypeTitle ==
    /\ Shown
    /\ Typed(wrap.id, "name")
    /\ nodeDetail' = [nodeDetail EXCEPT !.name = last'[wrap.id]["name"]]
    /\ wrap' = Shows(wrap, nodeDetail')
    /\ Debounce("name", None)
    /\ UNCHANGED <<node, url, loading, detail, loads, wire, opens, faults, odd>>

TypeSummary ==
    /\ Shown
    /\ Typed(wrap.id, "summary")
    /\ wrap' = Checked([wrap EXCEPT !.summary = last'[wrap.id]["summary"]])
    /\ Debounce("summary", wrap.first)
    /\ UNCHANGED <<node, page, loads, wire, opens, faults, odd>>

\* changeCatalogItem on Ctrl+S: the flag is down before the save is answered.
Shortcut ==
    /\ Shown /\ Room /\ Goes
    /\ wire' = Append(wire, Save("none"))
    /\ wrap' = Shows(Clean(wrap), nodeDetail)
    /\ UNCHANGED <<node, page, loads, timers, typed, opens, faults, last, odd>>

\* The save button of the header waits for the answer.
SaveButton ==
    /\ Shown /\ Room /\ Goes
    /\ wire' = Append(wire, Save("header"))
    /\ wrap' = Shows(wrap, nodeDetail)
    /\ UNCHANGED <<node, page, loads, timers, typed, opens, faults, last, odd>>

\* The tab is hidden or closed: what is being edited is saved.
Hide ==
    /\ Shown /\ Room /\ Goes /\ wrap.editing
    /\ wire' = Append(wire, Save("none"))
    /\ wrap' = Shows([wrap EXCEPT !.initial = At(wrap.text, wrap.summary)], nodeDetail)
    /\ UNCHANGED <<node, page, loads, timers, typed, opens, faults, last, odd>>

-----------------------------------------------------------------------------
(* What the browser and the server do. *)

\* While the address names another document than the record, every render saves.
SaveAgain ==
    /\ Shown /\ Room /\ url # wrap.id
    /\ wire' = Append(wire, Save("none"))
    /\ wrap' = Shows(Clean(wrap), nodeDetail)
    /\ UNCHANGED <<node, page, loads, timers, typed, opens, faults, last, odd>>

Fire(t) ==
    /\ Room
    /\ timers' = timers \ {t}
    /\ wire' = Append(wire, Put(t.doc, t.vals, IF t.keep = None THEN "none" ELSE "summary", t.keep))
    /\ UNCHANGED <<node, page, loads, wrap, typed, opens, faults, last, odd>>

\* Mutant: the page keeps the record it has.
LoadedForEditor(i) ==
    LET d == Record(loads[i].doc)
    IN /\ loads[i].live /\ ~Shown /\ d.id = url
       /\ nodeDetail' = IF nodeDetail = None THEN Meta(d) ELSE nodeDetail
       /\ detail' = d /\ loading' = FALSE
       /\ wrap' = Mounted(d, Meta(d))
       /\ loads' = RemoveAt(loads, i)
       /\ UNCHANGED <<node, url, timers, wire, typed, opens, faults, last, odd>>

\* getDetail's then and finally.  Nothing asks whether the document is still wanted,
\* and an editor already shown is kept.
Loaded(i) ==
    LET d == Record(loads[i].doc)
    IN /\ nodeDetail' = Meta(d)
       /\ IF loads[i].live
          THEN /\ detail' = d /\ loading' = FALSE
               /\ wrap' = IF Shown THEN Given(wrap, d) ELSE Mounted(d, Meta(d))
               /\ timers' = IF Shown /\ wrap.id # d.id
                            THEN {[t EXCEPT !.live = FALSE] : t \in timers} ELSE timers
          ELSE /\ wrap' = Shows(wrap, Meta(d))
               /\ UNCHANGED <<detail, loading, timers>>
       /\ loads' = RemoveAt(loads, i)
       /\ odd' = odd \cup (IF Shown \/ ~loads[i].live \/ d.id # url THEN {"late"} ELSE {})
                      \cup (IF \/ \E t \in timers : t.doc = d.id
                               \/ \E k \in 1..Len(wire) : wire[k].doc = d.id /\ wire[k].stage = "sent"
                             THEN {"early"} ELSE {})
       /\ UNCHANGED <<node, url, wire, typed, opens, faults, last>>

\* A failed GET: the skeleton goes, and the editor comes back with the record of the
\* document that was open before.
NotLoaded(i) ==
    /\ faults < MaxFaults
    /\ faults' = faults + 1
    /\ loads' = RemoveAt(loads, i)
    /\ IF loads[i].live
       THEN /\ loading' = FALSE
            /\ wrap' = IF Shown \/ detail = None THEN wrap ELSE Mounted(detail, nodeDetail)
       ELSE UNCHANGED <<loading, wrap>>
    /\ odd' = odd \cup IF loads[i].live /\ ~Shown /\ detail # None THEN {"back"} ELSE {}
    /\ UNCHANGED <<node, url, detail, nodeDetail, timers, wire, typed, opens, last>>

\* UpdateNodeContent: one transaction, each field of the request by itself.
Written(n, vals) == [f \in Fields |-> IF vals[f] # None THEN vals[f] ELSE n[f]]

\* An update nobody waits for is over when the server has it.
Over(i, stage) ==
    IF wire[i].then = "none" THEN RemoveAt(wire, i)
    ELSE [wire EXCEPT ![i].stage = stage]

Update(i) ==
    LET m == wire[i]
        before == {k \in 1..(i - 1) : /\ wire[k].doc = m.doc /\ wire[k].stage = "sent"
                                      /\ \E f \in Fields : Carries(wire[k], f) /\ Carries(m, f)}
    IN /\ m.stage = "sent"
       /\ node' = [node EXCEPT ![m.doc] = Written(@, m.vals)]
       /\ wire' = Over(i, "done")
       /\ odd' = odd \cup IF before # {} THEN {"overtaken"} ELSE {}
       /\ UNCHANGED <<page, loads, wrap, timers, typed, opens, faults, last>>

NotUpdated(i) ==
    /\ wire[i].stage = "sent" /\ faults < MaxFaults
    /\ faults' = faults + 1
    /\ wire' = IF wire[i].then = "summary" THEN RemoveAt(wire, i) ELSE Over(i, "failed")
    /\ odd' = odd \cup {"failed"}
    /\ UNCHANGED <<node, page, loads, wrap, timers, typed, opens, last>>

\* handleSave after onSave, which swallows a failure: what was sent is the state to
\* compare with, and the flag is down.
SaveAnswered(i) ==
    /\ wire[i].then = "header" /\ wire[i].stage # "sent"
    /\ wrap' = [wrap EXCEPT !.initial = wire[i].keep, !.editing = FALSE]
    /\ wire' = RemoveAt(wire, i)
    /\ odd' = odd \cup IF At(wrap.text, wrap.summary) # wire[i].keep THEN {"during"} ELSE {}
    /\ UNCHANGED <<node, page, loads, timers, typed, opens, faults, last>>

\* The answer finds the editor gone that waited for it.
Unheard(i) ==
    /\ wire[i].then = "none" /\ wire[i].stage # "sent"
    /\ wire' = RemoveAt(wire, i)
    /\ UNCHANGED <<node, page, loads, wrap, timers, typed, opens, faults, last, odd>>

\* debouncedUpdateSummary's then: updateDetail of the first render puts the page's
\* record back to what it was then, but for the summary.
SummaryAnswered(i) ==
    LET meta == [wire[i].keep EXCEPT !.summary = wire[i].vals["summary"]]
    IN /\ wire[i].then = "summary" /\ wire[i].stage = "done"
       /\ nodeDetail' = meta
       /\ wrap' = Shows(wrap, meta)
       /\ wire' = RemoveAt(wire, i)
       /\ odd' = odd \cup IF meta.id # nodeDetail.id THEN {"late"}
                          ELSE IF meta.name # nodeDetail.name THEN {"reset"} ELSE {}
       /\ UNCHANGED <<node, url, loading, detail, loads, timers, typed, opens, faults, last>>

-----------------------------------------------------------------------------
Reader == Leave \/ TypeText \/ TypeTitle \/ TypeSummary \/ Shortcut \/ SaveButton \/ Hide
Clicks == \E d \in Docs : Open(d)
Timers == \E t \in timers : Fire(t)
Loading == \E i \in 1..Len(loads) : Loaded(i)
Updating == \E i \in 1..Len(wire) : Update(i)
Answering == \E i \in 1..Len(wire) : SaveAnswered(i) \/ Unheard(i) \/ SummaryAnswered(i)
Faults == (\E i \in 1..Len(loads) : NotLoaded(i)) \/ (\E i \in 1..Len(wire) : NotUpdated(i))

Next == Reader \/ Clicks \/ SaveAgain \/ Timers \/ Loading \/ Updating \/ Answering \/ Faults

Spec == Init /\ [][Next]_vars

-----------------------------------------------------------------------------
Vals == [Fields -> Values \cup {None}]
Loads == [doc : Docs, live : BOOLEAN]
Timer == [doc : Docs, vals : Vals, keep : Metas \cup {None}, live : BOOLEAN]
Puts == [doc : Docs, vals : Vals, then : {"none", "header", "summary"},
         keep : Metas \cup Contents \cup {None}, stage : {"sent", "done", "failed"}]
Mishaps == {"left", "late", "back", "early", "overtaken", "failed", "during", "reset"}

\* An update with a summary answers with the record it keeps, one of the save
\* button with what it sent.
PutOK(m) ==
    /\ m.then = "summary" => m.keep \in Metas /\ Carries(m, "summary")
    /\ m.then = "header" => m.keep \in Contents

\* The types, and: the editor is shown exactly when there is a record and no skeleton,
\* and only to one that is shown does the answer to its save button come.
TypeOK ==
    /\ node \in [Docs -> [Fields -> Values]] /\ last \in [Docs -> [Fields -> Values]]
    /\ url \in Docs \cup {None} /\ loading \in BOOLEAN
    /\ detail \in Details \cup {None} /\ nodeDetail \in Metas \cup {None}
    /\ loads \in Seq(Loads) /\ wrap \in Editors \cup {None}
    /\ timers \subseteq Timer /\ \A t \in timers : t.keep # None => Carries(t, "summary")
    /\ wire \in Seq(Puts) /\ Len(wire) <= MaxWire /\ \A i \in 1..Len(wire) : PutOK(wire[i])
    /\ typed \in 0..MaxTyped /\ opens \in 0..MaxOpens /\ faults \in 0..MaxFaults
    /\ odd \subseteq Mishaps
    /\ Shown <=> url # None /\ ~loading /\ detail # None
    /\ \A i \in 1..Len(wire) : wire[i].then = "header" => Shown

Sent(d, f) ==
    \E i \in 1..Len(wire) : /\ wire[i].doc = d /\ wire[i].stage = "sent"
                            /\ wire[i].vals[f] = last[d][f]
Pending(d, f) == \E t \in timers : t.doc = d /\ t.vals[f] = last[d][f]
InEditor(d, f) == f = "content" /\ Shown /\ nodeDetail.id = d /\ wrap.text = last[d]["content"]

Safe(d, f) == node[d][f] = last[d][f] \/ Sent(d, f) \/ Pending(d, f) \/ InEditor(d, f)

\* Autosave: what was last typed is stored, on its way or in the editor, unless one
\* of the ways to lose it was taken.
NothingLost == odd = {} => \A d \in Docs, f \in Fields : Safe(d, f)

\* onSave takes the text from the editor and the document from the page: they are of
\* the same document unless an answer came late.  And the document shown is the one
\* the address names: while it is not, every render saves.
OwnDocument ==
    /\ "late" \notin odd =>
        /\ \A d \in Docs, f \in Fields : node[d][f].doc = d
        /\ \A i \in 1..Len(wire), f \in Fields : Carries(wire[i], f) => wire[i].vals[f].doc = wire[i].doc
    /\ Shown /\ odd \cap {"late", "back"} = {} => wrap.id = url /\ nodeDetail.id = url

\* isEditing: a text neither stored nor on its way is saved when the tab is hidden,
\* unless a save failed, was overtaken or let typing slip while it was awaited, a
\* text was left, or a document was read late, early or not at all ("left", "late",
\* "early", "back"). The answer to a summary ("reset") does not spoil it.
HidingSaves ==
    Shown /\ odd \subseteq {"reset"} =>
        wrap.editing \/ wrap.text = node[wrap.id]["content"] \/ Sent(wrap.id, "content")

\* No field of a document goes back to an older value, unless updates overtook one
\* another or the page held an older record.
NeverBack ==
    [][odd' \cap {"late", "back", "early", "overtaken", "reset"} = {} =>
          \A d \in Docs, f \in Fields : node'[d][f].rev >= node[d][f].rev]_vars

\* The test of body, summary and attributes that are entered and then saved
\* (6.2.2(2)): with no failure and in order, the title typed is the one stored.
TitleKept == odd \subseteq {"reset"} => \A d \in Docs : Safe(d, "name")
=============================================================================
