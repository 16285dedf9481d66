---------------------------- MODULE QueryPanels ----------------------------
(***************************************************************************)
(* The query history and the saved queries of the browser UI (script.js).  *)
(* Both are lists in the local storage of the browser, which all tabs of   *)
(* the UI share; a tab shows them as they were when it last rendered them. *)
(* An event handler runs to its end before storage changes under it.       *)
(***************************************************************************)
EXTENDS Naturals, Sequences, FiniteSets, SequencesExt

CONSTANTS
  Tabs,         \* open tabs
  Queries,      \* query texts
  Sources,      \* data sources
  MaxEntries,   \* MAX_HISTORY_ENTRIES
  MaxLoads,     \* bound: pages with a result that are loaded
  MaxSaves      \* bound: queries that are saved

ASSUME EntriesAssumption == MaxEntries \in Nat \ {0}
ASSUME BoundsAssumption == MaxLoads \in Nat /\ MaxSaves \in Nat

VARIABLES
  past,     \* local storage: the history, newest first
  saved,    \* local storage: the saved queries, oldest first
  shown,    \* per tab: the saved queries as it renders them
  runs,     \* history: the results loaded since the list was cleared
  made,     \* history: how many queries were saved
  gone      \* history: the saved queries that were deleted, and when clicked

vars == <<past, saved, shown, runs, made, gone>>

Entries == [query : Queries, source : Sources]
\* A saved query is told from others by its number.
Kept == 1..MaxSaves

TypeOK ==
  /\ past \in Seq(Entries) /\ Len(past) <= MaxEntries
  /\ saved \in Seq(Kept)
  /\ shown \in [Tabs -> Seq(Kept)]
  /\ runs \in Seq(Entries)
  /\ made \in 0..MaxSaves
  /\ gone \in Seq(Kept \X Kept)

Init ==
  /\ past = <<>>
  /\ saved = <<>>
  /\ shown = [t \in Tabs |-> <<>>]
  /\ runs = <<>>
  /\ made = 0
  /\ gone = <<>>
-----------------------------------------------------------------------------
\* The elements of h at the places in I, in their order.
Pick(h, I) ==
  LET Nth(k) == CHOOSE i \in I : Cardinality({j \in I : j <= i}) = k
  IN  [k \in 1..Cardinality(I) |-> h[Nth(k)]]

\* h.length = n, if h is longer.
Truncate(h, n) == SubSeq(h, 1, IF Len(h) < n THEN Len(h) ELSE n)

\* h.filter(e => e.query !== q).
Without(h, q) == Pick(h, {i \in DOMAIN h : h[i].query # q})

(* Mutant of recordHistory: it cuts the list while it is one too long.     *)
RecordedOneMore(h, e) == Truncate(<<e>> \o Without(h, e.query), MaxEntries + 1)

(* Mutant of recordHistory: it cuts the list before it takes the query out.*)
RecordedCutFirst(h, e) == <<e>> \o Without(Truncate(h, MaxEntries - 1), e.query)

\* recordHistory: the query moves to the front, the oldest falls off.
Recorded(h, e) == Truncate(<<e>> \o Without(h, e.query), MaxEntries)

Render(t, list) == shown' = [shown EXCEPT ![t] = list]

\* A page with a result is loaded: it records its query and renders.
LoadResult(t) ==
  /\ Len(runs) < MaxLoads
  /\ \E e \in Entries : /\ past' = Recorded(past, e)
                        /\ runs' = <<e>> \o runs
  /\ Render(t, saved)
  /\ UNCHANGED <<saved, made, gone>>

\* A page without a query, or with an error, only renders.
LoadOther(t) ==
  /\ Render(t, saved)
  /\ UNCHANGED <<past, saved, runs, made, gone>>

Clear(t) ==
  /\ past' = <<>>
  /\ runs' = <<>>
  /\ UNCHANGED <<saved, shown, made, gone>>

\* The save button: the list as it is now stored, and one more.
Save(t) ==
  /\ made < MaxSaves
  /\ made' = made + 1
  /\ saved' = Append(saved, made')
  /\ Render(t, saved')
  /\ UNCHANGED <<past, runs, gone>>

(* Mutant of the delete handler: it cuts from the list it has rendered.    *)
DeleteFromShown(t, i) ==
  /\ i \in DOMAIN shown[t]
  /\ saved' = RemoveAt(shown[t], i)
  /\ gone' = Append(gone, <<shown[t][i], shown[t][i]>>)
  /\ Render(t, saved')
  /\ UNCHANGED <<past, runs, made>>

\* The delete button of the i-th query shown: cur.splice(i, 1) takes what is
\* at that place of the list as it is now stored, if anything is.
Delete(t, i) ==
  /\ i \in DOMAIN shown[t]
  /\ saved' = IF i \in DOMAIN saved THEN RemoveAt(saved, i) ELSE saved
  /\ gone' = IF i \in DOMAIN saved THEN Append(gone, <<saved[i], shown[t][i]>>) ELSE gone
  /\ Render(t, saved')
  /\ UNCHANGED <<past, runs, made>>

Next ==
  \E t \in Tabs :
    \/ LoadResult(t) \/ LoadOther(t) \/ Clear(t) \/ Save(t)
    \/ \E i \in Kept : Delete(t, i)

Spec == Init /\ [][Next]_vars
-----------------------------------------------------------------------------
(* Properties.                                                             *)

\* The places of the most recent run of each query in a list, newest first.
Newest(list) ==
  {i \in DOMAIN list : \A j \in DOMAIN list : j < i => list[j].query # list[i].query}

\* The history is the last MaxEntries different queries that gave a result
\* since it was cleared, newest first, each with the source it last ran on,
\* whichever tabs ran them (script.js:215-224).
HistoryIsRecent == past = Truncate(Pick(runs, Newest(runs)), MaxEntries)

\* The saved queries that a delete has taken.
Taken == {gone[k][1] : k \in DOMAIN gone}

\* Two tabs with different lists on the screen do not undo each other's work:
\* a saved query stays in storage, in its place and once, until a delete takes
\* it, and does not come back (script.js:189-195, 226-236).
SavesKept == saved = Pick([n \in 1..made |-> n], (1..made) \ Taken)

(* What the code says and does not do.                                     *)

\* script.js:188, the button of a saved query: "Delete saved query".  A click
\* deletes the query it belongs to or nothing.
DeletesShown == \A k \in DOMAIN gone : gone[k][1] = gone[k][2]
=============================================================================
