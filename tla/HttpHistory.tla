---------------------------- MODULE HttpHistory -----------------------------
(***************************************************************************)
(* The history the HTTP connector shows a user, computed from the items    *)
(* that the runs of DialogRun store.  A user sees the items of one origin; *)
(* runs that switch dialogs make paths of the forest leave that origin and *)
(* come back to it, so the user's dialogs have to be found across items    *)
(* that are not shown.                                                     *)
(***************************************************************************)
EXTENDS DialogRun

\* _is_user_origin()
Visible(o, items) == {i \in items : store[i].origin = o}

Ids == DOMAIN store
Line(i) == ToSet(Branch(i))

\* Mutant of History: the visible items alone.
HistoryVisible(o) == Visible(o, Ids)

\* _history_for_user(): the visible items, and the whole branch of one that
\* continues an item that is not visible.
History(o) ==
  LET own == Visible(o, Ids)
      cut == {i \in own : store[i].prev \notin own \cup {NoItem}}
  IN own \cup UNION {Line(i) : i \in cut}

\* Within a list of items: the items from i upwards, up to the first whose
\* predecessor is not in the list.
Upwards(items, i) ==
  LET up[j \in items] ==
        {j} \cup (IF store[j].prev \in items THEN up[store[j].prev] ELSE {})
  IN up[i]

\* _history_tree(): everything that descends from the top of the head's branch.
Tree(items, head) ==
  IF head \notin items THEN {}
  ELSE LET top == Min(Upwards(items, head)) IN {i \in items : top \in Upwards(items, i)}

\* _history_heads(): a root is a visible item without a visible one above it; a
\* leaf is a visible item that no visible item continues; the head of a root is
\* the newest leaf that finds it on its way up.
Roots(o, items) ==
  {i \in Visible(o, items) : \A j \in Upwards(items, i) : j # i => store[j].origin # o}

Leaves(o, items) ==
  Visible(o, items) \ {store[j].prev : j \in Visible(o, items)}

\* Mutant of Heads: the first leaf of a root and not the newest.
HeadsOldest(o, items) ==
  {<<Min({i \in Leaves(o, items) : root \in Upwards(items, i)}), root>> : root \in Roots(o, items)}

Heads(o, items) ==
  LET leaves == Leaves(o, items)
  IN {<<Max({i \in leaves : root \in Upwards(items, i)}), root>> : root \in Roots(o, items)}

\* _validate_parent(): a message may continue an item of the user.
ValidParent(o, i) == i = NoItem \/ i \in Visible(o, Line(i))

\* _handle_history() with heads=1 and one of the heads: the listed dialogs and
\* the items of the chosen one, of which those of other origins are bare links.
Shown(o, head) == Tree(History(o), head)

-----------------------------------------------------------------------------
\* The history loses nothing: whatever path a dialog took through other
\* origins, each of the user's items belongs to exactly the listed dialog that
\* starts at its topmost item of the user, opening that dialog shows it, and
\* the head to continue from is the dialog's newest item, which is accepted.
HistoryShowsEverything ==
  \A o \in Origins :
    LET own == Visible(o, Ids)
        items == History(o)
        top == [i \in own |-> Min(Visible(o, Line(i)))]
        heads == Heads(o, items)
    IN /\ {h[2] : h \in heads} = {top[i] : i \in own}
       /\ \A h \in heads : LET dialog == {i \in own : top[i] = h[2]} IN
            h[1] = Max(dialog) /\ dialog \subseteq Shown(o, h[1]) /\ ValidParent(o, h[1])
=============================================================================
