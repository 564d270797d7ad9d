------- MODULE TabSession -------
(****************************************)
(* src/renderer/features/files/open-files-model.ts: the tabs of one worktree *)
(* and the functions that change them.  A session is a record; the functions *)
(* return the next one. *)
(* *)
(* The code's list of tabs is two fields here: tabs, the paths as the strip *)
(* shows them, and tab, what is known of each.  activatedAt is a counter *)
(* per tab in the code; only its order is ever asked for, so `recent` lists *)
(* the open paths, the last activated last.  Paths are plain files: a *)
(* change under a folder is a set of paths here. *)
(****************************************)
EXTENDS Integers, Sequences, SequencesExt, FiniteSetsExt

CONSTANTS
  Paths,      \* files of the worktree
  Nowhere,    \* null
  MaxTabs     \* MAX_OPEN_FILE_TABS

ASSUME TabAssumption == Nowhere \notin Paths /\ MaxTabs \in Nat \ {0}

Tab == [pinned : BOOLEAN, dirty : BOOLEAN, missing : BOOLEAN]

EmptySession == [tabs |-> <<>>, tab |-> <<>>, active |-> Nowhere, preview |-> Nowhere, recent |-> <<>>]

OpenPaths(s) == DOMAIN s.tab
IsDirty(s, p) == p \in OpenPaths(s) /\ s.tab[p].dirty

Position(seq, p) == CHOOSE i \in DOMAIN seq : seq[i] = p
Without(seq, ps) == SelectSeq(seq, LAMBDA q : q \notin ps)
Put(f, p, t) == [q \in DOMAIN f \cup {p} |-> IF q = p THEN t ELSE f[q]]

Activate(s, p) == [s EXCEPT !.active = p, !.recent = Append(Without(@, {p}), p)]

ActivateTab(s, p) == IF p \in OpenPaths(s) THEN Activate(s, p) ELSE s

\* The tab that follows a closed one: the first that stays to its right, else the last to
\* its left.
Neighbours(s, p, kept) ==
  LET At(q) == Position(s.tabs, q)
      right == {q \in kept : At(p) < At(q)}
      first == {q \in right : \A r \in right : At(q) <= At(r)}
  IN IF first # {} THEN first ELSE {q \in kept : \A r \in kept : At(r) <= At(q)}

\* closeTab, for one tab or several in turn.
CloseTabs(s, ps) ==
  LET kept == OpenPaths(s) \ ps
      next == Neighbours(s, s.active, kept)
      closed == [s EXCEPT !.tabs = Without(@, ps), !.tab = [q \in kept |-> s.tab[q]],
                          !.recent = Without(@, ps), !.preview = IF @ \in ps THEN Nowhere ELSE @]
  IN IF s.active \notin ps THEN closed
     ELSE IF next = {} THEN [closed EXCEPT !.active = Nowhere]
     ELSE Activate(closed, CHOOSE q \in next : TRUE)

CloseTab(s, p) == CloseTabs(s, {p} \cap OpenPaths(s))

\* leastRecentlyActivatedClean: whom a full strip may close, at most one.
Victims(s) ==
  LET At(q) == Position(s.recent, q)
      clean == {q \in OpenPaths(s) : q # s.active /\ ~IsDirty(s, q)}
  IN {q \in clean : \A r \in clean : At(q) <= At(r)}

\* openTab: the next session, and whose tab had to go.
Opened(s, p, mode) ==
  LET pin == mode = "pinned"
      fresh == [pinned |-> pin, dirty |-> FALSE, missing |-> FALSE]
      slot == ~pin /\ s.preview \in OpenPaths(s) /\ ~IsDirty(s, s.preview)
      full == IF Len(s.tabs) >= MaxTabs THEN Victims(s) ELSE {}
      kept == CloseTabs(s, full)
  IN IF p \in OpenPaths(s)
     THEN [session |-> Activate([s EXCEPT !.tab[p].pinned = @ \/ pin,
                                   !.preview = IF pin /\ @ = p THEN Nowhere ELSE @], p),
           evicted |-> {}]
     ELSE IF slot
     THEN [session |-> Activate([s EXCEPT !.tabs[Position(s.tabs, s.preview)] = p,
                                   !.tab = Put([q \in DOMAIN @ \ {s.preview} |-> @[q]], p, fresh),
                                   !.preview = p, !.recent = Without(@, {s.preview})], p),
           evicted |-> {s.preview}]
     ELSE [session |-> Activate([kept EXCEPT !.tabs = Append(@, p), !.tab = Put(@, p, fresh),
                                   !.preview = IF pin THEN @ ELSE p], p),
           evicted |-> full]

\* Bug: an edited preview is still a scratch slot.
SetDirtyUnpinned(s, p, dirty) ==
  IF p \notin OpenPaths(s) THEN s ELSE [s EXCEPT !.tab[p].dirty = dirty]

\* setTabDirty: an edited preview is pinned, so the next preview won't replace it.
SetDirty(s, p, dirty) ==
  IF p \notin OpenPaths(s) \/ IsDirty(s, p) = dirty THEN s
  ELSE [s EXCEPT !.tab[p].dirty = dirty, !.tab[p].pinned = @ \/ dirty,
                 !.preview = IF dirty /\ @ = p THEN Nowhere ELSE @]

\* setTabMissing and markTabsPresent.
SetMissing(s, gone, present) ==
  [s EXCEPT !.tab = [q \in OpenPaths(s) |->
     [s.tab[q] EXCEPT !.missing = q \in gone \/ (@ /\ q \notin present)]]]

MoveTab(s, p, i) == [s EXCEPT !.tabs = InsertAt(RemoveAt(@, Position(@, p)), i, p)]

\* renameTabPaths: of two tabs that end at one path the earlier stays.
Renamed(s, from, to) ==
  LET earlier == to \in OpenPaths(s) /\ Position(s.tabs, to) < Position(s.tabs, from)
      kept == IF earlier THEN to ELSE from
      New(q) == IF q = from THEN to ELSE q
      NewPaths(seq) == LET left == Without(seq, {from, to} \ {kept})
                       IN [i \in DOMAIN left |-> New(left[i])]
  IN IF from \notin OpenPaths(s) THEN s
     ELSE [tabs |-> NewPaths(s.tabs), recent |-> NewPaths(s.recent),
           tab |-> Put([q \in OpenPaths(s) \ {from} |-> s.tab[q]], to, s.tab[kept]),
           active |-> New(s.active), preview |-> New(s.preview)]

\* removeTabsUnder: tabs of removed files close, the edited ones stay.
ClosedAmong(s, removed) == {q \in OpenPaths(s) \cap removed : ~IsDirty(s, q)}

RemoveUnder(s, removed) == CloseTabs(SetMissing(s, removed, {}), ClosedAmong(s, removed))

\* serializeSession and restoreSession: what a reload finds again.
Restored(s) ==
  [s EXCEPT !.tab = [q \in DOMAIN @ |-> [@[q] EXCEPT !.dirty = FALSE, !.missing = FALSE]],
            !.preview = IF @ \in OpenPaths(s) /\ ~s.tab[@].pinned THEN @ ELSE Nowhere,
            !.recent = s.tabs]

\* What every session is: each file has one tab, recency covers the tabs, what is
\* active or previewed is open, and an edited tab is pinned.  (A preview can be pinned:
\* it may be renamed to the path of a tab whose file is gone.)
SoundSession(s) ==
  /\ Range(s.tabs) = OpenPaths(s) /\ Len(s.tabs) = Cardinality(OpenPaths(s))
  /\ Range(s.recent) = OpenPaths(s) /\ Len(s.recent) = Len(s.tabs)
  /\ s.active # Nowhere => s.active \in OpenPaths(s)
  /\ s.preview # Nowhere => s.preview \in OpenPaths(s)
  /\ \A p \in OpenPaths(s) : s.tab[p].dirty => s.tab[p].pinned
==============================
