------- MODULE OpenFiles -------
(****************************************)
(* Editing files of one worktree in one window: the tabs and drafts that *)
(* src/renderer/app/App.tsx keeps, the viewer that shows one file *)
(* (features/viewer/Viewer.tsx) with its editor (useEditableFileDraft.ts), *)
(* and the server's save (src/main/files/FileService.ts, write), while other *)
(* programs change the files. *)
(* *)
(* A text is a number; every edit, of the user or of another program, makes *)
(* a new one.  What is read or saved arrives later than it was asked for. *)
(****************************************)
EXTENDS TabSession

CONSTANTS
  MaxTexts,   \* bound: how many texts are typed, the first of a file is 0
  MaxChanges, \* bound: how often a file is renamed, deleted or changed by another program
  Saves       \* bound: the saves that may be under way at once

ASSUME OpenFilesAssumption == MaxTexts \in Nat /\ MaxChanges \in Nat /\ Saves # {} /\ Nowhere \notin Saves

VARIABLES
  disk,       \* the files: a text, or Absent
  texts,      \* how many texts were typed
  changes,    \* how often files were renamed, deleted or changed outside
  session,    \* fileSessionsRef: the tabs
  drafts,     \* fileDraftsRef: unsaved text, and the text the edit began from
  viewer,     \* Viewer and the mounted editor
  save,       \* per save its state
  prompt,     \* dirtyCloseResolver: the tab whose close asks, or Nowhere
  snapshot,   \* the listing that is on its way, and the last one applied
  pending,    \* pendingViewerPathRef
  renaming,   \* the rename that is under way
  last,       \* history: per file the text last typed and neither saved nor given up, and the
              \* text on screen when the user began
  raced       \* history: files typed into during a save or renamed during one ("save"), and
              \* files typed into after their tab closed or whose tab or editor a rename met ("tab")

vars == <<disk, texts, changes, session, drafts, viewer, save, prompt, snapshot, pending, renaming, last, raced>>

Absent == -1
Text == 0..(MaxTexts + MaxChanges)
Content == Text \cup {Absent}

\* path is the selection.  data is the document on screen, its content what the editor
\* compares with; draft is the editor's text; reading and answer are the latest request.
Viewer == [path : Paths \cup {Nowhere}, data : Paths \cup {Nowhere}, content : Text,
           draft : Text, fileDirty : BOOLEAN, failed : BOOLEAN,
           reading : {"none", "asked", "answered"}, answer : Content,
           saving : Saves \cup {Nowhere}]

NoView == [path |-> Nowhere, data |-> Nowhere, content |-> 0, draft |-> 0,
           fileDirty |-> FALSE, failed |-> FALSE, reading |-> "none", answer |-> Absent,
           saving |-> Nowhere]

NoSave == [from |-> "none", path |-> Nowhere, content |-> 0, expected |-> 0, stage |-> "none"]
NoRename == [from |-> Nowhere, to |-> Nowhere, stage |-> "none"]

Draft == [content : Text, expected : Text]
Nothing == [text |-> Absent, base |-> Absent]

\* The tabs are sound, too: one per file, and an edited tab never is the preview that the
\* next file replaces; what the viewer shows has a tab (App.tsx:1119).
TypeOK ==
  /\ disk \in [Paths -> Content] /\ texts \in 0..MaxTexts /\ changes \in 0..MaxChanges
  /\ OpenPaths(session) \subseteq Paths /\ \A p \in OpenPaths(session) : session.tab[p] \in Tab
  /\ DOMAIN drafts \subseteq Paths /\ \A p \in DOMAIN drafts : drafts[p] \in Draft
  /\ viewer \in Viewer
  /\ \A i \in Saves : save[i].stage \in {"none", "sent", "compared", "saved",
                                         "conflict", "error", "closing"}
  /\ prompt \in Paths \cup {Nowhere} /\ pending \in Paths \cup {Nowhere}
  /\ snapshot.known \in [Paths -> Content]
  /\ renaming.stage \in {"none", "sent", "done", "refused"}
  /\ last \in [Paths -> [text : Content, base : Content]] /\ raced \subseteq Paths \X {"save", "tab"}
  /\ SoundSession(session)
  /\ viewer.path # Nowhere => viewer.path \in OpenPaths(session)

Init ==
  /\ disk = [p \in Paths |-> 0] /\ texts = 0 /\ changes = 0
  /\ session = EmptySession /\ drafts = <<>> /\ viewer = NoView
  /\ save = [i \in Saves |-> NoSave] /\ prompt = Nowhere
  /\ snapshot = [answered |-> FALSE, listing |-> disk, known |-> disk]
  /\ pending = Nowhere /\ renaming = NoRename
  /\ last = [p \in Paths |-> Nothing] /\ raced = {}
------------------------------
(* The viewer. *)

DraftFor(d, p, content) == IF p \in DOMAIN d THEN d[p].content ELSE content
Dropped(d, ps) == [q \in DOMAIN d \ ps |-> d[q]]

Mounted(v) == v.data # Nowhere /\ ~v.failed

\* The editor mounts on the draft that App holds, else on the file's content.
Mount(v, p, content, d) ==
  [v EXCEPT !.data = p, !.content = content, !.draft = DraftFor(d, p, content),
            !.fileDirty = DraftFor(d, p, content) # content, !.failed = FALSE, !.saving = Nowhere]

\* The file of the mounted editor has new content: a clean editor adopts it.
Refiled(v, content) ==
  LET draft == IF v.draft = v.content THEN content ELSE v.draft
  IN [v EXCEPT !.content = content, !.draft = draft,
               !.fileDirty = IF (v.draft # v.content) # (draft # content) THEN draft # content ELSE @]

\* The load effect: a new request, which forgets an error and so mounts the editor again.
Load(v, d) ==
  LET shown == IF v.failed /\ v.data # Nowhere THEN Mount(v, v.data, v.content, d) ELSE [v EXCEPT !.failed = FALSE]
  IN IF v.path = Nowhere THEN NoView
     ELSE [shown EXCEPT !.reading = "asked", !.answer = Absent]

\* selectViewer with a new selection object, also for the file already shown.
Select(v, p, d) == Load([v EXCEPT !.path = p, !.fileDirty = FALSE], d)

Commit(s, d, v) == session' = s /\ drafts' = d /\ viewer' = v

\* The server reads the file of the latest request.
ReadFile ==
  /\ viewer.reading = "asked"
  /\ viewer' = [viewer EXCEPT !.reading = "answered", !.answer = disk[viewer.path]]
  /\ UNCHANGED <<disk, texts, changes, session, drafts, save, prompt, snapshot, pending, renaming, last, raced>>

Shown(v, d) ==
  IF v.data # v.path \/ ~Mounted(v) THEN Mount(v, v.path, v.answer, d)
  ELSE IF v.fileDirty \/ v.content = v.answer THEN v
  ELSE Refiled(v, v.answer)

FileArrives ==
  /\ viewer.reading = "answered"
  /\ viewer' = [(IF viewer.answer = Absent THEN [viewer EXCEPT !.failed = TRUE]
                 ELSE Shown(viewer, drafts)) EXCEPT !.reading = "none", !.answer = Absent]
  /\ UNCHANGED <<disk, texts, changes, session, drafts, save, prompt, snapshot, pending, renaming, last, raced>>

SavesOf(p) == {i \in Saves : save[i].stage # "none" /\ save[i].path = p}

\* storeFileDraft.
Stored(d, p, content, expected) ==
  IF content = expected THEN Dropped(d, {p})
  ELSE [q \in DOMAIN d \cup {p} |->
          IF q # p THEN d[q]
          ELSE [content |-> content, expected |-> IF p \in DOMAIN d THEN d[p].expected ELSE expected]]

\* The user types in the editor on screen, or takes all edits back.
Type ==
  /\ Mounted(viewer) /\ prompt = Nowhere
  /\ LET p == viewer.data IN
     \E t \in (IF texts < MaxTexts THEN {texts + 1} ELSE {}) \cup {viewer.content} :
       /\ t # viewer.draft
       /\ texts' = IF t = viewer.content THEN texts ELSE t
       /\ viewer' = [viewer EXCEPT !.draft = t, !.fileDirty = t # viewer.content]
       /\ drafts' = Stored(drafts, p, t, viewer.content)
       /\ session' = IF t = viewer.content THEN SetDirty(session, p, FALSE)
                     ELSE IF p \in DOMAIN drafts THEN session ELSE SetDirty(session, p, TRUE)
       /\ last' = [last EXCEPT ![p] = IF t = viewer.content THEN Nothing
                                     ELSE [text |-> t, base |-> IF @ = Nothing THEN viewer.content ELSE @.base]]
       /\ raced' = raced \cup (IF SavesOf(p) # {} THEN {<<p, "save">>} ELSE {})
                        \cup (IF p \notin OpenPaths(session) THEN {<<p, "tab">>} ELSE {})
  /\ UNCHANGED <<disk, changes, save, prompt, snapshot, pending, renaming>>
------------------------------
(* Tabs. *)

\* openFile.
OpenFile ==
  /\ prompt = Nowhere
  /\ \E p \in Paths, mode \in {"preview", "pinned"} :
       LET opened == Opened(session, p, mode)
           kept == Dropped(drafts, opened.evicted)
       IN /\ p \in OpenPaths(session) \/ snapshot.known[p] # Absent
          /\ Commit(opened.session, kept, Select(viewer, p, kept))
  /\ UNCHANGED <<disk, texts, changes, save, prompt, snapshot, pending, renaming, last, raced>>

\* activateFileTab and the shortcuts that go to the next or previous tab.
ActivateFileTab ==
  /\ prompt = Nowhere
  /\ \E p \in OpenPaths(session) :
       Commit(ActivateTab(session, p), drafts, Select(viewer, p, drafts))
  /\ UNCHANGED <<disk, texts, changes, save, prompt, snapshot, pending, renaming, last, raced>>

\* reorderFileTab.
ReorderFileTab ==
  /\ \E p \in OpenPaths(session), i \in 1..Len(session.tabs) :
       i # Position(session.tabs, p) /\ session' = MoveTab(session, p, i)
  /\ UNCHANGED <<disk, texts, changes, drafts, viewer, save, prompt, snapshot, pending, renaming, last, raced>>

\* Leaving the Files view selects nothing, returning to it the active tab.
SwitchView ==
  /\ prompt = Nowhere
  /\ LET p == IF viewer.path = Nowhere THEN session.active ELSE Nowhere
     IN p # viewer.path /\ viewer' = Select(viewer, p, drafts)
  /\ UNCHANGED <<disk, texts, changes, session, drafts, save, prompt, snapshot, pending, renaming, last, raced>>

\* closeFileTab once nothing stands against it: the draft goes with the tab.
Closed(p) ==
  LET s == CloseTab(session, p)
      d == Dropped(drafts, {p})
  IN /\ Commit(s, d, IF viewer.path = p THEN Select(viewer, s.active, d) ELSE viewer)

\* Whether closing the tab has to ask first.
Asks(p) == IsDirty(session, p)

CloseFileTab ==
  /\ prompt = Nowhere
  /\ \E p \in OpenPaths(session) :
       IF Asks(p)
       THEN prompt' = p /\ UNCHANGED <<session, drafts, viewer>>
       ELSE Closed(p) /\ UNCHANGED prompt
  /\ UNCHANGED <<disk, texts, changes, save, snapshot, pending, renaming, last, raced>>

Cancel ==
  /\ prompt # Nowhere /\ prompt' = Nowhere
  /\ UNCHANGED <<disk, texts, changes, session, drafts, viewer, save, snapshot, pending, renaming, last, raced>>

Discard ==
  /\ prompt # Nowhere /\ prompt' = Nowhere
  /\ Closed(prompt) /\ last' = [last EXCEPT ![prompt] = Nothing]
  /\ UNCHANGED <<disk, texts, changes, save, snapshot, pending, renaming, raced>>

\* saveFileDraft for a tab that closes: the draft as App holds it.
SaveAndClose ==
  /\ prompt # Nowhere /\ prompt' = Nowhere
  /\ IF prompt \notin DOMAIN drafts
     THEN Closed(prompt) /\ UNCHANGED save
     ELSE /\ \E i \in Saves :
               /\ save[i] = NoSave
               /\ save' = [save EXCEPT ![i] =
                     [from |-> "close", path |-> prompt, content |-> drafts[prompt].content,
                      expected |-> drafts[prompt].expected, stage |-> "sent"]]
          /\ UNCHANGED <<session, drafts, viewer>>
  /\ UNCHANGED <<disk, texts, changes, snapshot, pending, renaming, last, raced>>
------------------------------
(* Saving. *)

\* Bug: a save compares with the file as it was read last.
ExpectedOnScreen(p) == viewer.content

\* An edit that survived a tab switch keeps the text it began from.
Expected(p) == IF p \in DOMAIN drafts THEN drafts[p].expected ELSE viewer.content

\* save of useEditableFileDraft, saveFile of the viewer.
SaveEditor ==
  /\ Mounted(viewer) /\ prompt = Nowhere
  /\ viewer.draft # viewer.content /\ viewer.saving = Nowhere
  /\ \E i \in Saves :
       /\ save[i] = NoSave
       /\ save' = [save EXCEPT ![i] =
             [from |-> "editor", path |-> viewer.data, content |-> viewer.draft,
              expected |-> Expected(viewer.data), stage |-> "sent"]]
       /\ viewer' = [viewer EXCEPT !.saving = i]
  /\ UNCHANGED <<disk, texts, changes, session, drafts, prompt, snapshot, pending, renaming, last, raced>>

Stage(i, stage) == save' = [save EXCEPT ![i].stage = stage]

\* FileService.write: the file is compared, the text written beside it, the file compared
\* again and replaced.  A file that is gone is an error.  (The first comparison finds
\* nothing that the second one doesn't.)
Compare ==
  /\ \E i \in Saves :
       /\ save[i].stage = "sent"
       /\ Stage(i, IF disk[save[i].path] = Absent THEN "error"
                   ELSE IF disk[save[i].path] # save[i].expected THEN "conflict" ELSE "compared")
  /\ UNCHANGED <<disk, texts, changes, session, drafts, viewer, prompt, snapshot, pending, renaming, last, raced>>

Replace ==
  /\ \E i \in Saves :
       /\ save[i].stage = "compared" /\ Stage(i, "saved")
       /\ disk' = [disk EXCEPT ![save[i].path] = save[i].content]
       /\ last' = IF last[save[i].path].text # save[i].content THEN last
                  ELSE [last EXCEPT ![save[i].path] = Nothing]
  /\ UNCHANGED <<texts, changes, session, drafts, viewer, prompt, snapshot, pending, renaming, raced>>

Released(v, i) == IF v.saving = i THEN [v EXCEPT !.saving = Nowhere] ELSE v

\* A save that failed or met a conflict keeps tab and draft.
SaveFails ==
  /\ \E i \in Saves :
       /\ save[i].stage \in {"conflict", "error"}
       /\ save' = [save EXCEPT ![i] = NoSave] /\ viewer' = Released(viewer, i)
  /\ UNCHANGED <<disk, texts, changes, session, drafts, prompt, snapshot, pending, renaming, last, raced>>

\* onDraftSaved drops the draft and marks the tab clean; the viewer takes the saved text
\* for the file's content.
EditorSaved ==
  /\ \E i \in Saves :
       LET p == save[i].path
           v == [Released(viewer, i) EXCEPT !.fileDirty = FALSE]
       IN /\ save[i].stage = "saved" /\ save[i].from = "editor"
          /\ save' = [save EXCEPT ![i] = NoSave]
          /\ Commit(SetDirty(session, p, FALSE), Dropped(drafts, {p}),
                    IF v.data # p THEN v
                    ELSE IF Mounted(v) THEN Refiled(v, save[i].content)
                    ELSE [v EXCEPT !.content = save[i].content])
  /\ UNCHANGED <<disk, texts, changes, prompt, snapshot, pending, renaming, last, raced>>

\* saveFileDraft drops the draft, refreshes, and only then closes the tab.
DraftSaved ==
  /\ \E i \in Saves :
       /\ save[i].stage = "saved" /\ save[i].from = "close" /\ Stage(i, "closing")
       /\ drafts' = Dropped(drafts, {save[i].path})
       /\ session' = SetDirty(session, save[i].path, FALSE)
  /\ UNCHANGED <<disk, texts, changes, viewer, prompt, snapshot, pending, renaming, last, raced>>

CloseSaved ==
  /\ \E i \in Saves :
       /\ save[i].stage = "closing" /\ save' = [save EXCEPT ![i] = NoSave]
       /\ Closed(save[i].path)
  /\ UNCHANGED <<disk, texts, changes, prompt, snapshot, pending, renaming, last, raced>>
------------------------------
(* The files change, and the window learns of it. *)

\* Another program writes, deletes or creates a file.
Change == changes < MaxChanges /\ changes' = changes + 1

Outside ==
  /\ Change
  /\ \E p \in Paths : \E c \in {MaxTexts + changes', Absent} :
       c # disk[p] /\ disk' = [disk EXCEPT ![p] = c]
  /\ UNCHANGED <<texts, session, drafts, viewer, save, prompt, snapshot, pending, renaming, last, raced>>

\* refreshFilesOnly and refresh, after an operation and every few seconds: the server
\* lists the files.
ListFiles ==
  /\ ~snapshot.answered
  /\ snapshot' = [snapshot EXCEPT !.answered = TRUE, !.listing = disk]
  /\ UNCHANGED <<disk, texts, changes, session, drafts, viewer, save, prompt, pending, renaming, last, raced>>

\* applyFilesSnapshot: tabs of files that are gone close, unless they are edited or the
\* file was just made; the file on screen is loaded again if it changed.
ApplyFilesSnapshot ==
  /\ snapshot.answered
  /\ LET listing == snapshot.listing
         open == OpenPaths(session)
         present == {p \in open : listing[p] # Absent}
         removed == {p \in open : listing[p] = Absent /\ p # pending}
         back == SetMissing(session, {}, present)
         s == RemoveUnder(back, removed)
         closed == ClosedAmong(back, removed)
         d == Dropped(drafts, closed)
         v == IF viewer.path \in closed THEN Select(viewer, s.active, d) ELSE viewer
         here == v.path # Nowhere /\ listing[v.path] # Absent
     IN /\ Commit(s, d, IF here /\ snapshot.known[v.path] # listing[v.path] THEN Load(v, d) ELSE v)
        /\ pending' = IF here /\ pending = v.path THEN Nowhere ELSE pending
        /\ snapshot' = [answered |-> FALSE, listing |-> listing, known |-> listing]
  /\ UNCHANGED <<disk, texts, changes, save, prompt, renaming, last, raced>>

\* renameFileEntry, moveFileEntries and cutFileEntries refuse a file with unsaved text.
Movable(p) == ~IsDirty(session, p)

RenameFileEntry ==
  /\ Change /\ renaming = NoRename /\ prompt = Nowhere
  /\ \E p, q \in Paths :
       /\ p # q /\ snapshot.known[p] # Absent /\ Movable(p)
       /\ renaming' = [from |-> p, to |-> q, stage |-> "sent"]
  /\ UNCHANGED <<disk, texts, session, drafts, viewer, save, prompt, snapshot, pending, last, raced>>

RenameOnDisk ==
  /\ renaming.stage = "sent"
  /\ IF disk[renaming.from] # Absent /\ disk[renaming.to] = Absent
     THEN /\ disk' = [disk EXCEPT ![renaming.to] = disk[renaming.from], ![renaming.from] = Absent]
          /\ renaming' = [renaming EXCEPT !.stage = "done"]
          /\ raced' = raced \cup (IF renaming.to \in OpenPaths(session) THEN {<<renaming.to, "tab">>} ELSE {})
     ELSE renaming' = [renaming EXCEPT !.stage = "refused"] /\ UNCHANGED <<disk, raced>>
  /\ UNCHANGED <<texts, changes, session, drafts, viewer, save, prompt, snapshot, pending, last>>

RenamedDrafts(d, from, to) ==
  IF from \notin DOMAIN d THEN d
  ELSE [q \in (DOMAIN d \ {from}) \cup {to} |-> IF q = to THEN d[from] ELSE d[q]]

\* reconcileViewerPaths: tab, draft and selection follow the file.
RenameAnswered ==
  /\ renaming.stage \in {"done", "refused"} /\ renaming' = NoRename
  /\ IF renaming.stage = "refused"
     THEN UNCHANGED <<session, drafts, viewer, pending, last, raced>>
     ELSE LET from == renaming.from
              to == renaming.to
              d == IF from \in OpenPaths(session) THEN RenamedDrafts(drafts, from, to) ELSE drafts
          IN /\ Commit(Renamed(session, from, to), d,
                       IF viewer.path = from THEN Select(viewer, to, d) ELSE viewer)
             /\ pending' = IF viewer.path = from THEN to ELSE pending
             /\ last' = IF last[from] = Nothing THEN last
                        ELSE [last EXCEPT ![to] = last[from], ![from] = Nothing]
             /\ raced' = raced \cup {<<to, r[2]>> : r \in {x \in raced : x[1] = from}}
                              \cup (IF to \in OpenPaths(session) \cup {viewer.data} THEN {<<to, "tab">>} ELSE {})
                              \cup (IF SavesOf(from) \cup SavesOf(to) # {} THEN {<<to, "save">>} ELSE {})
  /\ UNCHANGED <<disk, texts, changes, save, prompt, snapshot>>

\* settleDestructiveAction: the file is moved to the trash, then its tab closes unless it
\* is edited.
DeleteFileEntry ==
  /\ Change /\ renaming = NoRename /\ prompt = Nowhere
  /\ \E p \in Paths :
       LET s == RemoveUnder(session, {p})
           d == Dropped(drafts, ClosedAmong(session, {p}))
       IN /\ disk[p] # Absent /\ disk' = [disk EXCEPT ![p] = Absent]
          /\ Commit(s, d, IF viewer.path = p THEN Select(viewer, s.active, d) ELSE viewer)
  /\ UNCHANGED <<texts, save, prompt, snapshot, pending, renaming, last, raced>>

\* The window loads again, by itself after a server update or by its user: unsaved tabs
\* stand against it.
Reload ==
  /\ \A p \in Paths : ~IsDirty(session, p)
  /\ renaming = NoRename /\ \A i \in Saves : save[i] = NoSave
  /\ Commit(Restored(session), <<>>, Select(NoView, session.active, <<>>))
  /\ prompt' = Nowhere /\ pending' = Nowhere
  /\ snapshot' = [answered |-> FALSE, listing |-> disk, known |-> disk]
  /\ UNCHANGED <<disk, texts, changes, save, renaming, last, raced>>

Next ==
  \/ ReadFile \/ FileArrives \/ Type
  \/ OpenFile \/ ActivateFileTab \/ ReorderFileTab \/ SwitchView
  \/ CloseFileTab \/ Cancel \/ Discard \/ SaveAndClose
  \/ SaveEditor \/ Compare \/ Replace \/ SaveFails \/ EditorSaved \/ DraftSaved \/ CloseSaved
  \/ Outside \/ ListFiles \/ ApplyFilesSnapshot
  \/ RenameFileEntry \/ RenameOnDisk \/ RenameAnswered \/ DeleteFileEntry \/ Reload

Spec == Init /\ [][Next]_vars
------------------------------
\* Text that was typed and neither saved nor discarded is held as a draft, under a tab
\* that is marked as edited, so that nothing closes it without asking, and the editor of
\* its file shows it.
Held(p) ==
  /\ p \in DOMAIN drafts /\ drafts[p].content = last[p].text
  /\ IsDirty(session, p)
  /\ Mounted(viewer) /\ viewer.data = p => viewer.draft = last[p].text

Raced(p, kinds) == raced \cap ({p} \X kinds) # {}

\* Text that was typed while neither a save nor a close of its file was under way, and whose
\* file met no other file's tab or editor, and no save, in a rename, stays held through tab
\* switches, evictions, renames, deletions, refreshes and reloads (App.tsx:1085).
UnsavedIsHeld == \A p \in Paths : ~Raced(p, {"save", "tab"}) /\ last[p] # Nothing => Held(p)

\* A save that is compared with the file is compared with the text that the user began to
\* edit, even when the file was changed and read again meanwhile, so that a change which
\* the user never saw is a conflict (Viewer.tsx:198).
ComparedWithBase ==
  \A i \in Saves :
    LET p == save[i].path IN
    save[i].stage = "sent" /\ ~Raced(p, {"save", "tab"}) /\ last[p].text = save[i].content
      => save[i].expected = last[p].base

\* What was typed is neither forgotten nor saved over a change that its author never saw.
EditsAreSafe == UnsavedIsHeld /\ ComparedWithBase

\* docs/features.md:207 says one can keep typing while a file is saved: what is typed
\* then is held like any other text.
TypingWhileSaving == \A p \in Paths : ~Raced(p, {"tab"}) /\ last[p] # Nothing => Held(p)

\* docs/features.md:211 says an edited tab whose file disappeared stays open so that the
\* text can be recovered: once its tab is selected and loaded, the editor shows it.
DraftIsShown ==
  viewer.path # Nowhere /\ viewer.path \in DOMAIN drafts /\ viewer.reading = "none"
    => Mounted(viewer) /\ viewer.data = viewer.path /\ viewer.draft = drafts[viewer.path].content
==============================
