----------------------------- MODULE WorkspaceSync -----------------------------
(***************************************************************************)
(* scripts/workspace-sync.py and the copy of it that                       *)
(* install-worktree-sync.sh installs for `gwt`: after every change of the  *)
(* git worktrees the Cursor workspace file is rewritten from git's list,   *)
(* keeping whatever else is in it.  Commands in two terminals sync at the  *)
(* same time, Cursor's user edits the same file, in which Cursor allows    *)
(* comments and trailing commas, and any of them may be interrupted.       *)
(***************************************************************************)
EXTENDS Common

CONSTANTS
    Worktrees,      \* worktrees there may be beside the main one
    Syncs,          \* processes that sync
    Preferences     \* what else Cursor may keep in the file

ASSUME WorkspaceAssumption == None \notin Preferences

VARIABLES
    linked,     \* the linked worktrees, as git lists them
    workspace,  \* the file: [kind: "absent", "torn", "whole" or "commented" (whole, but no
                \* strict JSON), folders, settings]
    syncing,    \* [step, folders, kept: the file as it was read, alone: nothing else
                \*  happened since it began]
    chosen,     \* the settings the user saved last
    disturbed,  \* a sync was cut between emptying and filling the file, or overlapped
                \* another or the saving of settings
    unparsed    \* a sync has read a commented file

workspaceVars == <<linked, workspace, syncing, chosen, disturbed, unparsed>>

Absent == [kind |-> "absent", folders |-> {}, settings |-> None]
NotSyncing == [step |-> "idle", folders |-> {}, kept |-> Absent, alone |-> FALSE]
Syncing == {s \in Syncs : syncing[s].step # "idle"}
\* Whoever is at it is not alone any more.
Overlapped == [s \in Syncs |-> [syncing[s] EXCEPT !.alone = FALSE]]

WorkspaceInit ==
    /\ linked = {} /\ workspace = Absent /\ chosen = None /\ disturbed = FALSE /\ unparsed = FALSE
    /\ syncing = [s \in Syncs |-> NotSyncing]

ChangeWorktrees ==
    /\ linked' \in SUBSET Worktrees \ {linked}
    /\ syncing' = Overlapped
    /\ UNCHANGED <<workspace, chosen, disturbed, unparsed>>

\* Cursor's user saves settings in the file, with comments or without.
SaveSettings(p) ==
    /\ workspace.kind \in {"whole", "commented"}
    /\ \E kind \in {"whole", "commented"} :
          workspace' = [kind |-> kind, folders |-> workspace.folders, settings |-> p]
    /\ chosen' = p
    /\ syncing' = Overlapped /\ disturbed' = (disturbed \/ Syncing # {})
    /\ UNCHANGED <<linked, unparsed>>

\* _parse_worktrees: git's list, the main worktree first.
ListWorktrees(s) ==
    /\ syncing[s].step = "idle"
    /\ syncing' = [Overlapped EXCEPT ![s] = [NotSyncing EXCEPT !.step = "read", !.folders = linked,
                                                               !.alone = (Syncing = {})]]
    /\ disturbed' = (disturbed \/ Syncing # {})
    /\ UNCHANGED <<linked, workspace, chosen, unparsed>>

\* Of a file that does not parse nothing is kept.
ReadWorkspace(s) ==
    /\ syncing[s].step = "read"
    /\ syncing' = [syncing EXCEPT ![s].step = "truncate",
                                  ![s].kept = IF workspace.kind \in {"torn", "commented"} THEN Absent ELSE workspace]
    /\ unparsed' = (unparsed \/ workspace.kind = "commented")
    /\ UNCHANGED <<linked, workspace, chosen, disturbed>>

\* write_text empties the file, and then fills it.
Empty(s) ==
    /\ syncing[s].step = "truncate" /\ workspace' = [Absent EXCEPT !.kind = "torn"]
    /\ syncing' = [syncing EXCEPT ![s].step = "fill"]
    /\ UNCHANGED <<linked, chosen, disturbed, unparsed>>

\* Mutant: only the folders are written.
MergedFolders(s) == [kind |-> "whole", folders |-> syncing[s].folders, settings |-> None]

\* The new folders, and everything else that was in the file.
MergedFile(s) == [syncing[s].kept EXCEPT !.kind = "whole", !.folders = syncing[s].folders]

FillWorkspace(s) ==
    /\ syncing[s].step = "fill"
    /\ workspace' = MergedFile(s)
    /\ syncing' = [syncing EXCEPT ![s] = NotSyncing]
    /\ UNCHANGED <<linked, chosen, disturbed, unparsed>>

\* Interrupted, or git, the disk or the file's permissions fail.
SyncDies(s) ==
    /\ syncing[s].step # "idle"
    /\ syncing' = [syncing EXCEPT ![s] = NotSyncing]
    /\ disturbed' = (disturbed \/ syncing[s].step = "fill")
    /\ UNCHANGED <<linked, workspace, chosen, unparsed>>

WorkspaceNext ==
    \/ ChangeWorktrees
    \/ \E p \in Preferences : SaveSettings(p)
    \/ \E s \in Syncs : ListWorktrees(s) \/ ReadWorkspace(s) \/ Empty(s) \/ FillWorkspace(s) \/ SyncDies(s)

WorkspaceSpec == WorkspaceInit /\ [][WorkspaceNext]_workspaceVars

-----------------------------------------------------------------------------
\* Properties

(* A sync that had the worktrees and the file to itself leaves exactly git's list in
   the workspace, whatever was interrupted or overlapped before it: running it again
   repairs the file (Makefile:188 "repair after manual ops"). *)
SyncRepairs ==
    [][\A s \in Syncs : syncing[s].step = "fill" /\ syncing[s].alone /\ syncing'[s].step = "idle"
            /\ workspace'.kind = "whole" => workspace'.folders = linked]_<<workspace, syncing>>

(* The user's settings survive every sync, unless one was cut while it wrote, two
   writers met, or one read a file with comments in it (the first two the code does not
   promise anything for, SettingsKept is the promise for the third), and running it
   undisturbed repairs the folders after all of those. *)
WorkspaceKept ==
    /\ [](~disturbed /\ ~unparsed /\ workspace.kind # "torn" => workspace.settings = chosen)
    /\ SyncRepairs

(* "Preserve any existing non-folder keys (settings, extensions, etc.) so user
   customisations stored in the workspace file are not lost" (workspace-sync.py:72-73).
   The code does not keep it, even for a sync that nothing disturbs: the settings of a
   file with a comment or a trailing comma are dropped with the JSONDecodeError
   (:76-79). *)
SettingsKept == ~disturbed /\ workspace.kind # "torn" => workspace.settings = chosen
=============================================================================
