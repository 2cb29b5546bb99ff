--------------------------- MODULE ManifestUpdate ---------------------------
(***************************************************************************)
(* update_via_manifest: the normal update of a Hypergryph install from the *)
(* manifest of the installed release to the target's. Obsolete files that  *)
(* stand where the target needs a directory, or in a directory where it    *)
(* needs a file, go first; then every target file is ensured; then the     *)
(* other obsolete files go. A file goes only when it still holds what the  *)
(* current manifest lists. The user's files and changes are in the tree    *)
(* from the start, a batch can fail and the process can stop anywhere; the *)
(* next update repeats the command from the same current manifest, which   *)
(* is replaced (post_update) only after the last step.                     *)
(*                                                                         *)
(* An operator with an underscore in its name is a faulty variant of the   *)
(* definition after it and in no specification.                            *)
(***************************************************************************)
EXTENDS FileTree, FiniteSets

CONSTANTS
  Currents, Targets,     \* the manifests, path -> content, a behaviour can start with
  Foreign,               \* contents of no manifest: the user's files and changes
  MaxStops               \* bound on crashes and failed batches

ASSUME UpdateAssumption ==
  /\ Foreign \subseteq Content /\ MaxStops \in Nat
  /\ \A m \in Currents \cup Targets : DOMAIN m \subseteq Path
                                      /\ \A p \in DOMAIN m : m[p] \in Content \ Foreign

VARIABLES
  tree,
  current, target,       \* the manifests of the installed and of the new release
  run,                   \* the command: pc, files, directories and targets still to do
  stops,
  unix                   \* the platform: a path below a file is an error there, missing on Windows

consts == <<current, target, unix>>
vars == <<tree, consts, run, stops>>

Idle == [pc |-> "idle"]
Report(pc) == [pc |-> pc]

-----------------------------------------------------------------------------
(* What the manifests say. *)

\* validated_game_file_entries: no target file stands where another needs a directory.
ValidTarget == \A p \in DOMAIN target : Ancestors(p) \cap DOMAIN target = {}

\* obsolete_game_files_matching
Obsolete == DOMAIN current \ DOMAIN target

Blocks(p) == \/ Below(p) \cap DOMAIN target # {}
             \/ Ancestors(p) \cap DOMAIN target # {}

Blocking == {p \in Obsolete : Blocks(p)}

\* blocking_obsolete_game_files: the targets that are directories now.
TargetDirs == UNION {Ancestors(p) \cap DOMAIN target : p \in Obsolete}

\* blocking_owned_directories: the directories between such a target and an obsolete file.
OwnedDirs == {d \in UNION {Ancestors(p) : p \in Blocking} : Ancestors(d) \cap TargetDirs # {}}

\* ensure_manifest_delta_with_pool: entries both manifests list alike are checked by size only.
MetadataOnly(p) == p \in DOMAIN current /\ current[p] = target[p]

Intact(p) == IF MetadataOnly(p) THEN SameSize(tree, p, target[p]) ELSE Matches(tree, p, target[p])

-----------------------------------------------------------------------------
(* Removal of verified obsolete files, before and after the target files. *)

BelowFile(p) == \E a \in Ancestors(p) : HoldsFile(tree, a)

\* The path as written, its links not resolved.
Contained_Unresolved(p) == unix => ~BelowFile(p)

\* ensure_cleanup_path_is_contained: a missing path passes; otherwise the parent must resolve inside
\* the install root. Below a file, symlink_metadata fails on Unix with another error than NotFound.
Contained(p) == /\ tree[p] # "none" => \A a \in Ancestors(p) : tree[a] # "link"
                /\ unix => ~BelowFile(p)

Verified(ps) == {p \in ps : Matches(tree, p, current[p])}

\* compio::fs::metadata succeeds for anything that is there, a directory included.
Retained(ps) == {p \in ps : ~Missing(tree, p)} \ Verified(ps)

\* fail_on_modified: one retained blocker stops the update before anything is deleted.
Refuses(ps) == Retained(ps) # {}

\* update_via_manifest up to the first deletion: everything so far only reads.
Start ==
  /\ run.pc = "idle"
  /\ run' = IF ~ValidTarget \/ \E p \in Blocking : ~Contained(p) THEN Report("invalid")
            ELSE IF Refuses(Blocking) THEN Report("refused")
            ELSE [pc |-> "blocking", files |-> Verified(Blocking),
                  dirs |-> OwnedDirs, targets |-> TargetDirs]
  /\ UNCHANGED <<tree, consts, stops>>

Remove(p) ==
  /\ run.pc \in {"blocking", "cleanup"} /\ p \in run.files
  /\ tree' = RemoveFile(tree, p)
  /\ run' = [run EXCEPT !.files = @ \ {p}]
  /\ UNCHANGED <<consts, stops>>

Deepest(ds) == {d \in ds : \A x \in ds : Len(x) <= Len(d)}

NextDirs(r) == IF r.dirs # {} THEN r.dirs ELSE r.targets

\* remove_empty_dir for the owned directories, then for the targets, the deepest first.
RemoveDir(d) ==
  /\ run.pc = "blocking" /\ run.files = {}
  /\ d \in Deepest(NextDirs(run))
  /\ IF CanRemoveDir(tree, d) /\ (unix => ~BelowFile(d))
     THEN /\ tree' = RemoveEmptyDir(tree, d)
          /\ run' = IF run.dirs # {} THEN [run EXCEPT !.dirs = @ \ {d}]
                                     ELSE [run EXCEPT !.targets = @ \ {d}]
     ELSE tree' = tree /\ run' = Report("conflict")
  /\ UNCHANGED <<consts, stops>>

\* Without the directories of the targets.
Unblocked_Early ==
  /\ run.pc = "blocking" /\ run.files = {} /\ run.dirs = {}
  /\ run' = [pc |-> "ensure", files |-> DOMAIN target]
  /\ UNCHANGED <<tree, consts, stops>>

Unblocked ==
  /\ run.pc = "blocking" /\ run.files = {} /\ run.dirs = {} /\ run.targets = {}
  /\ run' = [pc |-> "ensure", files |-> DOMAIN target]
  /\ UNCHANGED <<tree, consts, stops>>

-----------------------------------------------------------------------------
(* The target files; FileTransfer shows how one is brought to its content. *)

EnsureFile(p) ==
  /\ run.pc = "ensure" /\ p \in run.files
  /\ Intact(p) \/ CanWrite(tree, p)
  /\ tree' = IF Intact(p) THEN tree ELSE WriteFile(tree, p, target[p])
  /\ run' = [run EXCEPT !.files = @ \ {p}]
  /\ UNCHANGED <<consts, stops>>

\* A task fails for want of a source, or because its path is taken; the batch ends with issues.
BatchFails ==
  /\ run.pc = "ensure" /\ run.files # {}
  /\ \/ \E p \in run.files : ~Intact(p) /\ ~CanWrite(tree, p) /\ run' = Report("conflict")
        /\ UNCHANGED stops
     \/ stops < MaxStops /\ stops' = stops + 1 /\ run' = Idle
  /\ UNCHANGED <<tree, consts>>

\* The cleanup of what blocked only.
StartCleanup_Blocking ==
  /\ run.pc = "ensure" /\ run.files = {}
  /\ run' = [pc |-> "cleanup", files |-> Verified(Blocking)]
  /\ UNCHANGED <<tree, consts, stops>>

\* remove_obsolete_game_files: everything obsolete, modified files being kept.
StartCleanup ==
  /\ run.pc = "ensure" /\ run.files = {}
  /\ run' = IF \E p \in Obsolete : ~Contained(p) THEN Report("invalid")
            ELSE [pc |-> "cleanup", files |-> Verified(Obsolete)]
  /\ UNCHANGED <<tree, consts, stops>>

Finish ==
  /\ run.pc = "cleanup" /\ run.files = {}
  /\ run' = Report("done")
  /\ UNCHANGED <<tree, consts, stops>>

-----------------------------------------------------------------------------
(* The environment. *)

Crash ==
  /\ run.pc \in {"blocking", "ensure", "cleanup"} /\ stops < MaxStops
  /\ stops' = stops + 1 /\ run' = Idle
  /\ UNCHANGED <<tree, consts>>

Ended == run.pc \in {"done", "invalid", "refused", "conflict"} /\ UNCHANGED vars

\* An installed release: its files in place, gone or changed, beside files, directories and links
\* of the user.
Init ==
  /\ current \in Currents /\ target \in Targets
  /\ tree \in {t \in [Path -> Node] :
       /\ IsTree(t)
       /\ \A p \in Path : \/ t[p] \in Foreign \cup {"none", "dir", "link"}
                          \/ p \in DOMAIN current /\ t[p] = current[p]}
  /\ run = Idle /\ stops = 0 /\ unix \in BOOLEAN

Next ==
  \/ Start \/ Unblocked \/ BatchFails \/ StartCleanup \/ Finish \/ Crash \/ Ended
  \/ \E p \in Path : Remove(p) \/ RemoveDir(p) \/ EnsureFile(p)

Spec == Init /\ [][Next]_vars

-----------------------------------------------------------------------------
(* Properties. *)

\* Types; every file hangs below directories.
TypeOK ==
  /\ tree \in [Path -> Node] /\ IsTree(tree)
  /\ current \in Currents /\ target \in Targets /\ unix \in BOOLEAN
  /\ run.pc \in {"idle", "blocking", "ensure", "cleanup", "invalid", "refused", "conflict",
               "done"}
  /\ stops \in 0 .. MaxStops

\* Deletion never reaches what the launcher does not own: in every step of an update, a file that
\* goes held exactly what the current manifest lists for it and lay inside the install root, no
\* link goes, and a file is overwritten only where the target manifest wants one
\* (remove_verified_obsolete_game_files, remove_empty_dir).
OwnedOnly ==
  [][\A p \in Path : tree[p] # "none" /\ tree'[p] # tree[p] =>
       \/ p \in DOMAIN target /\ tree'[p] = target[p]
       \/ tree[p] = "dir"
       \/ /\ p \in Obsolete /\ tree[p] = current[p] /\ tree'[p] = "none"
          /\ \A a \in Ancestors(p) : tree[a] # "link"]_vars

\* remove_blocking_obsolete_game_files prepares every transition between a file and a directory:
\* when the target files are ensured, no target is barred by what the old release left there.
TransitionsReady ==
  run.pc = "ensure" =>
    \A t \in DOMAIN target, p \in Obsolete :
      /\ p \in Ancestors(t) => ~HoldsFile(tree, p)
      /\ t \in Ancestors(p) => tree[t] \notin Directory

\* An update that finishes has every file of the target, but for entries it checks by size only,
\* and no unmodified file of the old release besides, whatever was interrupted before.
Complete ==
  run.pc = "done" =>
    /\ \A p \in DOMAIN target : \/ Matches(tree, p, target[p])
                                \/ MetadataOnly(p) /\ SameSize(tree, p, target[p])
    /\ \A p \in Obsolete : tree[p] # current[p]
=============================================================================
