------------------------------- MODULE Routing -------------------------------
(***************************************************************************)
(* task_resources_cached: the resources a task asks the admission queue    *)
(* for, by the kind of the task. A task names the paths it reads, writes,  *)
(* links and changes; what is requested are the volumes of those paths,    *)
(* the changed paths themselves and the bytes that will be allocated. A    *)
(* path is given with its volume (storage_volume_group_key) as a record of *)
(* "on" and "at".                                                          *)
(***************************************************************************)
EXTENDS Naturals, Sequences, FiniteSets, FiniteSetsExt, Functions, TLC

CONSTANT Volumes       \* the storage volumes

\* ResourceRequest::default, by path.
Unrouted ==
  [run |-> "Blocking", network |-> "None", extract |-> FALSE, probe |-> FALSE, commit |-> FALSE,
   md5 |-> FALSE, read |-> {}, write |-> {}, metadata |-> {}, save |-> {},
   commits |-> {}, paths |-> {}, space |-> << >>, bytes |-> 0]

On(ps) == {p.on : p \in ps}

\* A reservation of no bytes is not made.
Space(size) == Restrict(size, {p \in DOMAIN size : size[p] > 0})

\* Several reservations on one volume are combined.
Combined(space) ==
  FoldSet(LAMBDA p, total : [total EXCEPT ![p.on] = @ + space[p]],
          [v \in Volumes |-> 0], DOMAIN space)

\* normalize_volumes: each volume once, and no metadata permit beside a write permit.
Normalize(d) ==
  [run |-> d.run, network |-> d.network, extract |-> d.extract, probe |-> d.probe,
   commit |-> d.commit, md5 |-> d.md5,
   vol |-> [read |-> On(d.read), write |-> On(d.write), metadata |-> On(d.metadata) \ On(d.write),
            save |-> On(d.save), archive |-> On(d.commits)],
   crossing |-> On(d.commits \cap d.write), paths |-> {p.at : p \in d.paths},
   store |-> Combined(d.space),
   bytes |-> d.bytes]

-----------------------------------------------------------------------------
(* One operator for each kind of task. *)

\* A file is verified on the volume of its directory; md5_verify_batch_index looks for MD5 hashes.
Verify(path, size, md5) ==
  Normalize([Unrouted EXCEPT !.run = "Cpu", !.md5 = md5, !.read = {path}, !.bytes = size])

\* The bytes of the .range.part file that are there are not reserved again.
FetchArchiveRange(part, range, length, present, priority) ==
  Normalize([Unrouted EXCEPT
    !.run = "AsyncIo",
    !.network = IF priority = "ExtractionCritical" THEN "Archive" ELSE "ArchiveBackground",
    !.write = {part}, !.paths = {part, range},
    !.space = Space(part :> IF present < length THEN length - present ELSE 0),
    !.bytes = length])

\* The candidates lie on one volume.
VerifyReuseVolume(candidates, size) ==
  Normalize([Unrouted EXCEPT !.run = "Cpu", !.probe = TRUE, !.bytes = size,
                             !.read = IF candidates = << >> THEN {} ELSE {Head(candidates)}])

\* A copy, or a hardlink within the volume of its destination.
ReuseFile(source, dest, size, copyOnly) ==
  Normalize(IF copyOnly
            THEN [Unrouted EXCEPT !.run = "AsyncIo", !.read = {source}, !.write = {dest},
                                  !.paths = {dest}, !.bytes = size,
                                  !.space = Space(dest :> size)]
            ELSE [Unrouted EXCEPT !.run = "Cpu", !.commit = TRUE, !.read = {dest},
                                  !.metadata = {dest}, !.paths = {dest}, !.bytes = size])

\* A shard is unpacked to a staging directory; with direct commit each file then goes to its
\* destination, by a rename or, from another volume, by a copy. Space is needed for the files where
\* they end, and for the largest one where they are staged unless some end there.
ExtractArchiveShard(parts, staging, size, direct, cost) ==
  LET dests    == IF direct THEN DOMAIN size ELSE {}
      crossing == {p \in dests : p.on # staging.on}
      staged   == IF ~direct THEN MapThenSumSet(LAMBDA p : size[p], DOMAIN size)
                  ELSE IF \E p \in dests \ crossing : size[p] > 0 THEN 0
                  ELSE Max({size[p] : p \in dests} \cup {0})
  IN Normalize([Unrouted EXCEPT
       !.extract = TRUE, !.commits = dests, !.paths = dests,
       !.read = parts \cup crossing \cup (IF crossing = {} THEN {} ELSE {staging}),
       !.write = {staging} \cup crossing, !.metadata = dests \ crossing,
       !.space = Space(staging :> staged @@ Restrict(size, dests)),
       !.bytes = cost])

\* route_prepare_patch_apply: files of the staged patch that leave its volume, and an asset
\* root of so many bytes that is moved to another volume, need space at their destinations.
PreparePatchApply(plan, assets, size) ==
  LET moved == {p \in DOMAIN size : p.on # plan.stage.on}
      root  == IF plan.logical.on = plan.vfs.on THEN 0 ELSE assets
  IN Normalize([Unrouted EXCEPT
       !.read = {plan.stage}, !.write = {plan.install, plan.vfs} \cup plan.work,
       !.paths = {plan.install, plan.stage, plan.vfs},
       !.space = Space(plan.vfs :> root @@ Restrict(size, moved))])
=============================================================================
