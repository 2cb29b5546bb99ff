---------------------------- MODULE MCAdmission ----------------------------
(* Small instances of Admission: a few tasks, requested for by Routing. *)
EXTENDS Admission, Routing, TLC

CONSTANTS verify1, verify2      \* two verifications that differ in name only

MCVolume == {"v1", "v2"}

\* The install root, with the range cache in it, on one volume; a library of files to verify and the
\* staging directories on the other.
Here(p)  == [on |-> "v1", at |-> p]
There(p) == [on |-> "v2", at |-> p]
MCPath == {<<"game">>, <<"game", "b">>, <<"game", "vfs">>, <<"game", "range">>, <<"game", "part">>,
           <<"lib", "f">>, <<"stage">>, <<"unpack">>}

Ssd(n) == [mode |-> "Mixed", read |-> 2, write |-> 1, metadata |-> 2, pressure |-> n]
Hdd(n) == [mode |-> "Exclusive", read |-> 2, write |-> 1, metadata |-> 1, pressure |-> n]
MCMixed    == [v \in MCVolume |-> Ssd(2)]
SsdAndHdd  == [v \in MCVolume |-> IF v = "v1" THEN [Ssd(4) EXCEPT !.write = 2] ELSE Hdd(2)]

MCOneSlot  == [s \in {"cpu", "blocking", "network", "extract", "reuse"} |-> 1]
MCTwoBlocking == [MCOneSlot EXCEPT !["blocking"] = 2]
MCDisk     == [v \in MCVolume |-> 4]

\* Verification in batches on an Exclusive volume; an archive range, a patch and an extraction that
\* compete for the free bytes of the other one; the patch changes the whole install root.
Plan == [stage |-> There(<<"stage">>), install |-> Here(<<"game">>), vfs |-> Here(<<"game", "vfs">>),
         logical |-> Here(<<"game", "vfs">>), work |-> {}]
BusyTasks ==
  [t \in {verify1, verify2} |-> Verify(There(<<"lib", "f">>), 1, TRUE)]
  @@ "fetch" :> FetchArchiveRange(Here(<<"game", "part">>), Here(<<"game", "range">>), 2, 1,
                                  "ExtractionCritical")
  @@ "patch" :> PreparePatchApply(Plan, 0, [p \in {Here(<<"game", "b">>)} |-> 2])
  @@ "extract" :> ExtractArchiveShard({Here(<<"game", "range">>)}, There(<<"unpack">>),
                                      [p \in {Here(<<"game", "b">>)} |-> 2], TRUE, 1)
\* TLC evaluates a definition once, but what a .cfg substitutes each time: hence two names.
BusyReq == BusyTasks
MCTwoKinds == SsdAndHdd

Twins == Permutations({verify1, verify2})
\* The network cursor chooses among AsyncIo tasks; here there is one, so it decides nothing.
WithoutCursor == <<queueVars, resourceVars, cache, streak, runCursor, passVars, diskVars>>

\* A verification that keeps coming back beside a hardlink and the reuse probe it
\* holds up, all of one class.
BurstTasks ==
  "retry" :> Verify(Here(<<"game", "b">>), 1, TRUE)
  @@ "link" :> ReuseFile(There(<<"lib", "f">>), There(<<"unpack">>), 1, FALSE)
  @@ "probe" :> VerifyReuseVolume(<< Here(<<"game", "b">>) >>, 1)
BurstReq == BurstTasks
=============================================================================
