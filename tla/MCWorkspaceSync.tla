--------------------------- MODULE MCWorkspaceSync ---------------------------
(* Small instances of WorkspaceSync for TLC: two plain files, a directory, a *)
(* file over the size cap.                                                   *)
EXTENDS WorkspaceSync, TLC

CONSTANTS p1, p2, f1, f2, dir, huge, s1

OnePath  == {p1}
TwoPaths == {p1, p2}

\* Plain files are interchangeable, and so are paths.
Files         == Permutations({f1, f2})
PathsAndFiles == Files \cup Permutations({p1, p2})

\* What tells two states apart where a run's properties do not look at the
\* history, and the report is read by no command of the run.
Undated == <<tree, disk, mem, pc, due, rescan, seeded, watch, registered, lost, flight,
             dirty, resolved, pass, command, counters, missed>>
=============================================================================
