------------------------------ MODULE FileTree ------------------------------
(***************************************************************************)
(* The part of a file system the manifest updates depend on: one tree of   *)
(* files and directories below an install root, in which a file and a      *)
(* directory of one name exclude each other. A path is the sequence of its *)
(* components; it stands for every spelling normalize_logical_path takes   *)
(* to one key, which on Windows is one file.                               *)
(***************************************************************************)
EXTENDS Naturals, Sequences

CONSTANTS
  Path,        \* nonempty sequences of names, closed under nonempty prefixes
  Content,     \* contents a file can hold
  Size         \* their lengths

ASSUME TreeAssumption ==
  /\ Path \subseteq Seq(STRING)
  /\ \A p \in Path : Len(p) > 0 /\ \A n \in 1 .. Len(p) : SubSeq(p, 1, n) \in Path
  /\ DOMAIN Size = Content
  /\ Content \cap {"none", "dir", "link"} = {}

\* A link is a symbolic link or junction to a directory outside the install root; what the tree
\* has below it is what the link leads to.
Node == Content \cup {"none", "dir", "link"}
Directory == {"dir", "link"}

Ancestors(p) == {SubSeq(p, 1, n) : n \in 1 .. Len(p) - 1}
Below(p) == {q \in Path : p \in Ancestors(q)}

\* Every entry hangs below directories.
IsTree(t) == \A p \in Path : t[p] # "none" => \A a \in Ancestors(p) : t[a] \in Directory

HoldsFile(t, p) == t[p] \in Content

\* A temporary file can be renamed to p: its parents are, or can be created as, directories.
CanWrite(t, p) == t[p] \notin Directory /\ \A a \in Ancestors(p) : ~HoldsFile(t, a)

WriteFile(t, p, c) ==
  [q \in Path |-> IF q = p THEN c
                  ELSE IF q \in Ancestors(p) /\ t[q] = "none" THEN "dir"
                  ELSE t[q]]

RemoveFile(t, p) == [t EXCEPT ![p] = "none"]

\* remove_empty_dir returns an error for a link and for a directory with entries; a missing path and
\* a file are left alone.
CanRemoveDir(t, p) ==
  /\ t[p] # "link"
  /\ t[p] = "dir" => \A q \in Below(p) : t[q] = "none"

RemoveEmptyDir(t, p) == IF t[p] = "dir" THEN [t EXCEPT ![p] = "none"] ELSE t

\* verify::build_issue and build_metadata_issue: a directory matches no expected size.
Missing(t, p) == t[p] = "none"
Matches(t, p, c) == t[p] = c
SameSize(t, p, c) == HoldsFile(t, p) /\ Size[t[p]] = Size[c]
=============================================================================
