------------------------------ MODULE FileTree ------------------------------
(***************************************************************************)
(* What the in-memory file system promises: a tree of directories and      *)
(* files named by paths.  An operation may always be refused.              *)
(***************************************************************************)
EXTENDS Sequences, SequencesExt

CONSTANTS Path, Contents

\* A function from the paths that exist to "dir" or a file's contents.
VARIABLE tree

Dir == "dir"
IsDir(t, p) == p \in DOMAIN t /\ t[p] = Dir
Under(t, p) == {q \in DOMAIN t : IsPrefix(p, q)}
Without(t, ps) == [q \in DOMAIN t \ ps |-> t[q]]

Init == tree = [p \in {<<>>} |-> Dir]

(* What a step makes of a tree t. *)

Add(t, p, what) ==
  IF p # <<>> /\ p \notin DOMAIN t /\ IsDir(t, Front(p))
  THEN {[q \in DOMAIN t \cup {p} |-> IF q = p THEN what ELSE t[q]]} ELSE {}

Rmdir(t, p) == IF p # <<>> /\ IsDir(t, p) /\ Under(t, p) = {p} THEN {Without(t, {p})} ELSE {}

\* Removing a directory takes everything below it away.
RemoveTree(t, p) == IF p # <<>> /\ p \in DOMAIN t THEN {Without(t, Under(t, p))} ELSE {}

Write(t, p, c) == IF p \in DOMAIN t /\ t[p] # Dir THEN {[t EXCEPT ![p] = c]} ELSE {}

After(t) ==
  UNION {Rmdir(t, p) \cup RemoveTree(t, p) : p \in Path}
  \cup UNION {Add(t, p, what) : p \in Path, what \in {Dir} \cup Contents}
  \cup UNION {Write(t, p, c) : p \in Path, c \in Contents}

Next == \E t \in {tree} : tree' \in After(t)

Spec == Init /\ [][Next]_tree
=============================================================================
