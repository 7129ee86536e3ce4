------------------------------- MODULE MemFs -------------------------------
(***************************************************************************)
(* The in-memory file system, src/harlin/fs/mem_fs.c: a pool of nodes      *)
(* linked into a tree by parent, first_child and next_sibling, with node 0 *)
(* as the root.  A path is the sequence of its segments, of which          *)
(* Harlin_PathParse keeps the first PATH_MAX_SEGMENTS.  The calls come     *)
(* from one thread, the boot thread.                                       *)
(***************************************************************************)
EXTENDS Integers, Sequences, SequencesExt

CONSTANTS MEM_FS_NODES, PATH_MAX_SEGMENTS,
          Name,              \* segments short enough for a node
          Data,              \* what a write stores
          MaxSegments        \* bound: segments of the paths callers pass

ASSUME MemFsAssumption ==
  /\ MEM_FS_NODES \in Nat \ {0} /\ PATH_MAX_SEGMENTS \in Nat \ {0} /\ MaxSegments \in Nat

VARIABLE nodes

Node == 0 .. MEM_FS_NODES - 1
NoNode == -1
Empty == "empty"
Path == UNION {[1 .. k -> Name] : k \in 0 .. MaxSegments}

\* What free_node and alloc_node leave in every field but `used'.
Cleared(used) ==
  [used |-> used, type |-> "none", name |-> "", parent |-> NoNode, first_child |-> NoNode,
   next_sibling |-> NoNode, payload |-> Empty]

Init ==
  nodes = [n \in Node |->
             IF n = 0 THEN [Cleared(TRUE) EXCEPT !.type = "dir", !.name = "/", !.parent = 0]
             ELSE Cleared(FALSE)]

Harlin_PathParse(path) ==
  SubSeq(path, 1, IF Len(path) < PATH_MAX_SEGMENTS THEN Len(path) ELSE PATH_MAX_SEGMENTS)

\* The k-th entry of the child list of node p.
Child(p) ==
  LET nth[k \in 0 .. MEM_FS_NODES] ==
        IF k = 0 THEN nodes[p].first_child
        ELSE LET c == nth[k - 1] IN IF c = NoNode THEN NoNode ELSE nodes[c].next_sibling
  IN  nth

Children(p) == LET nth == Child(p) IN {nth[k] : k \in 0 .. MEM_FS_NODES} \ {NoNode}

\* The walk along next_sibling from the first child; a list has at most
\* MEM_FS_NODES entries.
find_child(p, name) ==
  LET from[k \in 0 .. MEM_FS_NODES, c \in Node \cup {NoNode}] ==
        IF k = 0 \/ c = NoNode THEN NoNode
        ELSE IF nodes[c].name = name THEN c ELSE from[k - 1, nodes[c].next_sibling]
  IN  from[MEM_FS_NODES, nodes[p].first_child]

resolve_path(path) ==
  LET segs == Harlin_PathParse(path)
      node[i \in 0 .. Len(segs)] ==
        IF i = 0 THEN 0
        ELSE LET cur == node[i - 1] IN IF cur = NoNode THEN NoNode ELSE find_child(cur, segs[i])
  IN  node[Len(segs)]

-----------------------------------------------------------------------------
\* The lowest free node.
IsAlloc(n) == n \in Node /\ ~nodes[n].used /\ \A m \in Node : m < n => nodes[m].used

\* Mutated Linked: the list head is set before the new node's sibling.
LinkedHeadFirst(n, p, type, name) ==
  [nodes EXCEPT ![n] = [Cleared(TRUE) EXCEPT !.type = type, !.name = name, !.parent = p,
                                             !.next_sibling = n],
                ![p].first_child = n]

Linked(n, p, type, name) ==
  [nodes EXCEPT ![n] = [Cleared(TRUE) EXCEPT !.type = type, !.name = name, !.parent = p,
                                             !.next_sibling = nodes[p].first_child],
                ![p].first_child = n]

\* Harlin_MemFsMkdir and Harlin_MemFsCreate.
Make(path, type) ==
  LET segs == Harlin_PathParse(path)
      p == resolve_path(Front(segs))
  IN  /\ segs # <<>> /\ p # NoNode /\ nodes[p].type = "dir"
      /\ find_child(p, Last(segs)) = NoNode
      /\ \E n \in Node : IsAlloc(n) /\ nodes' = Linked(n, p, type, Last(segs))

Harlin_MemFsMkdir(path) == Make(path, "dir")
Harlin_MemFsCreate(path) == Make(path, "file")

\* Mutated Unlinked: the node is taken for the head of its list.
UnlinkedAsHead(n) ==
  [nodes EXCEPT ![nodes[n].parent].first_child = nodes[n].next_sibling, ![n] = Cleared(FALSE)]

Unlinked(n) ==
  LET p == nodes[n].parent
      before == {c \in Children(p) : nodes[c].next_sibling = n}
  IN  [c \in Node |->
        CASE c = n -> Cleared(FALSE)
          [] c = p /\ nodes[p].first_child = n ->
               [nodes[c] EXCEPT !.first_child = nodes[n].next_sibling]
          [] nodes[p].first_child # n /\ c \in before ->
               [nodes[c] EXCEPT !.next_sibling = nodes[n].next_sibling]
          [] OTHER -> nodes[c]]

Harlin_MemFsRmdir(path) ==
  LET n == resolve_path(path)
  IN  /\ n \notin {NoNode, 0} /\ nodes[n].type = "dir" /\ nodes[n].first_child = NoNode
      /\ nodes' = Unlinked(n)

\* Does not look at the type: a directory goes with its children still in it.
Harlin_MemFsRemove(path) ==
  LET n == resolve_path(path) IN n \notin {NoNode, 0} /\ nodes' = Unlinked(n)

Harlin_MemFsWrite(path, data) ==
  LET n == resolve_path(path)
  IN  /\ n # NoNode /\ nodes[n].type = "file"
      /\ nodes' = [nodes EXCEPT ![n].payload = data]

Next ==
  \E path \in Path :
    \/ Harlin_MemFsMkdir(path) \/ Harlin_MemFsCreate(path)
    \/ Harlin_MemFsRmdir(path) \/ Harlin_MemFsRemove(path)
    \/ \E data \in Data : Harlin_MemFsWrite(path, data)

Spec == Init /\ [][Next]_nodes

-----------------------------------------------------------------------------
\* Every node has its fields' types.
TypeOK ==
  nodes \in [Node -> [used : BOOLEAN, type : {"none", "dir", "file"}, name : Name \cup {"", "/"},
                      parent : Node \cup {NoNode}, first_child : Node \cup {NoNode},
                      next_sibling : Node \cup {NoNode}, payload : Data \cup {Empty}]]

\* The paths Harlin_PathParse reads to their end, and those that lead to a node.
WholePath == {p \in Path : Len(p) <= PATH_MAX_SEGMENTS}
Existing == {p \in WholePath : resolve_path(p) # NoNode}

\* Every directory a path reaches has a child list that ends, so find_child and
\* Harlin_MemFsLs terminate; its children are in use, name it as their parent,
\* and no two have the same name.
ListsSound ==
  \A p \in Existing :
    LET d == resolve_path(p)
    IN  /\ Child(d)[MEM_FS_NODES] = NoNode
        /\ \A c \in Children(d) : nodes[c].used /\ nodes[c].parent = d
        /\ \A b, c \in Children(d) : nodes[b].name = nodes[c].name => b = c

\* What a walk over the paths shows: "dir", or the contents of a file.
Shown == [p \in Existing |-> LET n == nodes[resolve_path(p)]
                             IN  IF n.type = "dir" THEN "dir" ELSE n.payload]
=============================================================================
