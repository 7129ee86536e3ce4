------------------------------- MODULE CowFs -------------------------------
(***************************************************************************)
(* File versions over the in-memory file system, src/harlin/fs/cow_fs.c.   *)
(* A version belongs to a node index, not to a file: nothing frees a       *)
(* version when its file is removed.  A version's name is made of the last *)
(* three digits of a global counter; here the counter modulo VER_NAMES.    *)
(***************************************************************************)
EXTENDS MemFs, FiniteSets, FiniteSetsExt

CONSTANTS COW_MAX_VERSIONS, VER_NAMES,
          MaxVersion,        \* bound on ver_counter
          MaxDepth           \* bound: segments of the paths of versioned files

ASSUME CowAssumption ==
  /\ COW_MAX_VERSIONS \in Nat \ {0} /\ VER_NAMES \in Nat \ {0}
  /\ MaxVersion \in Nat /\ MaxDepth \in 0 .. PATH_MAX_SEGMENTS

VARIABLES versions, ver_counter,
          removed,           \* history: whether a file has been removed
          versioned          \* whether this behaviour calls cow_fs.c; never changes

vars == <<nodes, versions, ver_counter, removed, versioned>>

CowPath == {p \in Path : Len(p) <= MaxDepth}

Slot == 0 .. COW_MAX_VERSIONS - 1
VerName == 0 .. VER_NAMES - 1
NoVer == -1
Fail == "fail"

\* Mutated make_ver_name: a digit more than the name has room for.
MakeVerNameLong(n) == n % (VER_NAMES + 1)

make_ver_name(n) == n % VER_NAMES

CowInit ==
  /\ Init
  /\ versions = [i \in Slot |-> [used |-> FALSE, file_node |-> NoNode, ver |-> NoVer,
                                 payload |-> Empty]]
  /\ ver_counter = 0 /\ removed = FALSE /\ versioned \in BOOLEAN

Free == {i \in Slot : ~versions[i].used}
Of(n) == {i \in Slot : versions[i].used /\ versions[i].file_node = n}

\* Mutated find_ver: the node is not compared.
FindVerAnyNode(n, ver) ==
  LET at == {i \in Slot : versions[i].used /\ versions[i].ver = ver}
  IN  IF at = {} THEN NoNode ELSE Min(at)

\* The first version of that name the node has.
find_ver(n, ver) ==
  LET at == {i \in Of(n) : versions[i].ver = ver} IN IF at = {} THEN NoNode ELSE Min(at)

Version(n, ver, payload) ==
  [used |-> TRUE, file_node |-> n, ver |-> ver, payload |-> payload]

\* Counts even when every slot is taken; the new version is empty.
Harlin_CowSnapshot(path) ==
  LET n == resolve_path(path)
  IN  /\ n # NoNode
      /\ ver_counter < MaxVersion /\ ver_counter' = ver_counter + 1
      /\ versions' = IF Free = {} THEN versions
                     ELSE [versions EXCEPT ![Min(Free)] =
                             Version(n, make_ver_name(ver_counter'), Empty)]
      /\ UNCHANGED nodes

\* Mutated CowWriteNew: the counter is not advanced.
CowWriteUncounted(path, data) ==
  LET n == resolve_path(path)
  IN  /\ n # NoNode /\ Free # {}
      /\ versions' = [versions EXCEPT ![Min(Free)] =
                        Version(n, make_ver_name(ver_counter), data)]
      /\ UNCHANGED <<nodes, ver_counter>>

\* Harlin_CowWrite without an expected version adds one.
CowWriteNew(path, data) ==
  LET n == resolve_path(path)
  IN  /\ n # NoNode /\ Free # {}
      /\ ver_counter < MaxVersion /\ ver_counter' = ver_counter + 1
      /\ versions' = [versions EXCEPT ![Min(Free)] =
                        Version(n, make_ver_name(ver_counter'), data)]
      /\ UNCHANGED nodes

\* With one, it overwrites that version in place.
CowWriteExpected(path, expected_ver, data) ==
  LET n == resolve_path(path)
      slot == find_ver(n, expected_ver)
  IN  /\ n # NoNode /\ slot # NoNode
      /\ versions' = [versions EXCEPT ![slot].payload = data]
      /\ UNCHANGED <<nodes, ver_counter>>

\* Mutated Cloned: the contents are not copied.
ClonedEmpty(src, dst) ==
  LET from == SetToSortSeq(Of(src), <)
      to == SetToSortSeq(Free, <)
  IN  [i \in Slot |->
        IF \E k \in DOMAIN from \cap DOMAIN to : to[k] = i
        THEN LET k == CHOOSE k \in DOMAIN from \cap DOMAIN to : to[k] = i
             IN  [versions[from[k]] EXCEPT !.file_node = dst, !.payload = Empty]
        ELSE versions[i]]

\* The versions of src copied in slot order to the free slots in slot order.
Cloned(src, dst) ==
  LET from == SetToSortSeq(Of(src), <)
      to == SetToSortSeq(Free, <)
  IN  [i \in Slot |->
        IF \E k \in DOMAIN from \cap DOMAIN to : to[k] = i
        THEN LET k == CHOOSE k \in DOMAIN from \cap DOMAIN to : to[k] = i
             IN  [versions[from[k]] EXCEPT !.file_node = dst]
        ELSE versions[i]]

\* The new file is created first and stays when the slots run out.
Harlin_CowFork(src_path, dst_path) ==
  LET src == resolve_path(src_path)
  IN  /\ src # NoNode
      /\ Harlin_MemFsCreate(dst_path)
      /\ \E dst \in Node : IsAlloc(dst) /\ versions' = Cloned(src, dst)
      /\ UNCHANGED ver_counter

Harlin_CowReadAt(path, ver) ==
  LET n == resolve_path(path)
      slot == find_ver(n, ver)
  IN  IF n = NoNode \/ slot = NoNode THEN Fail ELSE versions[slot].payload

\* Calls on mem_fs.c by which the node of a version changes hands.
Plain ==
  /\ \E path \in CowPath :
       \/ Harlin_MemFsCreate(path) /\ removed' = removed
       \/ Harlin_MemFsRemove(path) /\ removed' = TRUE
  /\ UNCHANGED <<versions, ver_counter, versioned>>

Versions ==
  /\ \E path \in CowPath :
       \/ Harlin_CowSnapshot(path)
       \/ \E data \in Data : \/ CowWriteNew(path, data)
                             \/ \E ver \in VerName : CowWriteExpected(path, ver, data)
       \/ \E dst_path \in CowPath : Harlin_CowFork(path, dst_path)
  /\ UNCHANGED <<removed, versioned>>

CowNext ==
  \/ versioned /\ (Plain \/ Versions)
  \/ ~versioned /\ Next /\ UNCHANGED <<versions, ver_counter, removed, versioned>>

CowSpec == CowInit /\ [][CowNext]_vars

-----------------------------------------------------------------------------
Files == INSTANCE FileTree WITH
           Path <- WholePath, Contents <- Data \cup {Empty},
           tree <- IF versioned THEN [p \in {<<>>} |-> "dir"] ELSE Shown

\* Through any sequence of makes, removals and writes, with nodes reused and
\* nodes of removed directories left behind, lookups by path see a file tree.
\* (Stated for behaviours without versions; a fork only adds a create.)
ImplementsFileTree == Files!Spec

\* The nodes, the version table and its counter have their types.
CowTypeOK ==
  /\ TypeOK
  /\ versions \in [Slot -> [used : BOOLEAN, file_node : Node \cup {NoNode},
                            ver : VerName \cup {NoVer}, payload : Data \cup {Empty}]]
  /\ ver_counter \in 0 .. MaxVersion

\* Until a file is removed, no file has two versions of one name, although names
\* repeat after VER_NAMES versions: the slots run out first, and a write that
\* finds no slot does not count.
NamesDistinct ==
  ~removed => \A i, j \in Slot :
    /\ versions[i].used /\ versions[j].used
    /\ versions[i].file_node = versions[j].file_node /\ versions[i].ver = versions[j].ver
    => i = j

\* A step gives other contents to no more than one version of one file: clones
\* are independent of what they were cloned from.
Isolation ==
  [][LET changed == {s \in CowPath \X VerName :
                       LET before == Harlin_CowReadAt(s[1], s[2])
                       IN  before # Fail /\ Harlin_CowReadAt(s[1], s[2])' \notin {before, Fail}}
     IN  Cardinality(changed) <= 1]_vars

IsFile(path) == resolve_path(path) # NoNode /\ nodes[resolve_path(path)].type = "file"

\* Until a file is removed, a fork that finds the slots it needs makes the new
\* file show what the source shows, at every version; one that runs out of slots
\* half way leaves out versions and shows no others.  (Removing a file leaves its
\* versions to the next file that is given its node.)
ForkClones ==
  [][\A s, d \in CowPath :
       ~removed /\ nodes' # nodes /\ IsFile(s) /\ Harlin_CowFork(s, d) =>
         \A ver \in VerName :
           \/ Harlin_CowReadAt(d, ver)' = Harlin_CowReadAt(s, ver)
           \/ /\ Harlin_CowReadAt(d, ver)' = Fail
              /\ Cardinality(Of(resolve_path(s))) > Cardinality(Free)]_vars

\* The interface document: Harlin_CowWrite writes when the expected version is
\* the file's newest, and otherwise reports a conflict.  So a write that expects
\* an older version leaves every version as it is.  Until the names wrap, the
\* newest version is the one with the largest name.
StaleWriteRefused ==
  [][\A path \in CowPath, old, new \in VerName, data \in Data :
       /\ ~removed /\ ver_counter < VER_NAMES
       /\ IsFile(path) /\ CowWriteExpected(path, old, data)
       /\ old < new /\ Harlin_CowReadAt(path, new) # Fail
       => versions' = versions]_vars
=============================================================================
