------------------------------- MODULE Files -------------------------------
(***************************************************************************)
(* Files: the in-memory file system (fs/ramfs.c), path lookup and open     *)
(* files (fs/vfs.c), and the descriptors of the processes with the calls   *)
(* on them (syscall/syscall.c, libc/libc.c, userland/sh.c).                *)
(*                                                                         *)
(* No call blocks and no process is preempted inside one, so a call is one *)
(* step; the processes interleave between calls.                           *)
(*                                                                         *)
(* Some calls leave a reference to memory that is freed, or forget memory  *)
(* that is not: fork and exit do not count descriptors, dup2 of the last   *)
(* reference onto itself and unlink free what is in use, and unlink of a   *)
(* directory forgets what is in it.  The code makes none of these tests,   *)
(* so the calls are actions here; misuse records them, and a call that     *)
(* then works on freed memory ends the behaviour.                          *)
(*                                                                         *)
(* Abstracted: the bytes of a file (a node has a size and a capacity), the *)
(* access mode of an open file, which no call tests, and mounts other than *)
(* that of the root.  A path is a sequence of names.  Descriptors 0 to 2,  *)
(* which init opens on the terminal and not in the tree, are left out;     *)
(* fork, exit and dup2 do to them what they do to the others.              *)
(***************************************************************************)
EXTENDS Integers, FiniteSets, SequencesExt, FiniteSetsExt

CONSTANTS
    Procs,          \* the processes
    Names,          \* the names callers use
    Chop,           \* a name -> the name without its first character
    MAX_FDS,        \* descriptors of a process: 32
    MAX_CHILDREN,   \* entries of a directory: 64
    BLOCK,          \* spare capacity of a file that grows: 4096
    MaxOpen,        \* BOUND: open files that exist at once
    MaxNodes,       \* BOUND: nodes that exist at once
    MaxSize,        \* BOUND: the size of a file
    MaxDepth,       \* BOUND: the length of the paths callers use
    MaxMisuse       \* BOUND: kinds of misuse in a behaviour

ASSUME FilesAssumption ==
    /\ IsFiniteSet(Procs) /\ IsFiniteSet(Names)
    /\ DOMAIN Chop = Names
    /\ {MAX_FDS, MAX_CHILDREN, MaxOpen, MaxNodes, MaxDepth} \subseteq Nat \ {0}
    /\ {BLOCK, MaxSize, MaxMisuse} \subseteq Nat

Root  == 1
Ids   == 1 .. MaxNodes
None  == 0                   \* NULL
Fds   == 0 .. MAX_FDS - 1
Files == 1 .. MaxOpen        \* the file_t that can be open
Junk  == "junk"              \* a name made of bytes nobody wrote

Paths == UNION {[1 .. n -> Names] : n \in 1 .. MaxDepth}

VARIABLES
    nodes,    \* id -> the ramfs_node_t and its vnode_t
    files,    \* id -> the file_t
    fds,      \* process -> descriptor -> file or None
    cwd,      \* process -> its working directory, a path from the root
    misuse    \* HISTORY: the kinds of calls described above that were made, and
              \* "freed" after one that worked on freed memory

vars == <<nodes, files, fds, cwd, misuse>>

Node(name, type) ==
    [name |-> name, type |-> type, children |-> <<>>, size |-> 0, capacity |-> 0,
     vnode_size |-> 0, ref_count |-> 0]

TypeOK ==
    /\ DOMAIN nodes \subseteq Ids /\ Root \in DOMAIN nodes
    /\ \A n \in DOMAIN nodes :
         /\ nodes[n].type \in {"file", "dir"}
         /\ Len(nodes[n].children) <= MAX_CHILDREN
         /\ nodes[n].size \in 0 .. MaxSize /\ nodes[n].capacity \in 0 .. MaxSize + BLOCK
         /\ nodes[n].ref_count \in Nat
    /\ DOMAIN files \subseteq Files
    /\ \A f \in DOMAIN files : files[f].ref \in Nat \ {0} /\ files[f].offset \in 0 .. MaxSize
    /\ fds \in [Procs -> [Fds -> Files \cup {None}]]
    /\ misuse \subseteq {"fork", "exit", "dup2", "unlink", "rmdir", "freed"}

\* ramfs_create_root and vfs_mount("/"); module Shell continues with the rest of
\* build_initfs.
Init ==
    /\ nodes = [n \in {Root} |-> Node("/", "dir")]
    /\ files = [f \in {} |-> None]
    /\ fds = [p \in Procs |-> [d \in Fds |-> None]]
    /\ cwd = [p \in Procs |-> <<>>]
    /\ misuse = {}

-----------------------------------------------------------------------------
(* The tree.  These operators take the nodes ns as a parameter, because a  *)
(* call goes through several values of them.                               *)

Matches(ns, dir, name) ==
    {i \in DOMAIN ns[dir].children : ns[ns[dir].children[i]].name = name}

\* ramfs_finddir: the first child with the name, or None.
finddir(ns, dir, name) ==
    IF ns[dir].type # "dir" \/ Matches(ns, dir, name) = {} THEN None
    ELSE ns[dir].children[Min(Matches(ns, dir, name))]

\* vfs_lookup: from the root, wherever the process is; "." and ".." stay.
vfs_lookup(ns, path) ==
    LET at[i \in 0 .. Len(path)] ==
          IF i = 0 THEN Root
          ELSE IF at[i-1] = None \/ path[i] \in {".", ".."} THEN at[i-1]
          ELSE finddir(ns, at[i-1], path[i])
    IN  at[Len(path)]

Creatable(ns, dir) ==
    dir # None /\ ns[dir].type = "dir" /\ Len(ns[dir].children) < MAX_CHILDREN

\* ramfs_create of node id, which does not look whether the name is there already.
Create(ns, id, dir, name, type) ==
    [n \in DOMAIN ns \cup {id} |->
        CASE n = id   -> Node(name, type)
          [] n = dir  -> [ns[n] EXCEPT !.children = Append(@, id)]
          [] OTHER    -> ns[n]]

\* ramfs_unlink of the child at position i: the last child takes its place.
Unlink_NotShrunk(ns, dir, i) ==
    LET gone == ns[dir].children[i]
        kids == [ns[dir].children EXCEPT ![i] = Last(ns[dir].children)]
    IN  [n \in DOMAIN ns \ {gone} |-> IF n = dir THEN [ns[n] EXCEPT !.children = kids] ELSE ns[n]]
Unlink(ns, dir, i) ==
    LET gone == ns[dir].children[i]
        kids == Front([ns[dir].children EXCEPT ![i] = Last(ns[dir].children)])
    IN  [n \in DOMAIN ns \ {gone} |-> IF n = dir THEN [ns[n] EXCEPT !.children = kids] ELSE ns[n]]

\* ramfs_truncate to 0.
Truncate_VnodeKept(ns, n) == [ns EXCEPT ![n].size = 0, ![n].capacity = 0]
Truncate(ns, n) == [ns EXCEPT ![n].size = 0, ![n].capacity = 0, ![n].vnode_size = 0]

-----------------------------------------------------------------------------
(* Open files.                                                             *)

\* The references to nodes and to open files.  A fresh object takes an id to which
\* there is none, so a reference to freed memory is never taken for another one.
Vnodes == {files[f].vnode : f \in DOMAIN files}
Held   == {fds[p][d] : p \in Procs, d \in Fds}
NewId   == Min(Ids \ (DOMAIN nodes \cup Vnodes))
NewFile == Min(Files \ (DOMAIN files \cup Held))

\* BOUND: a call that would create a node or an open file waits for room for it.
RoomForNode == ~(Ids \subseteq DOMAIN nodes \cup Vnodes)
RoomForFile == ~(Files \subseteq DOMAIN files \cup Held)

\* file_open's split of a path that does not exist into directory and name: the
\* loop that looks for the last slash stops at the first character also when it
\* is no slash, and the name starts behind it.  A directory of one character is
\* taken for "/".
NewName_NoSlash(path, absolute) == IF Len(path) = 1 THEN Chop[path[1]] ELSE Last(path)
NewName(path, absolute) ==
    IF Len(path) = 1 /\ ~absolute THEN Chop[path[1]] ELSE Last(path)

Parent(path, absolute) ==
    IF Len(path) = 2 /\ ~absolute /\ Chop[path[1]] = "" THEN <<>> ELSE Front(path)

\* The node file_open works on, and the nodes after it created one; None if it
\* returns NULL.
Target(path, absolute, create) ==
    LET dir == vfs_lookup(nodes, Parent(path, absolute))
        ns  == Create(nodes, NewId, dir, NewName(path, absolute), "file")
    IN  IF vfs_lookup(nodes, path) = None /\ create /\ Creatable(nodes, dir)
        THEN [nodes |-> ns, node |-> finddir(ns, dir, NewName(path, absolute))]
        ELSE [nodes |-> nodes, node |-> vfs_lookup(nodes, path)]

\* file_close of file f, as a change of files and nodes.
file_close_Shared(fs, ns, f) ==
    [files |-> [g \in DOMAIN fs \ {f} |-> fs[g]],
     nodes |-> [ns EXCEPT ![fs[f].vnode].ref_count = @ - 1]]
file_close(fs, ns, f) ==
    IF fs[f].ref > 1
    THEN [files |-> [fs EXCEPT ![f].ref = @ - 1], nodes |-> ns]
    ELSE [files |-> [g \in DOMAIN fs \ {f} |-> fs[g]],
          nodes |-> [ns EXCEPT ![fs[f].vnode].ref_count = @ - 1]]

\* The file_t of f and what file_close looks at behind it are not freed.
Closable(f) == f \in DOMAIN files /\ (files[f].ref > 1 \/ files[f].vnode \in DOMAIN nodes)
Usable(f)   == f \in DOMAIN files /\ files[f].vnode \in DOMAIN nodes

FreeFds(p) == {d \in Fds : fds[p][d] = None}

\* What file_open returns enters the lowest free descriptor; without one it is
\* closed again (syscall.c:117-118, libc.c:240-246).
Install_LeakAtLimit(p, f, fs, ns) ==
    /\ files' = fs /\ nodes' = ns
    /\ fds' = IF FreeFds(p) = {} THEN fds ELSE [fds EXCEPT ![p][Min(FreeFds(p))] = f]
Install(p, f, fs, ns) ==
    IF FreeFds(p) # {}
    THEN /\ files' = fs /\ nodes' = ns
         /\ fds' = [fds EXCEPT ![p][Min(FreeFds(p))] = f]
    ELSE LET c == file_close(fs, ns, f)
         IN  files' = c.files /\ nodes' = c.nodes /\ UNCHANGED fds

\* open: file_open with O_CREAT, O_TRUNC and O_APPEND as given, then a descriptor.
OpenPath(p, path, absolute, create, trunc, append) ==
    LET t  == Target(path, absolute, create)
        ns == IF trunc THEN Truncate(t.nodes, t.node) ELSE t.nodes
        f  == NewFile
        fs == [g \in DOMAIN files \cup {f} |->
                 IF g # f THEN files[g]
                 ELSE [vnode |-> t.node, ref |-> 1,
                       offset |-> IF append THEN ns[t.node].vnode_size ELSE 0]]
    IN  /\ RoomForFile /\ (create /\ vfs_lookup(nodes, path) = None => RoomForNode)
        /\ t.node # None
        /\ Install(p, f, fs, [ns EXCEPT ![t.node].ref_count = @ + 1])
        /\ UNCHANGED <<cwd, misuse>>

\* The path sys_open looks up.  Behind a working directory other than "/" the
\* separator overwrites the terminator, and what the stack held before may come
\* in between.
Resolved(p, path, absolute) ==
    IF absolute \/ cwd[p] = <<>> THEN {path}
    ELSE {cwd[p] \o path, cwd[p] \o <<Junk>> \o Tail(path)}

sys_open(p, path, absolute, create, trunc, append) ==
    \E q \in Resolved(p, path, absolute) : OpenPath(p, q, TRUE, create, trunc, append)

\* open of libc, which the shell calls: the working directory plays no part.
open(p, path, absolute, create, trunc, append) ==
    OpenPath(p, path, absolute, create, trunc, append)

close(p, d) ==
    LET c == file_close(files, nodes, fds[p][d])
    IN  /\ Closable(fds[p][d])
        /\ files' = c.files /\ nodes' = c.nodes
        /\ fds' = [fds EXCEPT ![p][d] = None]
        /\ UNCHANGED <<cwd, misuse>>

\* sys_read of count bytes.
read(p, d, count) ==
    LET f == files[fds[p][d]]
        n == nodes[f.vnode]
    IN  /\ Usable(fds[p][d])
        /\ n.type = "file" /\ f.offset < n.size
        /\ files' = [files EXCEPT ![fds[p][d]].offset = @ + Min({count, n.size - f.offset})]
        /\ UNCHANGED <<nodes, fds, cwd, misuse>>

\* ramfs_write of count bytes to node n at offset off.
Written(n, off, count) ==
    LET needed == off + count
        size   == Max({n.size, needed})
    IN  [n EXCEPT !.capacity = IF needed > @ THEN needed + BLOCK ELSE @,
                  !.size = size, !.vnode_size = size]

\* sys_write of count bytes.
write(p, d, count) ==
    LET f == files[fds[p][d]]
    IN  /\ Usable(fds[p][d])
        /\ nodes[f.vnode].type = "file" /\ f.offset + count <= MaxSize
        /\ nodes' = [nodes EXCEPT ![f.vnode] = Written(@, f.offset, count)]
        /\ files' = [files EXCEPT ![fds[p][d]].offset = @ + count]
        /\ UNCHANGED <<fds, cwd, misuse>>

\* sys_lseek to the position whence + offset; the positions callers ask for are
\* within the bound on sizes.
lseek(p, d, offset, whence) ==
    LET f  == files[fds[p][d]]
        to == CASE whence = "SEEK_SET" -> offset
                [] whence = "SEEK_CUR" -> f.offset + offset
                [] whence = "SEEK_END" -> nodes[f.vnode].vnode_size + offset
    IN  /\ fds[p][d] \in DOMAIN files
        /\ whence = "SEEK_END" => Usable(fds[p][d])
        /\ to \in 0 .. MaxSize
        /\ files' = [files EXCEPT ![fds[p][d]].offset = to]
        /\ UNCHANGED <<nodes, fds, cwd, misuse>>

\* sys_dup2: the file of new is closed, then new shares the file of old, also if
\* the close has freed it.
sys_dup2(p, old, new) ==
    LET f == fds[p][old]
        c == IF fds[p][new] = None THEN [files |-> files, nodes |-> nodes]
             ELSE file_close(files, nodes, fds[p][new])
    IN  /\ f \in DOMAIN files /\ (fds[p][new] # None => Closable(fds[p][new]))
        /\ IF f \in DOMAIN c.files
           THEN files' = [c.files EXCEPT ![f].ref = @ + 1] /\ UNCHANGED misuse
           ELSE files' = c.files /\ misuse' = misuse \cup {"dup2"}
        /\ nodes' = c.nodes
        /\ fds' = [fds EXCEPT ![p][new] = f]
        /\ UNCHANGED cwd

\* A call through a descriptor whose file_t, or the node behind it, is freed.
\* What it does depends on what that memory holds by now.
OnFreed(p, d) ==
    /\ fds[p][d] # None /\ ~Usable(fds[p][d])
    /\ misuse' = misuse \cup {"freed"}
    /\ UNCHANGED <<nodes, files, fds, cwd>>

-----------------------------------------------------------------------------
(* Names.                                                                  *)

\* sys_mkdir, and mkdir of the shell with base the working directory.
mkdir(base, path) ==
    LET dir == vfs_lookup(nodes, base \o Front(path))
    IN  /\ RoomForNode /\ Creatable(nodes, dir)
        /\ nodes' = Create(nodes, NewId, dir, Last(path), "dir")
        /\ UNCHANGED <<files, fds, cwd, misuse>>

\* What removing node n leaves behind: open files on it, nodes in it.
Harm(n) == (IF n \in Vnodes THEN {"unlink"} ELSE {})
           \cup (IF nodes[n].children # <<>> THEN {"rmdir"} ELSE {})

\* sys_unlink, and rm of the shell.
unlink(base, path) ==
    LET dir == vfs_lookup(nodes, base \o Front(path))
        i   == Min(Matches(nodes, dir, Last(path)))
    IN  /\ dir # None /\ Matches(nodes, dir, Last(path)) # {}
        /\ nodes' = Unlink(nodes, dir, i)
        /\ misuse' = misuse \cup Harm(nodes[dir].children[i])
        /\ UNCHANGED <<files, fds, cwd>>

IsDir(path) ==
    LET n == vfs_lookup(nodes, path) IN n # None /\ nodes[n].type = "dir"

\* sys_chdir, and cd of the shell: the path is looked up from the root and then
\* appended to the working directory.  What an earlier, longer directory left
\* behind the terminator may come in between, as in sys_open.
chdir(p, path, absolute) ==
    /\ IsDir(path)
    /\ \/ cwd' = [cwd EXCEPT ![p] = IF absolute THEN path ELSE @ \o path]
       \/ /\ ~absolute /\ cwd[p] # <<>>
          /\ cwd' = [cwd EXCEPT ![p] = @ \o <<Junk>> \o Tail(path)]
    /\ UNCHANGED <<nodes, files, fds, misuse>>

\* The descriptors and the directory of a process made by proc_fork: copied, the
\* open files are not counted again.
fork(parent, child) ==
    /\ child # parent /\ FreeFds(child) = Fds
    /\ fds' = [fds EXCEPT ![child] = fds[parent]]
    /\ cwd' = [cwd EXCEPT ![child] = cwd[parent]]
    /\ misuse' = IF FreeFds(parent) = Fds THEN misuse ELSE misuse \cup {"fork"}
    /\ UNCHANGED <<nodes, files>>

\* proc_exit, and the slot cleared for its next process: nothing is closed.
exit(p) ==
    /\ fds' = [fds EXCEPT ![p] = [d \in Fds |-> None]]
    /\ cwd' = [cwd EXCEPT ![p] = <<>>]
    /\ misuse' = IF FreeFds(p) = Fds THEN misuse ELSE misuse \cup {"exit"}
    /\ UNCHANGED <<nodes, files>>

-----------------------------------------------------------------------------
(* The calls.  Counts and offsets are small; every path of Paths is tried, *)
(* from the root and from a working directory.                             *)

\* The directories mkdir and rm start from: the root, and for a single name in
\* the shell the working directory.
Bases(path) == {<<>>} \cup {cwd[p] : p \in {q \in Procs : Len(path) = 1}}

call ==
    \/ \E p \in Procs, path \in Paths, absolute, create, trunc, append \in BOOLEAN :
         \/ open(p, path, absolute, create, trunc, append)
         \/ sys_open(p, path, absolute, create, trunc, append)
    \/ \E p \in Procs, d \in Fds :
         \/ close(p, d) \/ read(p, d, 1) \/ write(p, d, 1) \/ OnFreed(p, d)
         \/ \E to \in 0 .. MaxSize, w \in {"SEEK_SET", "SEEK_CUR", "SEEK_END"} : lseek(p, d, to, w)
         \/ \E e \in Fds : sys_dup2(p, d, e)
    \/ \E path \in Paths : \E base \in Bases(path) : mkdir(base, path) \/ unlink(base, path)
    \/ \E p \in Procs, path \in Paths, absolute \in BOOLEAN :
         Len(cwd[p]) < MaxDepth /\ chdir(p, path, absolute)
    \/ \E p \in Procs : exit(p) \/ \E q \in Procs : fork(p, q)

\* Freed memory has not been worked on, and the bound on misuse is kept.
Defined == "freed" \notin misuse /\ Cardinality(misuse' \ {"freed"}) <= MaxMisuse

Next == call /\ Defined

Spec == Init /\ [][Next]_vars

-----------------------------------------------------------------------------
(* Properties.                                                             *)

Slots(f) == {s \in Procs \X Fds : fds[s[1]][s[2]] = f}

\* The two reference counts are exact through every open, close, dup2 and every
\* open that finds no descriptor: ref counts the descriptors that share the open
\* file, ref_count the open files on the node (vfs.c:106-107, 113-118,
\* syscall.c:118, 218-220).  So nothing open is lost or closed early.  Excepted
\* is what follows fork and exit with open descriptors (proc.c:151, 190), dup2
\* that frees the file it goes on using (syscall.c:218), and for the nodes the
\* removal of an open one (ramfs.c:142).
RefsExact ==
    /\ misuse \cap {"fork", "exit", "dup2"} = {} =>
         \A f \in DOMAIN files : files[f].ref = Cardinality(Slots(f))
    /\ "unlink" \notin misuse => \A n \in DOMAIN nodes :
         nodes[n].ref_count = Cardinality({f \in DOMAIN files : files[f].vnode = n})

\* Every node is in at most one place of one directory, within its limit of
\* entries, whatever is removed while it is open or shared; and until a directory
\* is removed with nodes in it (ramfs.c:142) the nodes form a tree: all are
\* reached from the root and are in one place (ramfs.c:129-133, 142-143).  The
\* state has its type.
Children(n) == ToSet(nodes[n].children)
Places(n) == {pl \in (DOMAIN nodes) \X (1 .. MAX_CHILDREN) :
                pl[2] \in DOMAIN nodes[pl[1]].children /\ nodes[pl[1]].children[pl[2]] = n}
Reached ==
    LET within[k \in 0 .. MaxNodes] ==
          IF k = 0 THEN {Root} ELSE within[k-1] \cup UNION {Children(n) : n \in within[k-1]}
    IN  within[MaxNodes]
Tree ==
    /\ TypeOK
    /\ UNION {Children(n) : n \in DOMAIN nodes} \subseteq DOMAIN nodes
    /\ \A n \in DOMAIN nodes : Cardinality(Places(n)) <= IF n = Root THEN 0 ELSE 1
    /\ "rmdir" \notin misuse =>
         /\ Reached = DOMAIN nodes
         /\ \A n \in DOMAIN nodes \ {Root} : Cardinality(Places(n)) = 1

\* What lseek and O_APPEND take for the size of a file is its size, and its
\* bytes lie within its buffer (ramfs.c:97-105, 161-163).
SizesAgree ==
    \A n \in DOMAIN nodes :
        nodes[n].vnode_size = nodes[n].size /\ nodes[n].size <= nodes[n].capacity

\* A descriptor refers to an open file, whoever else closed it, and an open file
\* keeps its node: no close through another descriptor makes the node look idle
\* to whoever removes it (vfs.c:107, 113-118, ramfs.c:137-148).  Excepted is what
\* follows a fork with open descriptors, dup2 that frees the file it goes on
\* using, and the removal of an open node; exit and the removal of a directory
\* with nodes in it leave memory behind, but nothing that dangles.
NothingDangles ==
    /\ misuse \cap {"fork", "dup2"} = {} =>
         \A p \in Procs, d \in Fds : fds[p][d] \in DOMAIN files \cup {None}
    /\ "unlink" \notin misuse => \A f \in DOMAIN files : files[f].vnode \in DOMAIN nodes

\* What an open of an absolute path creates is found under that path (vfs.c:79
\* "find the parent directory and create").  A relative one is not: its name
\* loses its first character, and a directory of one character is taken for the
\* root (vfs.c:82-90).
CreatedAsAsked ==
    [][\A path \in Paths : vfs_lookup(nodes', path) = None =>
         \A p \in Procs, trunc, append \in BOOLEAN :
             ~open(p, path, TRUE, TRUE, trunc, append)]_vars
=============================================================================
