----------------------------- MODULE FilesProofs -----------------------------
(***************************************************************************)
(* Theorems about modules Files and Shell, for all numbers of processes,   *)
(* descriptors, entries, nodes and sizes, and all sets of names; those     *)
(* about Shell for every file system that the boot can make.               *)
(*                                                                         *)
(* NodesOK, CountsOK and SharesOK hold whatever is called: the shape of    *)
(* the nodes, that every child is in one place and none is the root, that  *)
(* a node counts the open files on it, and that descriptors refer to none  *)
(* of the files the kernel holds.  Connected, Rooted, Live and Exact hold  *)
(* until a call of the kind that ends them, which misuse records: FilesOK  *)
(* says which.  Connected, that a set of nodes with the root and the       *)
(* children of its members has them all, is how `reached from the root'    *)
(* can be reasoned about without paths.  FilesOK has a parameter, the open *)
(* files that no descriptor refers to: none in module Files, in the shell  *)
(* the two that init_process forgets and the one of an ls.  So what is     *)
(* proved of a call there serves here.                                     *)
(*                                                                         *)
(* ShellInv says what a command has open at each of its points, and how    *)
(* that differs from what was open when it began.                          *)
(***************************************************************************)
EXTENDS Shell, FiniteSetTheorems, SequenceTheorems, Recursion

Parts    == Names \cup {Junk}
AllNames == Parts \cup {"/"} \cup STRING \cup {Chop[n] : n \in Names}

NodeType ==
    [name : AllNames, type : {"file", "dir"}, children : Seq(Ids),
     size : 0 .. MaxSize, capacity : 0 .. MaxSize + BLOCK,
     vnode_size : 0 .. MaxSize, ref_count : Nat]

FileType == [vnode : Ids, ref : Nat \ {0}, offset : 0 .. MaxSize]

Kids(ns, n) == ns[n].children

\* The shape of the nodes.
Typed(ns) ==
    /\ DOMAIN ns \subseteq Ids /\ Root \in DOMAIN ns
    /\ ns \in [DOMAIN ns -> NodeType]
    /\ \A n \in DOMAIN ns : Len(Kids(ns, n)) <= MAX_CHILDREN
    /\ \A n \in DOMAIN ns : /\ ns[n].vnode_size = ns[n].size
                            /\ ns[n].size <= ns[n].capacity

\* Children are nodes other than the root, each in one place.
Placed(ns) ==
    \A n \in DOMAIN ns : \A i \in 1 .. Len(Kids(ns, n)) : Kids(ns, n)[i] \in DOMAIN ns \ {Root}
Once(ns) ==
    \A n, m \in DOMAIN ns : \A i \in 1 .. Len(Kids(ns, n)) : \A j \in 1 .. Len(Kids(ns, m)) :
        Kids(ns, n)[i] = Kids(ns, m)[j] => n = m /\ i = j

\* Every node is below the root.
Hereditary(ns, S) == \A n \in S : \A i \in 1 .. Len(Kids(ns, n)) : Kids(ns, n)[i] \in S
Connected(ns) ==
    \A S \in SUBSET DOMAIN ns : Root \in S /\ Hereditary(ns, S) => S = DOMAIN ns

Kept(ns, ms) == Connected(ns) => Connected(ms)

NodesOK(ns) == Typed(ns) /\ Placed(ns) /\ Once(ns)

\* The nodes count the open files on them, also those of removed nodes around them.
Openers(fs, n) == {f \in DOMAIN fs : fs[f].vnode = n}
CountsOK(fs, ns) ==
    /\ DOMAIN fs \subseteq Files /\ fs \in [DOMAIN fs -> FileType]
    /\ \A n \in DOMAIN ns : ns[n].ref_count = Cardinality(Openers(fs, n))

\* Open files refer to nodes.
Rooted(fs, ns) == \A f \in DOMAIN fs : fs[f].vnode \in DOMAIN ns

\* H are the open files that are in no descriptor: the kernel or a command of the
\* shell holds them.
Sharers(ds, f) == {s \in Procs \X Fds : ds[s[1]][s[2]] = f}
SharesOK(fs, ds, H) ==
    /\ H \subseteq DOMAIN fs
    /\ ds \in [Procs -> [Fds -> (Files \ H) \cup {None}]]

\* Descriptors refer to open files, which count at least the descriptors they are in,
\* and until an exit no more.
Live(fs, ds, H) ==
    /\ \A p \in Procs, d \in Fds : ds[p][d] \in DOMAIN fs \cup {None}
    /\ \A f \in DOMAIN fs \ H : fs[f].ref >= Cardinality(Sharers(ds, f))
Exact(fs, ds, H) == \A f \in DOMAIN fs \ H : fs[f].ref = Cardinality(Sharers(ds, f))

SharesKept(fs, ds, gs, es, H) ==
    Live(fs, ds, H) => Live(gs, es, H) /\ (Exact(fs, ds, H) => Exact(gs, es, H))

Kinds == {"fork", "exit", "dup2", "unlink", "rmdir", "freed"}

FilesOK(H) ==
    /\ NodesOK(nodes) /\ CountsOK(files, nodes) /\ SharesOK(files, fds, H)
    /\ cwd \in [Procs -> Seq(Parts)] /\ misuse \subseteq Kinds
    /\ "rmdir" \notin misuse => Connected(nodes)
    /\ "unlink" \notin misuse => Rooted(files, nodes)
    /\ misuse \cap {"fork", "dup2"} = {} => Live(files, fds, H)
    /\ misuse \cap {"fork", "exit", "dup2"} = {} => Exact(files, fds, H)

IInv == FilesOK({})

-----------------------------------------------------------------------------
(* The constants.                                                          *)

\* The types of the constants.
LEMMA ConstantTypes ==
    /\ MAX_FDS \in Nat \ {0} /\ MAX_CHILDREN \in Nat \ {0} /\ MaxNodes \in Nat \ {0}
    /\ MaxDepth \in Nat \ {0} /\ BLOCK \in Nat /\ MaxSize \in Nat /\ MaxOpen \in Nat \ {0}
    /\ Root \in Ids /\ None \notin Ids /\ None \notin Files /\ Ids \subseteq Nat
    /\ Files \subseteq Nat /\ Fds \subseteq Nat
BY FilesAssumption DEF FilesAssumption, Root, Ids, None, Files, Fds

\* The least element the code's first-fit searches take.
LEMMA MinIs ==
    ASSUME NEW S, S \subseteq Nat, S # {}
    PROVE  Min(S) \in S /\ \A k \in S : Min(S) <= k
<1>1. \E m \in S : \A k \in S : m <= k
  BY NatMin
<1> QED BY <1>1 DEF Min

-----------------------------------------------------------------------------
(* Looking up.                                                             *)

\* finddir gives a child of the directory, with the name, or None.
LEMMA Finds ==
    ASSUME NEW ns, NodesOK(ns), NEW dir \in DOMAIN ns, NEW name, finddir(ns, dir, name) # None
    PROVE  /\ ns[dir].type = "dir"
           /\ Min(Matches(ns, dir, name)) \in 1 .. Len(Kids(ns, dir))
           /\ finddir(ns, dir, name) = Kids(ns, dir)[Min(Matches(ns, dir, name))]
           /\ finddir(ns, dir, name) \in DOMAIN ns \ {Root}
<1>1. /\ ns[dir].type = "dir" /\ Matches(ns, dir, name) # {}
      /\ finddir(ns, dir, name) = Kids(ns, dir)[Min(Matches(ns, dir, name))]
  BY DEF finddir, Kids
<1>2. Kids(ns, dir) \in Seq(Ids)
  BY DEF NodesOK, Typed, NodeType, Kids
<1>3. Matches(ns, dir, name) \subseteq 1 .. Len(Kids(ns, dir))
  BY <1>2 DEF Matches, Kids
<1>4. Min(Matches(ns, dir, name)) \in 1 .. Len(Kids(ns, dir))
  <2>1. Matches(ns, dir, name) \subseteq Nat
    BY <1>2, <1>3
  <2> QED BY <1>1, <1>3, <2>1, MinIs
<1> QED BY <1>1, <1>4 DEF NodesOK, Placed

\* A lookup gives a node or None.
LEMMA Looks ==
    ASSUME NEW ns, NodesOK(ns), NEW S, NEW path \in Seq(S)
    PROVE  vfs_lookup(ns, path) \in DOMAIN ns \cup {None}
<1>0. PICK N, n : N = DOMAIN ns \cup {None} /\ n = Len(path)
  OBVIOUS
<1> DEFINE step(i, x) == IF x = None \/ path[i] \in {".", ".."} THEN x
                         ELSE finddir(ns, x, path[i])
           f == [i \in 1 .. n |-> [x \in N |-> step(i, x)]]
           Walk(g) == g = [i \in 0 .. n |-> IF i = 0 THEN Root
                                            ELSE IF g[i-1] = None \/ path[i] \in {".", ".."}
                                                 THEN g[i-1]
                                            ELSE finddir(ns, g[i-1], path[i])]
<1>1. n \in Nat /\ Root \in N
  BY <1>0 DEF NodesOK, Typed
<1>2. ASSUME NEW i \in 1 .. n, NEW x \in N PROVE step(i, x) \in N
  BY <1>0, Finds
<1>3. f \in [1 .. n -> [N -> N]]
  BY <1>2
<1>4. PICK g \in [0 .. n -> N] : g[0] = Root /\ \A i \in 1 .. n : g[i] = f[i][g[i-1]]
  <2>1. PICK r : r = Root
    OBVIOUS
  <2>2. r \in N /\ n \in Nat
    BY <1>1, <2>1
  <2> HIDE DEF f
  <2>3. \E g \in [0 .. n -> N] : g[0] = r /\ \A i \in 1 .. n : g[i] = f[i][g[i-1]]
    <3>1. PICK h : h = f
      OBVIOUS
    <3>2. h \in [1 .. n -> [N -> N]]
      BY <1>3, <3>1
    <3>3. \E g \in [0 .. n -> N] : g[0] = r /\ \A i \in 1 .. n : g[i] = h[i][g[i-1]]
      BY <2>2, <3>2, PrimitiveRecursion
    <3> QED BY <3>1, <3>3
  <2> QED BY <2>1, <2>3
<1>5. \A i \in 1 .. n : g[i] = step(i, g[i-1])
  <2> SUFFICES ASSUME NEW i \in 1 .. n PROVE g[i] = step(i, g[i-1])
    OBVIOUS
  <2>1. g[i-1] \in N
    BY <1>1, <1>4
  <2> QED BY <1>4, <2>1
<1>6. Walk(g)
  <2>1. \A i \in 0 .. n : g[i] = IF i = 0 THEN Root ELSE step(i, g[i-1])
    BY <1>1, <1>4, <1>5
  <2> QED BY <1>4, <2>1
<1>7. ASSUME NEW h, Walk(h) PROVE h = g
  <2> DEFINE T == {i \in 0 .. n : h[i] = g[i]}
  <2>1. 0 \in T
    BY <1>1, <1>4, <1>7
  <2>2. ASSUME NEW i \in 0 .. n, i < n, i \in T PROVE i + 1 \in T
    <3>1. i + 1 \in 1 .. n /\ i + 1 \in 0 .. n /\ i + 1 - 1 = i /\ h[i] = g[i]
      BY <1>1, <2>2
    <3>2. h[i + 1] = step(i + 1, h[i])
      BY <1>7, <3>1
    <3>3. g[i + 1] = step(i + 1, g[i])
      BY <1>5, <3>1
    <3> QED BY <3>1, <3>2, <3>3
  <2> HIDE DEF T
  <2>3. \A i \in 0 .. n : i \in T
    <3>1. 0 \in Nat /\ 0 <= n
      BY <1>1
    <3> QED BY <1>1, <2>1, <2>2, <3>1, IntervalInduction
  <2> QED BY <1>4, <1>7, <2>3 DEF T
<1>8. vfs_lookup(ns, path) = g[n]
  <2>1. g = CHOOSE h : Walk(h)
    <3> HIDE DEF Walk
    <3> QED BY <1>6, <1>7
  <2> QED BY <1>0, <2>1 DEF vfs_lookup
<1> QED BY <1>0, <1>1, <1>4, <1>8

-----------------------------------------------------------------------------
(* Creating and unlinking.                                                 *)

\* What NodesOK says of one node.
LEMMA NodeFields ==
    ASSUME NEW ns, NodesOK(ns), NEW n \in DOMAIN ns
    PROVE  /\ ns[n] \in NodeType /\ Kids(ns, n) \in Seq(Ids)
           /\ Len(Kids(ns, n)) \in Nat /\ DOMAIN Kids(ns, n) = 1 .. Len(Kids(ns, n))
           /\ Len(Kids(ns, n)) <= MAX_CHILDREN
<1>1. ns[n] \in NodeType /\ Len(Kids(ns, n)) <= MAX_CHILDREN
  BY DEF NodesOK, Typed
<1>2. Kids(ns, n) \in Seq(Ids)
  BY <1>1 DEF NodeType, Kids
<1> QED BY <1>1, <1>2, LenProperties

\* A node is a child once.
LEMMA Single ==
    ASSUME NEW ns, NodesOK(ns), NEW n \in DOMAIN ns, NEW m \in DOMAIN ns,
           NEW i \in 1 .. Len(Kids(ns, n)), NEW j \in 1 .. Len(Kids(ns, m)),
           Kids(ns, n)[i] = Kids(ns, m)[j]
    PROVE  n = m /\ i = j
BY DEF NodesOK, Once

\* The node ramfs_create makes is new, and no open file is on it.
LEMMA Fresh ==
    RoomForNode => /\ NewId \in Ids \ DOMAIN nodes
                   /\ \A f \in DOMAIN files : files[f].vnode # NewId
<1> SUFFICES ASSUME RoomForNode
             PROVE  NewId \in Ids \ DOMAIN nodes /\ \A f \in DOMAIN files : files[f].vnode # NewId
  OBVIOUS
<1> DEFINE S == Ids \ (DOMAIN nodes \cup Vnodes)
<1>1. S \subseteq Nat /\ S # {}
  BY ConstantTypes DEF RoomForNode
<1>2. NewId \in S
  <2> HIDE DEF S
  <2>1. NewId = Min(S)
    BY DEF NewId, S
  <2> QED BY <2>1, <1>1, MinIs
<1> QED BY <1>2 DEF Vnodes

\* The file_t file_open allocates is none that is open or in a descriptor.
LEMMA FreshFile ==
    RoomForFile => /\ NewFile \in Files \ DOMAIN files
                   /\ \A p \in Procs, d \in Fds : fds[p][d] # NewFile
<1> SUFFICES ASSUME RoomForFile
             PROVE  /\ NewFile \in Files \ DOMAIN files
                    /\ \A p \in Procs, d \in Fds : fds[p][d] # NewFile
  OBVIOUS
<1> DEFINE S == Files \ (DOMAIN files \cup Held)
<1>1. S \subseteq Nat /\ S # {}
  BY ConstantTypes DEF RoomForFile
<1>2. NewFile \in S
  <2> HIDE DEF S
  <2>1. NewFile = Min(S)
    BY DEF NewFile, S
  <2> QED BY <2>1, <1>1, MinIs
<1> QED BY <1>2 DEF Held

\* A change of the nodes that leaves the counts of the others alone.
Carried(ns, ms) ==
    \A n \in DOMAIN ms : ms[n].ref_count = IF n \in DOMAIN ns THEN ns[n].ref_count ELSE 0

\* The nodes ms are the nodes ns with one more, which nobody has open.
OneMore(ns, ms, new) ==
    NodesOK(ms) /\ Kept(ns, ms) /\ Carried(ns, ms) /\ DOMAIN ms = DOMAIN ns \cup {new}

\* ramfs_create keeps the tree, and adds one node to it that nobody has open.
LEMMA Creates ==
    ASSUME NEW ns, NodesOK(ns), NEW dir \in DOMAIN ns, Creatable(ns, dir),
           NEW new \in Ids, new \notin DOMAIN ns, NEW name \in AllNames, NEW type \in {"file", "dir"}
    PROVE  OneMore(ns, Create(ns, new, dir, name, type), new)
<1> PICK c : c = Create(ns, new, dir, name, type)
  OBVIOUS
<1>1. DOMAIN ns \subseteq Ids /\ Root \in DOMAIN ns /\ new \in Ids /\ new \notin DOMAIN ns
  BY DEF NodesOK, Typed
<1>2. DOMAIN c = DOMAIN ns \cup {new}
  BY DEF Create
<1>3. c[new] = Node(name, type)
  <2> HIDE DEF Node
  <2> QED BY <1>1 DEF Create
<1>4. c[dir] = [ns[dir] EXCEPT !.children = Append(Kids(ns, dir), new)]
  BY <1>1 DEF Create, Kids
<1>5. \A n \in DOMAIN ns \ {dir} : c[n] = ns[n]
  BY <1>1 DEF Create
<1>6. \A n \in DOMAIN ns : /\ ns[n] \in NodeType /\ Kids(ns, n) \in Seq(Ids)
                           /\ Len(Kids(ns, n)) \in Nat /\ Len(Kids(ns, n)) <= MAX_CHILDREN
  BY NodeFields
<1>7. Append(Kids(ns, dir), new) \in Seq(Ids)
  BY <1>1, <1>6, AppendProperties
<1>8. /\ c[dir] \in NodeType /\ Kids(c, dir) = Append(Kids(ns, dir), new)
      /\ c[dir].ref_count = ns[dir].ref_count
      /\ c[dir].size = ns[dir].size /\ c[dir].capacity = ns[dir].capacity
      /\ c[dir].vnode_size = ns[dir].vnode_size
  BY <1>4, <1>6, <1>7 DEF NodeType, Kids
<1>9. c[new] \in NodeType /\ Kids(c, new) = <<>>
  BY <1>3, ConstantTypes DEF Node, NodeType, Kids
<1>10. \A n \in DOMAIN ns \ {dir} : Kids(c, n) = Kids(ns, n)
  BY <1>5 DEF Kids
<1> PICK L : L = Len(Kids(ns, dir))
  OBVIOUS
<1>11. /\ L \in Nat /\ L < MAX_CHILDREN
       /\ Len(Kids(c, dir)) = L + 1 /\ Kids(c, dir)[L + 1] = new
       /\ \A i \in 1 .. L : Kids(c, dir)[i] = Kids(ns, dir)[i]
  BY <1>1, <1>6, <1>8, AppendProperties DEF Creatable, Kids
<1>12. Len(Kids(c, new)) = 0
  BY <1>9
<1>13. ASSUME NEW n \in DOMAIN c, NEW i \in 1 .. Len(Kids(c, n))
       PROVE  \/ n = dir /\ i = L + 1 /\ Kids(c, n)[i] = new
              \/ /\ n \in DOMAIN ns /\ i \in 1 .. Len(Kids(ns, n))
                 /\ Kids(c, n)[i] = Kids(ns, n)[i]
  <2>1. CASE n = new
    BY <1>12, <2>1
  <2>2. CASE n = dir
    BY <1>11, <2>2
  <2>3. CASE n # new /\ n # dir
    BY <1>2, <1>10, <2>3
  <2> QED BY <2>1, <2>2, <2>3
<1>14. ASSUME NEW n \in DOMAIN ns, NEW i \in 1 .. Len(Kids(ns, n))
       PROVE  i \in 1 .. Len(Kids(c, n)) /\ Kids(c, n)[i] = Kids(ns, n)[i]
  <2>1. CASE n = dir
    BY <1>11, <2>1
  <2>2. CASE n # dir
    BY <1>10, <2>2
  <2> QED BY <2>1, <2>2
<1>15. ASSUME NEW n \in DOMAIN ns, NEW i \in 1 .. Len(Kids(ns, n))
       PROVE  Kids(ns, n)[i] \in DOMAIN ns \ {Root}
  BY DEF NodesOK, Placed
<1>16. Typed(c)
  <2>1. ASSUME NEW n \in DOMAIN c
        PROVE  /\ c[n] \in NodeType /\ Len(Kids(c, n)) <= MAX_CHILDREN
               /\ c[n].vnode_size = c[n].size /\ c[n].size <= c[n].capacity
    <3>1. CASE n = new
      BY <1>3, <1>9, <1>12, <3>1, ConstantTypes DEF Node
    <3>2. CASE n = dir
      BY <1>8, <1>11, <3>2, ConstantTypes DEF NodesOK, Typed
    <3>3. CASE n # new /\ n # dir
      BY <1>2, <1>5, <1>10, <3>3 DEF NodesOK, Typed
    <3> QED BY <3>1, <3>2, <3>3
  <2>2. c = [n \in DOMAIN c |-> c[n]]
    BY DEF Create
  <2> QED BY <1>1, <1>2, <2>1, <2>2 DEF Typed
<1>17. Placed(c)
  <2> SUFFICES ASSUME NEW n \in DOMAIN c, NEW i \in 1 .. Len(Kids(c, n))
               PROVE  Kids(c, n)[i] \in DOMAIN c \ {Root}
    BY DEF Placed
  <2> QED BY <1>1, <1>2, <1>13, <1>15
<1>18. Once(c)
  <2> SUFFICES ASSUME NEW n \in DOMAIN c, NEW m \in DOMAIN c,
                      NEW i \in 1 .. Len(Kids(c, n)), NEW j \in 1 .. Len(Kids(c, m)),
                      Kids(c, n)[i] = Kids(c, m)[j]
               PROVE  n = m /\ i = j
    BY DEF Once
  <2>1. CASE Kids(c, n)[i] = new
    <3>1. n = dir /\ i = L + 1
      BY <1>1, <1>13, <1>15, <2>1
    <3>2. Kids(c, m)[j] = new
      BY <2>1
    <3>3. m = dir /\ j = L + 1
      BY <1>1, <1>13, <1>15, <3>2
    <3> QED BY <3>1, <3>3
  <2>2. CASE Kids(c, n)[i] # new
    <3>1. /\ n \in DOMAIN ns /\ i \in 1 .. Len(Kids(ns, n)) /\ Kids(c, n)[i] = Kids(ns, n)[i]
          /\ m \in DOMAIN ns /\ j \in 1 .. Len(Kids(ns, m)) /\ Kids(c, m)[j] = Kids(ns, m)[j]
      BY <1>13, <2>2
    <3>2. Kids(ns, n)[i] = Kids(ns, m)[j]
      BY <3>1
    <3> QED BY <3>1, <3>2, Single
  <2> QED BY <2>1, <2>2
<1>19. Kept(ns, c)
  <2> SUFFICES ASSUME Connected(ns), NEW S \in SUBSET DOMAIN c, Root \in S, Hereditary(c, S)
               PROVE  S = DOMAIN c
    BY DEF Kept, Connected
  <2>1. Hereditary(ns, S \cap DOMAIN ns)
    BY <1>14, <1>15 DEF Hereditary
  <2>2. S \cap DOMAIN ns = DOMAIN ns
    BY <1>1, <2>1 DEF Connected
  <2>3. new \in S
    <3>1. dir \in S /\ L + 1 \in 1 .. Len(Kids(c, dir)) /\ Kids(c, dir)[L + 1] = new
      BY <1>11, <2>2
    <3> QED BY <3>1 DEF Hereditary
  <2> QED BY <1>2, <2>2, <2>3
<1>20. c[new].ref_count = 0
  BY <1>3 DEF Node
<1>21. \A n \in DOMAIN ns : c[n].ref_count = ns[n].ref_count
  BY <1>5, <1>8
<1>22. Carried(ns, c)
  BY <1>1, <1>2, <1>20, <1>21 DEF Carried
<1> QED BY <1>2, <1>16, <1>17, <1>18, <1>19, <1>22 DEF NodesOK, OneMore

\* The children K without the one at position i: the last takes its place.
Shortened(K, i) == Front([K EXCEPT ![i] = Last(K)])

\* What ramfs_unlink leaves in a directory, entry by entry.
LEMMA ClosesUp ==
    ASSUME NEW K \in Seq(Ids), NEW i \in 1 .. Len(K)
    PROVE  /\ Shortened(K, i) \in Seq(Ids)
           /\ Len(Shortened(K, i)) = Len(K) - 1 /\ Len(K) \in Nat
           /\ \A j \in 1 .. Len(K) - 1 :
                Shortened(K, i)[j] = IF j = i THEN K[Len(K)] ELSE K[j]
<1> PICK e, X, R : e = K[Len(K)] /\ X = [K EXCEPT ![i] = e] /\ R = SubSeq(X, 1, Len(X) - 1)
  OBVIOUS
<1>1. Len(K) \in Nat /\ Len(K) \in 1 .. Len(K)
  BY LenProperties
<1>2. e \in Ids
  BY <1>1, ElementOfSeq
<1>3. /\ X \in Seq(Ids) /\ Len(X) = Len(K)
      /\ \A j \in 1 .. Len(K) : X[j] = IF j = i THEN e ELSE K[j]
  BY <1>2, ExceptSeq
<1>4. \A j \in 1 .. Len(K) - 1 : X[j] \in Ids
  BY <1>1, <1>3, ElementOfSeq
<1>5. /\ R \in Seq(Ids) /\ Len(R) = Len(K) - 1
      /\ \A j \in 1 .. Len(K) - 1 : R[j] = X[j]
  <2>1. 1 \in Int /\ Len(K) - 1 \in Int /\ Len(K) - 1 - 1 + 1 = Len(K) - 1 /\ Len(X) - 1 = Len(K) - 1
    BY <1>1, <1>3
  <2>2. /\ R \in Seq(Ids) /\ Len(R) = IF 1 <= Len(K) - 1 THEN Len(K) - 1 - 1 + 1 ELSE 0
        /\ \A j \in 1 .. Len(K) - 1 - 1 + 1 : R[j] = X[1 + j - 1]
    BY <1>4, <2>1, SubSeqProperties
  <2> QED BY <1>1, <2>1, <2>2
<1>6. R = Shortened(K, i)
  BY DEF Shortened, Front, Last
<1>7. \A j \in 1 .. Len(K) - 1 : R[j] = IF j = i THEN K[Len(K)] ELSE K[j]
  BY <1>1, <1>3, <1>5
<1> QED BY <1>1, <1>5, <1>6, <1>7

\* The nodes ms are the nodes ns without one; if it had children, they are lost.
OneLess(ns, ms, gone) ==
    /\ NodesOK(ms) /\ Carried(ns, ms) /\ DOMAIN ms = DOMAIN ns \ {gone}
    /\ Kids(ns, gone) = <<>> => Kept(ns, ms)

\* ramfs_unlink keeps the shape of the nodes, without the one it removes; of one that
\* nothing is in it keeps the tree.
LEMMA Unlinks ==
    ASSUME NEW ns, NodesOK(ns), NEW dir \in DOMAIN ns, NEW i \in 1 .. Len(Kids(ns, dir))
    PROVE  OneLess(ns, Unlink(ns, dir, i), Kids(ns, dir)[i])
<1> PICK K, L, R, gone, u :
      /\ K = Kids(ns, dir) /\ L = Len(K) /\ R = Shortened(K, i)
      /\ gone = K[i] /\ u = Unlink(ns, dir, i)
  OBVIOUS
<1>1. \A n \in DOMAIN ns : /\ ns[n] \in NodeType /\ Kids(ns, n) \in Seq(Ids)
                           /\ Len(Kids(ns, n)) \in Nat /\ Len(Kids(ns, n)) <= MAX_CHILDREN
  BY NodeFields
<1>2. /\ R \in Seq(Ids) /\ Len(R) = L - 1 /\ L \in Nat
      /\ \A j \in 1 .. L - 1 : R[j] = IF j = i THEN K[L] ELSE K[j]
  <2>1. K \in Seq(Ids) /\ i \in 1 .. Len(K)
    BY <1>1
  <2>2. /\ Shortened(K, i) \in Seq(Ids)
        /\ Len(Shortened(K, i)) = Len(K) - 1 /\ Len(K) \in Nat
        /\ \A j \in 1 .. Len(K) - 1 :
             Shortened(K, i)[j] = IF j = i THEN K[Len(K)] ELSE K[j]
    BY ONLY <2>1, ClosesUp
  <2> QED BY <2>2
<1>3. ASSUME NEW n \in DOMAIN ns, NEW j \in 1 .. Len(Kids(ns, n))
      PROVE  Kids(ns, n)[j] \in DOMAIN ns \ {Root}
  BY DEF NodesOK, Placed
<1>4. Root \in DOMAIN ns /\ DOMAIN ns \subseteq Ids
  BY DEF NodesOK, Typed
<1>5. gone \in DOMAIN ns \ {Root}
  BY <1>3
<1>7. DOMAIN u = DOMAIN ns \ {gone}
  BY DEF Unlink, Kids
<1>8. dir # gone => u[dir] = [ns[dir] EXCEPT !.children = R]
  BY DEF Unlink, Kids, Shortened
<1>9. \A n \in DOMAIN u \ {dir} : u[n] = ns[n]
  BY <1>7 DEF Unlink, Kids
<1>10. dir # gone => /\ u[dir] \in NodeType /\ Kids(u, dir) = R
                     /\ u[dir].ref_count = ns[dir].ref_count
                     /\ u[dir].size = ns[dir].size /\ u[dir].capacity = ns[dir].capacity
                     /\ u[dir].vnode_size = ns[dir].vnode_size
  BY <1>1, <1>2, <1>8 DEF NodeType, Kids
<1>11. \A n \in DOMAIN u \ {dir} : Kids(u, n) = Kids(ns, n)
  BY <1>9 DEF Kids
<1> DEFINE src(n, j) == IF n = dir /\ j = i THEN L ELSE j
<1>12. ASSUME NEW n \in DOMAIN u, NEW j \in 1 .. Len(Kids(u, n))
       PROVE  /\ src(n, j) \in 1 .. Len(Kids(ns, n)) /\ Kids(u, n)[j] = Kids(ns, n)[src(n, j)]
              /\ ~(n = dir /\ src(n, j) = i)
              /\ n = dir => j < L
  <2>1. CASE n = dir
    <3>1. j \in 1 .. L - 1 /\ Kids(u, n) = R /\ Kids(ns, n) = K
      BY <1>2, <1>7, <1>10, <2>1
    <3>2. j \in Nat /\ L \in Nat /\ i \in 1 .. L /\ j < L /\ L \in 1 .. L /\ j \in 1 .. L
      BY <1>2, <3>1
    <3>3. CASE j = i
      BY <1>2, <2>1, <3>1, <3>2, <3>3
    <3>4. CASE j # i
      BY <1>2, <2>1, <3>1, <3>2, <3>4
    <3> QED BY <3>3, <3>4
  <2>2. CASE n # dir
    BY <1>11, <2>2
  <2> QED BY <2>1, <2>2
<1>13. ASSUME NEW n \in DOMAIN u, NEW k \in 1 .. Len(Kids(ns, n)), ~(n = dir /\ k = i)
       PROVE  \E j \in 1 .. Len(Kids(u, n)) : Kids(u, n)[j] = Kids(ns, n)[k]
  <2>1. CASE n = dir /\ k = L
    <3>1. i \in 1 .. L - 1
      BY <1>2, <1>13, <2>1
    <3> QED BY <1>2, <1>7, <1>10, <2>1, <3>1
  <2>2. CASE n = dir /\ k # L
    <3>1. k \in 1 .. L - 1 /\ k # i
      BY <1>2, <1>13, <2>2
    <3> QED BY <1>2, <1>7, <1>10, <2>2, <3>1
  <2>3. CASE n # dir
    BY <1>11, <2>3
  <2> QED BY <2>1, <2>2, <2>3
<1>14. Typed(u)
  <2>1. ASSUME NEW n \in DOMAIN u
        PROVE  /\ u[n] \in NodeType /\ Len(Kids(u, n)) <= MAX_CHILDREN
               /\ u[n].vnode_size = u[n].size /\ u[n].size <= u[n].capacity
    <3>1. CASE n = dir
      <4>1. /\ u[dir] \in NodeType /\ Kids(u, dir) = R
            /\ u[dir].size = ns[dir].size /\ u[dir].capacity = ns[dir].capacity
            /\ u[dir].vnode_size = ns[dir].vnode_size
        BY <1>7, <1>10, <3>1
      <4>2. ns[dir].vnode_size = ns[dir].size /\ ns[dir].size <= ns[dir].capacity
        BY DEF NodesOK, Typed
      <4>3. Len(R) = L - 1 /\ L \in Nat /\ L <= MAX_CHILDREN
        BY <1>1, <1>2
      <4>4. Len(R) <= MAX_CHILDREN
        BY ONLY <4>3, ConstantTypes
      <4> QED BY ONLY <3>1, <4>1, <4>2, <4>4
    <3>2. CASE n # dir
      BY <1>7, <1>9, <1>11, <3>2 DEF NodesOK, Typed
    <3> QED BY <3>1, <3>2
  <2>2. u = [n \in DOMAIN u |-> u[n]]
    BY DEF Unlink
  <2> QED BY <1>4, <1>5, <1>7, <2>1, <2>2 DEF Typed
<1>15. Placed(u)
  <2> SUFFICES ASSUME NEW n \in DOMAIN u, NEW j \in 1 .. Len(Kids(u, n))
               PROVE  Kids(u, n)[j] \in DOMAIN u \ {Root}
    BY DEF Placed
  <2>1. PICK k : k = src(n, j)
    OBVIOUS
  <2> HIDE DEF src
  <2>2. k \in 1 .. Len(Kids(ns, n)) /\ Kids(u, n)[j] = Kids(ns, n)[k] /\ ~(n = dir /\ k = i)
    BY <1>12, <2>1
  <2>3. n \in DOMAIN ns
    BY <1>7
  <2>4. Kids(ns, n)[k] # Kids(ns, dir)[i]
    BY <2>2, <2>3, Single
  <2> QED BY <1>3, <1>7, <2>2, <2>3, <2>4
<1>16. Once(u)
  <2> SUFFICES ASSUME NEW n \in DOMAIN u, NEW m \in DOMAIN u,
                      NEW j \in 1 .. Len(Kids(u, n)), NEW k \in 1 .. Len(Kids(u, m)),
                      Kids(u, n)[j] = Kids(u, m)[k]
               PROVE  n = m /\ j = k
    BY DEF Once
  <2>1. PICK a, b : a = src(n, j) /\ b = src(m, k)
    OBVIOUS
  <2>2. /\ a \in 1 .. Len(Kids(ns, n)) /\ Kids(u, n)[j] = Kids(ns, n)[a]
        /\ b \in 1 .. Len(Kids(ns, m)) /\ Kids(u, m)[k] = Kids(ns, m)[b]
        /\ n = dir => j < L
        /\ m = dir => k < L
    <3> HIDE DEF src
    <3> QED BY <1>12, <2>1
  <2>3. n \in DOMAIN ns /\ m \in DOMAIN ns /\ Kids(ns, n)[a] = Kids(ns, m)[b]
    BY <1>7, <2>2
  <2>4. n = m /\ a = b
    <3> HIDE DEF src
    <3> QED BY <2>2, <2>3, Single
  <2>5. j = k
    BY <1>2, <2>1, <2>2, <2>4
  <2> QED BY <2>4, <2>5
<1>17. Kids(ns, gone) = <<>> => Kept(ns, u)
  <2> SUFFICES ASSUME Kids(ns, gone) = <<>>, Connected(ns),
                      NEW S \in SUBSET DOMAIN u, Root \in S, Hereditary(u, S)
               PROVE  S = DOMAIN u
    BY DEF Kept, Connected
  <2>1. Hereditary(ns, S \cup {gone})
    <3> SUFFICES ASSUME NEW n \in S \cup {gone}, NEW k \in 1 .. Len(Kids(ns, n))
                 PROVE  Kids(ns, n)[k] \in S \cup {gone}
      BY DEF Hereditary
    <3>1. CASE n = gone
      BY <3>1
    <3>2. CASE n # gone /\ n = dir /\ k = i
      BY <3>2
    <3>3. CASE n # gone /\ ~(n = dir /\ k = i)
      <4>1. n \in S /\ n \in DOMAIN u
        BY <3>3
      <4>2. PICK j \in 1 .. Len(Kids(u, n)) : Kids(u, n)[j] = Kids(ns, n)[k]
        BY <1>13, <3>3, <4>1
      <4>3. Kids(u, n)[j] \in S
        BY <4>1 DEF Hereditary
      <4> QED BY <4>2, <4>3
    <3> QED BY <3>1, <3>2, <3>3
  <2>2. S \cup {gone} = DOMAIN ns
    BY <1>5, <1>7, <2>1 DEF Connected
  <2> QED BY <1>7, <2>2
<1>18. \A n \in DOMAIN u : u[n].ref_count = ns[n].ref_count
  BY <1>7, <1>9, <1>10
<1> HIDE DEF src
<1>19. Carried(ns, u)
  BY <1>5, <1>7, <1>18 DEF Carried
<1> QED BY <1>7, <1>14, <1>15, <1>16, <1>17, <1>19 DEF NodesOK, OneLess

-----------------------------------------------------------------------------
(* Changes of single nodes.                                                *)

\* Whatever keeps the children and the two sizes together keeps the tree.
LEMMA SameTree ==
    ASSUME NEW ns, NodesOK(ns), NEW ms \in [DOMAIN ns -> NodeType],
           \A n \in DOMAIN ns : /\ Kids(ms, n) = Kids(ns, n)
                                /\ ms[n].vnode_size = ms[n].size
                                /\ ms[n].size <= ms[n].capacity
    PROVE  NodesOK(ms) /\ Kept(ns, ms)
<1>1. DOMAIN ms = DOMAIN ns
  OBVIOUS
<1>2. Typed(ms) /\ Placed(ms)
  BY <1>1 DEF NodesOK, Typed, Placed
<1>3. Once(ms)
  <2> SUFFICES ASSUME NEW n \in DOMAIN ms, NEW m \in DOMAIN ms,
                      NEW i \in 1 .. Len(Kids(ms, n)), NEW j \in 1 .. Len(Kids(ms, m)),
                      Kids(ms, n)[i] = Kids(ms, m)[j]
               PROVE  n = m /\ i = j
    BY DEF Once
  <2> QED BY <1>1, Single
<1>4. Kept(ns, ms)
  <2> SUFFICES ASSUME Connected(ns), NEW S \in SUBSET DOMAIN ns, Root \in S, Hereditary(ms, S)
               PROVE  S = DOMAIN ns
    BY <1>1 DEF Kept, Connected
  <2>1. Hereditary(ns, S)
    BY DEF Hereditary
  <2> QED BY <2>1 DEF Connected
<1> QED BY <1>2, <1>3, <1>4 DEF NodesOK

\* ramfs_truncate to 0 sets the size the vnode knows, too.
LEMMA Truncates ==
    ASSUME NEW ns, NodesOK(ns), NEW n \in DOMAIN ns
    PROVE  /\ NodesOK(Truncate(ns, n)) /\ Kept(ns, Truncate(ns, n)) /\ DOMAIN Truncate(ns, n) = DOMAIN ns
           /\ Carried(ns, Truncate(ns, n))
<1> PICK ms, r : ms = Truncate(ns, n) /\ r = ns[n]
  OBVIOUS
<1>1. \A m \in DOMAIN ns : ns[m] \in NodeType /\ ns[m].vnode_size = ns[m].size
                           /\ ns[m].size <= ns[m].capacity
  BY DEF NodesOK, Typed
<1>2. DOMAIN ms = DOMAIN ns /\ \A m \in DOMAIN ns \ {n} : ms[m] = ns[m]
  BY DEF Truncate
<1>3. ms[n] = [r EXCEPT !.size = 0, !.capacity = 0, !.vnode_size = 0]
  BY DEF Truncate
<1>4. /\ ms[n] \in NodeType /\ ms[n].children = r.children
      /\ ms[n].ref_count = r.ref_count
      /\ ms[n].size = 0 /\ ms[n].vnode_size = 0 /\ ms[n].capacity = 0
  <2>1. 0 \in 0 .. MaxSize /\ 0 \in 0 .. MaxSize + BLOCK /\ r \in NodeType
    BY <1>1, ConstantTypes
  <2> QED BY <1>3, <2>1 DEF NodeType
<1>5. ms = [m \in DOMAIN ns |-> ms[m]]
  BY <1>2 DEF Truncate
<1>6. ms \in [DOMAIN ns -> NodeType]
  BY <1>1, <1>2, <1>4, <1>5
<1>7. \A m \in DOMAIN ns : /\ Kids(ms, m) = Kids(ns, m)
                           /\ ms[m].vnode_size = ms[m].size
                           /\ ms[m].size <= ms[m].capacity
  BY <1>1, <1>2, <1>4 DEF Kids
<1>8. NodesOK(ms) /\ Kept(ns, ms)
  BY <1>6, <1>7, SameTree
<1> QED BY <1>2, <1>4, <1>8 DEF Carried

\* The nodes with another count of one.
Recounted(ns, n, k) == [ns EXCEPT ![n].ref_count = k]

\* Counting an open file more or less keeps the tree.
LEMMA Recounts ==
    ASSUME NEW ns, NodesOK(ns), NEW n \in DOMAIN ns, NEW k \in Nat
    PROVE  /\ NodesOK(Recounted(ns, n, k)) /\ Kept(ns, Recounted(ns, n, k))
           /\ DOMAIN Recounted(ns, n, k) = DOMAIN ns
           /\ Recounted(ns, n, k)[n].ref_count = k
           /\ \A m \in DOMAIN ns \ {n} :
                Recounted(ns, n, k)[m].ref_count = ns[m].ref_count
<1> PICK ms, r : ms = Recounted(ns, n, k) /\ r = ns[n]
  OBVIOUS
<1>1. \A m \in DOMAIN ns : ns[m] \in NodeType /\ ns[m].vnode_size = ns[m].size
                           /\ ns[m].size <= ns[m].capacity
  BY DEF NodesOK, Typed
<1>2. DOMAIN ms = DOMAIN ns /\ \A m \in DOMAIN ns \ {n} : ms[m] = ns[m]
  BY DEF Recounted
<1>3. ms[n] = [r EXCEPT !.ref_count = k]
  BY DEF Recounted
<1>4. /\ ms[n] \in NodeType /\ ms[n].children = r.children /\ ms[n].ref_count = k
      /\ ms[n].size = r.size /\ ms[n].vnode_size = r.vnode_size
      /\ ms[n].capacity = r.capacity
  BY <1>1, <1>3 DEF NodeType
<1>5. ms = [m \in DOMAIN ns |-> ms[m]]
  BY <1>2 DEF Recounted
<1>6. ms \in [DOMAIN ns -> NodeType]
  BY <1>1, <1>2, <1>4, <1>5
<1>7. \A m \in DOMAIN ns : /\ Kids(ms, m) = Kids(ns, m)
                           /\ ms[m].vnode_size = ms[m].size
                           /\ ms[m].size <= ms[m].capacity
  BY <1>1, <1>2, <1>4 DEF Kids
<1>8. NodesOK(ms) /\ Kept(ns, ms)
  BY <1>6, <1>7, SameTree
<1> QED BY <1>2, <1>4, <1>8

\* ramfs_write at an offset in the file, of what stays within the bound.
LEMMA Writes ==
    ASSUME NEW ns, NodesOK(ns), NEW n \in DOMAIN ns, NEW off \in Nat, NEW count \in Nat,
           off + count <= MaxSize
    PROVE  /\ NodesOK([ns EXCEPT ![n] = Written(@, off, count)])
           /\ Kept(ns, [ns EXCEPT ![n] = Written(@, off, count)])
           /\ DOMAIN [ns EXCEPT ![n] = Written(@, off, count)] = DOMAIN ns
           /\ Carried(ns, [ns EXCEPT ![n] = Written(@, off, count)])
<1> PICK ms, r : ms = [ns EXCEPT ![n] = Written(@, off, count)] /\ r = ns[n]
  OBVIOUS
<1>1. \A m \in DOMAIN ns : ns[m] \in NodeType /\ ns[m].vnode_size = ns[m].size
                           /\ ns[m].size <= ns[m].capacity
  BY DEF NodesOK, Typed
<1>2. DOMAIN ms = DOMAIN ns /\ \A m \in DOMAIN ns \ {n} : ms[m] = ns[m]
  OBVIOUS
<1> PICK needed, big, room :
      /\ needed = off + count /\ big = Max({r.size, needed})
      /\ room = IF needed > r.capacity THEN needed + BLOCK ELSE r.capacity
  OBVIOUS
<1>3. ms[n] = [r EXCEPT !.capacity = room, !.size = big, !.vnode_size = big]
  BY DEF Written
<1>4. r.size \in 0 .. MaxSize /\ r.capacity \in 0 .. MaxSize + BLOCK /\ r.size <= r.capacity
  BY <1>1 DEF NodeType
<1>5. big \in {r.size, needed} /\ r.size <= big /\ needed <= big
  <2>1. needed \in Nat /\ r.size \in Nat
    BY <1>4, ConstantTypes
  <2>2. \E m \in {r.size, needed} : \A k \in {r.size, needed} : m >= k
    BY <2>1
  <2> QED BY <2>1, <2>2 DEF Max
<1>6. /\ big \in 0 .. MaxSize /\ room \in 0 .. MaxSize + BLOCK /\ big <= room
  BY <1>4, <1>5, ConstantTypes
<1>7. /\ ms[n] \in NodeType /\ ms[n].children = r.children
      /\ ms[n].ref_count = r.ref_count
      /\ ms[n].size = big /\ ms[n].vnode_size = big /\ ms[n].capacity = room
  BY <1>1, <1>3, <1>6 DEF NodeType
<1>8. ms = [m \in DOMAIN ns |-> ms[m]]
  BY <1>2
<1>9. ms \in [DOMAIN ns -> NodeType]
  BY <1>1, <1>2, <1>7, <1>8
<1>10. \A m \in DOMAIN ns : /\ Kids(ms, m) = Kids(ns, m)
                            /\ ms[m].vnode_size = ms[m].size
                            /\ ms[m].size <= ms[m].capacity
  BY <1>1, <1>2, <1>6, <1>7 DEF Kids
<1>11. NodesOK(ms) /\ Kept(ns, ms)
  BY <1>9, <1>10, SameTree
<1> QED BY <1>2, <1>7, <1>11 DEF Carried

-----------------------------------------------------------------------------
(* Open files and the counts of the nodes.                                 *)

\* The open files are finitely many.
LEMMA FilesFinite ==
    ASSUME NEW fs, DOMAIN fs \subseteq Files
    PROVE  /\ IsFiniteSet(DOMAIN fs)
           /\ \A n : IsFiniteSet(Openers(fs, n))
<1>1. IsFiniteSet(Files)
  <2>1. 1 \in Int /\ MaxOpen \in Int
    BY ConstantTypes
  <2> QED BY <2>1, FS_Interval DEF Files
<1>2. IsFiniteSet(DOMAIN fs)
  BY <1>1, FS_Subset
<1>3. \A n : Openers(fs, n) \in SUBSET DOMAIN fs
  BY DEF Openers
<1> QED BY <1>2, <1>3, FS_Subset

\* No open file is on a node that the change brings.
OnOld(fs, ns, ms) == \A f \in DOMAIN fs : fs[f].vnode \notin DOMAIN ms \ DOMAIN ns

\* Such a change keeps the counts.
LEMMA CountsCarry ==
    ASSUME NEW fs, NEW ns, CountsOK(fs, ns), NEW ms, Carried(ns, ms), OnOld(fs, ns, ms)
    PROVE  CountsOK(fs, ms)
<1>1. ASSUME NEW n \in DOMAIN ms PROVE ms[n].ref_count = Cardinality(Openers(fs, n))
  <2>1. CASE n \in DOMAIN ns
    BY <2>1 DEF CountsOK, Carried
  <2>2. CASE n \notin DOMAIN ns
    <3>1. Openers(fs, n) = {}
      BY <2>2 DEF OnOld, Openers
    <3> QED BY <2>2, <3>1, FS_EmptySet DEF Carried
  <2> QED BY <2>1, <2>2
<1> QED BY <1>1 DEF CountsOK

\* A change of the open files that leaves their nodes alone.
LEMMA CountsStay ==
    ASSUME NEW fs, NEW ns, CountsOK(fs, ns), NEW gs \in [DOMAIN fs -> FileType],
           \A f \in DOMAIN fs : gs[f].vnode = fs[f].vnode
    PROVE  CountsOK(gs, ns)
<1>1. DOMAIN gs = DOMAIN fs
  OBVIOUS
<1>2. \A n : Openers(gs, n) = Openers(fs, n)
  BY <1>1 DEF Openers
<1> QED BY <1>1, <1>2 DEF CountsOK

\* The open files with file f on node n added.
WithOpen(fs, f, n, off) ==
    [g \in DOMAIN fs \cup {f} |->
        IF g # f THEN fs[g] ELSE [vnode |-> n, ref |-> 1, offset |-> off]]

\* Open files that refer to nodes go on to do so.
RootedKept(fs, ns, gs, ms) == Rooted(fs, ns) => Rooted(gs, ms)

\* file_open counts the file it opens in its node.
LEMMA Opens ==
    ASSUME NEW fs, NEW ns, NodesOK(ns), CountsOK(fs, ns),
           NEW f \in Files, f \notin DOMAIN fs, NEW n \in DOMAIN ns, NEW off \in 0 .. MaxSize
    PROVE  /\ CountsOK(WithOpen(fs, f, n, off), [ns EXCEPT ![n].ref_count = @ + 1])
           /\ NodesOK([ns EXCEPT ![n].ref_count = @ + 1])
           /\ Kept(ns, [ns EXCEPT ![n].ref_count = @ + 1])
           /\ DOMAIN [ns EXCEPT ![n].ref_count = @ + 1] = DOMAIN ns
           /\ RootedKept(fs, ns, WithOpen(fs, f, n, off), [ns EXCEPT ![n].ref_count = @ + 1])
<1> PICK gs, ms, k : /\ gs = WithOpen(fs, f, n, off)
                     /\ ms = [ns EXCEPT ![n].ref_count = @ + 1]
                     /\ k = ns[n].ref_count
  OBVIOUS
<1>1. k \in Nat /\ k = Cardinality(Openers(fs, n))
  BY NodeFields DEF CountsOK, NodeType
<1>2. ms = Recounted(ns, n, k + 1)
  BY DEF Recounted
<1>3. /\ NodesOK(ms) /\ Kept(ns, ms) /\ DOMAIN ms = DOMAIN ns /\ ms[n].ref_count = k + 1
      /\ \A m \in DOMAIN ns \ {n} : ms[m].ref_count = ns[m].ref_count
  <2>1. k + 1 \in Nat
    BY <1>1
  <2>7. PICK j \in Nat : j = k + 1
    BY <2>1
  <2>8. /\ NodesOK(Recounted(ns, n, j)) /\ Kept(ns, Recounted(ns, n, j))
        /\ DOMAIN Recounted(ns, n, j) = DOMAIN ns
        /\ Recounted(ns, n, j)[n].ref_count = j
        /\ \A m \in DOMAIN ns \ {n} : Recounted(ns, n, j)[m].ref_count = ns[m].ref_count
    BY Recounts
  <2> QED BY <1>2, <2>7, <2>8
<1>4. /\ DOMAIN gs = DOMAIN fs \cup {f} /\ gs[f] = [vnode |-> n, ref |-> 1, offset |-> off]
      /\ \A g \in DOMAIN fs : gs[g] = fs[g]
  BY DEF WithOpen
<1>5. n \in Ids /\ DOMAIN fs \subseteq Files
  BY DEF NodesOK, Typed, CountsOK
<1>6. gs[f] \in FileType
  BY <1>4, <1>5 DEF FileType
<1>7. gs \in [DOMAIN gs -> FileType]
  <2>1. \A g \in DOMAIN gs : gs[g] \in FileType
    BY <1>4, <1>6 DEF CountsOK
  <2>2. gs = [g \in DOMAIN gs |-> gs[g]]
    BY DEF WithOpen
  <2> QED BY <2>1, <2>2
<1>8. Openers(gs, n) = Openers(fs, n) \cup {f} /\ f \notin Openers(fs, n)
  BY <1>4 DEF Openers
<1>9. Cardinality(Openers(gs, n)) = k + 1
  BY <1>1, <1>5, <1>8, FilesFinite, FS_AddElement
<1>10. \A m \in DOMAIN ns \ {n} : Openers(gs, m) = Openers(fs, m)
  BY <1>4 DEF Openers
<1>11. RootedKept(fs, ns, gs, ms)
  BY <1>3, <1>4 DEF RootedKept, Rooted
<1> QED BY <1>11, <1>3, <1>4, <1>5, <1>7, <1>9, <1>10 DEF CountsOK

\* The open files gs after a file_close of f among fs.
Dropped(fs, gs, f) ==
    /\ DOMAIN gs = IF fs[f].ref > 1 THEN DOMAIN fs ELSE DOMAIN fs \ {f}
    /\ \A g \in DOMAIN fs \ {f} : gs[g] = fs[g]
    /\ fs[f].ref > 1 => gs[f].ref = fs[f].ref - 1

\* file_close takes a descriptor off the file, and with the last one the file
\* off its node.
LEMMA Closes ==
    ASSUME NEW fs, NEW ns, NodesOK(ns), CountsOK(fs, ns), NEW f \in DOMAIN fs,
           fs[f].ref > 1 \/ fs[f].vnode \in DOMAIN ns, NEW c, c = file_close(fs, ns, f)
    PROVE  /\ NodesOK(c.nodes) /\ Kept(ns, c.nodes) /\ DOMAIN c.nodes = DOMAIN ns
           /\ CountsOK(c.files, c.nodes) /\ RootedKept(fs, ns, c.files, c.nodes)
           /\ Dropped(fs, c.files, f)
<1>1. /\ DOMAIN fs \subseteq Files /\ \A g \in DOMAIN fs : fs[g] \in FileType
      /\ fs = [g \in DOMAIN fs |-> fs[g]]
  BY DEF CountsOK
<1>2. CASE fs[f].ref > 1
  <2> PICK gs, r : gs = c.files /\ r = fs[f]
    OBVIOUS
  <2>1. gs = [fs EXCEPT ![f].ref = @ - 1] /\ c.nodes = ns
    BY <1>2 DEF file_close
  <2>2. gs[f] = [r EXCEPT !.ref = r.ref - 1] /\ r \in FileType /\ r.ref - 1 \in Nat \ {0}
    BY <1>1, <1>2, <2>1 DEF FileType
  <2>3. gs[f] \in FileType /\ gs[f].vnode = r.vnode /\ gs[f].ref = r.ref - 1
    BY <2>2 DEF FileType
  <2>4. DOMAIN gs = DOMAIN fs /\ \A g \in DOMAIN fs \ {f} : gs[g] = fs[g]
    BY <2>1
  <2>5. gs = [g \in DOMAIN fs |-> gs[g]]
    BY <2>1
  <2>6. gs \in [DOMAIN fs -> FileType] /\ \A g \in DOMAIN fs : gs[g].vnode = fs[g].vnode
    BY <1>1, <2>3, <2>4, <2>5
  <2>7. CountsOK(gs, ns)
    BY <2>6, CountsStay
  <2>8. RootedKept(fs, ns, gs, ns)
    BY <2>4, <2>6 DEF RootedKept, Rooted
  <2> QED BY <1>2, <2>1, <2>3, <2>4, <2>7, <2>8 DEF Dropped, Kept
<1>3. CASE ~(fs[f].ref > 1)
  <2> PICK gs, ms, n, k : gs = c.files /\ ms = c.nodes /\ n = fs[f].vnode /\ k = ns[n].ref_count
    OBVIOUS
  <2>1. gs = [g \in DOMAIN fs \ {f} |-> fs[g]] /\ ms = Recounted(ns, n, k - 1)
    BY <1>3 DEF file_close, Recounted
  <2>2. n \in DOMAIN ns /\ k \in Nat /\ k = Cardinality(Openers(fs, n))
    <3>1. n \in DOMAIN ns
      BY <1>3
    <3> QED BY <3>1, NodeFields DEF CountsOK, NodeType
  <2>3. /\ f \in Openers(fs, n) /\ Openers(gs, n) = Openers(fs, n) \ {f}
        /\ \A m \in DOMAIN ns \ {n} : Openers(gs, m) = Openers(fs, m)
    BY <2>1 DEF Openers
  <2>4. Cardinality(Openers(gs, n)) = k - 1 /\ k - 1 \in Nat
    <3>1. Cardinality(Openers(gs, n)) = k - 1
      BY <1>1, <2>2, <2>3, FilesFinite, FS_RemoveElement
    <3>2. k # 0
      BY <1>1, <2>2, <2>3, FilesFinite, FS_EmptySet
    <3> QED BY <2>2, <3>1, <3>2
  <2>5. /\ NodesOK(ms) /\ Kept(ns, ms) /\ DOMAIN ms = DOMAIN ns /\ ms[n].ref_count = k - 1
        /\ \A m \in DOMAIN ns \ {n} : ms[m].ref_count = ns[m].ref_count
    <3>7. PICK j \in Nat : j = k - 1
      BY <2>4
    <3>8. /\ NodesOK(Recounted(ns, n, j)) /\ Kept(ns, Recounted(ns, n, j))
          /\ DOMAIN Recounted(ns, n, j) = DOMAIN ns
          /\ Recounted(ns, n, j)[n].ref_count = j
          /\ \A m \in DOMAIN ns \ {n} : Recounted(ns, n, j)[m].ref_count = ns[m].ref_count
      BY Recounts, <2>2
    <3> QED BY <2>1, <3>7, <3>8
  <2>6. gs \in [DOMAIN gs -> FileType] /\ DOMAIN gs = DOMAIN fs \ {f}
    BY <1>1, <2>1
  <2>7. CountsOK(gs, ms)
    <3>2. ASSUME NEW m \in DOMAIN ms PROVE ms[m].ref_count = Cardinality(Openers(gs, m))
      <4>1. CASE m = n
        BY <2>4, <2>5, <4>1
      <4>2. CASE m # n
        BY <2>3, <2>5, <4>2 DEF CountsOK
      <4> QED BY <4>1, <4>2
    <3>3. DOMAIN gs \subseteq Files
      BY <1>1, <2>6
    <3> QED BY <2>6, <3>2, <3>3 DEF CountsOK
  <2>8. RootedKept(fs, ns, gs, ms)
    BY <2>1, <2>5, <2>6 DEF RootedKept, Rooted
  <2> QED BY <1>3, <2>1, <2>5, <2>6, <2>7, <2>8 DEF Dropped
<1> QED BY <1>2, <1>3

-----------------------------------------------------------------------------
(* Descriptors and the counts of the open files.                           *)

\* The descriptors of all processes are finitely many.
LEMMA SlotsFinite ==
    /\ IsFiniteSet(Procs \X Fds) /\ Cardinality(Procs \X Fds) = Cardinality(Procs) * MAX_FDS
    /\ \A ds, f : IsFiniteSet(Sharers(ds, f))
<1>1. IsFiniteSet(Fds) /\ Cardinality(Fds) = MAX_FDS
  <2>1. MAX_FDS \in Nat \ {0} /\ 0 \in Int /\ MAX_FDS - 1 \in Int /\ ~(0 > MAX_FDS - 1)
        /\ MAX_FDS - 1 - 0 + 1 = MAX_FDS
    BY ConstantTypes
  <2>2. /\ IsFiniteSet(0 .. MAX_FDS - 1)
        /\ Cardinality(0 .. MAX_FDS - 1) = IF 0 > MAX_FDS - 1 THEN 0 ELSE MAX_FDS - 1 - 0 + 1
    BY <2>1, FS_Interval
  <2> QED BY <2>1, <2>2 DEF Fds
<1>2. IsFiniteSet(Procs \X Fds) /\ Cardinality(Procs \X Fds) = Cardinality(Procs) * MAX_FDS
  BY <1>1, FilesAssumption, FS_Product
<1>3. \A ds, f : Sharers(ds, f) \in SUBSET (Procs \X Fds)
  BY DEF Sharers
<1> QED BY <1>2, <1>3, FS_Subset

\* The descriptors with d of process p changed.
Put(ds, p, d, f) == [ds EXCEPT ![p][d] = f]

\* A new file that only one descriptor, free before, refers to.
LEMMA Installs ==
    ASSUME NEW H, NEW fs, NEW ds, SharesOK(fs, ds, H), None \notin DOMAIN fs,
           NEW p \in Procs, NEW d \in Fds, ds[p][d] = None,
           NEW f \in Files, f \notin DOMAIN fs, \A q \in Procs, e \in Fds : ds[q][e] # f,
           NEW gs, DOMAIN gs = DOMAIN fs \cup {f},
           gs[f].ref = 1, \A g \in DOMAIN fs : gs[g] = fs[g]
    PROVE  SharesOK(gs, Put(ds, p, d, f), H) /\ SharesKept(fs, ds, gs, Put(ds, p, d, f), H)
<1> PICK es, V : es = Put(ds, p, d, f) /\ V = (Files \ H) \cup {None}
  OBVIOUS
<1>1. H \subseteq DOMAIN fs /\ ds \in [Procs -> [Fds -> V]] /\ f \in V
  BY DEF SharesOK
<1>2. /\ es \in [Procs -> [Fds -> V]]
      /\ \A q \in Procs, e \in Fds :
           es[q][e] = IF q = p /\ e = d THEN f ELSE ds[q][e]
  BY <1>1 DEF Put
<1>3. Cardinality(Sharers(es, f)) = 1
  <2>1. Sharers(es, f) = {<<p, d>>}
    BY <1>2 DEF Sharers
  <2> QED BY <2>1, FS_Singleton
<1>4. \A g \in DOMAIN fs : Sharers(es, g) = Sharers(ds, g)
  BY <1>2 DEF Sharers
<1>5. Live(fs, ds, H) => Live(gs, es, H)
  <2> SUFFICES ASSUME Live(fs, ds, H) PROVE Live(gs, es, H)
    OBVIOUS
  <2>1. \A q \in Procs, e \in Fds : es[q][e] \in DOMAIN gs \cup {None}
    BY <1>2 DEF Live
  <2>2. \A g \in DOMAIN gs \ H : gs[g].ref >= Cardinality(Sharers(es, g))
    BY <1>3, <1>4 DEF Live
  <2> QED BY <2>1, <2>2 DEF Live
<1>6. Exact(fs, ds, H) => Exact(gs, es, H)
  BY <1>3, <1>4 DEF Exact
<1> QED BY <1>1, <1>2, <1>5, <1>6 DEF SharesOK, SharesKept

\* A descriptor let go of, with what file_close does to the open files.
LEMMA Releases ==
    ASSUME NEW H, NEW fs, NEW ds, SharesOK(fs, ds, H), None \notin DOMAIN fs,
           NEW p \in Procs, NEW d \in Fds, NEW f \in DOMAIN fs, ds[p][d] = f,
           fs[f].ref \in Nat \ {0}, NEW gs, Dropped(fs, gs, f)
    PROVE  SharesOK(gs, Put(ds, p, d, None), H) /\ SharesKept(fs, ds, gs, Put(ds, p, d, None), H)
<1> PICK es, n, V : /\ es = Put(ds, p, d, None) /\ n = fs[f].ref
                    /\ V = (Files \ H) \cup {None}
  OBVIOUS
<1>0. /\ DOMAIN gs = IF n > 1 THEN DOMAIN fs ELSE DOMAIN fs \ {f}
      /\ \A g \in DOMAIN fs \ {f} : gs[g] = fs[g]
      /\ n > 1 => gs[f].ref = n - 1
  BY DEF Dropped
<1>1. /\ H \subseteq DOMAIN fs /\ ds \in [Procs -> [Fds -> V]] /\ None \in V
      /\ f \notin H
  BY DEF SharesOK
<1>2. /\ es \in [Procs -> [Fds -> V]]
      /\ \A q \in Procs, e \in Fds :
           es[q][e] = IF q = p /\ e = d THEN None ELSE ds[q][e]
  BY <1>1 DEF Put
<1>3. Sharers(es, f) = Sharers(ds, f) \ {<<p, d>>} /\ <<p, d>> \in Sharers(ds, f)
  BY <1>2 DEF Sharers
<1>4. \A g \in DOMAIN fs \ {f} : Sharers(es, g) = Sharers(ds, g)
  BY <1>2 DEF Sharers
<1> PICK was, is : was = Cardinality(Sharers(ds, f)) /\ is = Cardinality(Sharers(es, f))
  OBVIOUS
<1>5. was \in Nat /\ is \in Nat /\ is = was - 1
  <2>1. IsFiniteSet(Sharers(ds, f)) /\ IsFiniteSet(Sharers(es, f))
    BY SlotsFinite
  <2> QED BY <1>3, <2>1, FS_RemoveElement, FS_CardinalityType
<1>6. Live(fs, ds, H) => Live(gs, es, H)
  <2> SUFFICES ASSUME Live(fs, ds, H) PROVE Live(gs, es, H)
    OBVIOUS
  <2>1. n >= was /\ n \in Nat \ {0}
    BY <1>1 DEF Live
  <2>2. ASSUME NEW g \in DOMAIN gs \ H PROVE gs[g].ref >= Cardinality(Sharers(es, g))
    <3>1. CASE g = f
      <4>1. n > 1 /\ gs[f].ref >= is
        BY <1>0, <1>5, <2>1, <3>1
      <4> QED BY <3>1, <4>1, Zenon
    <3>2. CASE g # f
      BY <1>0, <1>4, <3>2 DEF Live
    <3> QED BY <3>1, <3>2
  <2>3. ASSUME NEW q \in Procs, NEW e \in Fds PROVE es[q][e] \in DOMAIN gs \cup {None}
    <3>1. es[q][e] \in DOMAIN fs \cup {None}
      BY <1>2 DEF Live
    <3>2. CASE es[q][e] = f /\ ~(n > 1)
      <4>1. is = 0
        BY <1>5, <2>1, <3>2
      <4>2. Sharers(es, f) = {}
        BY <4>1, SlotsFinite, FS_EmptySet
      <4>3. <<q, e>> \in Sharers(es, f)
        BY <3>2 DEF Sharers
      <4> QED BY <4>2, <4>3
    <3>3. CASE ~(es[q][e] = f /\ ~(n > 1))
      BY <1>0, <3>1, <3>3
    <3> QED BY <3>2, <3>3
  <2> QED BY <2>2, <2>3 DEF Live
<1>7. Exact(fs, ds, H) => Exact(gs, es, H)
  <2> SUFFICES ASSUME Exact(fs, ds, H), NEW g \in DOMAIN gs \ H
               PROVE  gs[g].ref = Cardinality(Sharers(es, g))
    BY DEF Exact
  <2>1. CASE g = f
    BY <1>0, <1>1, <1>5, <2>1 DEF Exact
  <2>2. CASE g # f
    BY <1>0, <1>4, <2>2 DEF Exact
  <2> QED BY <2>1, <2>2
<1>8. H \subseteq DOMAIN gs
  BY <1>0, <1>1
<1> QED BY <1>2, <1>6, <1>7, <1>8 DEF SharesOK, SharesKept

\* A free descriptor made to share an open file, which counts it.
LEMMA SharesOne ==
    ASSUME NEW H, NEW fs, NEW ds, SharesOK(fs, ds, H), None \notin DOMAIN fs,
           NEW p \in Procs, NEW d \in Fds, ds[p][d] = None,
           NEW f \in DOMAIN fs, f \in Files \ H, fs[f].ref \in Nat \ {0},
           NEW gs, DOMAIN gs = DOMAIN fs, \A g \in DOMAIN fs \ {f} : gs[g] = fs[g],
           gs[f].ref = fs[f].ref + 1
    PROVE  SharesOK(gs, Put(ds, p, d, f), H) /\ SharesKept(fs, ds, gs, Put(ds, p, d, f), H)
<1> PICK es, V : es = Put(ds, p, d, f) /\ V = (Files \ H) \cup {None}
  OBVIOUS
<1>1. H \subseteq DOMAIN fs /\ ds \in [Procs -> [Fds -> V]] /\ f \in V
  BY DEF SharesOK
<1>2. /\ es \in [Procs -> [Fds -> V]]
      /\ \A q \in Procs, e \in Fds :
           es[q][e] = IF q = p /\ e = d THEN f ELSE ds[q][e]
  BY <1>1 DEF Put
<1>3. Sharers(es, f) = Sharers(ds, f) \cup {<<p, d>>} /\ <<p, d>> \notin Sharers(ds, f)
  BY <1>2 DEF Sharers
<1>4. \A g \in DOMAIN fs \ {f} : Sharers(es, g) = Sharers(ds, g)
  BY <1>2 DEF Sharers
<1> PICK was, is, n : /\ was = Cardinality(Sharers(ds, f)) /\ is = Cardinality(Sharers(es, f))
                      /\ n = fs[f].ref
  OBVIOUS
<1>5. was \in Nat /\ is = was + 1
  BY <1>3, SlotsFinite, FS_AddElement, FS_CardinalityType
<1>6. Live(fs, ds, H) => Live(gs, es, H)
  <2> SUFFICES ASSUME Live(fs, ds, H) PROVE Live(gs, es, H)
    OBVIOUS
  <2>1. n >= was /\ n \in Nat
    BY DEF Live
  <2>2. ASSUME NEW g \in DOMAIN gs \ H PROVE gs[g].ref >= Cardinality(Sharers(es, g))
    <3>1. CASE g = f
      <4>1. gs[f].ref >= is
        BY <1>5, <2>1
      <4> QED BY <3>1, <4>1, Zenon
    <3>2. CASE g # f
      BY <1>4, <3>2 DEF Live
    <3> QED BY <3>1, <3>2
  <2>3. \A q \in Procs, e \in Fds : es[q][e] \in DOMAIN gs \cup {None}
    BY <1>2 DEF Live
  <2> QED BY <2>2, <2>3 DEF Live
<1>7. Exact(fs, ds, H) => Exact(gs, es, H)
  <2> SUFFICES ASSUME Exact(fs, ds, H), NEW g \in DOMAIN gs \ H
               PROVE  gs[g].ref = Cardinality(Sharers(es, g))
    BY DEF Exact
  <2>1. CASE g = f
    BY <1>5, <2>1 DEF Exact
  <2>2. CASE g # f
    BY <1>4, <2>2 DEF Exact
  <2> QED BY <2>1, <2>2
<1> QED BY <1>1, <1>2, <1>6, <1>7 DEF SharesOK, SharesKept

-----------------------------------------------------------------------------
(* The calls.                                                              *)

\* A descriptor of an open file is none of those the kernel holds.
LEMMA InUse ==
    ASSUME NEW H, FilesOK(H), NEW p \in Procs, NEW d \in Fds, fds[p][d] \in DOMAIN files
    PROVE  /\ fds[p][d] \in DOMAIN files \ H /\ files[fds[p][d]] \in FileType
           /\ fds[p][d] \in Files
<1>1. fds[p][d] \in (Files \ H) \cup {None}
  BY DEF FilesOK, SharesOK
<1>2. None \notin DOMAIN files /\ \A f \in DOMAIN files : files[f] \in FileType
  BY ConstantTypes DEF FilesOK, CountsOK
<1> QED BY <1>1, <1>2

\* No open file is None.
LEMMA NoneNotOpen == \A H : FilesOK(H) => None \notin DOMAIN files
BY ConstantTypes DEF FilesOK, CountsOK

\* A call that records no misuse and keeps all there is to keep.
LEMMA Keeping ==
    ASSUME NEW H, FilesOK(H), misuse' = misuse,
           NodesOK(nodes'), CountsOK(files', nodes'), SharesOK(files', fds', H),
           cwd' \in [Procs -> Seq(Parts)], Kept(nodes, nodes'),
           RootedKept(files, nodes, files', nodes'), SharesKept(files, fds, files', fds', H)
    PROVE  FilesOK(H)'
BY DEF FilesOK, Kept, RootedKept, SharesKept

\* A call that looks at the open files at most.
LEMMA Staying ==
    ASSUME NEW H, FilesOK(H), UNCHANGED <<nodes, files, fds, misuse>>,
           cwd' \in [Procs -> Seq(Parts)]
    PROVE  FilesOK(H)'
BY DEF FilesOK

\* What stands before and after the last name of a path.
LEMMA Splits ==
    ASSUME NEW S, NEW path \in Seq(S), path # <<>>
    PROVE  Front(path) \in Seq(S) /\ Last(path) \in S
<1>1. Len(path) \in Nat \ {0}
  BY EmptySeq
<1>2. \A i \in 1 .. Len(path) : path[i] \in S
  BY ElementOfSeq
<1>3. 1 \in Int /\ Len(path) - 1 \in Int /\ Len(path) \in 1 .. Len(path)
      /\ \A i \in 1 .. Len(path) - 1 : path[i] \in S
  BY <1>1, <1>2
<1>4. SubSeq(path, 1, Len(path) - 1) \in Seq(S)
  BY <1>3, SubSeqProperties
<1> QED BY <1>2, <1>3, <1>4 DEF Front, Last

\* What file_open works on is a node of the tree, the created one included.
LEMMA Targets ==
    ASSUME NEW H, FilesOK(H), NEW path \in Seq(Parts), path # <<>>, NEW absolute, NEW create,
           NewName(path, absolute) \in AllNames,
           create /\ vfs_lookup(nodes, path) = None => RoomForNode,
           NEW t, t = Target(path, absolute, create)
    PROVE  /\ NodesOK(t.nodes) /\ Kept(nodes, t.nodes) /\ DOMAIN nodes \subseteq DOMAIN t.nodes
           /\ CountsOK(files, t.nodes) /\ t.node \in DOMAIN t.nodes \cup {None}
<1> PICK dir, name, type, new :
      /\ dir = vfs_lookup(nodes, Parent(path, absolute)) /\ type = "file"
      /\ name = NewName(path, absolute) /\ new = NewId
  OBVIOUS
<1> PICK ns : ns = Create(nodes, new, dir, name, type)
  OBVIOUS
<1>1. NodesOK(nodes) /\ CountsOK(files, nodes)
  BY DEF FilesOK
<1>2. CASE vfs_lookup(nodes, path) = None /\ create /\ Creatable(nodes, dir)
  <2>1. t.nodes = ns /\ t.node = finddir(ns, dir, name)
    BY <1>2 DEF Target
  <2>2. dir \in DOMAIN nodes
    <3>1. Parent(path, absolute) \in {<<>>, Front(path)}
      BY Zenon DEF Parent
    <3>2. Parent(path, absolute) \in Seq(Parts)
      BY <3>1, Splits, EmptySeq
    <3> QED BY <1>1, <1>2, <3>2, Looks DEF Creatable
  <2>3. /\ new \in Ids /\ new \notin DOMAIN nodes /\ \A f \in DOMAIN files : files[f].vnode # new
        /\ type \in {"file", "dir"} /\ Creatable(nodes, dir) /\ name \in AllNames
    BY <1>2, Fresh DEF AllNames
  <2>4. NodesOK(ns) /\ Kept(nodes, ns) /\ Carried(nodes, ns) /\ DOMAIN ns = DOMAIN nodes \cup {new}
    <3>1. OneMore(nodes, ns, new)
      BY <1>1, <2>2, <2>3, Creates
    <3> QED BY <3>1 DEF OneMore
  <2>5. CountsOK(files, ns)
    <3>1. OnOld(files, nodes, ns)
      BY <2>3, <2>4 DEF OnOld
    <3> QED BY <1>1, <2>4, <3>1, CountsCarry
  <2>6. finddir(ns, dir, name) \in DOMAIN ns \cup {None}
    BY <2>2, <2>4, Finds
  <2> QED BY <2>1, <2>4, <2>5, <2>6
<1>3. CASE ~(vfs_lookup(nodes, path) = None /\ create /\ Creatable(nodes, dir))
  <2>1. t.nodes = nodes /\ t.node = vfs_lookup(nodes, path)
    BY <1>3 DEF Target
  <2> QED BY <1>1, <2>1, Looks DEF Kept
<1> QED BY <1>2, <1>3

\* What an open leaves: the new file f in the lowest free descriptor, or what
\* was open before.
Enters(p, f, n, off) ==
    IF FreeFds(p) = {} THEN files' = files /\ fds' = fds
    ELSE /\ Min(FreeFds(p)) \in FreeFds(p)
         /\ f \in Files /\ f \notin DOMAIN files
         /\ files' = WithOpen(files, f, n, off)
         /\ fds' = Put(fds, p, Min(FreeFds(p)), f)

\* The new file is of a node, which O_TRUNC has emptied, at its start without O_APPEND.
OpenLeaves(p, trunc, append) ==
    \E f, n, off : /\ Enters(p, f, n, off)
                   /\ FreeFds(p) # {} => /\ n \in DOMAIN nodes'
                                         /\ trunc => nodes'[n].size = 0
                                         /\ ~append => off = 0

\* A descriptor for a new open file; without a free one the file is closed again.
LEMMA InstallKeeps ==
    ASSUME NEW H, NEW p \in Procs, NEW ns, NodesOK(ns), CountsOK(files, ns),
           SharesOK(files, fds, H), NEW n \in DOMAIN ns, NEW off \in 0 .. MaxSize,
           NEW f, f = NewFile, RoomForFile,
           Install(p, f, WithOpen(files, f, n, off), [ns EXCEPT ![n].ref_count = @ + 1])
    PROVE  /\ NodesOK(nodes') /\ Kept(ns, nodes') /\ CountsOK(files', nodes')
           /\ SharesOK(files', fds', H) /\ SharesKept(files, fds, files', fds', H)
           /\ RootedKept(files, ns, files', nodes') /\ Enters(p, f, n, off)
           /\ FreeFds(p) # {} => nodes' = [ns EXCEPT ![n].ref_count = @ + 1]
<1> PICK fs, ms : /\ fs = WithOpen(files, f, n, off)
                  /\ ms = [ns EXCEPT ![n].ref_count = @ + 1]
  OBVIOUS
<1>1. DOMAIN files \subseteq Files /\ files \in [DOMAIN files -> FileType]
  BY DEF CountsOK
<1>2. f \in Files /\ f \notin DOMAIN files /\ \A q \in Procs, e \in Fds : fds[q][e] # f
  BY FreshFile
<1>3. /\ CountsOK(fs, ms) /\ NodesOK(ms) /\ Kept(ns, ms) /\ DOMAIN ms = DOMAIN ns
      /\ RootedKept(files, ns, fs, ms)
  BY <1>2, Opens
<1>4. /\ DOMAIN fs = DOMAIN files \cup {f} /\ fs[f].ref = 1 /\ fs[f].vnode = n
      /\ \A g \in DOMAIN files : fs[g] = files[g]
  BY <1>2 DEF WithOpen
<1>5. None \notin DOMAIN files /\ f # None
  BY <1>1, <1>2, ConstantTypes
<1>6. CASE FreeFds(p) # {}
  <2> PICK d : d = Min(FreeFds(p))
    OBVIOUS
  <2>1. FreeFds(p) \subseteq Nat
    BY ConstantTypes DEF FreeFds
  <2>2. d \in FreeFds(p)
    BY <1>6, <2>1, MinIs
  <2>3. d \in Fds /\ fds[p][d] = None
    BY <2>2 DEF FreeFds
  <2>4. SharesOK(fs, Put(fds, p, d, f), H) /\ SharesKept(files, fds, fs, Put(fds, p, d, f), H)
    BY <1>2, <1>4, <1>5, <2>3, Installs
  <2>5. files' = fs /\ nodes' = ms /\ fds' = Put(fds, p, d, f)
    BY <1>6 DEF Install, Put
  <2>6. Enters(p, f, n, off)
    BY <1>2, <1>6, <2>2, <2>5 DEF Enters
  <2> QED BY <1>3, <2>4, <2>5, <2>6
<1>7. CASE FreeFds(p) = {}
  <2> PICK c : c = file_close(fs, ms, f)
    OBVIOUS
  <2>1. files' = c.files /\ nodes' = c.nodes /\ fds' = fds
    BY <1>7 DEF Install
  <2>2. /\ NodesOK(c.nodes) /\ Kept(ms, c.nodes) /\ DOMAIN c.nodes = DOMAIN ms
        /\ CountsOK(c.files, c.nodes)
    <3>1. fs[f].vnode \in DOMAIN ms /\ f \in DOMAIN fs
      BY <1>3, <1>4
    <3>2. c = file_close(fs, ms, f)
      OBVIOUS
    <3> QED BY ONLY <1>3, <3>1, <3>2, Closes
  <2>3. c.files = [g \in DOMAIN fs \ {f} |-> fs[g]]
    BY <1>4 DEF file_close
  <2>4. c.files = files
    <3>1. DOMAIN fs \ {f} = DOMAIN files /\ \A g \in DOMAIN files : fs[g] = files[g]
      BY <1>2, <1>4
    <3>2. files = [g \in DOMAIN files |-> files[g]]
      BY <1>1
    <3> QED BY ONLY <2>3, <3>1, <3>2
  <2>5. Enters(p, f, n, off)
    BY <1>7, <2>1, <2>4 DEF Enters
  <2>6. RootedKept(files, ns, files', nodes')
    BY <1>3, <2>1, <2>2, <2>4 DEF RootedKept, Rooted
  <2>7. Kept(ns, nodes')
    BY <1>3, <2>1, <2>2 DEF Kept
  <2> QED BY <1>7, <2>1, <2>2, <2>4, <2>5, <2>6, <2>7 DEF SharesKept
<1> QED BY <1>6, <1>7

\* open, with a path that is looked up from the root.
LEMMA OpenKeeps ==
    ASSUME NEW H, FilesOK(H), NEW p \in Procs, NEW path \in Seq(Parts), path # <<>>, NEW absolute,
           NEW create, NEW trunc \in BOOLEAN, NEW append \in BOOLEAN,
           NewName(path, absolute) \in AllNames,
           OpenPath(p, path, absolute, create, trunc, append)
    PROVE  FilesOK(H)' /\ OpenLeaves(p, trunc, append)
<1> PICK t : t = Target(path, absolute, create)
  OBVIOUS
<1> PICK ns, f : /\ ns = IF trunc THEN Truncate(t.nodes, t.node) ELSE t.nodes
                 /\ f = NewFile
  OBVIOUS
<1> PICK off : off = IF append THEN ns[t.node].vnode_size ELSE 0
  OBVIOUS
<1>1. /\ create /\ vfs_lookup(nodes, path) = None => RoomForNode
      /\ RoomForFile /\ t.node # None /\ cwd' = cwd /\ misuse' = misuse
      /\ Install(p, f, WithOpen(files, f, t.node, off), [ns EXCEPT ![t.node].ref_count = @ + 1])
  BY DEF OpenPath, WithOpen
<1>2. /\ NodesOK(t.nodes) /\ Kept(nodes, t.nodes) /\ DOMAIN nodes \subseteq DOMAIN t.nodes
      /\ CountsOK(files, t.nodes) /\ t.node \in DOMAIN t.nodes
  BY <1>1, Targets
<1>3. /\ NodesOK(ns) /\ Kept(nodes, ns) /\ DOMAIN nodes \subseteq DOMAIN ns
      /\ CountsOK(files, ns) /\ t.node \in DOMAIN ns
  <2>1. CASE trunc
    <3>1. ns = Truncate(t.nodes, t.node)
      BY <2>1
    <3>2. /\ NodesOK(ns) /\ Kept(t.nodes, ns) /\ DOMAIN ns = DOMAIN t.nodes
          /\ Carried(t.nodes, ns)
      BY <1>2, <3>1, Truncates
    <3>3. CountsOK(files, ns)
      BY <1>2, <3>2, CountsCarry DEF OnOld
    <3> QED BY <1>2, <3>2, <3>3 DEF Kept
  <2>2. CASE ~trunc
    BY <1>2, <2>2
  <2> QED BY <2>1, <2>2
<1>4. off \in 0 .. MaxSize
  <2>1. ns[t.node].vnode_size \in 0 .. MaxSize /\ 0 \in 0 .. MaxSize
    BY <1>3, NodeFields, ConstantTypes DEF NodeType
  <2> QED BY <2>1
<1>5. /\ NodesOK(nodes') /\ Kept(ns, nodes') /\ CountsOK(files', nodes')
      /\ SharesOK(files', fds', H) /\ SharesKept(files, fds, files', fds', H)
      /\ RootedKept(files, ns, files', nodes') /\ Enters(p, f, t.node, off)
      /\ FreeFds(p) # {} => nodes' = [ns EXCEPT ![t.node].ref_count = @ + 1]
  <2>1. SharesOK(files, fds, H)
    BY DEF FilesOK
  <2> PICK n : n = t.node
    OBVIOUS
  <2>2. /\ NodesOK(ns) /\ CountsOK(files, ns) /\ n \in DOMAIN ns /\ off \in 0 .. MaxSize
        /\ Install(p, f, WithOpen(files, f, n, off), [ns EXCEPT ![n].ref_count = @ + 1])
    BY <1>1, <1>3, <1>4
  <2>3. p \in Procs /\ f = NewFile /\ RoomForFile
    BY <1>1
  <2>4. /\ NodesOK(nodes') /\ Kept(ns, nodes') /\ CountsOK(files', nodes')
        /\ SharesOK(files', fds', H) /\ SharesKept(files, fds, files', fds', H)
        /\ RootedKept(files, ns, files', nodes') /\ Enters(p, f, n, off)
        /\ FreeFds(p) # {} => nodes' = [ns EXCEPT ![n].ref_count = @ + 1]
    BY ONLY <2>1, <2>2, <2>3, InstallKeeps
  <2> QED BY <2>4
<1>6. ASSUME FreeFds(p) # {}
      PROVE  /\ t.node \in DOMAIN nodes'
             /\ trunc => nodes'[t.node].size = 0
             /\ ~append => off = 0
  <2> PICK n, r : n = t.node /\ r = ns[n]
    OBVIOUS
  <2>1. nodes' = [ns EXCEPT ![n].ref_count = @ + 1] /\ n \in DOMAIN ns
    BY <1>3, <1>5, <1>6
  <2>2. n \in DOMAIN nodes' /\ nodes'[n] = [r EXCEPT !.ref_count = @ + 1] /\ r \in NodeType
    BY <1>3, <2>1, NodeFields
  <2>3. nodes'[n].size = r.size
    BY <2>2 DEF NodeType
  <2>4. trunc => r.size = 0
    <3> PICK ms : ms = t.nodes
      OBVIOUS
    <3>1. n \in DOMAIN ms /\ ms[n] \in NodeType
      BY <1>2, NodeFields
    <3>2. ASSUME trunc PROVE r = [ms[n] EXCEPT !.size = 0, !.capacity = 0, !.vnode_size = 0]
      BY <3>1, <3>2 DEF Truncate
    <3> QED BY <3>1, <3>2 DEF NodeType
  <2> QED BY <2>2, <2>3, <2>4
<1>7. FilesOK(H)'
  <2>1. Kept(nodes, nodes')
    BY <1>3, <1>5 DEF Kept
  <2>2. RootedKept(files, nodes, files', nodes')
    BY <1>3, <1>5 DEF RootedKept, Rooted
  <2>3. cwd' \in [Procs -> Seq(Parts)]
    BY <1>1 DEF FilesOK
  <2> QED BY <1>1, <1>5, <2>1, <2>2, <2>3, Keeping
<1>8. OpenLeaves(p, trunc, append)
  BY <1>5, <1>6 DEF OpenLeaves
<1> QED BY <1>7, <1>8

\* The open files with another position in one.
Moved(fs, f, x) == [fs EXCEPT ![f].offset = x]

\* Moving within a file changes no count.
LEMMA Moves ==
    ASSUME NEW H, NEW fs, NEW ns, CountsOK(fs, ns), NEW ds, SharesOK(fs, ds, H),
           NEW f \in DOMAIN fs, NEW x \in 0 .. MaxSize, NEW old, DOMAIN old = DOMAIN ns
    PROVE  /\ CountsOK(Moved(fs, f, x), ns) /\ SharesOK(Moved(fs, f, x), ds, H)
           /\ SharesKept(fs, ds, Moved(fs, f, x), ds, H)
           /\ RootedKept(fs, old, Moved(fs, f, x), ns)
<1> PICK gs, r : gs = Moved(fs, f, x) /\ r = fs[f]
  OBVIOUS
<1>1. \A g \in DOMAIN fs : fs[g] \in FileType
  BY DEF CountsOK
<1>2. gs[f] = [r EXCEPT !.offset = x]
  BY DEF Moved
<1>3. gs[f] \in FileType /\ gs[f].vnode = r.vnode /\ gs[f].ref = r.ref
  BY <1>1, <1>2 DEF FileType
<1>4. DOMAIN gs = DOMAIN fs /\ \A g \in DOMAIN fs \ {f} : gs[g] = fs[g]
  BY DEF Moved
<1>5. gs = [g \in DOMAIN fs |-> gs[g]]
  BY DEF Moved
<1>6. gs \in [DOMAIN fs -> FileType]
      /\ \A g \in DOMAIN fs : gs[g].vnode = fs[g].vnode /\ gs[g].ref = fs[g].ref
  BY <1>1, <1>3, <1>4, <1>5
<1>7. CountsOK(gs, ns)
  BY <1>6, CountsStay
<1>8. SharesOK(gs, ds, H)
  BY <1>4 DEF SharesOK
<1>9. SharesKept(fs, ds, gs, ds, H)
  BY <1>4, <1>6 DEF SharesKept, Live, Exact
<1>10. RootedKept(fs, old, gs, ns)
  BY <1>4, <1>6 DEF RootedKept, Rooted
<1> QED BY <1>7, <1>8, <1>9, <1>10

\* close.
LEMMA CloseKeeps ==
    ASSUME NEW H, FilesOK(H), NEW p \in Procs, NEW d \in Fds, close(p, d)
    PROVE  FilesOK(H)'
<1> PICK f, c : f = fds[p][d] /\ c = file_close(files, nodes, f)
  OBVIOUS
<1>1. /\ f \in DOMAIN files /\ (files[f].ref > 1 \/ files[f].vnode \in DOMAIN nodes)
      /\ files' = c.files /\ nodes' = c.nodes
      /\ fds' = Put(fds, p, d, None) /\ cwd' = cwd /\ misuse' = misuse
  BY DEF close, Closable, Put
<1>2. files[f].ref \in Nat \ {0}
  BY <1>1, InUse DEF FileType
<1>3. NodesOK(nodes) /\ CountsOK(files, nodes) /\ SharesOK(files, fds, H) /\ None \notin DOMAIN files
  BY NoneNotOpen DEF FilesOK
<1>4. /\ NodesOK(c.nodes) /\ Kept(nodes, c.nodes) /\ CountsOK(c.files, c.nodes)
      /\ RootedKept(files, nodes, c.files, c.nodes) /\ Dropped(files, c.files, f)
  BY <1>1, <1>3, Closes
<1>5. /\ SharesOK(c.files, Put(fds, p, d, None), H)
      /\ SharesKept(files, fds, c.files, Put(fds, p, d, None), H)
  <2> PICK gs, ds : gs = c.files /\ ds = fds
    OBVIOUS
  <2>1. SharesOK(gs, Put(ds, p, d, None), H) /\ SharesKept(files, ds, gs, Put(ds, p, d, None), H)
    BY <1>1, <1>2, <1>3, <1>4, Releases
  <2> QED BY <2>1
<1>6. cwd' \in [Procs -> Seq(Parts)]
  BY <1>1 DEF FilesOK
<1> QED BY <1>1, <1>4, <1>5, <1>6, Keeping

\* min(count, size - offset) bytes from a position in the file end in the file.
LEMMA ReadsInside ==
    ASSUME NEW size \in 0 .. MaxSize, NEW o \in 0 .. MaxSize, o < size,
           NEW count \in Nat
    PROVE  o + Min({count, size - o}) \in 0 .. MaxSize
<1> PICK more : more = Min({count, size - o})
  OBVIOUS
<1>1. MaxSize \in Nat
  BY ConstantTypes
<1>2. o \in Nat /\ size \in Nat /\ size <= MaxSize
  BY <1>1
<1>3. {count, size - o} \subseteq Nat
  BY <1>2
<1>4. more \in {count, size - o} /\ more <= size - o
  BY <1>3, MinIs
<1>5. o + more \in Nat /\ o + more <= size
  BY <1>2, <1>4
<1> QED BY <1>1, <1>2, <1>5

\* read: the position stays in the file.
LEMMA ReadKeeps ==
    ASSUME NEW H, FilesOK(H), NEW p \in Procs, NEW d \in Fds, NEW count \in Nat, read(p, d, count)
    PROVE  FilesOK(H)'
<1> PICK f, r, size, more : /\ f = fds[p][d] /\ r = files[f] /\ size = nodes[r.vnode].size
                            /\ more = Min({count, size - r.offset})
  OBVIOUS
<1>1. /\ f \in DOMAIN files /\ r.vnode \in DOMAIN nodes /\ r.offset < size /\ files' = Moved(files, f, r.offset + more)
      /\ UNCHANGED <<nodes, fds, cwd, misuse>>
  BY DEF read, Usable, Moved
<1>2. r \in FileType
  BY <1>1, InUse
<1>3. size \in 0 .. MaxSize /\ r.offset \in 0 .. MaxSize
  BY <1>1, <1>2, NodeFields DEF FileType, NodeType, FilesOK
<1>5. r.offset + more \in 0 .. MaxSize
  BY <1>1, <1>3, ReadsInside
<1>6. /\ CountsOK(files', nodes) /\ SharesOK(files', fds, H)
      /\ SharesKept(files, fds, files', fds, H) /\ RootedKept(files, nodes, files', nodes)
  BY <1>1, <1>5, Moves DEF FilesOK
<1>7. NodesOK(nodes) /\ Kept(nodes, nodes) /\ cwd' \in [Procs -> Seq(Parts)]
  BY <1>1 DEF FilesOK, Kept
<1> QED BY <1>1, <1>6, <1>7, Keeping

\* write: the file may grow, the position moves with it.
LEMMA WriteKeeps ==
    ASSUME NEW H, FilesOK(H), NEW p \in Procs, NEW d \in Fds, NEW count \in Nat, write(p, d, count)
    PROVE  FilesOK(H)'
<1> PICK f, r, n, off : f = fds[p][d] /\ r = files[f] /\ n = r.vnode /\ off = r.offset
  OBVIOUS
<1>1. /\ f \in DOMAIN files /\ n \in DOMAIN nodes /\ off + count <= MaxSize /\ files' = Moved(files, f, off + count)
      /\ nodes' = [nodes EXCEPT ![n] = Written(@, off, count)]
      /\ UNCHANGED <<fds, cwd, misuse>>
  BY DEF write, Usable, Moved
<1>2. r \in FileType
  BY <1>1, InUse
<1>3. off \in Nat /\ off + count \in 0 .. MaxSize
  BY <1>1, <1>2, ConstantTypes DEF FileType
<1>4. /\ NodesOK(nodes') /\ Kept(nodes, nodes') /\ DOMAIN nodes' = DOMAIN nodes
      /\ Carried(nodes, nodes')
  <2> PICK ns : ns = nodes
    OBVIOUS
  <2>1. /\ NodesOK([ns EXCEPT ![n] = Written(@, off, count)])
        /\ Kept(ns, [ns EXCEPT ![n] = Written(@, off, count)])
        /\ DOMAIN [ns EXCEPT ![n] = Written(@, off, count)] = DOMAIN ns
        /\ Carried(ns, [ns EXCEPT ![n] = Written(@, off, count)])
    BY <1>1, <1>2, <1>3, Writes DEF FilesOK
  <2> QED BY <1>1, <2>1
<1>5. CountsOK(files, nodes')
  BY <1>4, CountsCarry DEF FilesOK, OnOld
<1>6. /\ CountsOK(files', nodes') /\ SharesOK(files', fds, H)
      /\ SharesKept(files, fds, files', fds, H) /\ RootedKept(files, nodes, files', nodes')
  BY <1>1, <1>3, <1>4, <1>5, Moves DEF FilesOK
<1>7. cwd' \in [Procs -> Seq(Parts)]
  BY <1>1 DEF FilesOK
<1> QED BY <1>1, <1>4, <1>6, <1>7, Keeping

\* lseek.
LEMMA LseekKeeps ==
    ASSUME NEW H, FilesOK(H), NEW p \in Procs, NEW d \in Fds, NEW offset, NEW whence,
           lseek(p, d, offset, whence)
    PROVE  FilesOK(H)'
<1> PICK f : f = fds[p][d]
  OBVIOUS
<1>1. PICK to \in 0 .. MaxSize : files' = Moved(files, f, to)
  BY DEF lseek, Moved
<1>2. f \in DOMAIN files /\ UNCHANGED <<nodes, fds, cwd, misuse>>
  BY DEF lseek
<1>3. /\ CountsOK(files', nodes) /\ SharesOK(files', fds, H)
      /\ SharesKept(files, fds, files', fds, H) /\ RootedKept(files, nodes, files', nodes)
  BY <1>1, <1>2, Moves DEF FilesOK
<1>4. NodesOK(nodes) /\ Kept(nodes, nodes) /\ cwd' \in [Procs -> Seq(Parts)]
  BY <1>2 DEF FilesOK, Kept
<1> QED BY <1>2, <1>3, <1>4, Keeping

\* mkdir.
LEMMA MkdirKeeps ==
    ASSUME NEW H, FilesOK(H), NEW base \in Seq(Parts), NEW path \in Seq(Parts), path # <<>>, mkdir(base, path)
    PROVE  FilesOK(H)'
<1> PICK dir, name, type, new : /\ dir = vfs_lookup(nodes, base \o Front(path)) /\ type = "dir"
                                /\ name = Last(path) /\ new = NewId
  OBVIOUS
<1> PICK ns : ns = Create(nodes, new, dir, name, type)
  OBVIOUS
<1>1. /\ RoomForNode /\ Creatable(nodes, dir) /\ nodes' = ns
      /\ UNCHANGED <<files, fds, cwd, misuse>>
  BY DEF mkdir
<1>2. Front(path) \in Seq(Parts) /\ name \in Parts
  BY Splits
<1>3. NodesOK(nodes) /\ CountsOK(files, nodes) /\ SharesOK(files, fds, H)
  BY DEF FilesOK
<1>4. dir \in DOMAIN nodes
  <2>1. base \o Front(path) \in Seq(Parts)
    BY <1>2, ConcatProperties
  <2> QED BY <1>1, <1>3, <2>1, Looks DEF Creatable
<1>5. new \in Ids /\ new \notin DOMAIN nodes /\ \A f \in DOMAIN files : files[f].vnode # new
  BY <1>1, Fresh
<1>6. OneMore(nodes, ns, new)
  <2>1. name \in AllNames /\ type \in {"file", "dir"}
    BY <1>2 DEF AllNames
  <2> QED BY <1>1, <1>3, <1>4, <1>5, <2>1, Creates
<1>7. CountsOK(files, ns)
  <2>1. OnOld(files, nodes, ns) /\ Carried(nodes, ns)
    BY <1>5, <1>6 DEF OnOld, OneMore
  <2> QED BY <1>3, <2>1, CountsCarry
<1>8. /\ NodesOK(ns) /\ Kept(nodes, ns) /\ RootedKept(files, nodes, files, ns)
      /\ SharesKept(files, fds, files, fds, H)
  BY <1>6 DEF OneMore, RootedKept, Rooted, SharesKept
<1>9. cwd' \in [Procs -> Seq(Parts)]
  BY <1>1 DEF FilesOK
<1> QED BY <1>1, <1>3, <1>7, <1>8, <1>9, Keeping

\* ramfs_unlink finds the first child with the name.
LEMMA FirstMatch ==
    ASSUME NEW ns, NodesOK(ns), NEW dir \in DOMAIN ns, NEW name, Matches(ns, dir, name) # {}
    PROVE  Min(Matches(ns, dir, name)) \in 1 .. Len(Kids(ns, dir))
<1>1. DOMAIN Kids(ns, dir) = 1 .. Len(Kids(ns, dir)) /\ Len(Kids(ns, dir)) \in Nat
  BY NodeFields
<1>2. Matches(ns, dir, name) \subseteq 1 .. Len(Kids(ns, dir))
  BY <1>1 DEF Matches, Kids
<1>3. Matches(ns, dir, name) \subseteq Nat
  BY <1>1, <1>2
<1> QED BY <1>2, <1>3, MinIs

\* unlink, which records what it does not look at.
LEMMA UnlinkKeeps ==
    ASSUME NEW H, FilesOK(H), NEW base \in Seq(Parts), NEW path \in Seq(Parts), path # <<>>,
           unlink(base, path)
    PROVE  FilesOK(H)'
<1> PICK dir, name, i : /\ dir = vfs_lookup(nodes, base \o Front(path)) /\ name = Last(path)
                        /\ i = Min(Matches(nodes, dir, name))
  OBVIOUS
<1>0. PICK ns, gone : ns = Unlink(nodes, dir, i) /\ gone = Kids(nodes, dir)[i]
  OBVIOUS
<1> USE <1>0
<1>1. /\ dir # None /\ Matches(nodes, dir, name) # {}
      /\ nodes' = ns /\ misuse' = misuse \cup Harm(gone) /\ UNCHANGED <<files, fds, cwd>>
  BY DEF unlink, Kids
<1>2. NodesOK(nodes) /\ CountsOK(files, nodes) /\ misuse \subseteq Kinds
  BY DEF FilesOK
<1>3. dir \in DOMAIN nodes
  <2>1. base \o Front(path) \in Seq(Parts)
    BY Splits, ConcatProperties
  <2> QED BY <1>1, <1>2, <2>1, Looks
<1>4. i \in 1 .. Len(Kids(nodes, dir))
  BY <1>1, <1>2, <1>3, FirstMatch
<1>5. /\ NodesOK(ns) /\ Carried(nodes, ns) /\ DOMAIN ns = DOMAIN nodes \ {gone}
      /\ Kids(nodes, gone) = <<>> => Kept(nodes, ns)
  <2>1. OneLess(nodes, ns, gone)
    BY ONLY <1>0, <1>2, <1>3, <1>4, Unlinks
  <2> QED BY <2>1 DEF OneLess
<1>6. CountsOK(files, ns)
  <2>1. OnOld(files, nodes, ns)
    BY <1>5 DEF OnOld
  <2> QED BY <1>2, <1>5, <2>1, CountsCarry
<1>7. misuse' \subseteq Kinds /\ misuse \subseteq misuse'
  BY <1>1, <1>2 DEF Harm, Kinds
<1>8. "rmdir" \notin misuse' => Kept(nodes, ns)
  BY <1>1, <1>5 DEF Harm, Kids
<1>9. "unlink" \notin misuse' => RootedKept(files, nodes, files, ns)
  <2> SUFFICES ASSUME "unlink" \notin misuse' PROVE RootedKept(files, nodes, files, ns)
    OBVIOUS
  <2>1. gone \notin Vnodes
    BY <1>1 DEF Harm
  <2>2. \A f \in DOMAIN files : files[f].vnode # gone
    BY <2>1 DEF Vnodes
  <2> QED BY <1>5, <2>2 DEF RootedKept, Rooted
<1> QED BY <1>1, <1>5, <1>6, <1>7, <1>8, <1>9 DEF FilesOK, Kept, RootedKept

\* An open file that one more descriptor shares.
Counted(fs, f) == [fs EXCEPT ![f].ref = @ + 1]

\* The file and the descriptor together keep both counts.
LEMMA CountsOne ==
    ASSUME NEW H, NEW fs, NEW ns, CountsOK(fs, ns), NEW ds, SharesOK(fs, ds, H), None \notin DOMAIN fs,
           NEW p \in Procs, NEW d \in Fds, ds[p][d] = None, NEW f \in DOMAIN fs, f \in Files \ H
    PROVE  /\ CountsOK(Counted(fs, f), ns) /\ RootedKept(fs, ns, Counted(fs, f), ns)
           /\ SharesOK(Counted(fs, f), Put(ds, p, d, f), H)
           /\ SharesKept(fs, ds, Counted(fs, f), Put(ds, p, d, f), H)
<1> PICK gs, r : gs = Counted(fs, f) /\ r = fs[f]
  OBVIOUS
<1>1. \A g \in DOMAIN fs : fs[g] \in FileType
  BY DEF CountsOK
<1>2. gs[f] = [r EXCEPT !.ref = r.ref + 1]
  BY DEF Counted
<1>3. /\ gs[f] \in FileType /\ gs[f].vnode = r.vnode /\ gs[f].ref = r.ref + 1
      /\ r.ref \in Nat \ {0}
  <2>1. r \in FileType /\ r.ref \in Nat \ {0} /\ r.ref + 1 \in Nat \ {0}
    BY <1>1 DEF FileType
  <2> QED BY <1>2, <2>1 DEF FileType
<1>4. DOMAIN gs = DOMAIN fs /\ \A g \in DOMAIN fs \ {f} : gs[g] = fs[g]
  BY DEF Counted
<1>5. gs = [g \in DOMAIN fs |-> gs[g]]
  BY DEF Counted
<1>6. gs \in [DOMAIN fs -> FileType] /\ \A g \in DOMAIN fs : gs[g].vnode = fs[g].vnode
  BY <1>1, <1>3, <1>4, <1>5
<1>7. CountsOK(gs, ns)
  BY <1>6, CountsStay
<1>8. RootedKept(fs, ns, gs, ns)
  BY <1>4, <1>6 DEF RootedKept, Rooted
<1>9. SharesOK(gs, Put(ds, p, d, f), H) /\ SharesKept(fs, ds, gs, Put(ds, p, d, f), H)
  <2>1. gs[f].ref = fs[f].ref + 1 /\ fs[f].ref \in Nat \ {0}
    BY <1>3
  <2> QED BY <1>4, <2>1, SharesOne
<1> QED BY <1>7, <1>8, <1>9

\* dup2, to another descriptor or to the same.
LEMMA Dup2Keeps ==
    ASSUME NEW H, FilesOK(H), NEW p \in Procs, NEW old \in Fds, NEW new \in Fds,
           sys_dup2(p, old, new)
    PROVE  FilesOK(H)'
<1> PICK f, h : f = fds[p][old] /\ h = fds[p][new]
  OBVIOUS
<1> PICK c : c = IF h = None THEN [files |-> files, nodes |-> nodes]
                 ELSE file_close(files, nodes, h)
  OBVIOUS
<1> PICK fs, ns, ds, V : /\ fs = c.files /\ ns = c.nodes /\ ds = Put(fds, p, new, None)
                         /\ V = (Files \ H) \cup {None}
  OBVIOUS
<1>1. /\ f \in DOMAIN files /\ (h # None => Closable(h))
      /\ nodes' = ns /\ fds' = Put(fds, p, new, f) /\ cwd' = cwd
      /\ IF f \in DOMAIN fs THEN files' = Counted(fs, f) /\ misuse' = misuse
         ELSE files' = fs /\ misuse' = misuse \cup {"dup2"}
  BY DEF sys_dup2, Put, Counted
<1>2. NodesOK(nodes) /\ CountsOK(files, nodes) /\ SharesOK(files, fds, H) /\ None \notin DOMAIN files
  BY NoneNotOpen DEF FilesOK
<1>3. fds \in [Procs -> [Fds -> V]] /\ f \in Files \ H
  BY <1>1, <1>2, InUse DEF SharesOK
<1>4. /\ NodesOK(ns) /\ Kept(nodes, ns) /\ CountsOK(fs, ns) /\ None \notin DOMAIN fs
      /\ SharesOK(fs, ds, H) /\ SharesKept(files, fds, fs, ds, H)
      /\ RootedKept(files, nodes, fs, ns)
  <2>1. CASE h = None
    <3>1. fs = files /\ ns = nodes
      BY <2>1
    <3>2. ds = fds
      BY <1>3, <2>1 DEF Put
    <3> QED BY <1>2, <3>1, <3>2 DEF Kept, RootedKept, SharesKept
  <2>2. CASE h # None
    <3>1. /\ c = file_close(files, nodes, h) /\ h \in DOMAIN files
          /\ files[h].ref > 1 \/ files[h].vnode \in DOMAIN nodes
      BY <1>1, <2>2 DEF Closable
    <3>2. files[h].ref \in Nat \ {0}
      BY <3>1, InUse DEF FileType
    <3>3. /\ NodesOK(ns) /\ Kept(nodes, ns) /\ CountsOK(fs, ns) /\ Dropped(files, fs, h)
          /\ RootedKept(files, nodes, fs, ns)
      BY <1>2, <3>1, Closes
    <3>4. SharesOK(fs, ds, H) /\ SharesKept(files, fds, fs, ds, H)
      <4> PICK es : es = fds
        OBVIOUS
      <4>1. SharesOK(fs, Put(es, p, new, None), H) /\ SharesKept(files, es, fs, Put(es, p, new, None), H)
        BY <1>2, <3>1, <3>2, <3>3, Releases
      <4> QED BY <4>1
    <3>5. DOMAIN fs \subseteq Files
      BY <3>3 DEF CountsOK
    <3> QED BY <3>3, <3>4, <3>5, ConstantTypes
  <2> QED BY <2>1, <2>2
<1>5. cwd' \in [Procs -> Seq(Parts)] /\ misuse \subseteq Kinds
  BY <1>1 DEF FilesOK
<1>6. ds[p][new] = None /\ Put(ds, p, new, f) = Put(fds, p, new, f)
  BY <1>3 DEF Put
<1>7. CASE f \in DOMAIN fs
  <2>1. /\ CountsOK(Counted(fs, f), ns) /\ RootedKept(fs, ns, Counted(fs, f), ns)
        /\ SharesOK(Counted(fs, f), Put(ds, p, new, f), H)
        /\ SharesKept(fs, ds, Counted(fs, f), Put(ds, p, new, f), H)
    BY <1>3, <1>4, <1>6, <1>7, CountsOne
  <2>2. /\ RootedKept(files, nodes, files', nodes') /\ SharesKept(files, fds, files', fds', H)
        /\ CountsOK(files', nodes') /\ SharesOK(files', fds', H)
        /\ NodesOK(nodes') /\ Kept(nodes, nodes') /\ misuse' = misuse
    BY <1>1, <1>4, <1>6, <1>7, <2>1 DEF RootedKept, SharesKept
  <2> QED BY <1>5, <2>2, Keeping
<1>8. CASE f \notin DOMAIN fs
  <2>1. /\ files' = fs /\ nodes' = ns /\ "dup2" \in misuse'
        /\ misuse' \subseteq Kinds /\ misuse \subseteq misuse'
    BY <1>1, <1>5, <1>8 DEF Kinds
  <2>2. SharesOK(fs, fds', H)
    <3>1. fds' \in [Procs -> [Fds -> V]]
      BY <1>1, <1>3 DEF Put
    <3> QED BY <1>4, <3>1 DEF SharesOK
  <2> QED BY <1>4, <1>5, <2>1, <2>2 DEF FilesOK, Kept, RootedKept
<1> QED BY <1>7, <1>8

\* chdir.
LEMMA ChdirKeeps ==
    ASSUME NEW H, FilesOK(H), NEW p \in Procs, NEW path \in Seq(Parts), path # <<>>,
           NEW absolute \in BOOLEAN, chdir(p, path, absolute)
    PROVE  FilesOK(H)'
<1>1. cwd \in [Procs -> Seq(Parts)] /\ cwd[p] \in Seq(Parts)
  BY DEF FilesOK
<1>2. cwd[p] \o path \in Seq(Parts)
  BY <1>1, ConcatProperties
<1>3. cwd[p] \o <<Junk>> \o Tail(path) \in Seq(Parts)
  <2>1. Junk \in Parts /\ Tail(path) \in Seq(Parts)
    BY HeadTailProperties DEF Parts
  <2>2. <<Junk>> \in Seq(Parts)
    BY <2>1
  <2>3. cwd[p] \o <<Junk>> \in Seq(Parts)
    BY <1>1, <2>2, ConcatProperties
  <2> QED BY <2>1, <2>3, ConcatProperties
<1>4. cwd' \in [Procs -> Seq(Parts)]
  <2>1. PICK x \in Seq(Parts) : cwd' = [cwd EXCEPT ![p] = x]
    BY <1>2, <1>3 DEF chdir
  <2> QED BY <1>1, <2>1
<1> QED BY <1>4, Staying DEF chdir

\* A process with nothing open: its descriptors are those of a cleared slot.
LEMMA NothingOpen ==
    ASSUME NEW H, FilesOK(H), NEW p \in Procs, FreeFds(p) = Fds
    PROVE  fds[p] = [d \in Fds |-> None]
<1>1. fds[p] \in [Fds -> (Files \ H) \cup {None}]
  BY DEF FilesOK, SharesOK
<1>2. \A d \in Fds : fds[p][d] = None
  BY DEF FreeFds
<1> QED BY <1>1, <1>2

\* exit, which takes descriptors off no open file.
LEMMA ExitKeeps ==
    ASSUME NEW H, FilesOK(H), NEW p \in Procs, exit(p)
    PROVE  FilesOK(H)'
<1> PICK ds, V : /\ ds = [fds EXCEPT ![p] = [d \in Fds |-> None]]
                 /\ V = (Files \ H) \cup {None}
  OBVIOUS
<1>1. /\ fds' = ds /\ nodes' = nodes /\ files' = files
      /\ misuse' = IF FreeFds(p) = Fds THEN misuse ELSE misuse \cup {"exit"}
  BY DEF exit
<1>2. SharesOK(files, fds, H) /\ CountsOK(files, nodes)
  BY DEF FilesOK
<1>3. fds \in [Procs -> [Fds -> V]]
  BY <1>2 DEF SharesOK
<1>4. /\ ds \in [Procs -> [Fds -> V]]
      /\ \A q \in Procs, e \in Fds : ds[q][e] = IF q = p THEN None ELSE fds[q][e]
  BY <1>3
<1>5. SharesOK(files, ds, H)
  BY <1>2, <1>4 DEF SharesOK
<1>6. cwd' \in [Procs -> Seq(Parts)]
  <2>1. cwd \in [Procs -> Seq(Parts)] /\ <<>> \in Seq(Parts)
    BY EmptySeq DEF FilesOK
  <2> QED BY <2>1 DEF exit
<1>7. misuse' \subseteq Kinds /\ misuse \subseteq misuse'
  BY <1>1 DEF FilesOK, Kinds
<1>8. Live(files, fds, H) => Live(files, ds, H)
  <2> SUFFICES ASSUME Live(files, fds, H) PROVE Live(files, ds, H)
    OBVIOUS
  <2>1. \A q \in Procs, e \in Fds : ds[q][e] \in DOMAIN files \cup {None}
    BY <1>4 DEF Live
  <2>2. ASSUME NEW f \in DOMAIN files \ H PROVE files[f].ref >= Cardinality(Sharers(ds, f))
    <3> PICK was, is, n : /\ was = Cardinality(Sharers(fds, f)) /\ is = Cardinality(Sharers(ds, f))
                          /\ n = files[f].ref
      OBVIOUS
    <3>1. f # None /\ n \in Nat
      BY <1>2, NoneNotOpen DEF CountsOK, FileType
    <3>2. Sharers(ds, f) \subseteq Sharers(fds, f)
      BY <1>4, <3>1 DEF Sharers
    <3>3. was \in Nat /\ is \in Nat /\ is <= was
      BY <3>2, SlotsFinite, FS_Subset, FS_CardinalityType
    <3>4. n >= was
      BY DEF Live
    <3> QED BY <3>1, <3>3, <3>4
  <2> QED BY <2>1, <2>2 DEF Live
<1>9. "exit" \notin misuse' => ds = fds
  <2> SUFFICES ASSUME "exit" \notin misuse' PROVE ds = fds
    OBVIOUS
  <2>1. FreeFds(p) = Fds
    BY <1>1
  <2>2. fds[p] = [d \in Fds |-> None]
    BY <2>1, NothingOpen
  <2> QED BY <1>3, <2>2
<1> QED BY <1>1, <1>5, <1>6, <1>7, <1>8, <1>9 DEF FilesOK

\* fork: the counts are those of the parent alone, so it is recorded if anything is open.
LEMMA ForkKeeps ==
    ASSUME NEW H, FilesOK(H), NEW p \in Procs, NEW q \in Procs, fork(p, q)
    PROVE  FilesOK(H)'
<1> PICK ds, V : ds = [fds EXCEPT ![q] = fds[p]] /\ V = (Files \ H) \cup {None}
  OBVIOUS
<1>1. /\ fds' = ds /\ nodes' = nodes /\ files' = files /\ FreeFds(q) = Fds
      /\ misuse' = IF FreeFds(p) = Fds THEN misuse ELSE misuse \cup {"fork"}
  BY DEF fork
<1>2. SharesOK(files, fds, H)
  BY DEF FilesOK
<1>3. fds \in [Procs -> [Fds -> V]]
  BY <1>2 DEF SharesOK
<1>4. SharesOK(files, ds, H)
  BY <1>2, <1>3 DEF SharesOK
<1>5. cwd' \in [Procs -> Seq(Parts)]
  BY DEF fork, FilesOK
<1>6. misuse' \subseteq Kinds /\ misuse \subseteq misuse'
  BY <1>1 DEF FilesOK, Kinds
<1>7. "fork" \notin misuse' => ds = fds
  <2> SUFFICES ASSUME "fork" \notin misuse' PROVE ds = fds
    OBVIOUS
  <2>1. FreeFds(p) = Fds
    BY <1>1
  <2>2. fds[p] = fds[q]
    BY <1>1, <2>1, NothingOpen
  <2> QED BY <1>3, <2>2
<1> QED BY <1>1, <1>4, <1>5, <1>6, <1>7 DEF FilesOK

\* A call on freed memory, after which there is none.
LEMMA OnFreedKeeps ==
    ASSUME NEW H, FilesOK(H), NEW p, NEW d, OnFreed(p, d)
    PROVE  FilesOK(H)'
<1>1. /\ nodes' = nodes /\ files' = files /\ fds' = fds /\ cwd' = cwd
      /\ misuse' = misuse \cup {"freed"}
  BY DEF OnFreed
<1>2. misuse' \subseteq Kinds /\ misuse \subseteq misuse'
  BY <1>1 DEF FilesOK, Kinds
<1> QED BY <1>1, <1>2 DEF FilesOK

-----------------------------------------------------------------------------
(* The inductive invariant.                                                *)

\* The paths callers use, as sequences.
LEMMA PathsAre ==
    ASSUME NEW path \in Paths
    PROVE  path \in Seq(Names) /\ path \in Seq(Parts) /\ path # <<>>
<1>1. PICK n \in 1 .. MaxDepth : path \in [1 .. n -> Names]
  BY DEF Paths
<1>2. n \in Nat /\ 1 \in 1 .. n
  BY <1>1, ConstantTypes
<1>3. path \in Seq(Names)
  BY <1>1, <1>2, SeqDef
<1>4. path \in Seq(Parts)
  BY <1>3, SeqMonotonic DEF Parts
<1>5. path # <<>>
  BY <1>1, <1>2
<1> QED BY <1>3, <1>4, <1>5

\* libc's open.
LEMMA LibcOpenKeeps ==
    ASSUME NEW H, FilesOK(H), NEW p \in Procs, NEW path \in Paths, NEW absolute \in BOOLEAN,
           NEW create \in BOOLEAN, NEW trunc \in BOOLEAN, NEW append \in BOOLEAN,
           open(p, path, absolute, create, trunc, append)
    PROVE  FilesOK(H)' /\ OpenLeaves(p, trunc, append)
<1>1. path \in Seq(Names) /\ path \in Seq(Parts) /\ path # <<>>
  BY PathsAre
<1>2. NewName(path, absolute) \in AllNames
  <2>1. Last(path) \in Parts
    BY <1>1, Splits
  <2>2. Len(path) = 1 => path[1] \in Names
    BY <1>1
  <2> QED BY <2>1, <2>2 DEF NewName, AllNames
<1>3. OpenPath(p, path, absolute, create, trunc, append)
  BY DEF open
<1> QED BY <1>1, <1>2, <1>3, OpenKeeps

\* sys_open, wherever the process is.
LEMMA SysOpenKeeps ==
    ASSUME NEW H, FilesOK(H), NEW p \in Procs, NEW path \in Paths, NEW absolute \in BOOLEAN,
           NEW create \in BOOLEAN, NEW trunc \in BOOLEAN, NEW append \in BOOLEAN,
           sys_open(p, path, absolute, create, trunc, append)
    PROVE  FilesOK(H)'
<1>1. path \in Seq(Parts) /\ path # <<>>
  BY PathsAre
<1>2. PICK q \in Resolved(p, path, absolute) : OpenPath(p, q, TRUE, create, trunc, append)
  BY DEF sys_open
<1>3. q \in Seq(Parts) /\ q # <<>>
  <2>1. CASE absolute \/ cwd[p] = <<>>
    BY <1>1, <1>2, <2>1 DEF Resolved
  <2>2. CASE ~(absolute \/ cwd[p] = <<>>)
    <3>1. cwd[p] \in Seq(Parts) /\ cwd[p] # <<>>
      BY <2>2 DEF FilesOK
    <3>2. cwd[p] \o path \in Seq(Parts) /\ cwd[p] \o path # <<>>
      BY <1>1, <3>1, ConcatProperties, ConcatEqualIffEmpty
    <3>3. Junk \in Parts /\ Tail(path) \in Seq(Parts)
      BY <1>1, HeadTailProperties DEF Parts
    <3>4. <<Junk>> \in Seq(Parts)
      BY <3>3
    <3>5. cwd[p] \o <<Junk>> \in Seq(Parts) /\ cwd[p] \o <<Junk>> # <<>>
      BY <3>1, <3>4, ConcatProperties, ConcatEqualIffEmpty
    <3>6. cwd[p] \o <<Junk>> \o Tail(path) \in Seq(Parts) /\ cwd[p] \o <<Junk>> \o Tail(path) # <<>>
      BY <3>3, <3>5, ConcatProperties, ConcatEqualIffEmpty
    <3> QED BY <1>2, <2>2, <3>2, <3>6 DEF Resolved
  <2> QED BY <2>1, <2>2
<1>4. NewName(q, TRUE) \in AllNames
  BY <1>3, Splits DEF NewName, AllNames
<1> QED BY <1>2, <1>3, <1>4, OpenKeeps

\* The root alone is a tree.
LEMMA RootAlone ==
    ASSUME NEW ns, ns = [n \in {Root} |-> Node("/", "dir")]
    PROVE  NodesOK(ns) /\ Connected(ns) /\ DOMAIN ns = {Root} /\ ns[Root].ref_count = 0
<1>1. DOMAIN ns = {Root} /\ ns[Root] = Node("/", "dir")
  OBVIOUS
<1>2. Kids(ns, Root) = <<>> /\ Len(Kids(ns, Root)) = 0
  BY <1>1 DEF Node, Kids
<1>3. Typed(ns)
  <2>1. "/" \in AllNames /\ <<>> \in Seq(Ids) /\ 0 \in 0 .. MaxSize /\ 0 \in 0 .. MaxSize + BLOCK
    BY EmptySeq, ConstantTypes DEF AllNames
  <2>2. ns[Root] \in NodeType
    BY <1>1, <2>1 DEF Node, NodeType
  <2>3. ns[Root].size = 0 /\ ns[Root].vnode_size = 0 /\ ns[Root].capacity = 0
    BY <1>1 DEF Node
  <2>4. ns \in [DOMAIN ns -> NodeType]
    BY <1>1, <2>2
  <2>5. MAX_CHILDREN >= 0 /\ Root \in Ids
    BY ConstantTypes
  <2> QED BY <1>1, <1>2, <2>3, <2>4, <2>5 DEF Typed
<1>4. Placed(ns) /\ Once(ns)
  BY <1>1, <1>2 DEF Placed, Once
<1>5. Connected(ns)
  BY <1>1 DEF Connected
<1>6. ns[Root].ref_count = 0
  BY <1>1 DEF Node
<1> QED BY <1>1, <1>3, <1>4, <1>5, <1>6 DEF NodesOK

\* At the start there is the root and nothing is open.
LEMMA InitIInv == Init => IInv
<1> SUFFICES ASSUME Init PROVE IInv
  OBVIOUS
<1>1. /\ NodesOK(nodes) /\ Connected(nodes)
      /\ DOMAIN nodes = {Root} /\ nodes[Root].ref_count = 0
  <2> PICK ns : ns = nodes
    OBVIOUS
  <2>1. ns = [n \in {Root} |-> Node("/", "dir")]
    BY DEF Init
  <2>2. NodesOK(ns) /\ Connected(ns) /\ DOMAIN ns = {Root} /\ ns[Root].ref_count = 0
    BY <2>1, RootAlone
  <2> QED BY <2>2
<1>2. DOMAIN files = {}
  BY DEF Init
<1>3. CountsOK(files, nodes) /\ Rooted(files, nodes)
  <2>1. Openers(files, Root) = {}
    BY <1>2 DEF Openers
  <2>2. files \in [DOMAIN files -> FileType]
    BY <1>2 DEF Init
  <2> QED BY <1>1, <1>2, <2>1, <2>2, FS_EmptySet DEF CountsOK, Rooted
<1>4. SharesOK(files, fds, {}) /\ Live(files, fds, {}) /\ Exact(files, fds, {})
  BY <1>2 DEF Init, SharesOK, Live, Exact
<1>5. cwd \in [Procs -> Seq(Parts)] /\ misuse \subseteq Kinds
  BY EmptySeq DEF Init
<1> QED BY <1>1, <1>3, <1>4, <1>5 DEF IInv, FilesOK

\* Every call keeps it.
LEMMA CallKeeps ==
    ASSUME NEW H, FilesOK(H), call
    PROVE  FilesOK(H)'
<1>1. ASSUME NEW p \in Procs, NEW path \in Paths, NEW absolute \in BOOLEAN,
             NEW create \in BOOLEAN, NEW trunc \in BOOLEAN, NEW append \in BOOLEAN,
             \/ open(p, path, absolute, create, trunc, append)
             \/ sys_open(p, path, absolute, create, trunc, append)
      PROVE  FilesOK(H)'
  BY <1>1, LibcOpenKeeps, SysOpenKeeps
<1>2. ASSUME NEW p \in Procs, NEW d \in Fds,
             close(p, d) \/ read(p, d, 1) \/ write(p, d, 1) \/ OnFreed(p, d)
      PROVE  FilesOK(H)'
  <2>1. 1 \in Nat
    OBVIOUS
  <2> QED BY <1>2, <2>1, CloseKeeps, ReadKeeps, WriteKeeps, OnFreedKeeps
<1>3. ASSUME NEW p \in Procs, NEW d \in Fds, NEW to, NEW w, lseek(p, d, to, w)
      PROVE  FilesOK(H)'
  BY <1>3, LseekKeeps
<1>4. ASSUME NEW p \in Procs, NEW d \in Fds, NEW e \in Fds, sys_dup2(p, d, e)
      PROVE  FilesOK(H)'
  BY <1>4, Dup2Keeps
<1>5. ASSUME NEW path \in Paths, NEW base \in Bases(path), mkdir(base, path) \/ unlink(base, path)
      PROVE  FilesOK(H)'
  <2>1. path \in Seq(Parts) /\ path # <<>>
    BY PathsAre
  <2>2. base \in Seq(Parts)
    BY EmptySeq DEF Bases, FilesOK
  <2> QED BY <1>5, <2>1, <2>2, MkdirKeeps, UnlinkKeeps
<1>6. ASSUME NEW p \in Procs, NEW path \in Paths, NEW absolute \in BOOLEAN,
             chdir(p, path, absolute)
      PROVE  FilesOK(H)'
  BY <1>6, PathsAre, ChdirKeeps
<1>7. ASSUME NEW p \in Procs, exit(p) \/ \E q \in Procs : fork(p, q)
      PROVE  FilesOK(H)'
  BY <1>7, ExitKeeps, ForkKeeps
<1> QED BY <1>1, <1>2, <1>3, <1>4, <1>5, <1>6, <1>7 DEF call

\* And so does a step without one.
LEMMA NextKeeps ==
    ASSUME NEW H, FilesOK(H), [Next]_vars
    PROVE  FilesOK(H)'
<1>1. ASSUME UNCHANGED vars PROVE FilesOK(H)'
  BY <1>1 DEF FilesOK, vars
<1> QED BY <1>1, CallKeeps DEF Next

\* The shape of the nodes and the counts, in every state; and until a call of the
\* kind that ends them, the tree, the exact counts and that nothing dangles.
THEOREM Inductive == Spec => []IInv
<1>1. IInv /\ [Next]_vars => IInv'
  BY NextKeeps DEF IInv
<1> QED BY <1>1, InitIInv, PTL DEF Spec

\* The reference counts of open files are exact through every open, close, dup2
\* and every open that finds no descriptor, until a fork, exit or dup2 that does
\* not count; those of nodes through these calls too, until an open node is
\* removed (vfs.c:106-118, syscall.c:118, 218-220, proc.c:151, 190).
THEOREM RefsAlwaysExact == Spec => []RefsExact
<1>1. IInv => RefsExact
  <2> SUFFICES ASSUME IInv PROVE RefsExact
    OBVIOUS
  <2>1. misuse \cap {"fork", "exit", "dup2"} = {} =>
          \A f \in DOMAIN files : files[f].ref = Cardinality(Slots(f))
    BY DEF IInv, FilesOK, Exact, Sharers, Slots
  <2>2. \A n \in DOMAIN nodes :
          nodes[n].ref_count = Cardinality({f \in DOMAIN files : files[f].vnode = n})
    BY DEF IInv, FilesOK, CountsOK, Openers
  <2> QED BY <2>1, <2>2 DEF RefsExact
<1> QED BY <1>1, Inductive, PTL

\* No descriptor refers to a file that was closed, also through another one, until
\* a fork with open descriptors or a dup2 that frees the file it goes on using;
\* and no open file to a node that was removed, until an open node is removed
\* (vfs.c:107, 113-118, ramfs.c:137-148, syscall.c:218, proc.c:151).
THEOREM NothingEverDangles == Spec => []NothingDangles
<1>1. IInv => NothingDangles
  BY DEF IInv, FilesOK, Live, Rooted, NothingDangles
<1> QED BY <1>1, Inductive, PTL

\* The size the vnode knows is that of the node, whose bytes lie within its
\* buffer (ramfs.c:97-105, 161-163).
THEOREM SizesAlwaysAgree == Spec => []SizesAgree
<1>1. IInv => SizesAgree
  BY DEF IInv, FilesOK, NodesOK, Typed, SizesAgree
<1> QED BY <1>1, Inductive, PTL

-----------------------------------------------------------------------------
(* The tree.                                                               *)

\* The children of a node as a set.
LEMMA ChildrenAre ==
    ASSUME NodesOK(nodes), NEW n \in DOMAIN nodes
    PROVE  /\ Children(n) = {Kids(nodes, n)[i] : i \in 1 .. Len(Kids(nodes, n))}
           /\ Children(n) \subseteq DOMAIN nodes
<1>1. DOMAIN Kids(nodes, n) = 1 .. Len(Kids(nodes, n))
  BY NodeFields
<1>2. Children(n) = {Kids(nodes, n)[i] : i \in 1 .. Len(Kids(nodes, n))}
  BY <1>1 DEF Children, ToSet, Kids
<1> QED BY <1>2 DEF NodesOK, Placed

\* A set of nodes that is not yet the whole tree grows when the children of its
\* members are added.
LEMMA Grows ==
    ASSUME NodesOK(nodes), Connected(nodes), NEW S \in SUBSET DOMAIN nodes, Root \in S
    PROVE  /\ S \cup UNION {Children(n) : n \in S} \in SUBSET DOMAIN nodes
           /\ S \cup UNION {Children(n) : n \in S} = S => S = DOMAIN nodes
<1> PICK U : U = S \cup UNION {Children(n) : n \in S}
  OBVIOUS
<1>1. \A n \in S : Children(n) \subseteq DOMAIN nodes
  BY ChildrenAre
<1>2. U \in SUBSET DOMAIN nodes
  BY <1>1
<1>3. ASSUME U = S PROVE S = DOMAIN nodes
  <2>1. Hereditary(nodes, S)
    <3> SUFFICES ASSUME NEW n \in S, NEW i \in 1 .. Len(Kids(nodes, n))
                 PROVE  Kids(nodes, n)[i] \in S
      BY DEF Hereditary
    <3>1. Kids(nodes, n)[i] \in Children(n)
      BY ChildrenAre
    <3>2. Kids(nodes, n)[i] \in U
      BY <3>1
    <3> QED BY <1>3, <3>2
  <2> QED BY <2>1 DEF Connected
<1> QED BY <1>2, <1>3

\* All nodes are reached from the root: each of the MaxNodes rounds of Reached
\* finds a node as long as there is one to find.
LEMMA AllReached == NodesOK(nodes) /\ Connected(nodes) => Reached = DOMAIN nodes
<1> SUFFICES ASSUME NodesOK(nodes), Connected(nodes) PROVE Reached = DOMAIN nodes
  OBVIOUS
<1> PICK N, D : N = MaxNodes /\ D = DOMAIN nodes
  OBVIOUS
<1> DEFINE step(X) == X \cup UNION {Children(n) : n \in X}
           P == SUBSET DOMAIN nodes
           Rounds(g) == g = [k \in 0 .. N |-> IF k = 0 THEN {Root} ELSE step(g[k-1])]
<1>1. /\ N \in Nat \ {0} /\ Root \in D /\ {Root} \in P
      /\ D \subseteq Ids /\ IsFiniteSet(D) /\ Cardinality(D) <= N
  <2>1. N \in Nat \ {0} /\ Root \in D /\ D \subseteq Ids
    BY ConstantTypes DEF NodesOK, Typed
  <2>2. 1 \in Int /\ N \in Int /\ ~(1 > N) /\ N - 1 + 1 = N
    BY <2>1
  <2>3. IsFiniteSet(1 .. N) /\ Cardinality(1 .. N) = N
    BY <2>2, FS_Interval
  <2>4. IsFiniteSet(D) /\ Cardinality(D) <= N
    BY <2>1, <2>3, FS_Subset DEF Ids
  <2> QED BY <2>1, <2>4
<1>2. \A X \in P : step(X) \in P
  <2> SUFFICES ASSUME NEW X \in P PROVE step(X) \in P
    OBVIOUS
  <2>1. \A n \in X : Children(n) \subseteq DOMAIN nodes
    BY ChildrenAre
  <2> QED BY <2>1
<1>3. \A X \in P : Root \in X /\ step(X) = X => X = D
  BY Grows
<1>4. PICK g \in [0 .. N -> P] : g[0] = {Root} /\ \A k \in 1 .. N : g[k] = step(g[k-1])
  <2> DEFINE f == [k \in 1 .. N |-> [X \in P |-> step(X)]]
  <2>0. PICK h, r : h = f /\ r = {Root}
    OBVIOUS
  <2>1. h \in [1 .. N -> [P -> P]]
    BY <1>2, <2>0
  <2>2. N \in Nat /\ r \in P
    BY <1>1, <2>0
  <2> HIDE DEF f, P
  <2>3. PICK g \in [0 .. N -> P] : g[0] = r /\ \A k \in 1 .. N : g[k] = h[k][g[k-1]]
    BY <2>1, <2>2, PrimitiveRecursion
  <2>4. \A k \in 1 .. N : g[k-1] \in P
    BY <2>2
  <2>5. \A k \in 1 .. N : g[k] = step(g[k-1])
    <3> HIDE DEF step
    <3> QED BY <2>0, <2>3, <2>4 DEF f
  <2> HIDE DEF step
  <2> QED BY <2>0, <2>3, <2>5
<1> HIDE DEF step, P
<1>5. Reached = g[N]
  <2>1. Rounds(g)
    <3>1. \A k \in 0 .. N : g[k] = IF k = 0 THEN {Root} ELSE step(g[k-1])
      BY <1>1, <1>4
    <3> QED BY <1>4, <3>1
  <2>2. ASSUME NEW h, Rounds(h) PROVE h = g
    <3> DEFINE T == {k \in 0 .. N : h[k] = g[k]}
    <3>1. 0 \in T
      BY <1>1, <1>4, <2>2
    <3>2. ASSUME NEW k \in 0 .. N, k < N, k \in T PROVE k + 1 \in T
      <4>1. k + 1 \in 1 .. N /\ k + 1 \in 0 .. N /\ k + 1 - 1 = k /\ h[k] = g[k]
        BY <1>1, <3>2
      <4> PICK j : j = k + 1
        OBVIOUS
      <4>2. h[j] = step(h[j - 1])
        <5>1. j \in 0 .. N /\ j # 0
          BY <4>1
        <5> QED BY <2>2, <5>1
      <4>3. g[k + 1] = step(g[k])
        BY <1>4, <4>1
      <4> QED BY <4>1, <4>2, <4>3
    <3> HIDE DEF T
    <3>3. \A k \in 0 .. N : k \in T
      <4>1. 0 \in Nat /\ N \in Nat /\ 0 <= N
        BY <1>1
      <4> QED BY <3>1, <3>2, <4>1, IntervalInduction
    <3> QED BY <1>4, <2>2, <3>3 DEF T
  <2>3. g = CHOOSE h : Rounds(h)
    <3> HIDE DEF Rounds
    <3> QED BY <2>1, <2>2
  <2> QED BY <2>3 DEF Reached, step
<1> DEFINE T == {k \in 0 .. N : Root \in g[k] /\ (g[k] = D \/ Cardinality(g[k]) >= k + 1)}
<1>6. 0 \in T
  <2>1. Cardinality({Root}) = 1
    BY FS_Singleton
  <2>2. Cardinality(g[0]) >= 0 + 1 /\ 0 \in 0 .. N /\ Root \in g[0]
    BY <1>1, <1>4, <2>1
  <2> QED BY <2>2
<1>7. ASSUME NEW k \in 0 .. N, k < N, k \in T PROVE k + 1 \in T
  <2>1. k + 1 \in 1 .. N /\ k + 1 \in 0 .. N /\ k + 1 - 1 = k /\ k \in Nat
    BY <1>1, <1>7
  <2> PICK X, Y : X = g[k] /\ Y = g[k + 1]
    OBVIOUS
  <2>2. Y = step(X) /\ X \in P /\ Y \in P /\ Root \in X
    BY <1>4, <1>7, <2>1
  <2>3. X \subseteq Y
    BY <2>2 DEF step
  <2>4. CASE X = D
    <3>1. Y = D
      BY <2>2, <2>3, <2>4 DEF P
    <3> QED BY <2>1, <2>2, <2>3, <3>1
  <2>5. CASE X # D
    <3>1. X # Y
      BY <1>3, <2>2, <2>5 DEF P
    <3>2. Cardinality(X) >= k + 1
      BY <1>7, <2>5
    <3>3. IsFiniteSet(Y) /\ Cardinality(Y) \in Nat /\ Cardinality(X) \in Nat
      BY <1>1, <2>2, <2>3, FS_Subset, FS_CardinalityType DEF P
    <3>4. Cardinality(X) <= Cardinality(Y) /\ Cardinality(X) # Cardinality(Y)
      BY <2>3, <3>1, <3>3, FS_Subset
    <3>5. Cardinality(Y) >= k + 1 + 1
      BY <2>1, <3>2, <3>3, <3>4
    <3> QED BY <2>1, <2>2, <2>3, <3>5
  <2> QED BY <2>4, <2>5
<1>8. N \in T
  <2> HIDE DEF T
  <2>1. 0 \in Nat /\ N \in Nat /\ 0 <= N
    BY <1>1
  <2>2. \A k \in 0 .. N : k \in T
    BY <1>6, <1>7, <2>1, IntervalInduction
  <2> QED BY <2>1, <2>2
<1>9. g[N] \in P
  BY <1>1, <1>4
<1>10. CASE Cardinality(g[N]) >= N + 1
  <2>1. Cardinality(g[N]) <= Cardinality(D) /\ Cardinality(g[N]) \in Nat /\ Cardinality(D) \in Nat
    BY <1>1, <1>9, FS_Subset, FS_CardinalityType DEF P
  <2> QED BY <1>1, <1>10, <2>1
<1> QED BY <1>5, <1>8, <1>10

\* Every node is in one place at most, the root in none.
LEMMA AtMostOnePlace ==
    ASSUME NodesOK(nodes), NEW n \in DOMAIN nodes
    PROVE  /\ Cardinality(Places(n)) <= IF n = Root THEN 0 ELSE 1
           /\ \A pl \in Places(n) : Cardinality(Places(n)) = 1
<1>1. \A m \in DOMAIN nodes :
        /\ DOMAIN nodes[m].children = 1 .. Len(Kids(nodes, m))
        /\ Len(Kids(nodes, m)) \in Nat /\ Len(Kids(nodes, m)) <= MAX_CHILDREN
  BY NodeFields DEF Kids
<1>2. n = Root => Places(n) = {}
  BY <1>1 DEF Places, NodesOK, Placed, Kids
<1>3. ASSUME NEW pl \in Places(n) PROVE Places(n) = {pl}
  <2> SUFFICES ASSUME NEW ql \in Places(n) PROVE ql = pl
    OBVIOUS
  <2>1. PICK a \in DOMAIN nodes, b \in 1 .. MAX_CHILDREN : pl = <<a, b>>
    BY DEF Places
  <2>2. b \in 1 .. Len(Kids(nodes, a)) /\ Kids(nodes, a)[b] = n
    BY <1>1, <2>1 DEF Places, Kids
  <2>3. PICK c \in DOMAIN nodes, e \in 1 .. MAX_CHILDREN : ql = <<c, e>>
    BY DEF Places
  <2>4. e \in 1 .. Len(Kids(nodes, c)) /\ Kids(nodes, c)[e] = n
    BY <1>1, <2>3 DEF Places, Kids
  <2>5. a = c /\ b = e
    BY <2>2, <2>4, Single
  <2> QED BY <2>1, <2>3, <2>5
<1>4. \A pl \in Places(n) : Cardinality(Places(n)) = 1
  BY <1>3, FS_Singleton
<1>5. Cardinality(Places(n)) = 0 \/ Cardinality(Places(n)) = 1
  BY <1>4, FS_EmptySet
<1>6. n = Root => Cardinality(Places(n)) = 0
  BY <1>2, FS_EmptySet
<1> QED BY <1>4, <1>5, <1>6

\* And as long as all are below the root, in one.
LEMMA OnePlace ==
    ASSUME NodesOK(nodes), Connected(nodes), NEW n \in DOMAIN nodes, n # Root
    PROVE  Cardinality(Places(n)) = 1
<1>1. \A m \in DOMAIN nodes :
        /\ DOMAIN nodes[m].children = 1 .. Len(Kids(nodes, m))
        /\ Len(Kids(nodes, m)) \in Nat /\ Len(Kids(nodes, m)) <= MAX_CHILDREN
  BY NodeFields DEF Kids
<1>2. PICK m \in DOMAIN nodes : \E i \in 1 .. Len(Kids(nodes, m)) : Kids(nodes, m)[i] = n
  <2> SUFFICES ASSUME \A m \in DOMAIN nodes : \A i \in 1 .. Len(Kids(nodes, m)) :
                        Kids(nodes, m)[i] # n
               PROVE  FALSE
    OBVIOUS
  <2> PICK S : S = DOMAIN nodes \ {n}
    OBVIOUS
  <2>1. Hereditary(nodes, S)
    BY DEF Hereditary, NodesOK, Placed
  <2>2. Root \in S /\ S \in SUBSET DOMAIN nodes
    BY DEF NodesOK, Typed
  <2>3. S = DOMAIN nodes
    BY <2>1, <2>2 DEF Connected
  <2> QED BY <2>3
<1> PICK i \in 1 .. Len(Kids(nodes, m)) : Kids(nodes, m)[i] = n
  BY <1>2
<1>3. <<m, i>> \in Places(n)
  <2>1. i \in 1 .. MAX_CHILDREN
    BY <1>1, ConstantTypes
  <2> QED BY <1>1, <1>2, <2>1 DEF Places, Kids
<1> QED BY <1>3, AtMostOnePlace

\* So the nodes form a tree as Tree says it, and the state has its type.
LEMMA TreeOf ==
    ASSUME NEW H, FilesOK(H)
    PROVE  Tree
<1>1. NodesOK(nodes)
  BY DEF FilesOK
<1>2. TypeOK
  <2>1. /\ DOMAIN nodes \subseteq Ids /\ Root \in DOMAIN nodes
        /\ DOMAIN files \subseteq Files
    BY <1>1 DEF NodesOK, Typed, FilesOK, CountsOK
  <2>2. \A n \in DOMAIN nodes :
          /\ nodes[n].type \in {"file", "dir"}
          /\ Len(nodes[n].children) <= MAX_CHILDREN
          /\ nodes[n].size \in 0 .. MaxSize /\ nodes[n].capacity \in 0 .. MaxSize + BLOCK
          /\ nodes[n].ref_count \in Nat
    BY <1>1, NodeFields DEF NodeType, Kids
  <2>3. \A f \in DOMAIN files :
          files[f].ref \in Nat \ {0} /\ files[f].offset \in 0 .. MaxSize
    BY DEF FilesOK, CountsOK, FileType
  <2>4. fds \in [Procs -> [Fds -> Files \cup {None}]]
    BY <2>1 DEF FilesOK, SharesOK
  <2>5. misuse \subseteq Kinds
    BY DEF FilesOK
  <2> QED BY <2>1, <2>2, <2>3, <2>4, <2>5 DEF TypeOK, Kinds
<1>3. UNION {Children(n) : n \in DOMAIN nodes} \subseteq DOMAIN nodes
  BY <1>1, ChildrenAre
<1>4. \A n \in DOMAIN nodes : Cardinality(Places(n)) <= IF n = Root THEN 0 ELSE 1
  BY <1>1, AtMostOnePlace
<1>5. "rmdir" \notin misuse =>
        /\ Reached = DOMAIN nodes
        /\ \A n \in DOMAIN nodes \ {Root} : Cardinality(Places(n)) = 1
  BY <1>1, OnePlace, AllReached DEF FilesOK
<1> QED BY <1>2, <1>3, <1>4, <1>5 DEF Tree

\* Every node is in at most one place of one directory, whatever is removed; and
\* until a directory is removed with nodes in it, the nodes form a tree below the
\* root, each in exactly one place.  The state has its type (ramfs.c:129-133,
\* 137-148).
THEOREM AlwaysATree == Spec => []Tree
<1>1. IInv => Tree
  BY TreeOf DEF IInv
<1> QED BY <1>1, Inductive, PTL

-----------------------------------------------------------------------------
(* The shell.                                                              *)

\* The files that init_process opened and forgot.
Kernel == {1, 2}

Without(fs, f) == [g \in DOMAIN fs \ {f} |-> fs[g]]

\* A command in progress is at a point, and its record has these fields.
At(at, cmds) ==
    /\ job.at = at /\ job.cmd \in cmds
    /\ job = [at |-> job.at, cmd |-> job.cmd, fd |-> job.fd, vnode |-> job.vnode,
              count |-> job.count, before |-> job.before]

\* cat and write have one descriptor more than at the start, of an open file that
\* nobody shares.
Mine == fds[sh][job.fd]
ByDescriptor ==
    /\ job.fd \in Fds /\ Mine \in DOMAIN files /\ job.vnode \in DOMAIN nodes
    /\ files[Mine].ref = 1 /\ files[Mine].vnode = job.vnode
    /\ job.before = <<Without(files, Mine), Put(fds, sh, job.fd, None)>>

Resting == job.at \in {"prompt", "exited"} /\ FilesOK(Kernel)

\* cat has printed what lies before its position.
Reading ==
    /\ At("opened", {"cat"}) /\ FilesOK(Kernel) /\ ByDescriptor
    /\ job.count = files[Mine].offset /\ job.count <= nodes[job.vnode].size
    /\ nodes[job.vnode].type = "dir" => job.count = 0

\* write has emptied the file.
Emptied ==
    /\ At("opened", {"write"}) /\ FilesOK(Kernel) /\ ByDescriptor
    /\ files[Mine].offset = 0 /\ nodes[job.vnode].size = 0
    /\ job.count \in 0 .. MaxSize

Filled ==
    /\ At("written", {"write"}) /\ FilesOK(Kernel) /\ ByDescriptor
    /\ nodes[job.vnode].type = "file" => nodes[job.vnode].size = job.count

\* ls has its open file in no descriptor.
Listing ==
    /\ At("opened", {"ls"}) /\ FilesOK(Kernel \cup {job.fd})
    /\ job.fd \notin Kernel /\ job.vnode \in DOMAIN nodes
    /\ files[job.fd].ref = 1 /\ files[job.fd].vnode = job.vnode
    /\ job.before = <<Without(files, job.fd), fds>>
    /\ nodes[job.vnode].type = "dir"
    /\ job.count \in 0 .. Len(nodes[job.vnode].children)

Finished ==
    /\ At("done", {"cat", "write", "ls", "none"}) /\ FilesOK(Kernel)
    /\ job.before = <<files, fds>> /\ OutputIsWhole

\* A write to the terminal that does not return, whatever was open then.
Stopped == job = Stuck /\ \E H : FilesOK(H)

ShellInv == Resting \/ Reading \/ Emptied \/ Filled \/ Listing \/ Finished \/ Stopped

-----------------------------------------------------------------------------
(* What build_initfs leaves.                                               *)

\* Nobody has a node open.
Idle(ns) == \A n \in DOMAIN ns : ns[n].ref_count = 0

\* ramfs_mkdir and ramfs_write_file keep the tree, with nothing open.
LEMMA MakesEntry ==
    ASSUME NEW ns, NodesOK(ns), Connected(ns), Idle(ns), DOMAIN ns # Ids,
           NEW entry \in [dir : Seq(STRING), name : STRING, type : {"file", "dir"},
                          size : 0 .. MaxSize],
           Creatable(ns, vfs_lookup(ns, entry.dir))
    PROVE  /\ NodesOK(MakeEntry(ns, entry)) /\ Connected(MakeEntry(ns, entry))
           /\ Idle(MakeEntry(ns, entry))
<1> PICK dir, name, type, size : /\ dir = vfs_lookup(ns, entry.dir) /\ name = entry.name
                                 /\ type = entry.type /\ size = entry.size
  OBVIOUS
<1>0. PICK new, ms, n : /\ new = Min(Ids \ DOMAIN ns) /\ ms = Create(ns, new, dir, name, type)
                        /\ n = finddir(ms, dir, name)
  OBVIOUS
<1>1. /\ name \in AllNames /\ type \in {"file", "dir"} /\ size \in Nat /\ 0 + size <= MaxSize
  BY ConstantTypes DEF AllNames
<1>2. dir \in DOMAIN ns
  <2>1. entry.dir \in Seq(STRING)
    OBVIOUS
  <2> QED BY <2>1, Looks DEF Creatable
<1>3. NodesOK(ms) /\ Connected(ms) /\ Carried(ns, ms)
  <2>1. new \in Ids /\ new \notin DOMAIN ns
    <3>1. Ids \ DOMAIN ns \subseteq Nat /\ Ids \ DOMAIN ns # {}
      BY ConstantTypes DEF NodesOK, Typed
    <3> QED BY <1>0, <3>1, MinIs
  <2>2. OneMore(ns, ms, new)
    <3>1. Creatable(ns, dir)
      OBVIOUS
    <3> QED BY ONLY <1>0, <1>1, <1>2, <2>1, <3>1, NodesOK(ns), Creates
  <2> QED BY <2>2 DEF OneMore, Kept
<1>4. Idle(ms)
  BY <1>3 DEF Idle, Carried
<1>5. CASE type = "dir" \/ n \notin DOMAIN ms
  <2>1. MakeEntry(ns, entry) = IF type = "dir" THEN ms
                               ELSE [ms EXCEPT ![n] = Written(@, 0, size)]
    BY <1>0 DEF MakeEntry
  <2>2. ms = [m \in DOMAIN ms |-> ms[m]]
    BY <1>3 DEF NodesOK, Typed
  <2>3. n \notin DOMAIN ms => [ms EXCEPT ![n] = Written(@, 0, size)] = ms
    BY ONLY <2>2
  <2>4. MakeEntry(ns, entry) = ms
    BY ONLY <1>5, <2>1, <2>3
  <2> QED BY <1>3, <1>4, <2>4
<1>6. CASE ~(type = "dir") /\ n \in DOMAIN ms
  <2>1. MakeEntry(ns, entry) = [ms EXCEPT ![n] = Written(@, 0, size)]
    BY <1>0, <1>6 DEF MakeEntry
  <2> PICK off : off = 0
    OBVIOUS
  <2>2. off \in Nat /\ off + size <= MaxSize
    BY <1>1
  <2>3. /\ NodesOK([ms EXCEPT ![n] = Written(@, off, size)])
        /\ Kept(ms, [ms EXCEPT ![n] = Written(@, off, size)])
        /\ Carried(ms, [ms EXCEPT ![n] = Written(@, off, size)])
    <3>1. NodesOK(ms) /\ n \in DOMAIN ms /\ size \in Nat
      BY <1>1, <1>3, <1>6
    <3> QED BY ONLY <2>2, <3>1, Writes
  <2>4. /\ NodesOK(MakeEntry(ns, entry)) /\ Carried(ms, MakeEntry(ns, entry))
        /\ Connected(MakeEntry(ns, entry))
    BY <1>3, <2>1, <2>3 DEF Kept
  <2> QED BY <1>4, <2>4 DEF Idle, Carried
<1> QED BY <1>5, <1>6

\* made is the function its definition says.
LEMMA MadeIs ==
    /\ Len(InitFs) \in Nat
    /\ made[0] = [n \in {Root} |-> Node("/", "dir")]
    /\ \A i \in 1 .. Len(InitFs) : made[i] = MakeEntry(made[i-1], InitFs[i])
<1> PICK N : N = Len(InitFs)
  OBVIOUS
<1> DEFINE start == [n \in {Root} |-> Node("/", "dir")]
           step(i, x) == MakeEntry(x, InitFs[i])
           Is(h, m) == h = [i \in 0 .. m |-> IF i = 0 THEN start ELSE step(i, h[i-1])]
           T == {m \in 0 .. N : \E h : Is(h, m)}
<1>0. made = CHOOSE h : Is(h, N)
  BY DEF made
<1>1. N \in Nat
  BY ShellAssumption, LenProperties DEF ShellAssumption
<1> HIDE DEF start, step
<1>2. 0 \in T
  <2> DEFINE h == [i \in 0 .. 0 |-> start]
  <2>1. Is(h, 0)
    OBVIOUS
  <2> HIDE DEF Is
  <2> QED BY <1>1, <2>1
<1>3. ASSUME NEW m \in 0 .. N, m < N, m \in T PROVE m + 1 \in T
  <2>1. PICK h : Is(h, m)
    BY <1>3
  <2> DEFINE k == [i \in 0 .. m + 1 |-> IF i = m + 1 THEN step(i, h[m]) ELSE h[i]]
  <2>2. ASSUME NEW i \in 0 .. m + 1
        PROVE  k[i] = IF i = 0 THEN start ELSE step(i, k[i-1])
    <3>1. CASE i = m + 1
      <4>1. i - 1 = m /\ i # 0 /\ m \in 0 .. m + 1 /\ m # m + 1
        BY <1>1, <3>1
      <4>2. k[m] = h[m]
        BY <4>1
      <4> QED BY <3>1, <4>1, <4>2
    <3>2. CASE i # m + 1
      <4>1. i \in 0 .. m /\ k[i] = h[i]
        BY <3>2
      <4>2. h[i] = IF i = 0 THEN start ELSE step(i, h[i-1])
        BY <2>1, <4>1
      <4>3. i # 0 => k[i-1] = h[i-1]
        BY <4>1
      <4> QED BY <4>1, <4>2, <4>3
    <3> QED BY <3>1, <3>2
  <2>3. Is(k, m + 1)
    BY <2>2
  <2> HIDE DEF Is, k
  <2>4. m + 1 \in 0 .. N
    BY <1>1, <1>3
  <2> QED BY <2>3, <2>4
<1>4. N \in T
  <2> HIDE DEF T
  <2>1. 0 \in Nat /\ 0 <= N
    BY <1>1
  <2>2. \A m \in 0 .. N : m \in T
    BY <1>1, <1>2, <1>3, <2>1, IntervalInduction
  <2> QED BY <1>1, <2>2
<1>5. Is(made, N)
  <2>1. \E h : Is(h, N)
    BY <1>4
  <2> HIDE DEF Is
  <2> QED BY <1>0, <2>1
<1>6. \A i \in 0 .. N : made[i] = IF i = 0 THEN start ELSE step(i, made[i-1])
  <2> PICK g : g = made
    OBVIOUS
  <2>1. Is(g, N)
    BY <1>5
  <2>2. \A i \in 0 .. N : g[i] = IF i = 0 THEN start ELSE step(i, g[i-1])
    BY <2>1
  <2> QED BY <2>2
<1>7. made[0] = start /\ \A i \in 1 .. N : made[i] = step(i, made[i-1])
  BY <1>1, <1>6
<1> QED BY <1>1, <1>7 DEF start, step

\* The file system after each entry of build_initfs.
LEMMA Builds ==
    /\ NodesOK(build_initfs) /\ Connected(build_initfs) /\ Idle(build_initfs)
    /\ vfs_lookup(build_initfs, <<"dev", "tty0">>) \in DOMAIN build_initfs
<1> PICK N : N = Len(InitFs)
  OBVIOUS
<1>1. /\ N \in Nat
      /\ made[0] = [n \in {Root} |-> Node("/", "dir")]
      /\ \A i \in 1 .. N : made[i] = MakeEntry(made[i-1], InitFs[i])
  BY MadeIs
<1>2. \A i \in 1 .. N : InitFs[i] \in [dir : Seq(STRING), name : STRING, type : {"file", "dir"},
                                       size : 0 .. MaxSize]
  BY ShellAssumption, ElementOfSeq DEF ShellAssumption
<1> DEFINE T == {i \in 0 .. N : NodesOK(made[i]) /\ Connected(made[i]) /\ Idle(made[i])}
<1>3. 0 \in T
  <2> PICK ns : ns = made[0]
    OBVIOUS
  <2>1. NodesOK(ns) /\ Connected(ns) /\ DOMAIN ns = {Root} /\ ns[Root].ref_count = 0
    BY <1>1, RootAlone
  <2>2. Idle(ns)
    BY <2>1 DEF Idle
  <2> QED BY <1>1, <2>1, <2>2
<1>4. ASSUME NEW i \in 0 .. N, i < N, i \in T PROVE i + 1 \in T
  <2>1. i + 1 \in 1 .. N /\ i + 1 \in 0 .. N /\ i + 1 - 1 = i
    BY <1>1, <1>4
  <2> PICK ns, ms, entry : ns = made[i] /\ ms = made[i + 1] /\ entry = InitFs[i + 1]
    OBVIOUS
  <2>2. ms = MakeEntry(ns, entry)
    BY <1>1, <2>1
  <2>3. DOMAIN ns # Ids /\ Creatable(ns, vfs_lookup(ns, entry.dir))
    BY <2>1, InitFsAssumption DEF InitFsAssumption
  <2>4. entry \in [dir : Seq(STRING), name : STRING, type : {"file", "dir"}, size : 0 .. MaxSize]
    BY <1>2, <2>1
  <2>5. NodesOK(ns) /\ Connected(ns) /\ Idle(ns)
    BY <1>4
  <2>6. NodesOK(ms) /\ Connected(ms) /\ Idle(ms)
    BY <2>2, <2>3, <2>4, <2>5, MakesEntry
  <2> QED BY <2>1, <2>6
<1>5. NodesOK(made[N]) /\ Connected(made[N]) /\ Idle(made[N])
  <2> HIDE DEF T
  <2>1. 0 \in Nat /\ 0 <= N /\ N \in 0 .. N
    BY <1>1
  <2>2. \A i \in 0 .. N : i \in T
    BY <1>1, <1>3, <1>4, <2>1, IntervalInduction
  <2>3. N \in T
    BY <2>1, <2>2
  <2> QED BY <2>3 DEF T
<1> PICK ns, path : ns = build_initfs /\ path = <<"dev", "tty0">>
  OBVIOUS
<1>6. NodesOK(ns) /\ Connected(ns) /\ Idle(ns)
  BY <1>5 DEF build_initfs
<1>7. path \in Seq({"dev", "tty0"})
  OBVIOUS
<1>8. vfs_lookup(ns, path) \in DOMAIN ns \cup {None}
  BY <1>6, <1>7, Looks
<1> QED BY <1>6, <1>8, InitFsAssumption DEF InitFsAssumption

\* There are two of them.
LEMMA KernelTwo == IsFiniteSet(Kernel) /\ Cardinality(Kernel) = 2 /\ Kernel \subseteq Files
<1>1. IsFiniteSet({1}) /\ Cardinality({1}) = 1
  BY FS_Singleton
<1>2. 2 \notin {1} /\ {1} \cup {2} = Kernel
  BY DEF Kernel
<1>3. IsFiniteSet({1} \cup {2}) /\ Cardinality({1} \cup {2}) = Cardinality({1}) + 1
  BY <1>1, <1>2, FS_AddElement
<1>4. IsFiniteSet(Kernel) /\ Cardinality(Kernel) = Cardinality({1}) + 1
  BY <1>2, <1>3, Zenon
<1>5. Kernel \subseteq Files
  BY ShellAssumption, ConstantTypes DEF ShellAssumption, Kernel, Files
<1> QED BY <1>1, <1>4, <1>5

\* After init_process the two open files of tty0 are in no descriptor.
LEMMA ShellStarts == ShellInit => ShellInv
<1> SUFFICES ASSUME ShellInit PROVE ShellInv
  OBVIOUS
<1> PICK ns, tty0, fs : /\ ns = build_initfs /\ tty0 = vfs_lookup(ns, <<"dev", "tty0">>)
                        /\ fs = [f \in 1 .. 2 |-> [vnode |-> tty0, ref |-> 1, offset |-> 0]]
  OBVIOUS
<1>1. NodesOK(ns) /\ Connected(ns) /\ Idle(ns) /\ tty0 \in DOMAIN ns
  BY Builds
<1>2. nodes = Recounted(ns, tty0, 2) /\ files = fs
  BY DEF ShellInit, Recounted
<1>3. /\ NodesOK(nodes) /\ Connected(nodes) /\ DOMAIN nodes = DOMAIN ns /\ nodes[tty0].ref_count = 2
      /\ \A n \in DOMAIN ns \ {tty0} : nodes[n].ref_count = ns[n].ref_count
  <2>1. ASSUME NEW k \in Nat
        PROVE  /\ NodesOK(Recounted(ns, tty0, k)) /\ Kept(ns, Recounted(ns, tty0, k))
               /\ DOMAIN Recounted(ns, tty0, k) = DOMAIN ns
               /\ Recounted(ns, tty0, k)[tty0].ref_count = k
               /\ \A n \in DOMAIN ns \ {tty0} :
                     Recounted(ns, tty0, k)[n].ref_count = ns[n].ref_count
    <3>1. NodesOK(ns) /\ tty0 \in DOMAIN ns /\ k \in Nat
      BY <1>1
    <3> QED BY ONLY <3>1, Recounts
  <2>2. 2 \in Nat
    OBVIOUS
  <2> QED BY <1>1, <1>2, <2>1, <2>2 DEF Kept
<1>4. DOMAIN fs = Kernel /\ \A f \in Kernel : fs[f] = [vnode |-> tty0, ref |-> 1, offset |-> 0]
  <2>1. 1 .. 2 = Kernel
    BY DEF Kernel
  <2> QED BY <2>1
<1>5. CountsOK(fs, nodes) /\ Rooted(fs, nodes)
  <2>1. Kernel \subseteq Files
    BY KernelTwo
  <2>2. fs \in [Kernel -> FileType]
    <3>1. tty0 \in Ids /\ 0 \in 0 .. MaxSize
      BY <1>1, ConstantTypes DEF NodesOK, Typed
    <3>2. fs = [f \in Kernel |-> fs[f]]
      BY <1>4
    <3> QED BY <1>4, <3>1, <3>2 DEF FileType
  <2>3. Openers(fs, tty0) = Kernel
    BY <1>4 DEF Openers
  <2>4. \A n \in DOMAIN ns \ {tty0} : Openers(fs, n) = {}
    BY <1>4 DEF Openers
  <2>5. Cardinality(Kernel) = 2
    BY KernelTwo
  <2>6. Cardinality(Openers(fs, tty0)) = 2
    BY <2>3, <2>5, Zenon
  <2>7. \A n \in DOMAIN ns \ {tty0} : Cardinality(Openers(fs, n)) = 0
    BY <2>4, FS_EmptySet
  <2>8. \A n \in DOMAIN ns : ns[n].ref_count = 0
    BY <1>1 DEF Idle
  <2> QED BY <1>1, <1>3, <1>4, <2>1, <2>2, <2>6, <2>7, <2>8 DEF CountsOK, Rooted
<1>6. SharesOK(fs, fds, Kernel) /\ Live(fs, fds, Kernel) /\ Exact(fs, fds, Kernel)
  <2>1. fds \in [Procs -> [Fds -> {None}]]
    BY DEF ShellInit
  <2> QED BY <1>4, <2>1 DEF SharesOK, Live, Exact
<1>7. cwd \in [Procs -> Seq(Parts)] /\ misuse \subseteq Kinds
  BY EmptySeq DEF ShellInit
<1>8. FilesOK(Kernel)
  BY <1>2, <1>3, <1>5, <1>6, <1>7 DEF FilesOK
<1>9. CASE job = [at |-> "prompt"]
  BY <1>8, <1>9 DEF Resting, ShellInv
<1>10. CASE job = Stuck
  BY <1>8, <1>10 DEF Stopped, ShellInv
<1> QED BY <1>9, <1>10 DEF ShellInit

-----------------------------------------------------------------------------
(* The commands.                                                           *)

\* The shell is a process, and the commands in progress are told apart.
LEMMA ShellTypes ==
    /\ sh \in Procs /\ BUF_SIZE \in Nat \ {0} /\ Kernel \subseteq {1, 2}
BY ShellAssumption DEF ShellAssumption, Kernel

\* Taking the new file off again gives what was open before.
LEMMA Restores ==
    ASSUME NEW H, FilesOK(H), NEW d \in Fds, fds[sh][d] = None,
           NEW f, f \notin DOMAIN files, NEW n, NEW off
    PROVE  /\ Without(WithOpen(files, f, n, off), f) = files
           /\ Put(Put(fds, sh, d, f), sh, d, None) = fds
<1>1. files = [g \in DOMAIN files |-> files[g]]
  BY DEF FilesOK, CountsOK
<1>2. DOMAIN WithOpen(files, f, n, off) \ {f} = DOMAIN files
  BY DEF WithOpen
<1>3. \A g \in DOMAIN files : WithOpen(files, f, n, off)[g] = files[g]
  BY DEF WithOpen
<1>4. Without(WithOpen(files, f, n, off), f) = files
  BY <1>1, <1>2, <1>3 DEF Without
<1>5. fds \in [Procs -> [Fds -> (Files \ H) \cup {None}]] /\ sh \in Procs
  BY ShellTypes DEF FilesOK, SharesOK
<1>6. Put(Put(fds, sh, d, f), sh, d, None) = fds
  BY <1>5 DEF Put
<1> QED BY <1>4, <1>6

\* A write to the terminal has not returned.
LEMMA Stops ==
    ASSUME NEW H, FilesOK(H)', job' = Stuck
    PROVE  ShellInv'
<1>1. \E G : FilesOK(G)'
  OBVIOUS
<1>2. Stopped'
  BY <1>1 DEF Stopped, Stuck
<1> QED BY <1>2 DEF ShellInv

\* A command that opens a file has it, or it was refused and is done.
LEMMA CommandOpens ==
    ASSUME FilesOK(Kernel), NEW path \in Paths, NEW absolute \in BOOLEAN,
           NEW create \in BOOLEAN, NEW trunc \in BOOLEAN, NEW append \in BOOLEAN, ~append,
           open(sh, path, absolute, create, trunc, append),
           NEW cmd, NEW count, Opened(cmd, count)
    PROVE  /\ FilesOK(Kernel)'
           /\ \/ job' = Stuck
              \/ At("done", {"none"})' /\ job'.before = <<files', fds'>>
              \/ /\ At("opened", {cmd})' /\ ByDescriptor' /\ job'.count = count
                 /\ files'[Mine'].offset = 0
                 /\ job'.vnode \in DOMAIN nodes'
                 /\ trunc => nodes'[job'.vnode].size = 0
<1>1. sh \in Procs
  BY ShellTypes
<1>2. FilesOK(Kernel)' /\ OpenLeaves(sh, trunc, append)
  BY <1>1, LibcOpenKeeps
<1> PICK f, n, off : /\ Enters(sh, f, n, off)
                     /\ FreeFds(sh) # {} => /\ n \in DOMAIN nodes'
                                            /\ trunc => nodes'[n].size = 0
                                            /\ off = 0
  BY <1>2 DEF OpenLeaves
<1>3. CASE FreeFds(sh) = {}
  <2>1. \/ job' = [at |-> "done", cmd |-> "none", fd |-> None, vnode |-> None, count |-> 0,
                   before |-> <<files, fds>>]
        \/ job' = Stuck
    BY <1>3 DEF Opened, Started, Printing
  <2>2. files' = files /\ fds' = fds
    BY <1>3 DEF Enters
  <2>3. CASE job' = Stuck
    BY <1>2, <2>3
  <2>4. CASE job' = [at |-> "done", cmd |-> "none", fd |-> None, vnode |-> None, count |-> 0,
                     before |-> <<files, fds>>]
    <3>1. At("done", {"none"})' /\ job'.before = <<files, fds>>
      BY <2>4 DEF At
    <3> QED BY <1>2, <2>2, <3>1
  <2> QED BY <2>1, <2>3, <2>4
<1>4. CASE FreeFds(sh) # {}
  <2> PICK d, fs, ds : /\ d = Min(FreeFds(sh)) /\ fs = WithOpen(files, f, n, off)
                       /\ ds = Put(fds, sh, d, f)
    OBVIOUS
  <2>1. /\ d \in Fds /\ fds[sh][d] = None
        /\ f \in Files /\ f \notin DOMAIN files /\ files' = fs /\ fds' = ds
    BY <1>4 DEF Enters, FreeFds
  <2>2. job' = [at |-> "opened", cmd |-> cmd, fd |-> d, vnode |-> files'[fds'[sh][d]].vnode,
                count |-> count, before |-> <<files, fds>>]
    BY <1>4 DEF Opened, Started
  <2>3. Mine' = f /\ f # None
    <3>1. fds \in [Procs -> [Fds -> (Files \ Kernel) \cup {None}]]
      BY DEF FilesOK, SharesOK
    <3>2. ds[sh][d] = f
      BY <1>1, <2>1, <3>1 DEF Put
    <3>3. job'.fd = d
      BY <2>2
    <3> QED BY <2>1, <3>2, <3>3, ConstantTypes DEF Mine
  <2>4. fs[f] = [vnode |-> n, ref |-> 1, offset |-> off]
    BY DEF WithOpen
  <2>5. job'.fd = d /\ job'.vnode = n /\ job'.count = count /\ job'.before = <<files, fds>>
    <3>1. files'[fds'[sh][d]].vnode = files'[Mine'].vnode
      BY <2>2 DEF Mine
    <3> QED BY <2>1, <2>2, <2>3, <2>4, <3>1
  <2>6. Without(fs, f) = files /\ Put(ds, sh, d, None) = fds
    BY <2>1, Restores
  <2>7. ByDescriptor'
    <3>1. f \in DOMAIN fs /\ n \in DOMAIN nodes'
      BY <1>4 DEF WithOpen
    <3> QED BY <2>1, <2>3, <2>4, <2>5, <2>6, <3>1 DEF ByDescriptor
  <2>8. At("opened", {cmd})'
    BY <2>2 DEF At
  <2>9. files'[Mine'].offset = 0
    BY <1>4, <2>1, <2>3, <2>4
  <2> QED BY <1>2, <1>4, <2>5, <2>7, <2>8, <2>9
<1> QED BY <1>3, <1>4

\* A refused command has left nothing.
LEMMA Refused ==
    ASSUME FilesOK(Kernel)', At("done", {"none"})', job'.before = <<files', fds'>>
    PROVE  Finished'
BY DEF Finished, At, OutputIsWhole

\* cat.
LEMMA CatOpens ==
    ASSUME Resting, NEW path \in Paths, NEW absolute \in BOOLEAN, CatOpen(path, absolute)
    PROVE  ShellInv'
<1>1. FilesOK(Kernel)
  BY DEF Resting
<1> PICK create, trunc, append : create = FALSE /\ trunc = FALSE /\ append = FALSE
  OBVIOUS
<1>2. /\ create \in BOOLEAN /\ trunc \in BOOLEAN /\ append \in BOOLEAN /\ ~append
      /\ open(sh, path, absolute, create, trunc, append)
  BY DEF CatOpen
<1> PICK cmd, count : cmd = "cat" /\ count = 0
  OBVIOUS
<1>3. Opened(cmd, count)
  BY DEF CatOpen
<1>4. /\ FilesOK(Kernel)'
      /\ \/ job' = Stuck
         \/ At("done", {"none"})' /\ job'.before = <<files', fds'>>
         \/ /\ At("opened", {cmd})' /\ ByDescriptor' /\ job'.count = count
            /\ files'[Mine'].offset = 0
            /\ job'.vnode \in DOMAIN nodes'
            /\ trunc => nodes'[job'.vnode].size = 0
  BY <1>1, <1>2, <1>3, CommandOpens
<1>5. CASE At("done", {"none"})' /\ job'.before = <<files', fds'>>
  BY <1>4, <1>5, Refused DEF ShellInv
<1>6. CASE /\ At("opened", {cmd})' /\ ByDescriptor' /\ job'.count = count
           /\ files'[Mine'].offset = 0 /\ job'.vnode \in DOMAIN nodes'
  <2>1. 0 <= nodes'[job'.vnode].size
    <3> PICK ns, n : ns = nodes' /\ n = job'.vnode
      OBVIOUS
    <3>1. NodesOK(ns) /\ n \in DOMAIN ns
      BY <1>4, <1>6 DEF FilesOK
    <3>2. ns[n].size \in 0 .. MaxSize
      BY <3>1, NodeFields DEF NodeType
    <3> QED BY <3>2, ConstantTypes
  <2>2. Reading'
    BY <1>4, <1>6, <2>1 DEF Reading
  <2> QED BY <2>2 DEF ShellInv
<1>7. CASE job' = Stuck
  BY <1>4, <1>7, Stops
<1> QED BY <1>4, <1>5, <1>6, <1>7

\* write.
LEMMA WriteOpens ==
    ASSUME Resting, NEW path \in Paths, NEW absolute \in BOOLEAN, NEW length \in 0 .. MaxSize,
           WriteOpen(path, absolute, length)
    PROVE  ShellInv'
<1>1. FilesOK(Kernel)
  BY DEF Resting
<1> PICK create, trunc, append : create = TRUE /\ trunc = TRUE /\ append = FALSE
  OBVIOUS
<1>2. /\ create \in BOOLEAN /\ trunc \in BOOLEAN /\ append \in BOOLEAN /\ ~append
      /\ open(sh, path, absolute, create, trunc, append)
  BY DEF WriteOpen
<1> PICK cmd : cmd = "write"
  OBVIOUS
<1>3. Opened(cmd, length)
  BY DEF WriteOpen
<1>4. /\ FilesOK(Kernel)'
      /\ \/ job' = Stuck
         \/ At("done", {"none"})' /\ job'.before = <<files', fds'>>
         \/ /\ At("opened", {cmd})' /\ ByDescriptor' /\ job'.count = length
            /\ files'[Mine'].offset = 0
            /\ job'.vnode \in DOMAIN nodes'
            /\ trunc => nodes'[job'.vnode].size = 0
  BY <1>1, <1>2, <1>3, CommandOpens
<1>5. CASE At("done", {"none"})' /\ job'.before = <<files', fds'>>
  BY <1>4, <1>5, Refused DEF ShellInv
<1>6. CASE /\ At("opened", {cmd})' /\ ByDescriptor' /\ job'.count = length
           /\ files'[Mine'].offset = 0 /\ (trunc => nodes'[job'.vnode].size = 0)
  <2>1. trunc
    OBVIOUS
  <2>2. Emptied'
    BY <1>4, <1>6, <2>1 DEF Emptied
  <2> QED BY <2>2 DEF ShellInv
<1>7. CASE job' = Stuck
  BY <1>4, <1>7, Stops
<1> QED BY <1>4, <1>5, <1>6, <1>7

\* The command goes on to another point.
LEMMA GoesOn ==
    ASSUME NEW a, NEW C, At(a, C), NEW b, job' = [job EXCEPT !.at = b]
    PROVE  /\ At(b, C)' /\ job'.at = b /\ job'.cmd = job.cmd /\ job'.fd = job.fd
           /\ job'.vnode = job.vnode /\ job'.count = job.count /\ job'.before = job.before
<1> PICK j : j = job
  OBVIOUS
<1>1. /\ j.cmd \in C
      /\ j = [at |-> j.at, cmd |-> j.cmd, fd |-> j.fd, vnode |-> j.vnode, count |-> j.count,
              before |-> j.before]
  BY DEF At
<1>2. job' = [at |-> b, cmd |-> j.cmd, fd |-> j.fd, vnode |-> j.vnode, count |-> j.count,
              before |-> j.before]
  BY <1>1
<1> QED BY <1>1, <1>2 DEF At

\* The command has done or shown more.
LEMMA CountsUp ==
    ASSUME NEW a, NEW C, At(a, C), NEW k, job' = [job EXCEPT !.count = @ + k]
    PROVE  /\ At(a, C)' /\ job'.at = job.at /\ job'.cmd = job.cmd /\ job'.fd = job.fd
           /\ job'.vnode = job.vnode /\ job'.count = job.count + k /\ job'.before = job.before
<1> PICK j : j = job
  OBVIOUS
<1>1. /\ j.at = a /\ j.cmd \in C
      /\ j = [at |-> j.at, cmd |-> j.cmd, fd |-> j.fd, vnode |-> j.vnode, count |-> j.count,
              before |-> j.before]
  BY DEF At
<1>2. job' = [at |-> a, cmd |-> j.cmd, fd |-> j.fd, vnode |-> j.vnode, count |-> j.count + k,
              before |-> j.before]
  BY <1>1
<1> QED BY <1>1, <1>2 DEF At

\* The file of a command is open and of a node.
LEMMA MineOpen ==
    ASSUME FilesOK(Kernel), ByDescriptor
    PROVE  /\ Mine \in DOMAIN files /\ files[Mine] \in FileType
           /\ job.vnode \in DOMAIN nodes /\ nodes[job.vnode] \in NodeType
<1>1. sh \in Procs /\ job.fd \in Fds /\ Mine \in DOMAIN files /\ job.vnode \in DOMAIN nodes
  BY ShellTypes DEF ByDescriptor
<1>2. files[Mine] \in FileType
  BY <1>1, InUse DEF Mine
<1> QED BY <1>1, <1>2, NodeFields DEF FilesOK

\* close of its file brings back what was open at the start.
LEMMA ClosesMine ==
    ASSUME FilesOK(Kernel), ByDescriptor, close(sh, job.fd)
    PROVE  /\ FilesOK(Kernel)' /\ job.before = <<files', fds'>>
           /\ nodes'[job.vnode] = [nodes[job.vnode] EXCEPT !.ref_count = @ - 1]
<1> PICK f, d, n : f = Mine /\ d = job.fd /\ n = job.vnode
  OBVIOUS
<1>1. /\ d \in Fds /\ files[f].ref = 1 /\ files[f].vnode = n
      /\ job.before = <<Without(files, f), Put(fds, sh, d, None)>>
      /\ fds[sh][d] = f /\ sh \in Procs
  BY ShellTypes DEF ByDescriptor, Mine
<1>2. f \in DOMAIN files /\ n \in DOMAIN nodes
  BY MineOpen
<1>3. FilesOK(Kernel)'
  <2>1. close(sh, d)
    OBVIOUS
  <2> QED BY <1>1, <2>1, CloseKeeps
<1>4. /\ files' = Without(files, f) /\ fds' = Put(fds, sh, d, None)
      /\ nodes' = [nodes EXCEPT ![n].ref_count = @ - 1]
  <2> PICK c : c = file_close(files, nodes, f)
    OBVIOUS
  <2>1. close(sh, d)
    OBVIOUS
  <2>2. files' = c.files /\ nodes' = c.nodes /\ fds' = Put(fds, sh, d, None)
    BY <1>1, <2>1 DEF close, Put
  <2>3. /\ c.files = [g \in DOMAIN files \ {f} |-> files[g]]
        /\ c.nodes = [nodes EXCEPT ![files[f].vnode].ref_count = @ - 1]
    BY <1>1 DEF file_close
  <2> QED BY <1>1, <2>2, <2>3 DEF Without
<1>5. nodes'[n] = [nodes[n] EXCEPT !.ref_count = @ - 1]
  BY <1>2, <1>4
<1> QED BY <1>1, <1>3, <1>4, <1>5

\* What is left of a file to read, at most BUF_SIZE bytes of it.
LEMMA GotIs ==
    ASSUME NEW size \in Nat, NEW o \in Nat, o <= size,
           NEW got, got = Max({0, Min({BUF_SIZE, size - o})})
    PROVE  /\ got \in Nat /\ o + got <= size
           /\ got > 0 => got = Min({BUF_SIZE, size - o})
           /\ got <= 0 => o = size
<1> PICK b, r : b = BUF_SIZE /\ r = size - o
  OBVIOUS
<1>1. b \in Nat \ {0} /\ r \in Nat
  BY ShellTypes
<1> PICK m : m = Min({b, r})
  OBVIOUS
<1>2. m \in {b, r} /\ m <= b /\ m <= r
  <2>1. {b, r} \subseteq Nat
    BY <1>1
  <2> QED BY <2>1, MinIs
<1>3. got = m
  <2>1. m \in Nat
    BY <1>1, <1>2
  <2>2. \E x \in {0, m} : \A k \in {0, m} : x >= k
    BY <2>1
  <2>3. Max({0, m}) \in {0, m} /\ \A k \in {0, m} : Max({0, m}) >= k
    BY <2>2 DEF Max
  <2>4. got = Max({0, m})
    OBVIOUS
  <2> QED BY <2>1, <2>3, <2>4
<1> QED BY <1>1, <1>2, <1>3

\* cat reads: what it has printed ends where it is in the file.
LEMMA CatReads ==
    ASSUME Reading, CatRead
    PROVE  ShellInv'
<1> PICK f, r, v, size, got : /\ f = Mine /\ r = files[f] /\ v = job.vnode
                              /\ size = nodes[v].size /\ got = Got
  OBVIOUS
<1>1. /\ At("opened", {"cat"}) /\ FilesOK(Kernel) /\ ByDescriptor
      /\ job.count = r.offset /\ r.offset <= size
      /\ got > 0 /\ read(sh, job.fd, BUF_SIZE)
      /\ job' \in {[job EXCEPT !.count = @ + got], Stuck}
  BY DEF Reading, CatRead, Printing
<1>2. /\ job.fd \in Fds /\ r.ref = 1 /\ r.vnode = v
      /\ job.before = <<Without(files, f), Put(fds, sh, job.fd, None)>>
      /\ fds[sh][job.fd] = f /\ sh \in Procs
  BY <1>1, ShellTypes DEF ByDescriptor, Mine
<1>3. /\ f \in DOMAIN files /\ r \in FileType /\ v \in DOMAIN nodes /\ nodes[v] \in NodeType
      /\ size \in Nat /\ r.offset \in Nat
  <2>1. f \in DOMAIN files /\ r \in FileType /\ v \in DOMAIN nodes /\ nodes[v] \in NodeType
    BY <1>1, MineOpen
  <2> QED BY <2>1, ConstantTypes DEF FileType, NodeType
<1>4. /\ nodes[v].type # "dir"
      /\ files' = Moved(files, f, r.offset + Min({BUF_SIZE, size - r.offset}))
      /\ UNCHANGED <<nodes, fds, cwd, misuse>>
  BY <1>1, <1>2 DEF read, Moved
<1>5. got = Max({0, Min({BUF_SIZE, size - r.offset})})
  BY <1>2, <1>4 DEF Got
<1>6. r.offset + got <= size /\ got = Min({BUF_SIZE, size - r.offset})
  BY <1>1, <1>3, <1>5, GotIs
<1>7. FilesOK(Kernel)'
  <2> PICK d, count : d = job.fd /\ count = BUF_SIZE
    OBVIOUS
  <2>1. count \in Nat /\ d \in Fds /\ read(sh, d, count)
    BY <1>1, <1>2, ShellTypes
  <2> QED BY <1>1, <1>2, <2>1, ReadKeeps
<1>8. CASE job' = Stuck
  BY <1>7, <1>8, Stops
<1>9. CASE job' = [job EXCEPT !.count = @ + got]
  <2>1. /\ At("opened", {"cat"})' /\ job'.fd = job.fd /\ job'.vnode = v
        /\ job'.count = job.count + got /\ job'.before = job.before
    BY <1>1, <1>9, CountsUp
  <2>2. Mine' = f
    BY <1>2, <1>4, <2>1 DEF Mine
  <2>3. files' = Moved(files, f, r.offset + got)
    BY <1>4, <1>6
  <2>4. /\ files'[f].ref = 1 /\ files'[f].vnode = v /\ files'[f].offset = r.offset + got
        /\ Without(files', f) = Without(files, f)
    <3>1. files'[f] = [r EXCEPT !.offset = r.offset + got]
      BY <1>3, <2>3 DEF Moved
    <3>2. DOMAIN files' = DOMAIN files /\ \A g \in DOMAIN files \ {f} : files'[g] = files[g]
      BY <2>3 DEF Moved
    <3>3. Without(files', f) = Without(files, f)
      BY <3>2 DEF Without
    <3> QED BY <1>2, <1>3, <3>1, <3>3 DEF FileType
  <2>5. ByDescriptor'
    <3>1. fds' = fds /\ f \in DOMAIN files' /\ v \in DOMAIN nodes'
      BY <1>3, <1>4 DEF Moved
    <3> QED BY <1>2, <2>1, <2>2, <2>4, <3>1 DEF ByDescriptor
  <2>6. Reading'
    BY <1>1, <1>4, <1>6, <1>7, <2>1, <2>2, <2>4, <2>5 DEF Reading
  <2> QED BY <2>6 DEF ShellInv
<1> QED BY <1>1, <1>8, <1>9

\* A node counted once less is the same file or directory.
LEMMA CountedLess ==
    ASSUME NEW n \in NodeType, NEW m, m = [n EXCEPT !.ref_count = @ - 1]
    PROVE  m.type = n.type /\ m.size = n.size /\ m.children = n.children
BY DEF NodeType

\* cat is done at the end of the file, or at once with a directory.
LEMMA CatCloses ==
    ASSUME Reading, CatClose
    PROVE  ShellInv'
<1> PICK f, r, v, n, m : /\ f = Mine /\ r = files[f] /\ v = job.vnode
                         /\ n = nodes[v] /\ m = nodes'[v]
  OBVIOUS
<1>1. /\ At("opened", {"cat"}) /\ FilesOK(Kernel) /\ ByDescriptor
      /\ job.count = r.offset /\ r.offset <= n.size /\ (n.type = "dir" => job.count = 0)
      /\ Got <= 0 /\ close(sh, job.fd) /\ job' = [job EXCEPT !.at = "done"]
  BY DEF Reading, CatClose, Done
<1>2. n \in NodeType /\ r \in FileType /\ r.vnode = v /\ fds[sh][job.fd] = f
  BY <1>1, MineOpen DEF ByDescriptor, Mine
<1>3. FilesOK(Kernel)' /\ job.before = <<files', fds'>>
      /\ m = [n EXCEPT !.ref_count = @ - 1]
  BY <1>1, ClosesMine
<1>4. m.type = n.type /\ m.size = n.size
  BY <1>2, <1>3, CountedLess
<1>5. n.type # "dir" => job.count = n.size
  <2> SUFFICES ASSUME n.type # "dir" PROVE r.offset = n.size
    BY <1>1
  <2> PICK size, o, got : size = n.size /\ o = r.offset /\ got = Got
    OBVIOUS
  <2>1. size \in Nat /\ o \in Nat /\ o <= size /\ got <= 0
    BY <1>1, <1>2, ConstantTypes DEF FileType, NodeType
  <2>2. got = Max({0, Min({BUF_SIZE, size - o})})
    BY <1>2 DEF Got
  <2> QED BY <2>1, <2>2, GotIs
<1>6. /\ At("done", {"cat"})' /\ job'.cmd = job.cmd /\ job'.vnode = v
      /\ job'.count = job.count /\ job'.before = job.before /\ job.cmd = "cat"
  BY <1>1, GoesOn DEF At
<1>7. OutputIsWhole'
  BY <1>1, <1>4, <1>5, <1>6 DEF OutputIsWhole
<1>8. Finished'
  BY <1>3, <1>6, <1>7 DEF Finished, At
<1> QED BY <1>8 DEF ShellInv

\* write to an emptied file leaves the length of the text.
LEMMA WritesText ==
    ASSUME Emptied, WriteText
    PROVE  ShellInv'
<1> PICK f, r, v, n, d, count : /\ f = Mine /\ r = files[f] /\ v = job.vnode /\ n = nodes[v]
                                /\ d = job.fd /\ count = job.count
  OBVIOUS
<1>1. /\ At("opened", {"write"}) /\ FilesOK(Kernel) /\ ByDescriptor
      /\ r.offset = 0 /\ n.size = 0 /\ count \in 0 .. MaxSize
      /\ IF n.type = "file" THEN write(sh, d, count) ELSE UNCHANGED vars
      /\ job' = [job EXCEPT !.at = "written"]
  BY DEF Emptied, WriteText
<1>2. /\ d \in Fds /\ r.ref = 1 /\ r.vnode = v
      /\ job.before = <<Without(files, f), Put(fds, sh, d, None)>>
      /\ fds[sh][d] = f /\ sh \in Procs
  BY <1>1, ShellTypes DEF ByDescriptor, Mine
<1>3. f \in DOMAIN files /\ r \in FileType /\ v \in DOMAIN nodes /\ n \in NodeType
  BY <1>1, MineOpen
<1>4. /\ At("written", {"write"})' /\ job'.fd = d /\ job'.vnode = v
      /\ job'.count = count /\ job'.before = job.before
  BY <1>1, GoesOn
<1>5. CASE n.type = "file"
  <2>1. /\ files' = Moved(files, f, r.offset + count)
        /\ nodes' = [nodes EXCEPT ![v] = Written(@, r.offset, count)]
        /\ UNCHANGED <<fds, cwd, misuse>>
    BY <1>1, <1>2, <1>5 DEF write, Moved
  <2>2. FilesOK(Kernel)'
    <3>1. count \in Nat
      BY <1>1, ConstantTypes
    <3> QED BY <1>1, <1>2, <1>5, <3>1, WriteKeeps
  <2>3. Mine' = f
    BY <1>2, <1>4, <2>1 DEF Mine
  <2>4. /\ files'[f].ref = 1 /\ files'[f].vnode = v
        /\ Without(files', f) = Without(files, f)
    <3>1. files'[f] = [r EXCEPT !.offset = r.offset + count]
      BY <1>3, <2>1 DEF Moved
    <3>2. DOMAIN files' = DOMAIN files /\ \A g \in DOMAIN files \ {f} : files'[g] = files[g]
      BY <2>1 DEF Moved
    <3>3. Without(files', f) = Without(files, f)
      BY <3>2 DEF Without
    <3> QED BY <1>2, <1>3, <3>1, <3>3 DEF FileType
  <2>5. ByDescriptor'
    <3>1. fds' = fds /\ f \in DOMAIN files' /\ v \in DOMAIN nodes'
      BY <1>3, <2>1 DEF Moved
    <3> QED BY <1>2, <1>4, <2>3, <2>4, <3>1 DEF ByDescriptor
  <2>6. nodes'[v].size = count
    <3>1. nodes'[v] = Written(n, 0, count)
      BY <1>1, <1>3, <2>1
    <3>2. Written(n, 0, count).size = Max({n.size, 0 + count})
      BY <1>3 DEF Written, NodeType
    <3>3. {n.size, 0 + count} = {0, count} /\ count \in Nat
      BY <1>1, ConstantTypes
    <3>4. \E x \in {0, count} : \A k \in {0, count} : x >= k
      BY <3>3
    <3>5. Max({0, count}) \in {0, count} /\ \A k \in {0, count} : Max({0, count}) >= k
      BY <3>4 DEF Max
    <3>6. Max({0, count}) = count
      BY <3>3, <3>5
    <3> QED BY <3>1, <3>2, <3>3, <3>6
  <2>7. Filled'
    BY <1>4, <2>2, <2>5, <2>6 DEF Filled
  <2> QED BY <2>7 DEF ShellInv
<1>6. CASE n.type # "file"
  <2>1. files' = files /\ nodes' = nodes /\ fds' = fds /\ cwd' = cwd /\ misuse' = misuse
    BY <1>1, <1>6 DEF vars
  <2>2. FilesOK(Kernel)'
    BY <1>1, <2>1 DEF FilesOK
  <2>3. Mine' = f
    BY <1>2, <1>4, <2>1 DEF Mine
  <2>4. ByDescriptor'
    BY <1>2, <1>3, <1>4, <2>1, <2>3 DEF ByDescriptor
  <2>5. Filled'
    BY <1>4, <1>6, <2>1, <2>2, <2>4 DEF Filled
  <2> QED BY <2>5 DEF ShellInv
<1> QED BY <1>5, <1>6

\* write closes its file.
LEMMA WriteCloses ==
    ASSUME Filled, WriteClose
    PROVE  ShellInv'
<1> PICK v, n, m : v = job.vnode /\ n = nodes[v] /\ m = nodes'[v]
  OBVIOUS
<1>1. /\ At("written", {"write"}) /\ FilesOK(Kernel) /\ ByDescriptor
      /\ n.type = "file" => n.size = job.count
      /\ close(sh, job.fd) /\ job' = [job EXCEPT !.at = "done"]
  BY DEF Filled, WriteClose, Done
<1>2. n \in NodeType
  BY <1>1, MineOpen
<1>3. FilesOK(Kernel)' /\ job.before = <<files', fds'>>
      /\ m = [n EXCEPT !.ref_count = @ - 1]
  BY <1>1, ClosesMine
<1>4. m.type = n.type /\ m.size = n.size /\ n.type \in {"file", "dir"}
  BY <1>2, <1>3, CountedLess DEF NodeType
<1>5. /\ At("done", {"write"})' /\ job'.cmd = job.cmd /\ job'.vnode = v
      /\ job'.count = job.count /\ job'.before = job.before /\ job.cmd = "write"
  BY <1>1, GoesOn DEF At
<1>6. OutputIsWhole'
  BY <1>1, <1>4, <1>5 DEF OutputIsWhole
<1>7. Finished'
  BY <1>3, <1>5, <1>6 DEF Finished, At
<1> QED BY <1>7 DEF ShellInv

\* ls has its open file in no descriptor.
LEMMA LsOpens ==
    ASSUME Resting, NEW path \in Seq(Parts), LsOpen(path)
    PROVE  ShellInv'
<1> PICK f, n, off, fs, ms : /\ f = NewFile /\ n = vfs_lookup(nodes, path) /\ off = 0
                             /\ fs = WithOpen(files, f, n, off)
                             /\ ms = [nodes EXCEPT ![n].ref_count = @ + 1]
  OBVIOUS
<1>1. /\ FilesOK(Kernel) /\ IsDir(path) /\ files' = fs /\ nodes' = ms
      /\ job' = [at |-> "opened", cmd |-> "ls", fd |-> f, vnode |-> n, count |-> 0,
                 before |-> <<files, fds>>]
      /\ fds' = fds /\ cwd' = cwd /\ misuse' = misuse
  <2>1. files' = fs
    BY DEF LsOpen, WithOpen
  <2> QED BY <2>1 DEF Resting, LsOpen, Started
<1>2. NodesOK(nodes) /\ CountsOK(files, nodes) /\ SharesOK(files, fds, Kernel)
  BY <1>1 DEF FilesOK
<1>3. n \in DOMAIN nodes /\ nodes[n].type = "dir" /\ nodes[n] \in NodeType
  BY <1>1, <1>2, Looks, NodeFields DEF IsDir
<1>4. f \in Files /\ f \notin DOMAIN files /\ \A p \in Procs, d \in Fds : fds[p][d] # f
  BY FreshFile DEF LsOpen
<1>5. /\ CountsOK(fs, ms) /\ NodesOK(ms) /\ Kept(nodes, ms) /\ DOMAIN ms = DOMAIN nodes
      /\ RootedKept(files, nodes, fs, ms)
  <2>1. off \in 0 .. MaxSize
    BY ConstantTypes
  <2> QED BY <1>2, <1>3, <1>4, <2>1, Opens
<1>6. /\ DOMAIN fs = DOMAIN files \cup {f} /\ fs[f] = [vnode |-> n, ref |-> 1, offset |-> off]
      /\ \A g \in DOMAIN files : fs[g] = files[g]
  BY <1>4 DEF WithOpen
<1>7. f \notin Kernel
  BY <1>2, <1>4 DEF SharesOK
<1>8. /\ SharesOK(fs, fds, Kernel \cup {f})
      /\ Live(files, fds, Kernel) => Live(fs, fds, Kernel \cup {f})
      /\ Exact(files, fds, Kernel) => Exact(fs, fds, Kernel \cup {f})
  <2>1. DOMAIN fs \ (Kernel \cup {f}) = DOMAIN files \ Kernel
    BY <1>4, <1>6, <1>7
  <2>2. SharesOK(fs, fds, Kernel \cup {f})
    <3>1. fds \in [Procs -> [Fds -> (Files \ (Kernel \cup {f})) \cup {None}]]
      BY <1>2, <1>4 DEF SharesOK
    <3> QED BY <1>2, <1>6, <3>1 DEF SharesOK
  <2>3. Live(files, fds, Kernel) => Live(fs, fds, Kernel \cup {f})
    BY <1>6, <2>1 DEF Live
  <2>4. Exact(files, fds, Kernel) => Exact(fs, fds, Kernel \cup {f})
    BY <1>6, <2>1 DEF Exact
  <2> QED BY <2>2, <2>3, <2>4
<1>9. Without(fs, f) = files
  <2>1. DOMAIN fs \ {f} = DOMAIN files /\ files = [g \in DOMAIN files |-> files[g]]
    BY <1>2, <1>4, <1>6 DEF CountsOK
  <2> QED BY <1>6, <2>1 DEF Without
<1>10. ms[n].type = "dir" /\ Len(ms[n].children) \in Nat
  <2>1. ms[n] = [nodes[n] EXCEPT !.ref_count = @ + 1]
    BY <1>3
  <2>2. ms[n].type = "dir"
    BY <1>3, <2>1 DEF NodeType
  <2>3. n \in DOMAIN ms
    BY <1>3
  <2>4. Len(Kids(ms, n)) \in Nat
    BY <1>5, <2>3, NodeFields
  <2> QED BY <2>2, <2>4 DEF Kids
<1>11. job'.fd = f /\ job'.vnode = n /\ job'.count = 0 /\ job'.before = <<files, fds>>
  BY <1>1
<1>12. FilesOK(Kernel \cup {job.fd})'
  BY <1>1, <1>5, <1>8, <1>11 DEF FilesOK, Kept, RootedKept
<1>13. At("opened", {"ls"})'
  BY <1>1 DEF At
<1>14. /\ files'[job'.fd].ref = 1 /\ files'[job'.fd].vnode = job'.vnode
       /\ job'.fd \notin Kernel
  BY <1>1, <1>6, <1>7, <1>11
<1>15. job'.before = <<Without(files', job'.fd), fds'>>
  BY <1>1, <1>9, <1>11
<1>16. job'.vnode \in DOMAIN nodes' /\ nodes'[job'.vnode].type = "dir" /\ job'.count \in 0 .. Len(nodes'[job'.vnode].children)
  <2>1. nodes'[job'.vnode] = ms[n] /\ job'.vnode \in DOMAIN nodes'
    BY <1>1, <1>3, <1>5, <1>11
  <2> QED BY <1>10, <1>11, <2>1
<1>17. Listing'
  BY <1>12, <1>13, <1>14, <1>15, <1>16 DEF Listing
<1> QED BY <1>17 DEF ShellInv

\* ls shows an entry.
LEMMA LsShows ==
    ASSUME Listing, LsEntry
    PROVE  ShellInv'
<1> PICK k, H : k = 1 /\ H = Kernel \cup {job.fd}
  OBVIOUS
<1>1. /\ At("opened", {"ls"}) /\ FilesOK(H)
      /\ job' \in {[job EXCEPT !.count = @ + k], Stuck}
      /\ UNCHANGED <<nodes, files, fds, cwd, misuse>>
      /\ job.vnode \in DOMAIN nodes
      /\ job.count \in 0 .. Len(nodes[job.vnode].children)
      /\ job.count < Len(nodes[job.vnode].children)
  BY DEF Listing, LsEntry, Printing, vars
<1>2. FilesOK(H)'
  BY <1>1 DEF FilesOK
<1>3. CASE job' = Stuck
  BY <1>2, <1>3, Stops
<1>4. CASE job' = [job EXCEPT !.count = @ + k]
  <2>1. /\ At("opened", {"ls"})' /\ job'.fd = job.fd /\ job'.vnode = job.vnode
        /\ job'.count = job.count + k /\ job'.before = job.before
    BY <1>1, <1>4, CountsUp
  <2>2. FilesOK(Kernel \cup {job.fd})'
    BY <1>2, <2>1
  <2>3. Len(nodes[job.vnode].children) \in Nat
    BY <1>1, NodeFields DEF FilesOK, Kids
  <2>4. job'.count \in 0 .. Len(nodes[job.vnode].children)
    BY <1>1, <2>1, <2>3
  <2>5. Listing'
    BY <1>1, <2>1, <2>2, <2>4 DEF Listing
  <2> QED BY <2>5 DEF ShellInv
<1> QED BY <1>1, <1>3, <1>4

\* ls closes its file when it has shown them all.
LEMMA LsCloses ==
    ASSUME Listing, LsClose
    PROVE  ShellInv'
<1> PICK f, v, n, c, H : /\ f = job.fd /\ v = job.vnode /\ n = nodes[v] /\ H = Kernel \cup {f}
                         /\ c = file_close(files, nodes, f)
  OBVIOUS
<1>1. /\ At("opened", {"ls"}) /\ FilesOK(H) /\ f \notin Kernel /\ v \in DOMAIN nodes
      /\ files[f].ref = 1 /\ files[f].vnode = v /\ job.before = <<Without(files, f), fds>>
      /\ n.type = "dir" /\ job.count \in 0 .. Len(n.children) /\ job.count >= Len(n.children)
      /\ files' = c.files /\ nodes' = c.nodes /\ fds' = fds /\ cwd' = cwd /\ misuse' = misuse
      /\ job' = [job EXCEPT !.at = "done"]
  BY DEF Listing, LsClose, Done
<1>2. NodesOK(nodes) /\ CountsOK(files, nodes) /\ SharesOK(files, fds, H)
  BY <1>1 DEF FilesOK
<1>3. f \in DOMAIN files /\ v \in DOMAIN nodes
  BY <1>1, <1>2 DEF SharesOK, CountsOK
<1>4. n \in NodeType /\ Len(n.children) \in Nat
  BY <1>2, <1>3, NodeFields DEF Kids
<1>5. /\ NodesOK(nodes') /\ CountsOK(files', nodes') /\ Kept(nodes, nodes')
      /\ RootedKept(files, nodes, files', nodes')
  BY <1>1, <1>2, <1>3, Closes
<1>6. /\ files' = Without(files, f)
      /\ nodes' = [nodes EXCEPT ![v].ref_count = @ - 1]
  <2>1. /\ c.files = [g \in DOMAIN files \ {f} |-> files[g]]
        /\ c.nodes = [nodes EXCEPT ![files[f].vnode].ref_count = @ - 1]
    BY <1>1 DEF file_close
  <2> QED BY <1>1, <2>1 DEF Without
<1>7. /\ SharesOK(files', fds, Kernel)
      /\ Live(files, fds, H) => Live(files', fds, Kernel)
      /\ Exact(files, fds, H) => Exact(files', fds, Kernel)
  <2>1. DOMAIN files' = DOMAIN files \ {f} /\ \A g \in DOMAIN files' : files'[g] = files[g]
    BY <1>6 DEF Without
  <2>2. DOMAIN files' \ Kernel = DOMAIN files \ H /\ Kernel \subseteq DOMAIN files'
    BY <1>1, <1>2, <2>1 DEF SharesOK
  <2>3. fds \in [Procs -> [Fds -> (Files \ H) \cup {None}]]
    BY <1>2 DEF SharesOK
  <2>4. SharesOK(files', fds, Kernel)
    BY <1>1, <2>2, <2>3 DEF SharesOK
  <2>5. ASSUME Live(files, fds, H) PROVE Live(files', fds, Kernel)
    <3>1. \A p \in Procs, d \in Fds : fds[p][d] \in DOMAIN files' \cup {None}
      BY <2>1, <2>3, <2>5 DEF Live
    <3> QED BY <2>1, <2>2, <2>5, <3>1 DEF Live
  <2>6. Exact(files, fds, H) => Exact(files', fds, Kernel)
    BY <2>1, <2>2 DEF Exact
  <2> QED BY <2>4, <2>5, <2>6
<1>8. FilesOK(Kernel)'
  BY <1>1, <1>5, <1>7 DEF FilesOK, Kept, RootedKept
<1>9. /\ At("done", {"ls"})' /\ job'.cmd = job.cmd /\ job'.vnode = v
      /\ job'.count = job.count /\ job'.before = job.before /\ job.cmd = "ls"
  BY <1>1, GoesOn DEF At
<1>10. job.count = Len(nodes'[v].children)
  <2>1. nodes'[v] = [n EXCEPT !.ref_count = @ - 1]
    BY <1>3, <1>6
  <2>2. nodes'[v].children = n.children
    BY <1>4, <2>1, CountedLess
  <2> QED BY <1>1, <1>4, <2>2
<1>11. OutputIsWhole'
  BY <1>9, <1>10 DEF OutputIsWhole
<1>12. Finished'
  BY <1>1, <1>6, <1>8, <1>9, <1>11 DEF Finished, At
<1> QED BY <1>12 DEF ShellInv

\* The prompt again.
LEMMA Prompts ==
    ASSUME ShellInv, Prompt
    PROVE  ShellInv'
<1>1. /\ job.at = "done" /\ job' \in {[at |-> "prompt"], Stuck}
      /\ UNCHANGED <<nodes, files, fds, cwd, misuse>>
  BY DEF Prompt, Printing, vars
<1>2. FilesOK(Kernel)
  BY <1>1 DEF ShellInv, Resting, Reading, Emptied, Filled, Listing, Finished, Stopped, Stuck, At
<1>3. FilesOK(Kernel)'
  BY <1>1, <1>2 DEF FilesOK
<1>4. CASE job' = Stuck
  BY <1>3, <1>4, Stops
<1>5. CASE job' = [at |-> "prompt"]
  BY <1>3, <1>5 DEF ShellInv, Resting
<1> QED BY <1>1, <1>4, <1>5

\* cd, mkdir, rm, exit and the commands that change nothing, and the calls of
\* others while the shell waits.
LEMMA RestKeeps ==
    ASSUME Resting,
           \/ \E path \in Paths, absolute \in BOOLEAN :
                \/ cmd_cd(path, absolute) \/ cmd_mkdir(path, absolute) \/ cmd_rm(path, absolute)
           \/ cmd_cd(<<>>, TRUE) \/ cmd_exit \/ Message \/ Call
    PROVE  ShellInv'
<1>1. FilesOK(Kernel) /\ sh \in Procs /\ job.at \in {"prompt", "exited"}
  BY ShellTypes DEF Resting
<1>2. ASSUME FilesOK(Kernel)', AtPrompt
      PROVE  ShellInv'
  <2>1. CASE job' = Stuck
    BY <1>2, <2>1, Stops
  <2>2. CASE job' = [at |-> "prompt"]
    BY <1>2, <2>2 DEF Resting, ShellInv
  <2> QED BY <1>2, <2>1, <2>2 DEF AtPrompt, Printing
<1>3. ASSUME NEW path \in Seq(Parts), NEW absolute \in BOOLEAN, cmd_cd(path, absolute)
      PROVE  ShellInv'
  <2>1. /\ AtPrompt /\ UNCHANGED <<nodes, files, fds, misuse>>
        /\ cwd' = [cwd EXCEPT ![sh] = IF absolute THEN path ELSE cwd[sh] \o path]
    BY <1>3 DEF cmd_cd
  <2>2. cwd \in [Procs -> Seq(Parts)]
    BY <1>1 DEF FilesOK
  <2>3. cwd[sh] \o path \in Seq(Parts)
    BY <1>1, <2>2, ConcatProperties
  <2>4. cwd' \in [Procs -> Seq(Parts)]
    BY <2>1, <2>2, <2>3
  <2>5. FilesOK(Kernel)'
    BY <1>1, <2>1, <2>4, Staying
  <2> QED BY <1>2, <2>1, <2>5
<1>4. ASSUME NEW path \in Paths, NEW absolute \in BOOLEAN,
             cmd_mkdir(path, absolute) \/ cmd_rm(path, absolute)
      PROVE  ShellInv'
  <2> PICK base : base = Base(path, absolute)
    OBVIOUS
  <2>1. path \in Seq(Parts) /\ path # <<>>
    BY PathsAre
  <2>2. base \in Seq(Parts)
    BY <1>1, EmptySeq DEF Base, FilesOK
  <2>3. AtPrompt /\ (mkdir(base, path) \/ unlink(base, path))
    BY <1>4 DEF cmd_mkdir, cmd_rm
  <2>4. FilesOK(Kernel)'
    BY <1>1, <2>1, <2>2, <2>3, MkdirKeeps, UnlinkKeeps
  <2> QED BY <1>2, <2>3, <2>4
<1>5. ASSUME cmd_exit
      PROVE  ShellInv'
  <2>1. CASE job' = [at |-> "exited"] /\ exit(sh)
    <3>1. FilesOK(Kernel)'
      BY <1>1, <2>1, ExitKeeps
    <3> QED BY <2>1, <3>1 DEF Resting, ShellInv
  <2>2. CASE job' = Stuck /\ UNCHANGED vars
    <3>1. FilesOK(Kernel)'
      BY <1>1, <2>2 DEF FilesOK, vars
    <3> QED BY <2>2, <3>1, Stops
  <2> QED BY <1>5, <2>1, <2>2 DEF cmd_exit
<1>6. ASSUME Message
      PROVE  ShellInv'
  <2>1. FilesOK(Kernel)'
    BY <1>1, <1>6 DEF Message, FilesOK, vars
  <2> QED BY <1>2, <1>6, <2>1 DEF Message
<1>7. ASSUME Call
      PROVE  ShellInv'
  <2>1. FilesOK(Kernel)' /\ UNCHANGED job
    BY <1>1, <1>7, CallKeeps DEF Call
  <2> QED BY <1>1, <2>1 DEF Resting, ShellInv
<1>8. CASE cmd_cd(<<>>, TRUE)
  <2> PICK path, absolute : path = <<>> /\ absolute = TRUE
    OBVIOUS
  <2>1. path \in Seq(Parts) /\ absolute \in BOOLEAN /\ cmd_cd(path, absolute)
    BY <1>8, EmptySeq
  <2> QED BY <1>3, <2>1
<1>9. CASE \E path \in Paths, absolute \in BOOLEAN : cmd_cd(path, absolute)
  BY <1>3, <1>9, PathsAre
<1> QED BY <1>4, <1>5, <1>6, <1>7, <1>8, <1>9

\* Where a command is, and which one it is, tells the parts of ShellInv apart.
LEMMA PointsApart ==
    ASSUME ShellInv
    PROVE  /\ job.at = "prompt" => Resting
           /\ job.at = "opened" /\ job.cmd = "cat" => Reading
           /\ job.at = "opened" /\ job.cmd = "write" => Emptied
           /\ job.at = "written" => Filled
           /\ job.at = "opened" /\ job.cmd = "ls" => Listing
           /\ job.at = "done" => Finished
BY DEF ShellInv, Resting, Reading, Emptied, Filled, Listing, Finished, Stopped, Stuck, At

\* Every step of the shell and every call keeps ShellInv.
LEMMA ShellKeeps == ShellInv /\ [ShellNext]_shellVars => ShellInv'
<1> SUFFICES ASSUME ShellInv, [ShellNext]_shellVars PROVE ShellInv'
  OBVIOUS
<1>1. ASSUME GoOn PROVE ShellInv'
  <2>1. CASE CatRead
    BY <2>1, PointsApart, CatReads DEF CatRead
  <2>2. CASE CatClose
    BY <2>2, PointsApart, CatCloses DEF CatClose
  <2>3. CASE WriteText
    BY <2>3, PointsApart, WritesText DEF WriteText
  <2>4. CASE WriteClose
    BY <2>4, PointsApart, WriteCloses DEF WriteClose
  <2>5. CASE LsEntry
    BY <2>5, PointsApart, LsShows DEF LsEntry
  <2>6. CASE LsClose
    BY <2>6, PointsApart, LsCloses DEF LsClose
  <2>7. CASE Prompt
    BY <2>7, Prompts
  <2> QED BY <1>1, <2>1, <2>2, <2>3, <2>4, <2>5, <2>6, <2>7 DEF GoOn
<1>2. ASSUME NEW path \in Paths, NEW absolute \in BOOLEAN,
             \/ Len(cwd[sh]) < MaxDepth /\ cmd_cd(path, absolute)
             \/ cmd_mkdir(path, absolute) \/ cmd_rm(path, absolute)
             \/ CatOpen(path, absolute)
             \/ \E length \in 0 .. MaxSize : WriteOpen(path, absolute, length)
      PROVE  ShellInv'
  <2>1. CASE CatOpen(path, absolute)
    BY <2>1, PointsApart, CatOpens DEF CatOpen
  <2>2. CASE \E length \in 0 .. MaxSize : WriteOpen(path, absolute, length)
    BY <2>2, PointsApart, WriteOpens DEF WriteOpen
  <2>3. CASE cmd_cd(path, absolute) \/ cmd_mkdir(path, absolute) \/ cmd_rm(path, absolute)
    <3>1. job.at = "prompt"
      BY <2>3 DEF cmd_cd, cmd_mkdir, cmd_rm, AtPrompt
    <3> QED BY <2>3, <3>1, PointsApart, RestKeeps
  <2> QED BY <1>2, <2>1, <2>2, <2>3
<1>3. ASSUME cmd_cd(<<>>, TRUE) \/ cmd_exit \/ Message \/ Call
      PROVE  ShellInv'
  <2>1. job.at = "prompt"
    BY <1>3 DEF cmd_cd, cmd_exit, Message, Call, AtPrompt
  <2> QED BY <1>3, <2>1, PointsApart, RestKeeps
<1>4. ASSUME NEW path \in Paths \cup {cwd[sh]}, LsOpen(path)
      PROVE  ShellInv'
  <2>1. Resting
    BY <1>4, PointsApart DEF LsOpen
  <2>2. path \in Seq(Parts)
    <3>1. cwd[sh] \in Seq(Parts)
      BY <2>1, ShellTypes DEF Resting, FilesOK
    <3> QED BY <3>1, PathsAre
  <2> QED BY <1>4, <2>1, <2>2, LsOpens
<1>5. ASSUME UNCHANGED shellVars
      PROVE  ShellInv'
  <2>1. UNCHANGED <<nodes, files, fds, cwd, misuse>> /\ UNCHANGED job
    BY <1>5 DEF shellVars, vars
  <2>2. ASSUME NEW H, FilesOK(H) PROVE FilesOK(H)'
    BY <2>1, <2>2 DEF FilesOK
  <2>3. CASE Listing
    <3> PICK H : H = Kernel \cup {job.fd}
      OBVIOUS
    <3>1. FilesOK(H)'
      BY <2>2, <2>3 DEF Listing
    <3> QED BY <2>1, <2>3, <3>1 DEF ShellInv, Listing, At
  <2>4. CASE Stopped
    <3>1. PICK H : FilesOK(H)
      BY <2>4 DEF Stopped
    <3>2. FilesOK(H)'
      BY <2>2, <3>1
    <3> QED BY <2>1, <2>4, <3>2 DEF ShellInv, Stopped, Stuck
  <2>5. FilesOK(Kernel) => FilesOK(Kernel)'
    BY <2>2
  <2> QED BY <2>1, <2>3, <2>4, <2>5 DEF ShellInv, Resting, Reading, Emptied, Filled, Finished, At,
          ByDescriptor, Mine, OutputIsWhole
<1> QED BY <1>1, <1>2, <1>3, <1>4, <1>5 DEF ShellNext, shell_main

\* What a command has open at each of its points, and what it has done with it, in
\* every state of the shell.
THEOREM ShellInductive == ShellSpec => []ShellInv
BY ShellStarts, ShellKeeps, PTL DEF ShellSpec

\* A command ends with the descriptors and the open files it began with, whatever
\* it could open and read (sh.c:60-70, 83-102, 273-276, libc.c:240-247).
THEOREM NothingEverLeaked == ShellSpec => []NothingLeaked
<1>1. ShellInv => NothingLeaked
  <2> SUFFICES ASSUME ShellInv PROVE NothingLeaked
    OBVIOUS
  <2>1. job.at = "done" => <<files, fds>> = job.before
    BY PointsApart DEF Finished
  <2>2. job.at \in {"prompt", "opened", "written", "done", "exited", "stuck"}
    BY DEF ShellInv, Resting, Reading, Emptied, Filled, Listing, Finished, Stopped, Stuck, At
  <2>3. ASSUME job.at = "opened"
        PROVE  /\ job.cmd \in {"cat", "ls", "write"} /\ job.vnode \in DOMAIN nodes
               /\ job.count \in Nat /\ (job.count <= MaxSize \/ job.count <= MAX_CHILDREN)
    <3>1. CASE Reading
      <4> PICK v, n, r : v = job.vnode /\ n = nodes[v] /\ r = files[Mine]
        OBVIOUS
      <4>1. /\ v \in DOMAIN nodes /\ n \in NodeType /\ r \in FileType
            /\ job.cmd = "cat" /\ job.count = r.offset
        BY <3>1, MineOpen DEF Reading, At
      <4> QED BY <4>1, ConstantTypes DEF FileType
    <3>2. CASE Emptied
      <4>1. job.vnode \in DOMAIN nodes /\ job.cmd = "write" /\ job.count \in 0 .. MaxSize
        BY <3>2, MineOpen DEF Emptied, At
      <4> QED BY <4>1, ConstantTypes
    <3>3. CASE Listing
      <4> PICK v : v = job.vnode
        OBVIOUS
      <4>1. NodesOK(nodes)
        BY <3>3 DEF Listing, FilesOK
      <4>2. v \in DOMAIN nodes /\ job.cmd = "ls" /\ job.count \in 0 .. Len(Kids(nodes, v))
        BY <3>3 DEF Listing, At, Kids
      <4>3. Len(Kids(nodes, v)) \in Nat /\ Len(Kids(nodes, v)) <= MAX_CHILDREN
        BY <4>1, <4>2, NodeFields
      <4> QED BY <4>2, <4>3, ConstantTypes
    <3> QED BY <2>3, <3>1, <3>2, <3>3 DEF ShellInv, Resting, Filled, Finished, Stopped, Stuck, At
  <2>4. \A k \in Nat : k <= MaxSize \/ k <= MAX_CHILDREN => k \in 0 .. Max({MaxSize, MAX_CHILDREN})
    <3>1. MaxSize \in Nat /\ MAX_CHILDREN \in Nat
      BY ConstantTypes
    <3>2. \E x \in {MaxSize, MAX_CHILDREN} : \A k \in {MaxSize, MAX_CHILDREN} : x >= k
      BY <3>1
    <3>3. /\ Max({MaxSize, MAX_CHILDREN}) \in {MaxSize, MAX_CHILDREN}
          /\ \A k \in {MaxSize, MAX_CHILDREN} : Max({MaxSize, MAX_CHILDREN}) >= k
      BY <3>2 DEF Max
    <3> QED BY <3>1, <3>3
  <2>5. JobOK
    BY <2>2, <2>3, <2>4 DEF JobOK
  <2> QED BY <2>1, <2>5 DEF NothingLeaked
<1> QED BY <1>1, ShellInductive, PTL

\* cat prints the whole file, ls shows the whole directory, and what write leaves
\* has the length of the text (sh.c:67-69, 88, 273-275).
THEOREM OutputAlwaysWhole == ShellSpec => []OutputIsWhole
<1>1. ShellInv => OutputIsWhole
  BY PointsApart DEF Finished, OutputIsWhole
<1> QED BY <1>1, ShellInductive, PTL

\* The directories are a tree also on the file system the boot leaves, through every
\* command and every call while the shell waits.
THEOREM ShellKeepsTree == ShellSpec => []Tree
<1>1. ShellInv => \E H : FilesOK(H)
  BY DEF ShellInv, Resting, Reading, Emptied, Filled, Listing, Finished, Stopped
<1>2. ShellInv => Tree
  BY <1>1, TreeOf
<1> QED BY <1>2, ShellInductive, PTL

-----------------------------------------------------------------------------
(* A command ends: what CommandsEnd needs besides fairness.                *)

\* The most steps that a command in progress has left.
Left ==
    CASE job.at = "opened" /\ job.cmd = "cat"   -> 2 + nodes[job.vnode].size - job.count
      [] job.at = "opened" /\ job.cmd = "ls"    -> 2 + Len(nodes[job.vnode].children) - job.count
      [] job.at = "opened" /\ job.cmd = "write" -> 3
      [] job.at = "written"                     -> 2
      [] job.at = "done"                        -> 1
      [] OTHER                                  -> 0

InProgress == job.at \in {"opened", "written", "done"}

\* Nobody but the command itself takes a step while it is in progress, and each of
\* its steps leaves it fewer, also a read of the last bytes and an error
\* (sh.c:67, 88).
StepsLess == InProgress => Left' \in Nat /\ Left \in Nat /\ Left' < Left

\* How many steps are left is a number, which is how far cat and ls are from the
\* end of the file or directory.
LeftOK ==
    /\ Left \in Nat
    /\ job.at \in {"opened", "written"} => Left >= 2
    /\ job.at = "opened" => job.cmd \in {"cat", "ls", "write"}
    /\ job.at = "opened" /\ job.cmd = "cat" =>
         /\ nodes[job.vnode].size \in Nat /\ job.count \in 0 .. nodes[job.vnode].size
         /\ Left = 2 + nodes[job.vnode].size - job.count
    /\ job.at = "opened" /\ job.cmd = "ls" =>
         /\ Len(nodes[job.vnode].children) \in Nat
         /\ job.count \in 0 .. Len(nodes[job.vnode].children)
         /\ Left = 2 + Len(nodes[job.vnode].children) - job.count
    /\ job.at = "opened" /\ job.cmd = "write" => Left = 3
    /\ job.at = "written" => Left = 2
    /\ job.at = "done" => Left = 1
    /\ job.at \in {"prompt", "exited", "stuck"} => Left = 0

\* So it is at each point of a command.
LEMMA LeftIs == ShellInv => LeftOK
<1> SUFFICES ASSUME ShellInv PROVE LeftOK
  OBVIOUS
<1> PICK at, cmd, size, len, count :
        /\ at = job.at /\ cmd = job.cmd /\ count = job.count
        /\ size = nodes[job.vnode].size /\ len = Len(nodes[job.vnode].children)
  OBVIOUS
<1>1. at = "opened" => cmd \in {"cat", "ls", "write"}
  <2>1. Stopped => at = "stuck"
    BY DEF Stopped, Stuck
  <2>2. Reading \/ Emptied \/ Listing => cmd \in {"cat", "ls", "write"}
    BY DEF Reading, Emptied, Listing, At
  <2>3. Resting \/ Filled \/ Finished => at # "opened"
    BY DEF Resting, Filled, Finished, At
  <2> QED BY <2>1, <2>2, <2>3 DEF ShellInv
<1>2. at = "opened" /\ cmd = "cat" => size \in Nat /\ count \in 0 .. size
  <2> SUFFICES ASSUME at = "opened", cmd = "cat" PROVE size \in Nat /\ count \in 0 .. size
    OBVIOUS
  <2>1. FilesOK(Kernel) /\ ByDescriptor /\ count = files[Mine].offset /\ count <= size
    BY PointsApart DEF Reading
  <2>2. files[Mine] \in FileType /\ nodes[job.vnode] \in NodeType
    BY <2>1, MineOpen
  <2> QED BY <2>1, <2>2, ConstantTypes DEF FileType, NodeType
<1>3. at = "opened" /\ cmd = "ls" => len \in Nat /\ count \in 0 .. len
  <2> SUFFICES ASSUME at = "opened", cmd = "ls" PROVE len \in Nat /\ count \in 0 .. len
    OBVIOUS
  <2>1. /\ FilesOK(Kernel \cup {job.fd}) /\ job.vnode \in DOMAIN nodes
        /\ count \in 0 .. len
    BY PointsApart DEF Listing
  <2>2. NodesOK(nodes)
    BY <2>1 DEF FilesOK
  <2>3. len \in Nat
    BY <2>1, <2>2, NodeFields DEF Kids
  <2> QED BY <2>1, <2>3
<1>4. Left = CASE at = "opened" /\ cmd = "cat"   -> 2 + size - count
               [] at = "opened" /\ cmd = "ls"    -> 2 + len - count
               [] at = "opened" /\ cmd = "write" -> 3
               [] at = "written"                 -> 2
               [] at = "done"                    -> 1
               [] OTHER                          -> 0
  BY Zenon DEF Left
<1>5. /\ Left \in Nat
      /\ at \in {"opened", "written"} => Left >= 2
      /\ at = "opened" /\ cmd = "cat" => Left = 2 + size - count
      /\ at = "opened" /\ cmd = "ls" => Left = 2 + len - count
      /\ at = "opened" /\ cmd = "write" => Left = 3
      /\ at = "written" => Left = 2
      /\ at = "done" => Left = 1
      /\ at \in {"prompt", "exited", "stuck"} => Left = 0
  BY ONLY <1>1, <1>2, <1>3, <1>4
<1> QED BY <1>1, <1>2, <1>3, <1>5 DEF LeftOK

\* cat has less to read.
LEMMA CatReadsLess ==
    ASSUME Reading, CatRead, LeftOK, LeftOK', job' # Stuck
    PROVE  Left' < Left
<1> PICK v, size, o, got, count : /\ v = job.vnode /\ size = nodes[v].size
                                  /\ o = files[Mine].offset /\ got = Got /\ count = job.count
  OBVIOUS
<1>1. /\ At("opened", {"cat"}) /\ FilesOK(Kernel) /\ ByDescriptor
      /\ o <= size /\ got > 0 /\ read(sh, job.fd, BUF_SIZE)
      /\ job' = [job EXCEPT !.count = @ + got]
  BY DEF Reading, CatRead, Printing
<1>2. /\ At("opened", {"cat"})' /\ job'.vnode = v /\ job'.count = count + got
      /\ job'.at = "opened" /\ job'.cmd = "cat"
  <2>1. /\ At("opened", {"cat"})' /\ job'.vnode = v /\ job'.count = count + got
    BY <1>1, CountsUp
  <2> QED BY <2>1 DEF At
<1>3. nodes[v].type # "dir" /\ nodes' = nodes
  <2>1. fds[sh][job.fd] = Mine /\ files[Mine].vnode = v
    BY <1>1 DEF Mine, ByDescriptor
  <2> QED BY <1>1, <2>1 DEF read
<1>4. size \in Nat /\ o \in Nat
  <2>1. files[Mine] \in FileType /\ nodes[v] \in NodeType
    BY <1>1, MineOpen
  <2> QED BY <2>1, ConstantTypes DEF FileType, NodeType
<1>5. got \in Nat
  <2>1. got = Max({0, Min({BUF_SIZE, size - o})})
    <3>1. fds[sh][job.fd] = Mine /\ files[Mine].vnode = v
      BY <1>1 DEF Mine, ByDescriptor
    <3> QED BY <1>3, <3>1 DEF Got
  <2> QED BY <1>1, <1>4, <2>1, GotIs
<1>6. count \in Nat /\ Left = 2 + size - count
  BY <1>1, <1>4 DEF At, LeftOK
<1>7. Left' = 2 + size - (count + got)
  BY <1>2, <1>3 DEF LeftOK
<1>8. got > 0
  BY <1>1
<1>9. 2 + size - (count + got) < 2 + size - count
  BY ONLY <1>4, <1>5, <1>6, <1>8
<1> QED BY ONLY <1>6, <1>7, <1>9, Zenon

\* ls has fewer entries to show.
LEMMA LsShowsLess ==
    ASSUME Listing, LsEntry, LeftOK, LeftOK', job' # Stuck
    PROVE  Left' < Left
<1> PICK v, len, k, count : /\ v = job.vnode /\ len = Len(nodes[v].children) /\ k = 1
                            /\ count = job.count
  OBVIOUS
<1>1. At("opened", {"ls"}) /\ job' = [job EXCEPT !.count = @ + k] /\ nodes' = nodes
  BY DEF Listing, LsEntry, Printing, vars
<1>2. /\ job'.vnode = v /\ job'.count = count + k /\ job'.at = "opened" /\ job'.cmd = "ls"
  <2>1. /\ At("opened", {"ls"})' /\ job'.vnode = v /\ job'.count = count + k
    BY <1>1, CountsUp
  <2> QED BY <2>1 DEF At
<1>3. len \in Nat /\ count \in Nat /\ Left = 2 + len - count /\ k = 1
  BY <1>1 DEF At, LeftOK
<1>4. Left' = 2 + len - (count + k)
  BY <1>1, <1>2 DEF LeftOK
<1>5. 2 + len - (count + k) < 2 + len - count
  BY ONLY <1>3
<1> QED BY ONLY <1>3, <1>4, <1>5, Zenon

\* A command in progress does not loop for ever: whatever it works on, each of its
\* steps brings it nearer to the prompt, also one whose write to the terminal does
\* not return, which is its last (sh.c:60-70, 83-102, 273-277, tty.c:92-94).
THEOREM CommandsShrink == ShellSpec => [][StepsLess]_shellVars
<1>1. ASSUME ShellInv, LeftOK, LeftOK', ShellNext, InProgress
      PROVE  Left' < Left
  <2>1. GoOn
    BY <1>1 DEF ShellNext, shell_main, Call, InProgress, AtPrompt, cmd_cd, cmd_mkdir, cmd_rm,
                CatOpen, WriteOpen, LsOpen, cmd_exit, Message
  <2>2. CASE job' = Stuck
    <3>1. job'.at = "stuck"
      BY <2>2 DEF Stuck
    <3>2. Left >= 1
      BY <1>1 DEF LeftOK, InProgress
    <3>3. Left' = 0 /\ Left \in Nat
      BY <1>1, <3>1 DEF LeftOK
    <3> QED BY <3>2, <3>3
  <2>3. CASE CatRead /\ job' # Stuck
    BY <1>1, <2>3, PointsApart, CatReadsLess DEF CatRead
  <2>4. CASE LsEntry /\ job' # Stuck
    BY <1>1, <2>4, PointsApart, LsShowsLess DEF LsEntry
  <2>5. CASE WriteText
    <3>1. At("opened", {"write"}) /\ job' = [job EXCEPT !.at = "written"]
      BY <1>1, <2>5, PointsApart DEF WriteText, Emptied
    <3>2. job'.at = "written"
      BY <3>1, GoesOn
    <3> QED BY <1>1, <2>5, <3>2 DEF LeftOK, WriteText
  <2>6. ASSUME NEW cmd, job.at \in {"opened", "written"}, At(job.at, {cmd}), Done
        PROVE  Left' < Left
    <3>1. job'.at = "done"
      BY <2>6, GoesOn DEF Done
    <3>2. Left >= 2
      BY <1>1, <2>6 DEF LeftOK
    <3>3. Left' = 1 /\ Left \in Nat
      BY <1>1, <3>1 DEF LeftOK
    <3> QED BY <3>2, <3>3
  <2>7. CASE CatClose
    BY <1>1, <2>6, <2>7, PointsApart DEF CatClose, Reading, At
  <2>8. CASE WriteClose
    BY <1>1, <2>6, <2>8, PointsApart DEF WriteClose, Filled, At
  <2>9. CASE LsClose
    BY <1>1, <2>6, <2>9, PointsApart DEF LsClose, Listing, At
  <2>10. CASE Prompt /\ job' # Stuck
    <3>1. job.at = "done" /\ job'.at = "prompt"
      BY <2>10 DEF Prompt, Printing
    <3> QED BY <1>1, <3>1 DEF LeftOK
  <2> QED BY <2>1, <2>3, <2>4, <2>5, <2>7, <2>8, <2>9, <2>10, <2>2 DEF GoOn
<1>2. ShellInv /\ ShellInv' /\ LeftOK /\ LeftOK' /\ [ShellNext]_shellVars => [StepsLess]_shellVars
  BY <1>1 DEF StepsLess, LeftOK
<1> QED BY <1>2, LeftIs, ShellInductive, PTL DEF ShellSpec
=============================================================================
