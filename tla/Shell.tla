------------------------------- MODULE Shell -------------------------------
(***************************************************************************)
(* The shell (userland/sh.c) on the file system that build_initfs and      *)
(* init_process leave (kernel/main.c).                                     *)
(*                                                                         *)
(* A command is cut at its calls on files: open, each read of its loop,    *)
(* write, close.  The shell is not preempted (module Proc), so other calls *)
(* of Files come only while it waits for a line.  A command that takes     *)
(* several operands handles them one after the other; each is a command    *)
(* here.                                                                   *)
(*                                                                         *)
(* printf and write(1) end in serial_putchar, which waits on a variable    *)
(* nothing assigns (tty.c:90-94): every step that prints this way may be   *)
(* the last one of the shell, the prompt included.  tty_puts and           *)
(* tty_putchar do not go there.                                            *)
(*                                                                         *)
(* Abstracted: descriptors 0 to 2, which are the terminal, and what is     *)
(* printed there but for its length.  cat without an operand is left out:  *)
(* a read of the terminal never returns 0, so it does not end (sh.c:53).   *)
(***************************************************************************)
EXTENDS Files

CONSTANTS
    sh,         \* the process that runs the shell
    BUF_SIZE,   \* what cat reads at once: 512
    InitFs      \* what build_initfs makes, in order: [dir, name, type, size]

ASSUME ShellAssumption ==
    /\ sh \in Procs /\ BUF_SIZE \in Nat \ {0}
    /\ MaxOpen >= 2
    /\ InitFs \in Seq([dir : Seq(STRING), name : STRING, type : {"file", "dir"},
                        size : 0 .. MaxSize])

VARIABLE job   \* the command in progress and its local variables

shellVars == <<vars, job>>

-----------------------------------------------------------------------------
(* Boot.                                                                   *)

\* ramfs_mkdir and ramfs_write_file.
MakeEntry(ns, entry) ==
    LET dir == vfs_lookup(ns, entry.dir)
        new == Create(ns, Min(Ids \ DOMAIN ns), dir, entry.name, entry.type)
    IN  IF entry.type = "dir" THEN new
        ELSE [new EXCEPT ![finddir(new, dir, entry.name)] = Written(@, 0, entry.size)]

\* The nodes after the first i entries.
made[i \in 0 .. Len(InitFs)] ==
    IF i = 0 THEN [n \in {Root} |-> Node("/", "dir")] ELSE MakeEntry(made[i-1], InitFs[i])

build_initfs == made[Len(InitFs)]

\* Every entry goes to a directory made before, and /dev/tty0 is one of them.
ASSUME InitFsAssumption ==
    /\ \A i \in 1 .. Len(InitFs) : /\ DOMAIN made[i-1] # Ids
                                   /\ Creatable(made[i-1], vfs_lookup(made[i-1], InitFs[i].dir))
    /\ vfs_lookup(build_initfs, <<"dev", "tty0">>) # None

\* printf and write(1): the shell goes on with the job next, or never returns.
Stuck == [at |-> "stuck"]
Printing(next) == job' \in {next, Stuck}

\* init_process opens /dev/tty0 twice and forgets both: the descriptors it makes
\* are of another node, for tty0 is a directory.  The message of the day is
\* opened, read and closed, and the shell prints its first prompt.
ShellInit ==
    /\ LET tty0 == vfs_lookup(build_initfs, <<"dev", "tty0">>)
       IN  /\ nodes = [build_initfs EXCEPT ![tty0].ref_count = 2]
           /\ files = [f \in 1 .. 2 |-> [vnode |-> tty0, ref |-> 1, offset |-> 0]]
    /\ fds = [p \in Procs |-> [d \in Fds |-> None]]
    /\ cwd = [p \in Procs |-> <<>>]
    /\ misuse = {}
    /\ job \in {[at |-> "prompt"], Stuck}

-----------------------------------------------------------------------------
(* Commands of a single call on the tree, each with the next prompt.       *)

AtPrompt == job.at = "prompt" /\ Printing([at |-> "prompt"])

\* A command that changes nothing: echo, help, ps, pwd, uname, sleep, no command,
\* an empty line, and every command that ends with a message that it cannot.
Message == AtPrompt /\ UNCHANGED vars

\* cd, without an operand to "/".
cmd_cd(path, absolute) ==
    /\ AtPrompt /\ IsDir(path)
    /\ cwd' = [cwd EXCEPT ![sh] = IF absolute THEN path ELSE @ \o path]
    /\ UNCHANGED <<nodes, files, fds, misuse>>

\* Where mkdir and rm look a path up: a name without a slash in the working
\* directory, anything else from the root.
Base(path, absolute) == IF Len(path) = 1 /\ ~absolute THEN cwd[sh] ELSE <<>>

cmd_mkdir(path, absolute) == AtPrompt /\ mkdir(Base(path, absolute), path)

cmd_rm(path, absolute) == AtPrompt /\ unlink(Base(path, absolute), path)

\* exit, which prints first.
cmd_exit ==
    /\ job.at = "prompt"
    /\ \/ job' = [at |-> "exited"] /\ exit(sh)
       \/ job' = Stuck /\ UNCHANGED vars

-----------------------------------------------------------------------------
(* Commands that open a file.  job holds the descriptor or file_t, the     *)
(* node, a count of bytes or entries, and the open files and descriptors   *)
(* at the start of the command.                                            *)

Started(cmd, at, fd, n, count) ==
    [at |-> at, cmd |-> cmd, fd |-> fd, vnode |-> n, count |-> count,
     before |-> <<files, fds>>]

\* What open leaves: the command goes on, or there was no descriptor and it says so.
Opened(cmd, count) ==
    LET d == Min(FreeFds(sh))
    IN  IF FreeFds(sh) = {} THEN Printing(Started("none", "done", None, None, 0))
        ELSE job' = Started(cmd, "opened", d, files'[fds'[sh][d]].vnode, count)

Done == job' = [job EXCEPT !.at = "done"]

CatOpen(path, absolute) ==
    /\ job.at = "prompt"
    /\ open(sh, path, absolute, FALSE, FALSE, FALSE) /\ Opened("cat", 0)

\* What the next read of cat returns: an error for a directory.
Got ==
    LET f == files[fds[sh][job.fd]]
        n == nodes[f.vnode]
    IN  IF n.type = "dir" THEN -1 ELSE Max({0, Min({BUF_SIZE, n.size - f.offset})})

CatRead ==
    /\ job.at = "opened" /\ job.cmd = "cat" /\ Got > 0
    /\ read(sh, job.fd, BUF_SIZE)
    /\ Printing([job EXCEPT !.count = @ + Got])

CatClose_AtZero ==
    /\ job.at = "opened" /\ job.cmd = "cat" /\ Got = 0
    /\ close(sh, job.fd) /\ Done
CatClose ==
    /\ job.at = "opened" /\ job.cmd = "cat" /\ Got <= 0
    /\ close(sh, job.fd) /\ Done

\* write, with the text as it was put together from the operands or the lines.
WriteOpen_NoTruncate(path, absolute, length) ==
    /\ job.at = "prompt"
    /\ open(sh, path, absolute, TRUE, FALSE, FALSE) /\ Opened("write", length)
WriteOpen(path, absolute, length) ==
    /\ job.at = "prompt"
    /\ open(sh, path, absolute, TRUE, TRUE, FALSE) /\ Opened("write", length)

\* The result of the write is not looked at: to a directory it is an error.
WriteText ==
    /\ job.at = "opened" /\ job.cmd = "write"
    /\ IF nodes[job.vnode].type = "file" THEN write(sh, job.fd, job.count) ELSE UNCHANGED vars
    /\ job' = [job EXCEPT !.at = "written"]

WriteClose ==
    /\ job.at = "written"
    /\ close(sh, job.fd) /\ Done

\* ls of its operand or the working directory, both looked up from the root.
\* file_open without a descriptor.
LsOpen(path) ==
    LET f == NewFile
        n == vfs_lookup(nodes, path)
    IN  /\ job.at = "prompt" /\ RoomForFile /\ IsDir(path)
        /\ files' = [g \in DOMAIN files \cup {f} |->
                       IF g = f THEN [vnode |-> n, ref |-> 1, offset |-> 0] ELSE files[g]]
        /\ nodes' = [nodes EXCEPT ![n].ref_count = @ + 1]
        /\ job' = Started("ls", "opened", f, n, 0)
        /\ UNCHANGED <<fds, cwd, misuse>>

\* readdir of entry idx = count, which is then printed.
LsEntry ==
    /\ job.at = "opened" /\ job.cmd = "ls"
    /\ job.count < Len(nodes[job.vnode].children)
    /\ Printing([job EXCEPT !.count = @ + 1])
    /\ UNCHANGED vars

LsClose_Forgotten ==
    /\ job.at = "opened" /\ job.cmd = "ls"
    /\ job.count >= Len(nodes[job.vnode].children)
    /\ UNCHANGED vars /\ Done
LsClose ==
    /\ job.at = "opened" /\ job.cmd = "ls"
    /\ job.count >= Len(nodes[job.vnode].children)
    /\ LET c == file_close(files, nodes, job.fd) IN files' = c.files /\ nodes' = c.nodes
    /\ UNCHANGED <<fds, cwd, misuse>> /\ Done

\* Back in the loop of shell_main, which prints the next prompt.
Prompt ==
    /\ job.at = "done" /\ Printing([at |-> "prompt"])
    /\ UNCHANGED vars

-----------------------------------------------------------------------------

GoOn == CatRead \/ CatClose \/ WriteText \/ WriteClose \/ LsEntry \/ LsClose \/ Prompt

shell_main ==
    \/ \E path \in Paths, absolute \in BOOLEAN :
         \/ Len(cwd[sh]) < MaxDepth /\ cmd_cd(path, absolute)
         \/ cmd_mkdir(path, absolute) \/ cmd_rm(path, absolute)
         \/ CatOpen(path, absolute)
         \/ \E length \in 0 .. MaxSize : WriteOpen(path, absolute, length)
    \/ cmd_cd(<<>>, TRUE)
    \/ \E path \in Paths \cup {cwd[sh]} : LsOpen(path)
    \/ cmd_exit \/ Message
    \/ GoOn

\* The calls of Files, while the shell waits for a line.
Call == job.at = "prompt" /\ UNCHANGED job /\ call

ShellNext == (shell_main \/ Call) /\ Defined

\* The CPU executes: a command goes on.
ShellSpec == ShellInit /\ [][ShellNext]_shellVars /\ WF_shellVars(GoOn)

-----------------------------------------------------------------------------
(* Properties.                                                             *)

\* The command in progress; the rest has its type by Tree.
JobOK ==
    /\ job.at \in {"prompt", "opened", "written", "done", "exited", "stuck"}
    /\ job.at = "opened" =>
         /\ job.cmd \in {"cat", "ls", "write"} /\ job.vnode \in DOMAIN nodes
         /\ job.count \in 0 .. Max({MaxSize, MAX_CHILDREN})

\* A command ends with the descriptors and the open files it began with,
\* whatever it could open and read, and when no descriptor was free
\* (sh.c:60-70, 83-102, 273-276, libc.c:240-247).
NothingLeaked == JobOK /\ (job.at = "done" => <<files, fds>> = job.before)

\* cat has printed as many bytes as the file has, ls as many entries as the
\* directory has, and the file written has the length of the text: nothing of
\* what it held before is left (sh.c:67-69, 88, 273-275).
OutputIsWhole ==
    job.at = "done" /\ job.cmd # "none" =>
        LET n == nodes[job.vnode]
        IN  job.count = CASE job.cmd = "ls"                    -> Len(n.children)
                          [] job.cmd = "cat" /\ n.type = "dir" -> 0
                          [] job.cmd = "write" /\ n.type = "dir" -> job.count
                          [] OTHER                             -> n.size

\* The loops of a command end, also on a directory and on an empty file: the
\* shell comes to ask for the next line, unless a write to the terminal does not
\* return (sh.c:67, 88, tty.c:92-94).
CommandsEnd ==
    job.at \in {"opened", "written", "done"} ~> job.at \in {"prompt", "stuck"}
=============================================================================
