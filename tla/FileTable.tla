----------------------------- MODULE FileTable -----------------------------
(***************************************************************************)
(* The open-file table of kernel/file.c and the system calls that move     *)
(* references to its entries about: open, dup, close, pipe, fork and exit  *)
(* (kernel/sysfile.c, kernel/proc.c).  Processes share entries; each entry *)
(* holds one reference to what it names: one end of a pipe, or an inode.   *)
(*                                                                         *)
(* A step is one critical section of ftable.lock, pi->lock or icache.lock. *)
(* What a process does to its own p->ofile is visible to nobody else and   *)
(* joins the step next to it.  Names, contents and offsets are left out.   *)
(***************************************************************************)
EXTENDS Integers, FiniteSets

CONSTANTS Proc,         \* slots of the process table
          First,        \* the process that runs at the start
          NOFILE,       \* descriptors of a process
          NFILE,        \* entries of the table
          Inode, Root,  \* inodes; Root is the initial current directory
          Mode,         \* the <<readable, writable>> that open() is asked for
          Pipe,         \* pages kalloc() may return for a pipe
          Nil           \* null pointer

ASSUME TableConstants ==
  /\ IsFiniteSet(Proc) /\ First \in Proc
  /\ NOFILE \in Nat \ {0} /\ NFILE \in Nat \ {0}
  /\ Mode \subseteq BOOLEAN \X BOOLEAN
  /\ Root \in Inode /\ Inode \cap Pipe = {} /\ Nil \notin Proc \cup Inode \cup Pipe

Fd == 0 .. NOFILE - 1
File == 1 .. NFILE
Local == {1, 2}         \* rf (or f) and wf, pointers in a kernel stack frame
Type == {"FD_NONE", "FD_PIPE", "FD_INODE"}

VARIABLES
  file,    \* ftable.file: ref, type, what it names and its two mode flags
  ofile,   \* ofile[p][d]: the entry descriptor d of p points to, or 0
  local,   \* local[p][k]: entry whose reference a variable of the call owns
  ff,      \* ff[p]: fileclose()'s copy of an entry whose object is to close
  ip,      \* ip[p]: inode whose reference sys_open() owns
  cwd,     \* p->cwd
  state,   \* p->state: "UNUSED", "EMBRYO" (in fork) or "RUNNING"
  pc, fd,  \* where p is, and fork()'s loop counter
  child,   \* np in fork()
  pipe,    \* pipe[q]: the ends of q that are open; {} is a free page
  iref,    \* references to an inode that the calls here own
  panicked

vars == <<file, ofile, local, ff, ip, cwd, state, pc, fd, child, pipe, iref, panicked>>

Entry == [ref : Nat, type : Type, obj : Inode \cup Pipe \cup {Nil},
          readable : BOOLEAN, writable : BOOLEAN]
Empty == [ref |-> 0, type |-> "FD_NONE", obj |-> Nil,
          readable |-> FALSE, writable |-> FALSE]

TypeOK ==
  /\ file \in [File -> Entry]
  /\ ofile \in [Proc -> [Fd -> File \cup {0}]]
  /\ local \in [Proc -> [Local -> File \cup {0}]]
  /\ ff \in [Proc -> Entry]
  /\ ip \in [Proc -> Inode \cup {Nil}]
  /\ cwd \in [Proc -> Inode \cup {Nil}]
  /\ state \in [Proc -> {"UNUSED", "EMBRYO", "RUNNING"}]
  /\ pc \in [Proc -> {"idle", "open", "pipe1", "pipe2", "drop", "fork", "exit"}]
  /\ fd \in [Proc -> 0 .. NOFILE]
  /\ child \in [Proc -> Proc \cup {Nil}]
  /\ pipe \in [Pipe -> SUBSET {"r", "w"}]
  /\ iref \in [Inode -> Nat]
  /\ panicked \in BOOLEAN

Init ==
  /\ file = [f \in File |-> Empty]
  /\ ofile = [p \in Proc |-> [d \in Fd |-> 0]]
  /\ local = [p \in Proc |-> [k \in Local |-> 0]]
  /\ ff = [p \in Proc |-> Empty]
  /\ ip = [p \in Proc |-> Nil]
  /\ cwd = [p \in Proc |-> IF p = First THEN Root ELSE Nil]
  /\ state = [p \in Proc |-> IF p = First THEN "RUNNING" ELSE "UNUSED"]
  /\ pc = [p \in Proc |-> "idle"]
  /\ fd = [p \in Proc |-> 0]
  /\ child = [p \in Proc |-> Nil]
  /\ pipe = [q \in Pipe |-> {}]
  /\ iref = [i \in Inode |-> IF i = Root THEN 1 ELSE 0]
  /\ panicked = FALSE

\* p runs, and no object waits for the second half of fileclose().
At(p, where) == /\ ~panicked /\ state[p] = "RUNNING"
                /\ pc[p] = where /\ ff[p].type = "FD_NONE"
Goto(p, where) == pc' = [pc EXCEPT ![p] = where]

-----------------------------------------------------------------------------
\* filealloc() returns the first entry with ref 0, fdalloc() the first
\* descriptor that is 0; neither when there is none.
IsFree(f) == f \in File /\ file[f].ref = 0 /\ \A g \in 1 .. f - 1 : file[g].ref # 0
NoFile == \A f \in File : file[f].ref # 0
IsFreeFd(fds, d) == d \in Fd /\ fds[d] = 0 /\ \A e \in 0 .. d - 1 : fds[e] # 0
NoFd(fds) == \A d \in Fd : fds[d] # 0

\* argfd(): descriptor d of p is open.
argfd(p, d) == d \in Fd /\ ofile[p][d] # 0

EndOf(e) == IF e.writable THEN "w" ELSE "r"

\* Fault: a closed entry keeps its type.
StaleClose(p, f) ==
  LET last == file[f].ref = 1
  IN  /\ panicked' = (file[f].ref < 1)
      /\ file' = [file EXCEPT ![f].ref = IF @ < 1 THEN @ ELSE @ - 1]
      /\ ff' = [ff EXCEPT ![p] = IF last THEN [file[f] EXCEPT !.ref = 0] ELSE @]

\* fileclose(), the part under ftable.lock: the last reference moves the
\* entry to the local copy ff.
fileclose(p, f) ==
  LET last == file[f].ref = 1
  IN  /\ panicked' = (file[f].ref < 1)
      /\ file' = [file EXCEPT ![f].ref = IF @ < 1 THEN @ ELSE @ - 1,
                              ![f].type = IF last THEN "FD_NONE" ELSE @]
      /\ ff' = [ff EXCEPT ![p] = IF last THEN [file[f] EXCEPT !.ref = 0] ELSE @]

\* The rest of fileclose(): pipeclose() of one end, or iput().
close_object(p) ==
  /\ ~panicked
  /\ \/ /\ ff[p].type = "FD_PIPE"
        /\ pipe' = [pipe EXCEPT ![ff[p].obj] = @ \ {EndOf(ff[p])}]
        /\ UNCHANGED iref
     \/ /\ ff[p].type = "FD_INODE"
        /\ iref' = [iref EXCEPT ![ff[p].obj] = @ - 1]
        /\ UNCHANGED pipe
  /\ ff' = [ff EXCEPT ![p] = Empty]
  /\ UNCHANGED <<file, ofile, local, ip, cwd, state, pc, fd, child, panicked>>

\* Fault: the reference is not counted.
NoCountDup(f) == UNCHANGED <<file, panicked>>

filedup(f) ==
  /\ panicked' = (file[f].ref < 1)
  /\ file' = [file EXCEPT ![f].ref = IF @ < 1 THEN @ ELSE @ + 1]

-----------------------------------------------------------------------------
sys_dup(p) ==
  /\ At(p, "idle")
  /\ \E d, e \in Fd :
       /\ argfd(p, d) /\ IsFreeFd(ofile[p], e)
       /\ ofile' = [ofile EXCEPT ![p][e] = ofile[p][d]]
       /\ filedup(ofile[p][d])
  /\ UNCHANGED <<local, ff, ip, cwd, state, pc, fd, child, pipe, iref>>

sys_close(p) ==
  /\ At(p, "idle")
  /\ \E d \in Fd : /\ argfd(p, d)
                   /\ ofile' = [ofile EXCEPT ![p][d] = 0]
                   /\ fileclose(p, ofile[p][d])
  /\ UNCHANGED <<local, ip, cwd, state, pc, fd, child, pipe, iref>>

\* sys_open() up to filealloc(): namei() or create() returned a reference.
sys_open(p) ==
  /\ At(p, "idle")
  /\ \E i \in Inode : /\ ip' = [ip EXCEPT ![p] = i]
                      /\ iref' = [iref EXCEPT ![i] = @ + 1]
  /\ Goto(p, "open")
  /\ UNCHANGED <<file, ofile, local, ff, cwd, state, fd, child, pipe, panicked>>

\* filealloc(), fdalloc() and the fields; without a free descriptor the new
\* entry is closed again, and on either failure the inode is put.
open_file(p) ==
  /\ At(p, "open")
  /\ \/ /\ NoFile
        /\ Goto(p, "drop") /\ UNCHANGED <<file, ofile, local, ip>>
     \/ \E f \in File :
          /\ IsFree(f) /\ NoFd(ofile[p])
          /\ file' = [file EXCEPT ![f].ref = 1]
          /\ local' = [local EXCEPT ![p][1] = f]
          /\ Goto(p, "drop") /\ UNCHANGED <<ofile, ip>>
     \/ \E f \in File, d \in Fd, m \in Mode :
          /\ IsFree(f) /\ IsFreeFd(ofile[p], d)
          /\ file' = [file EXCEPT ![f] = [ref |-> 1, type |-> "FD_INODE", obj |-> ip[p],
                                          readable |-> m[1], writable |-> m[2]]]
          /\ ofile' = [ofile EXCEPT ![p][d] = f]
          /\ ip' = [ip EXCEPT ![p] = Nil]
          /\ Goto(p, "idle") /\ UNCHANGED local
  /\ UNCHANGED <<ff, cwd, state, fd, child, pipe, iref, panicked>>

\* pipealloc(): two entries, then a page.
sys_pipe(p) ==
  /\ At(p, "idle")
  /\ \E f \in File : /\ IsFree(f)
                     /\ file' = [file EXCEPT ![f].ref = 1]
                     /\ local' = [local EXCEPT ![p][1] = f]
  /\ Goto(p, "pipe1")
  /\ UNCHANGED <<ofile, ff, ip, cwd, state, fd, child, pipe, iref, panicked>>

pipe_second(p) ==
  /\ At(p, "pipe1")
  /\ \/ /\ NoFile
        /\ Goto(p, "drop") /\ UNCHANGED <<file, local>>
     \/ \E f \in File : /\ IsFree(f)
                        /\ file' = [file EXCEPT ![f].ref = 1]
                        /\ local' = [local EXCEPT ![p][2] = f]
                        /\ Goto(p, "pipe2")
  /\ UNCHANGED <<ofile, ff, ip, cwd, state, fd, child, pipe, iref, panicked>>

PipeEnd(q, w) == [ref |-> 1, type |-> "FD_PIPE", obj |-> q, readable |-> ~w, writable |-> w]

\* kalloc() may fail; so may either fdalloc() and, once both descriptors are
\* set, copyout(), which clears them again before the files are closed.
pipe_page(p) ==
  /\ At(p, "pipe2")
  /\ \/ /\ Goto(p, "drop") /\ UNCHANGED <<file, ofile, local, pipe>>
     \/ \E q \in Pipe :
          /\ pipe[q] = {}
          /\ pipe' = [pipe EXCEPT ![q] = {"r", "w"}]
          /\ file' = [file EXCEPT ![local[p][1]] = PipeEnd(q, FALSE),
                                  ![local[p][2]] = PipeEnd(q, TRUE)]
          /\ \/ \E d \in Fd, e \in Fd :
                  /\ IsFreeFd(ofile[p], d)
                  /\ IsFreeFd([ofile[p] EXCEPT ![d] = local[p][1]], e)
                  /\ ofile' = [ofile EXCEPT ![p][d] = local[p][1], ![p][e] = local[p][2]]
                  /\ local' = [local EXCEPT ![p] = [k \in Local |-> 0]]
                  /\ Goto(p, "idle")
             \/ Goto(p, "drop") /\ UNCHANGED <<ofile, local>>
  /\ UNCHANGED <<ff, ip, cwd, state, fd, child, iref, panicked>>

\* The failure paths: close what the call's own variables still own ...
drop_file(p) ==
  /\ At(p, "drop")
  /\ \E k \in Local :
       /\ local[p][k] # 0 /\ \A j \in 1 .. k - 1 : local[p][j] = 0
       /\ local' = [local EXCEPT ![p][k] = 0]
       /\ fileclose(p, local[p][k])
  /\ UNCHANGED <<ofile, ip, cwd, state, pc, fd, child, pipe, iref>>

\* ... and put the inode of sys_open().
drop_inode(p) ==
  /\ At(p, "drop") /\ \A k \in Local : local[p][k] = 0
  /\ iref' = [i \in Inode |-> IF i = ip[p] THEN iref[i] - 1 ELSE iref[i]]
  /\ ip' = [ip EXCEPT ![p] = Nil]
  /\ Goto(p, "idle")
  /\ UNCHANGED <<file, ofile, local, ff, cwd, state, fd, child, pipe, panicked>>

\* What a read or a write does to the object is another module's matter (Pipe,
\* FileBlocks); here, an entry without a type is a panic.
fileread(f) == file[f].readable /\ panicked' = (file[f].type = "FD_NONE")
filewrite(f) == file[f].writable /\ panicked' = (file[f].type = "FD_NONE")

sys_rw(p) ==
  /\ At(p, "idle")
  /\ \E d \in Fd : argfd(p, d) /\ (fileread(ofile[p][d]) \/ filewrite(ofile[p][d]))
  /\ UNCHANGED <<file, ofile, local, ff, ip, cwd, state, pc, fd, child, pipe, iref>>

-----------------------------------------------------------------------------
fork(p) ==
  /\ At(p, "idle")
  /\ \E np \in Proc :
       /\ state[np] = "UNUSED"
       /\ state' = [state EXCEPT ![np] = "EMBRYO"]
       /\ child' = [child EXCEPT ![p] = np]
  /\ fd' = [fd EXCEPT ![p] = 0]
  /\ Goto(p, "fork")
  /\ UNCHANGED <<file, ofile, local, ff, ip, cwd, pipe, iref, panicked>>

\* One turn of the loop that duplicates the descriptors.
fork_dup(p) ==
  /\ At(p, "fork") /\ fd[p] < NOFILE
  /\ \/ /\ ofile[p][fd[p]] = 0
        /\ UNCHANGED <<file, ofile, panicked>>
     \/ /\ ofile[p][fd[p]] # 0
        /\ filedup(ofile[p][fd[p]])
        /\ ofile' = [ofile EXCEPT ![child[p]][fd[p]] = ofile[p][fd[p]]]
  /\ fd' = [fd EXCEPT ![p] = @ + 1]
  /\ UNCHANGED <<local, ff, ip, cwd, state, pc, child, pipe, iref>>

\* idup(p->cwd), and the child may run.
fork_run(p) ==
  /\ At(p, "fork") /\ fd[p] = NOFILE
  /\ iref' = [iref EXCEPT ![cwd[p]] = @ + 1]
  /\ cwd' = [cwd EXCEPT ![child[p]] = cwd[p]]
  /\ state' = [state EXCEPT ![child[p]] = "RUNNING"]
  /\ child' = [child EXCEPT ![p] = Nil]
  /\ fd' = [fd EXCEPT ![p] = 0]
  /\ Goto(p, "idle")
  /\ UNCHANGED <<file, ofile, local, ff, ip, pipe, panicked>>

exit(p) ==
  /\ At(p, "idle") /\ p # First
  /\ Goto(p, "exit")
  /\ UNCHANGED <<file, ofile, local, ff, ip, cwd, state, fd, child, pipe, iref, panicked>>

exit_close(p) ==
  /\ At(p, "exit")
  /\ \E d \in Fd :
       /\ ofile[p][d] # 0 /\ \A e \in 0 .. d - 1 : ofile[p][e] = 0
       /\ ofile' = [ofile EXCEPT ![p][d] = 0]
       /\ fileclose(p, ofile[p][d])
  /\ UNCHANGED <<local, ip, cwd, state, pc, fd, child, pipe, iref>>

\* iput(p->cwd); the slot is free again once the parent has waited for it.
exit_done(p) ==
  /\ At(p, "exit") /\ \A d \in Fd : ofile[p][d] = 0
  /\ iref' = [iref EXCEPT ![cwd[p]] = @ - 1]
  /\ cwd' = [cwd EXCEPT ![p] = Nil]
  /\ state' = [state EXCEPT ![p] = "UNUSED"]
  /\ Goto(p, "idle")
  /\ UNCHANGED <<file, ofile, local, ff, ip, fd, child, pipe, panicked>>

ProcStep(p) ==
  \/ sys_dup(p) \/ sys_close(p) \/ close_object(p)
  \/ sys_open(p) \/ open_file(p)
  \/ sys_pipe(p) \/ pipe_second(p) \/ pipe_page(p)
  \/ drop_file(p) \/ drop_inode(p)
  \/ sys_rw(p)
  \/ fork(p) \/ fork_dup(p) \/ fork_run(p)
  \/ exit(p) \/ exit_close(p) \/ exit_done(p)

Next == \E p \in Proc : ProcStep(p)
Spec == Init /\ [][Next]_vars
-----------------------------------------------------------------------------
(* Properties *)

\* The pointers that own a reference to entry f: descriptors, and the
\* variables of a call that has not handed f to a descriptor or closed it.
Holders(f) == {x \in Proc \X Fd : ofile[x[1]][x[2]] = f}
FrameHolders(f) == {x \in Proc \X Local : local[x[1]][x[2]] = f}

FileRefs ==
  \A f \in File : file[f].ref = Cardinality(Holders(f)) + Cardinality(FrameHolders(f))
InodeRefs ==
  \A i \in Inode :
    iref[i] = Cardinality({f \in File : file[f].ref > 0 /\ file[f].type = "FD_INODE" /\ file[f].obj = i})
            + Cardinality({p \in Proc : ff[p].type = "FD_INODE" /\ ff[p].obj = i})
            + Cardinality({p \in Proc : cwd[p] = i}) + Cardinality({p \in Proc : ip[p] = i})

\* file.c:17-20: "ref" counts exactly the pointers that own the entry,
\* however dup, fork, exit and the failing halves of open and pipe overlap;
\* so none of the panics of filedup(), fileclose(), fileread() is reached.
\* file.c:78-81, proc.c:290, 350: and every inode has exactly as many
\* references as entries, current directories and unfinished calls hold.
RefsExact == ~panicked /\ FileRefs /\ InodeRefs

\* file.c:71-77: an end of a pipe is open exactly while an entry in use, or
\* an entry copied for closing, names it, and never two of them do: an end
\* is closed once, after its last descriptor, and no failure of sys_pipe()
\* or exit leaves one open or a page allocated.
Naming(q, end) ==
  {f \in File : file[f].ref > 0 /\ file[f].type = "FD_PIPE" /\ file[f].obj = q /\ EndOf(file[f]) = end}
Closing(q, end) ==
  {p \in Proc : ff[p].type = "FD_PIPE" /\ ff[p].obj = q /\ EndOf(ff[p]) = end}
PipeEndsExact ==
  \A q \in Pipe, end \in {"r", "w"} :
    Cardinality(Naming(q, end)) + Cardinality(Closing(q, end)) = IF end \in pipe[q] THEN 1 ELSE 0
=============================================================================
