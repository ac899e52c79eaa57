------------------------------ MODULE FileTree ------------------------------
(***************************************************************************)
(* The name space of the file system: the inode cache and the directories  *)
(* of kernel/fs.c, and the system calls of kernel/sysfile.c that look up,  *)
(* make and remove names, run by several processes at once.                *)
(*                                                                         *)
(* Every call takes inode locks one or two at a time and drops its         *)
(* references between them, so calls on overlapping paths interleave.  A   *)
(* step is a section under inode locks from one ilock() that may wait to   *)
(* the next (nobody else reads what such a section changes before it ends) *)
(* or a section under icache.lock.  A path is the sequence of its elements *)
(* (skipelem()); the contents of files are FileBlocks' matter, the open    *)
(* file table FileTable's, and a process has at most one file open here.   *)
(*                                                                         *)
(* A crash is taken between calls: by Log's CrashAtomic the disk then      *)
(* holds what it held at the last moment without a call in progress.       *)
(***************************************************************************)
EXTENDS Integers, Sequences, FiniteSets

CONSTANTS Proc, Nil,
          Inum,      \* 1 .. n; inode 1 is ROOTINO
          NINODE,    \* entries of the inode cache
          Name,      \* names of directory entries, "." and ".." apart
          Paths,     \* the paths calls are given: [abs, elems]
          Links,     \* the pairs of paths link is given
          Image,     \* the tree on disk at boot: [type, nlink, dir]
          Home,      \* Home[p]: the directory p is in at the start
          MAXCALLS   \* bound: calls the processes make between them

Slot == 1 .. NINODE
Type == {"free", "T_DIR", "T_FILE"}   \* a device node goes the way of a file
DotName == Name \cup {".."}           \* "." is the directory itself

\* iget() never finds the cache full: "iget: no inodes" is not modelled.
ASSUME TreeConstants == NINODE >= Cardinality(Inum) /\ 1 \in Inum /\ "." \notin Name

VARIABLES
  dtype, dnlink, \* the inodes on disk, as the buffer cache shows them
  dir,           \* dir[i]: the entries of directory i, 0 when empty
  icache,        \* inum, ref, valid and the copies of type and nlink
  lock,          \* lock[s]: holder of the sleep-lock of entry s
  cwd, file,     \* entries of p->cwd and of the file p has open
  st,            \* st[p]: where p is in its call, and the call's variables
  calls,         \* calls made so far
  panicked       \* "no", or the panic that stopped the machine

disk == <<dtype, dnlink, dir>>
vars == <<disk, icache, lock, cwd, file, st, calls, panicked>>

NoDir == [n \in DotName |-> 0]
FreeSlot == [inum |-> 0, ref |-> 0, valid |-> FALSE, type |-> "free", nlink |-> 0]
Idle == [at |-> "idle", call |-> "none", path |-> <<>>, new |-> Nil, parent |-> FALSE,
         name |-> "none", ip |-> 0, dp |-> 0, old |-> 0, put |-> <<>>, then |-> "idle"]

TypeOK ==
  /\ dtype \in [Inum -> Type] /\ dnlink \in [Inum -> Nat]
  /\ dir \in [Inum -> [DotName -> Inum \cup {0}]]
  /\ icache \in [Slot -> [inum : Inum \cup {0}, ref : Nat, valid : BOOLEAN, type : Type, nlink : Nat]]
  /\ lock \in [Slot -> Proc \cup {Nil}]
  /\ cwd \in [Proc -> Slot] /\ file \in [Proc -> Slot \cup {0}]
  /\ \A p \in Proc : st[p].ip \in Slot \cup {0} /\ st[p].dp \in Slot \cup {0}

\* Processes at rest in directories home, whose entries are valid copies or not.
AtHome(home, valid) ==
  [s \in Slot |->
     LET refs == Cardinality({p \in Proc : home[p] = s})
     IN  IF refs = 0 THEN FreeSlot
         ELSE [inum |-> s, ref |-> refs, valid |-> valid,
               type |-> IF valid THEN Image.type[s] ELSE "free",
               nlink |-> IF valid THEN Image.nlink[s] ELSE 0]]

Init ==
  /\ dtype = Image.type /\ dnlink = Image.nlink /\ dir = Image.dir
  /\ icache = AtHome(Home, TRUE) /\ cwd = Home
  /\ lock = [s \in Slot |-> Nil]
  /\ file = [p \in Proc |-> 0]
  /\ st = [p \in Proc |-> Idle]
  /\ calls = 0 /\ panicked = "no"

\* After a reboot every process starts from the root, as userinit()'s does.
crash ==
  /\ panicked = "no" /\ \A p \in Proc : st[p].at = "idle"
  /\ 0 < calls /\ calls < MAXCALLS
  /\ icache' = AtHome([p \in Proc |-> 1], FALSE) /\ cwd' = [p \in Proc |-> 1]
  /\ file' = [p \in Proc |-> 0]
  /\ UNCHANGED <<disk, lock, st, calls, panicked>>

-----------------------------------------------------------------------------
(* The inode cache *)

\* iget(): the entry of inode i in cache c, else the first that is unused.
SlotOf(c, i) ==
  LET hit == {s \in Slot : c[s].ref > 0 /\ c[s].inum = i}
      unused == {s \in Slot : c[s].ref = 0}
  IN  IF hit # {} THEN CHOOSE s \in hit : TRUE
      ELSE CHOOSE s \in unused : \A t \in unused : s <= t
iget(c, i) ==
  LET s == SlotOf(c, i)
  IN  IF c[s].ref > 0 THEN [c EXCEPT ![s].ref = @ + 1]
      ELSE [c EXCEPT ![s] = [FreeSlot EXCEPT !.inum = i, !.ref = 1]]

\* ilock() on an entry nobody has locked: what the caller then sees.
Loaded(s) ==
  LET i == icache[s].inum
  IN  IF icache[s].valid THEN icache[s]
      ELSE [icache[s] EXCEPT !.valid = TRUE, !.type = dtype[i], !.nlink = dnlink[i]]
CacheLoaded(s) == [icache EXCEPT ![s] = Loaded(s)]

\* The entry p is about to lock.
Target(p) == IF st[p].at = "parent" THEN st[p].dp
             ELSE IF st[p].at = "relock" THEN st[p].old ELSE st[p].ip
Locking(p) ==
  \/ st[p].at \in {"parent", "target", "child", "relock"}
  \/ st[p].at = "walk" /\ st[p].path # <<>>
ilock(p, where) ==
  /\ panicked = "no" /\ st[p].at = where
  /\ lock[Target(p)] = Nil /\ Loaded(Target(p)).type # "free"

\* "ilock: no type".
ilock_panic(p) ==
  /\ panicked = "no" /\ Locking(p)
  /\ lock[Target(p)] = Nil /\ Loaded(Target(p)).type = "free"
  /\ panicked' = "no type"
  /\ UNCHANGED <<disk, icache, lock, cwd, file, st, calls>>

\* iupdate() after a change of the link count of entry s by k.
Relink(c, s, k) == [c EXCEPT ![s].nlink = @ + k]

\* Fault: iupdate() is forgotten.
DiskStale(s, k) == dnlink

DiskRelink(s, k) == [dnlink EXCEPT ![icache[s].inum] = Loaded(s).nlink + k]

Goto(p, r) == st' = [st EXCEPT ![p] = r]
\* Put the entries of sequence q in turn, then go to label l.
PutThen(p, q, l) == [st[p] EXCEPT !.at = "put", !.put = q, !.then = l]
\* A call that fails drops q and returns; link first takes its count back.
FailPut(p, q) == PutThen(p, q, IF st[p].old # 0 THEN "relock" ELSE "idle")

\* iput() of the next entry, up to the end of its first critical section.
Unref(c, s) == IF c[s].ref = 1 THEN [c EXCEPT ![s] = FreeSlot] ELSE [c EXCEPT ![s].ref = @ - 1]
NextPut(p) == IF Len(st[p].put) > 1 THEN [st[p] EXCEPT !.at = "put", !.put = Tail(@)]
              ELSE IF st[p].then = "idle" THEN Idle
              ELSE [st[p] EXCEPT !.at = st[p].then, !.put = <<>>]

\* Fault: a reference elsewhere does not stop the inode from being freed.
LastLink(s) == icache[s].valid /\ icache[s].nlink = 0

LastRef(s) == icache[s].ref = 1 /\ icache[s].valid /\ icache[s].nlink = 0

iput(p) ==
  /\ panicked = "no" /\ st[p].at = "put" /\ ~LastRef(Head(st[p].put))
  /\ icache' = Unref(icache, Head(st[p].put))
  /\ Goto(p, NextPut(p))
  /\ UNCHANGED <<disk, lock, cwd, file, calls, panicked>>

\* The last reference to an inode without links: acquiresleep() is called
\* with icache.lock held, where waiting would panic in sched().
iput_last(p) ==
  LET s == Head(st[p].put)
  IN  /\ panicked = "no" /\ st[p].at = "put" /\ LastRef(s)
      /\ panicked' = IF lock[s] = Nil THEN "no" ELSE "sched locks"
      /\ lock' = IF lock[s] = Nil THEN [lock EXCEPT ![s] = p] ELSE lock
      /\ Goto(p, [st[p] EXCEPT !.at = "free"])
      /\ UNCHANGED <<disk, icache, cwd, file, calls>>

\* itrunc(), type = 0 and iupdate(): the inode is free on disk ...
iput_free(p) ==
  LET s == Head(st[p].put)
      i == icache[s].inum
  IN  /\ panicked = "no" /\ st[p].at = "free"
      /\ dtype' = [dtype EXCEPT ![i] = "free"]
      /\ dnlink' = [dnlink EXCEPT ![i] = 0]
      /\ dir' = [dir EXCEPT ![i] = NoDir]
      /\ icache' = [icache EXCEPT ![s].type = "free"]
      /\ Goto(p, [st[p] EXCEPT !.at = "invalid"])
      /\ UNCHANGED <<lock, cwd, file, calls, panicked>>

\* Fault: the entry stays valid.
StillValid(p) ==
  LET s == Head(st[p].put)
  IN  /\ panicked = "no" /\ st[p].at = "invalid"
      /\ lock' = [lock EXCEPT ![s] = Nil]
      /\ Goto(p, [st[p] EXCEPT !.at = "unref"])
      /\ UNCHANGED <<disk, icache, cwd, file, calls, panicked>>

\* ... then invalid and unlocked, and then only is the reference dropped.
iput_invalid(p) ==
  LET s == Head(st[p].put)
  IN  /\ panicked = "no" /\ st[p].at = "invalid"
      /\ icache' = [icache EXCEPT ![s].valid = FALSE, ![s].nlink = 0]
      /\ lock' = [lock EXCEPT ![s] = Nil]
      /\ Goto(p, [st[p] EXCEPT !.at = "unref"])
      /\ UNCHANGED <<disk, cwd, file, calls, panicked>>

iput_unref(p) ==
  /\ panicked = "no" /\ st[p].at = "unref"
  /\ icache' = Unref(icache, Head(st[p].put))
  /\ Goto(p, NextPut(p))
  /\ UNCHANGED <<disk, lock, cwd, file, calls, panicked>>

-----------------------------------------------------------------------------
(* Path lookup *)

\* dirlookup() in the directory of entry s.
dirlookup(s, n) == IF n = "." THEN icache[s].inum ELSE dir[icache[s].inum][n]

\* dirlink() of name n to inode i in directory inode d of dr, which fails if n
\* is present.
dirlink(dr, d, n, i) == IF dr[d][n] = 0 THEN [dr EXCEPT ![d][n] = i] ELSE dr

\* namex()'s first entry: iget(ROOTINO) or idup(p->cwd).
StartSlot(p, path) == IF path.abs THEN SlotOf(icache, 1) ELSE cwd[p]
StartCache(p, path) ==
  IF path.abs THEN iget(icache, 1) ELSE [icache EXCEPT ![cwd[p]].ref = @ + 1]
Walk(p, path, parent) ==
  [st[p] EXCEPT !.at = "walk", !.path = path.elems, !.parent = parent, !.ip = StartSlot(p, path)]

\* A system call with a path: begin_op() and the start of namex().
Begin(p, call, path, new) ==
  /\ panicked = "no" /\ st[p].at = "idle" /\ calls < MAXCALLS
  /\ calls' = calls + 1
  /\ icache' = StartCache(p, path)
  /\ Goto(p, [Walk(p, path, call \in {"create", "mkdir", "unlink"})
                EXCEPT !.call = call, !.new = new])
  /\ UNCHANGED <<disk, lock, cwd, file, panicked>>

sys_open(p) == file[p] = 0 /\ \E q \in Paths, c \in {"open", "create"} : Begin(p, c, q, Nil)
sys_mkdir(p) == \E q \in Paths : Begin(p, "mkdir", q, Nil)
sys_unlink(p) == \E q \in Paths : Begin(p, "unlink", q, Nil)
sys_chdir(p) == \E q \in Paths : Begin(p, "chdir", q, Nil)
sys_link(p) == \E q \in Links : Begin(p, "link", q[1], q[2])

\* The close of the open file: iput() in a transaction of its own.
sys_close(p) ==
  /\ panicked = "no" /\ st[p].at = "idle" /\ file[p] # 0
  /\ file' = [file EXCEPT ![p] = 0]
  /\ Goto(p, [Idle EXCEPT !.at = "put", !.call = "close", !.put = <<file[p]>>])
  /\ UNCHANGED <<disk, icache, lock, cwd, calls, panicked>>

\* One turn of namex()'s loop: lock, look the element up, unlock, put.
namex(p) ==
  LET s == st[p].ip
      n == Head(st[p].path)
      isdir == Loaded(s).type = "T_DIR"
      stop == st[p].parent /\ Len(st[p].path) = 1
      next == dirlookup(s, n)
  IN  /\ st[p].path # <<>> /\ ilock(p, "walk")
      /\ \/ /\ ~isdir \/ (~stop /\ next = 0)
            /\ icache' = CacheLoaded(s)
            /\ Goto(p, FailPut(p, <<s>>))
         \/ /\ isdir /\ stop
            /\ icache' = CacheLoaded(s)
            /\ Goto(p, [st[p] EXCEPT !.at = "parent", !.dp = s, !.name = n])
         \/ /\ isdir /\ ~stop /\ next # 0
            /\ icache' = iget(CacheLoaded(s), next)
            /\ Goto(p, [PutThen(p, <<s>>, "walk") EXCEPT !.ip = SlotOf(CacheLoaded(s), next),
                                                          !.path = Tail(@), !.name = n])
      /\ UNCHANGED <<disk, lock, cwd, file, calls, panicked>>

\* The path is used up: namei() found it, nameiparent() has no parent.
namex_end(p) ==
  /\ panicked = "no" /\ st[p].at = "walk" /\ st[p].path = <<>>
  /\ Goto(p, IF st[p].parent THEN FailPut(p, <<st[p].ip>>) ELSE [st[p] EXCEPT !.at = "target"])
  /\ UNCHANGED <<disk, icache, lock, cwd, file, calls, panicked>>

-----------------------------------------------------------------------------
(* What the calls do with the inodes they find *)

\* open() of an existing name, by itself or through create().
open_target(p) ==
  LET s == st[p].ip
      fits == st[p].call = "open" \/ (st[p].call = "create" /\ Loaded(s).type = "T_FILE")
  IN  /\ st[p].call \in {"open", "create", "mkdir"} /\ ilock(p, "target")
      /\ icache' = CacheLoaded(s)
      /\ file' = IF fits THEN [file EXCEPT ![p] = s] ELSE file
      /\ Goto(p, IF fits THEN Idle ELSE FailPut(p, <<s>>))
      /\ UNCHANGED <<disk, lock, cwd, calls, panicked>>

chdir_target(p) ==
  LET s == st[p].ip
      isdir == Loaded(s).type = "T_DIR"
  IN  /\ st[p].call = "chdir" /\ ilock(p, "target")
      /\ icache' = CacheLoaded(s)
      /\ cwd' = IF isdir THEN [cwd EXCEPT ![p] = s] ELSE cwd
      /\ Goto(p, FailPut(p, <<IF isdir THEN cwd[p] ELSE s>>))
      /\ UNCHANGED <<disk, lock, file, calls, panicked>>

\* link(): count the new link first, then look for its directory.
link_target(p) ==
  LET s == st[p].ip
      new == st[p].new
      c == Relink(CacheLoaded(s), s, 1)
  IN  /\ st[p].call = "link" /\ ilock(p, "target")
      /\ \/ /\ Loaded(s).type = "T_DIR"
            /\ icache' = CacheLoaded(s)
            /\ Goto(p, FailPut(p, <<s>>))
            /\ UNCHANGED dnlink
         \/ /\ Loaded(s).type # "T_DIR"
            /\ dnlink' = DiskRelink(s, 1)
            /\ icache' = IF new.abs THEN iget(c, 1) ELSE [c EXCEPT ![cwd[p]].ref = @ + 1]
            /\ Goto(p, [Walk(p, new, TRUE) EXCEPT !.old = s])
      /\ UNCHANGED <<dtype, dir, lock, cwd, file, calls, panicked>>

link_parent(p) ==
  LET d == st[p].dp
      n == st[p].name
      free == dirlookup(d, n) = 0
      s == st[p].old
  IN  /\ st[p].call = "link" /\ ilock(p, "parent")
      /\ icache' = CacheLoaded(d)
      /\ dir' = IF free THEN dirlink(dir, icache[d].inum, n, icache[s].inum) ELSE dir
      /\ Goto(p, IF free THEN PutThen(p, <<d, s>>, "idle") ELSE FailPut(p, <<d>>))
      /\ UNCHANGED <<dtype, dnlink, lock, cwd, file, calls, panicked>>

\* "bad:" of sys_link(): take the count back.
link_bad(p) ==
  LET s == st[p].old
  IN  /\ ilock(p, "relock")
      /\ icache' = Relink(CacheLoaded(s), s, -1)
      /\ dnlink' = DiskRelink(s, -1)
      /\ Goto(p, PutThen(p, <<s>>, "idle"))
      /\ UNCHANGED <<dtype, dir, lock, cwd, file, calls, panicked>>

\* create(): the name exists, or ialloc() takes the first free inode.
create_parent(p) ==
  LET d == st[p].dp
      i == dirlookup(d, st[p].name)
      frees == {j \in Inum : dtype[j] = "free"}
      j == CHOOSE j \in frees : \A k \in frees : j <= k
      c == CacheLoaded(d)
  IN  /\ st[p].call \in {"create", "mkdir"} /\ ilock(p, "parent")
      /\ \/ /\ i # 0
            /\ icache' = iget(c, i)
            /\ Goto(p, [PutThen(p, <<d>>, "target") EXCEPT !.ip = SlotOf(c, i)])
            /\ UNCHANGED <<disk, lock, panicked>>
         \/ /\ i = 0 /\ frees # {}
            /\ dtype' = [dtype EXCEPT ![j] = IF st[p].call = "mkdir" THEN "T_DIR" ELSE "T_FILE"]
            /\ dnlink' = [dnlink EXCEPT ![j] = 0]
            /\ dir' = [dir EXCEPT ![j] = NoDir]
            /\ icache' = iget(c, j)
            /\ lock' = [lock EXCEPT ![d] = p]
            /\ Goto(p, [st[p] EXCEPT !.at = "child", !.ip = SlotOf(c, j)])
            /\ UNCHANGED panicked
         \/ /\ i = 0 /\ frees = {}
            /\ panicked' = "no inodes"
            /\ UNCHANGED <<disk, icache, lock, st>>
      /\ UNCHANGED <<cwd, file, calls>>

\* Fault: ".." of a new directory is not counted.
NoDotDotLink(call) == 0

DotDotLink(call) == IF call = "mkdir" THEN 1 ELSE 0

\* Under both locks: the link count, "." and ".." of a directory, the name.
create_child(p) ==
  LET d == st[p].dp
      s == st[p].ip
      di == icache[d].inum
      i == icache[s].inum
      k == DotDotLink(st[p].call)
  IN  /\ st[p].call \in {"create", "mkdir"} /\ ilock(p, "child")
      /\ icache' = Relink([CacheLoaded(s) EXCEPT ![s].nlink = 1], d, k)
      /\ dnlink' = [dnlink EXCEPT ![i] = 1, ![di] = icache[d].nlink + k]
      /\ dir' = dirlink(IF st[p].call = "mkdir" THEN dirlink(dir, i, "..", di) ELSE dir,
                        di, st[p].name, i)
      /\ lock' = [lock EXCEPT ![d] = Nil, ![s] = p]
      /\ Goto(p, PutThen(p, <<d>>, "done"))
      /\ UNCHANGED <<dtype, cwd, file, calls, panicked>>

\* The caller of create() gets the inode locked; open() keeps it.
create_done(p) ==
  LET s == st[p].ip
      keep == st[p].call = "create"
  IN  /\ st[p].call \in {"create", "mkdir"} /\ panicked = "no" /\ st[p].at = "done"
      /\ file' = IF keep THEN [file EXCEPT ![p] = s] ELSE file
      /\ lock' = [lock EXCEPT ![s] = Nil]
      /\ Goto(p, IF keep THEN Idle ELSE PutThen(p, <<s>>, "idle"))
      /\ UNCHANGED <<disk, icache, cwd, calls, panicked>>

\* Fault: only "." is refused.
OnlyDot(n) == n = "."

Undeletable(n) == n \in {".", ".."}

unlink_parent(p) ==
  LET d == st[p].dp
      n == st[p].name
      i == dirlookup(d, n)
      bad == Undeletable(n) \/ i = 0
      c == CacheLoaded(d)
  IN  /\ st[p].call = "unlink" /\ ilock(p, "parent")
      /\ icache' = IF bad THEN c ELSE iget(c, i)
      /\ lock' = IF bad THEN lock ELSE [lock EXCEPT ![d] = p]
      /\ Goto(p, IF bad THEN FailPut(p, <<d>>) ELSE [st[p] EXCEPT !.at = "child", !.ip = SlotOf(c, i)])
      /\ UNCHANGED <<disk, cwd, file, calls, panicked>>

isdirempty(i) == \A n \in Name : dir[i][n] = 0

\* Under both locks: erase the entry, uncount ".." of a directory.
unlink_child(p) ==
  LET d == st[p].dp
      s == st[p].ip
      di == icache[d].inum
      isdir == Loaded(s).type = "T_DIR"
      k == IF isdir THEN -1 ELSE 0
  IN  /\ st[p].call = "unlink" /\ ilock(p, "child")
      /\ panicked' = IF Loaded(s).nlink < 1 THEN "unlink" ELSE "no"
      /\ \/ /\ isdir /\ ~isdirempty(icache[s].inum)
            /\ icache' = CacheLoaded(s)
            /\ lock' = [lock EXCEPT ![d] = Nil]
            /\ Goto(p, FailPut(p, <<s, d>>))
            /\ UNCHANGED disk
         \/ /\ ~isdir \/ isdirempty(icache[s].inum)
            /\ dir' = [dir EXCEPT ![di][st[p].name] = 0]
            /\ icache' = Relink(CacheLoaded(s), d, k)
            /\ dnlink' = [dnlink EXCEPT ![di] = icache[d].nlink + k]
            /\ lock' = [lock EXCEPT ![d] = Nil, ![s] = p]
            /\ Goto(p, PutThen(p, <<d>>, "done"))
            /\ UNCHANGED dtype
      /\ UNCHANGED <<cwd, file, calls>>

\* Only now is the inode's own link count reduced.
unlink_done(p) ==
  LET s == st[p].ip
  IN  /\ st[p].call = "unlink" /\ panicked = "no" /\ st[p].at = "done"
      /\ icache' = Relink(icache, s, -1)
      /\ dnlink' = DiskRelink(s, -1)
      /\ lock' = [lock EXCEPT ![s] = Nil]
      /\ Goto(p, PutThen(p, <<s>>, "idle"))
      /\ UNCHANGED <<dtype, dir, cwd, file, calls, panicked>>

ProcStep(p) ==
  \/ iput(p) \/ iput_last(p) \/ iput_free(p) \/ iput_invalid(p) \/ iput_unref(p)
  \/ ilock_panic(p) \/ namex(p) \/ namex_end(p)
  \/ open_target(p) \/ chdir_target(p)
  \/ link_target(p) \/ link_parent(p) \/ link_bad(p)
  \/ create_parent(p) \/ create_child(p) \/ create_done(p)
  \/ unlink_parent(p) \/ unlink_child(p) \/ unlink_done(p)
Call(p) == sys_open(p) \/ sys_mkdir(p) \/ sys_unlink(p) \/ sys_chdir(p) \/ sys_link(p) \/ sys_close(p)

Next == crash \/ \E p \in Proc : Call(p) \/ ProcStep(p)
Spec == Init /\ [][Next]_vars
-----------------------------------------------------------------------------
(* Properties *)

NamesOf(i) == {x \in Inum \X Name : dtype[x[1]] = "T_DIR" /\ dir[x[1]][x[2]] = i}
SubDirs(i) == {n \in Name : dir[i][n] # 0 /\ dtype[dir[i][n]] = "T_DIR"}

\* fs.c:105-110, sysfile.c:211, 271: at every moment every entry of every
\* directory names an allocated inode, whose link count covers all its names
\* and, for a directory, the ".." of the directories named in it; so the
\* unlink of one name never frees what another name, or a concurrent link or
\* create, still leads to.
LinksCover ==
  \A i \in Inum :
    /\ NamesOf(i) # {} => dtype[i] # "free"
    /\ dtype[i] # "free" => dnlink[i] >= Cardinality(NamesOf(i)) + Cardinality(SubDirs(i))

\* fs.c:126-145: an inode has one entry in the cache; a valid entry nobody
\* has locked agrees with the disk; and an open file or a current directory
\* is never free on disk, whatever is unlinked meanwhile.
CacheCoherent ==
  /\ \A s, t \in Slot : icache[s].ref > 0 /\ icache[t].ref > 0 /\ icache[s].inum = icache[t].inum => s = t
  /\ \A s \in Slot : icache[s].valid /\ lock[s] = Nil =>
       icache[s].type = dtype[icache[s].inum] /\ icache[s].nlink = dnlink[icache[s].inum]
  /\ \A p \in Proc : file[p] # 0 => dtype[icache[file[p]].inum] # "free"
  /\ \A p \in Proc : dtype[icache[cwd[p]].inum] # "free"

\* fs.c:340-342: "ref == 1 means no other process can have ip locked, so this
\* acquiresleep() won't block (or deadlock)".
IputNeverBlocks == panicked # "sched locks"

\* fs.c:310, sysfile.c:211: the panics "ilock: no type" and "unlink: nlink < 1"
\* need a ".." on the path: an ordinary name never leads to a freed inode,
\* however calls overlap.  (".." of a removed directory may.)
NamesResolve == panicked \in {"no type", "unlink"} => \E p \in Proc : st[p].name = ".."

\* fs.c:147-163: no order of calls leaves processes waiting for each other's
\* inode locks: of any group, one does not wait for a lock that the group holds.
NoDeadlock ==
  \A G \in (SUBSET Proc) \ {{}} : \E p \in G : Locking(p) => lock[Target(p)] \notin G
=============================================================================
