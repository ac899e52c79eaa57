----------------------------- MODULE LazyMemory -----------------------------
(***************************************************************************)
(* Physical pages and user address spaces: kernel/kalloc.c, kernel/vm.c,   *)
(* exec(), fork(), sbrk() and the lazy allocation in usertrap() and        *)
(* walkaddr().                                                             *)
(*                                                                         *)
(* A page table is a record: "nodes" maps each page-table page in use (its *)
(* level and the part of the address space it covers) to its physical page *)
(* and "leaf" maps each valid virtual page to its PTE, of which the page   *)
(* and PTE_U are kept.  Only its own process works on an address space, so *)
(* each call is one step.  What the others do meanwhile is that they take  *)
(* pages: "left" is how many kalloc()s of the call find one.               *)
(***************************************************************************)
EXTENDS Integers, Sequences, FiniteSets, TLC, SequencesExt

CONSTANTS
  Proc, First,  \* slots of the process table; First is initproc
  NPAGE,        \* pages on the free list after the kernel's own are taken
  PGSIZE,       \* bytes of a page
  FANOUT,       \* entries of a page-table page (512)
  MAXSZ,        \* bound on how far sbrk() grows a process
  MAXCALLS,     \* bound on the calls that change an address space
  UINT,         \* one more than the largest uint
  ALIGN, PTR,   \* alignment of sp (16) and sizeof(uint64)
  MAXARG,       \* entries of argv
  Programs,     \* what exec() may find in a file: a sequence of segments
  Args,         \* argument lists: sequences of string lengths
  Increments,   \* arguments of sbrk()
  Lengths,      \* lengths of the buffers given to system calls
  Address,      \* user addresses that programs use
  Left,         \* how many kalloc()s of fork() or exec() may find a page
  LazyLeft      \* the same for a lazy allocation

PGROUNDUP(a) == PGSIZE * ((a + PGSIZE - 1) \div PGSIZE)
PGROUNDDOWN(a) == PGSIZE * (a \div PGSIZE)
\* The virtual pages that hold addresses from a up to b.
PagesOf(a, b) == a \div PGSIZE .. (b - 1) \div PGSIZE

\* Half of what three levels of FANOUT entries can map.
MAXVA == PGSIZE * (FANOUT ^ 3 \div 2)
TRAMPOLINE == MAXVA \div PGSIZE - 1   \* virtual page of the trampoline
TRAPFRAME == TRAMPOLINE - 1           \* virtual page of the trapframe
Page == 1 .. NPAGE
TrampolineText == 0            \* the trampoline's page is kernel text

ASSUME MemoryConstants ==
  /\ First \in Proc /\ IsFiniteSet(Proc)
  /\ {PGSIZE, FANOUT, NPAGE, ALIGN} \subseteq Nat \ {0}
  /\ MAXSZ < UINT /\ MAXSZ <= PGSIZE * TRAPFRAME

NoTable == [nodes |-> <<>>, leaf |-> <<>>]

VARIABLES
  free,       \* kmem.freelist
  pagetable,  \* p->pagetable
  trapframe,  \* p->trapframe: its page, or 0
  sz,         \* p->sz
  top,        \* end of p's stack page, as exec() laid it out
  state,      \* p->state: "UNUSED", "RUNNING" or "ZOMBIE"
  calls,      \* how many calls have changed an address space
  twice,      \* a page has been freed while it was free
  panicked    \* the message of panic(), or "no"

vars == <<free, pagetable, trapframe, sz, top, state, calls, twice, panicked>>

-----------------------------------------------------------------------------
(* The kernel's operations work on a record c: the pages, the page table   *)
(* being built or used, its size, and whether the call goes on (ok).       *)

Call(left, pt) ==
  [free |-> free, left |-> left, pt |-> pt, sz |-> 0, sp |-> 0, page |-> 0,
   held |-> {}, ok |-> TRUE, twice |-> twice, panic |-> "no"]
Fail(c) == [c EXCEPT !.ok = FALSE]
panic(c, why) == [c EXCEPT !.ok = FALSE, !.panic = why]

\* Op after c unless c has failed; Undo after c if it has, short of a panic.
\* (The singleton set makes TLC evaluate c once.)
Then(c, Op(_)) == CHOOSE r \in {IF d.ok THEN Op(d) ELSE d : d \in {c}} : TRUE
OnFail(c, Undo(_)) ==
  CHOOSE r \in {IF d.ok \/ d.panic # "no" THEN d ELSE Undo(d) : d \in {c}} : TRUE
ForEach(c, Op(_, _), S) ==
  FoldLeft(LAMBDA d, x : Then(d, LAMBDA e : Op(e, x)), c,
           SetToSortSeq(S, LAMBDA a, b : a < b))

\* kalloc(): which page it is makes no difference to its user; the lowest
\* stands for the head of the list.
kalloc(c) ==
  IF c.left = 0 \/ c.free = {} THEN Fail(c)
  ELSE LET pg == Min(c.free)
       IN  [c EXCEPT !.free = @ \ {pg}, !.left = @ - 1, !.page = pg]

\* kfree() of each page of a set.
kfree(c, pages) == [c EXCEPT !.free = @ \cup pages,
                             !.twice = @ \/ pages \cap c.free # {}]

\* walk() with alloc: makes the page-table pages of virtual page v that are
\* missing, from the root down.
Node(level, v) == <<level, v \div FANOUT ^ (level + 1)>>
AddNode(c, level, v) ==
  IF Node(level, v) \in DOMAIN c.pt.nodes THEN c
  ELSE Then(kalloc(c), LAMBDA d : [d EXCEPT !.pt.nodes = @ @@ (Node(level, v) :> d.page)])
walk(c, v) ==
  IF v * PGSIZE >= MAXVA THEN panic(c, "walk")
  ELSE Then(AddNode(c, 1, v), LAMBDA d : AddNode(d, 0, v))

\* mappages() of one page.
mappages(c, v, pa, user) ==
  Then(walk(c, v), LAMBDA d :
    IF v \in DOMAIN d.pt.leaf THEN panic(d, "remap")
    ELSE [d EXCEPT !.pt.leaf = @ @@ (v :> [pa |-> pa, user |-> user])])

\* Fault: the page is forgotten when there is no page for the page table.
LeakyMap(c, v, user) == Then(kalloc(c), LAMBDA k : mappages(k, v, k.page, user))

\* A fresh page mapped at v, or nothing taken but page-table pages: the
\* kalloc(), mappages(), kfree() of four callers.
map_page(c, v, user) ==
  Then(kalloc(c), LAMBDA k :
    OnFail(mappages(k, v, k.page, user), LAMBDA m : kfree(m, {k.page})))

\* uvmunmap(): pages without a mapping are skipped.
uvmunmap(c, pages, do_free) ==
  LET gone == DOMAIN c.pt.leaf \cap pages
      rest == [c EXCEPT !.pt.leaf = [v \in DOMAIN c.pt.leaf \ gone |-> c.pt.leaf[v]]]
  IN  IF do_free THEN kfree(rest, {c.pt.leaf[v].pa : v \in gone}) ELSE rest

\* freewalk(): frees the page-table pages; a leaf left behind is a panic.
freewalk(c) ==
  IF DOMAIN c.pt.leaf # {} THEN panic(c, "freewalk: leaf")
  ELSE [kfree(c, {c.pt.nodes[n] : n \in DOMAIN c.pt.nodes}) EXCEPT !.pt = NoTable]

uvmfree(c, size) ==
  freewalk(IF size > 0 THEN uvmunmap(c, PagesOf(0, PGROUNDUP(size)), TRUE) ELSE c)

\* uvmcreate(), then the two mappings every process has.
uvmcreate(c) ==
  Then(kalloc([c EXCEPT !.pt = NoTable]), LAMBDA d :
    [d EXCEPT !.pt.nodes = <<2, 0>> :> d.page])
proc_pagetable(c, tf) ==
  Then(uvmcreate(c), LAMBDA d :
    Then(OnFail(mappages(d, TRAMPOLINE, TrampolineText, FALSE), LAMBDA e : uvmfree(e, 0)),
         LAMBDA e : OnFail(mappages(e, TRAPFRAME, tf, FALSE),
                           LAMBDA f : uvmfree(uvmunmap(f, {TRAMPOLINE}, FALSE), 0))))

proc_freepagetable(c, size) ==
  uvmfree(uvmunmap(c, {TRAMPOLINE, TRAPFRAME}, FALSE), size)

\* Fault: the page that oldsz ends in stays mapped.
DeallocDown(c, oldsz, newsz) ==
  IF newsz >= oldsz THEN c
  ELSE uvmunmap(c, PagesOf(PGROUNDUP(newsz), PGROUNDDOWN(oldsz)), TRUE)

uvmdealloc(c, oldsz, newsz) ==
  IF newsz >= oldsz THEN c
  ELSE uvmunmap(c, PagesOf(PGROUNDUP(newsz), PGROUNDUP(oldsz)), TRUE)

\* uvmalloc() from c.sz to newsz; it undoes its own pages when it fails.
uvmalloc(c, newsz) ==
  LET first == PGROUNDUP(c.sz)
      Grow(d, v) == OnFail(map_page(d, v, TRUE),
                           LAMBDA e : uvmdealloc(e, v * PGSIZE, first))
  IN  IF newsz < c.sz THEN c
      ELSE Then(ForEach(c, Grow, PagesOf(first, newsz)), LAMBDA d : [d EXCEPT !.sz = newsz])

\* uvmcopy() of the pages below size of table old into c.pt.
uvmcopy(c, old, size) ==
  LET Copy(d, v) == OnFail(map_page(d, v, old.leaf[v].user),
                           LAMBDA e : uvmunmap(e, 0 .. v - 1, TRUE))
  IN  ForEach(c, Copy, PagesOf(0, size) \cap DOMAIN old.leaf)

\* uvmclear(): the page keeps its mapping and loses PTE_U.
uvmclear(c, v) == [c EXCEPT !.pt.leaf[v].user = FALSE]

-----------------------------------------------------------------------------
\* Fault: the page that p->sz cuts is refused.
WholePages(c, v, u) ==
  IF v \notin DOMAIN c.pt.leaf
  THEN IF v >= u.sz \div PGSIZE \/ v * PGSIZE < PGROUNDUP(u.sp) THEN Fail(c)
       ELSE map_page(c, v, TRUE)
  ELSE IF c.pt.leaf[v].user THEN c ELSE Fail(c)

\* walkaddr() on behalf of u, a process's size and stack pointer: the page
\* may be used, or is allocated, or the call fails.
walkaddr(c, v, u) ==
  IF v * PGSIZE >= MAXVA THEN Fail(c)
  ELSE IF v \notin DOMAIN c.pt.leaf
       THEN IF v * PGSIZE >= u.sz \/ v * PGSIZE < PGROUNDUP(u.sp) THEN Fail(c)
            ELSE map_page(c, v, TRUE)
  ELSE IF c.pt.leaf[v].user THEN c ELSE Fail(c)

\* copyout() and copyin() of len bytes, page by page; copyinstr() the same up
\* to the page with the end of the string, and fails if that is beyond max.
copyout(c, va, len, u) ==
  ForEach(c, LAMBDA d, v : walkaddr(d, v, u), PagesOf(va, va + len))
copyin(c, va, len, u) ==
  ForEach(c, LAMBDA d, v : walkaddr(d, v, u), PagesOf(va, va + len))
copyinstr(c, va, len, max, u) ==
  IF len < max THEN copyin(c, va, len + 1, u) ELSE Fail(copyin(c, va, max, u))
fetchaddr(c, va, u) ==
  IF va >= u.sz \/ va + PTR > u.sz THEN Fail(c) ELSE copyin(c, va, PTR, u)
fetchstr(c, va, len, u) == copyinstr(c, va, len, PGSIZE, u)

\* Stack pointers p's program may have in a trap: in its stack page, or one
\* below it after too many calls.
UserSp(p) == {s \in {top[p] - 1, top[p] - PGSIZE, top[p] - PGSIZE - 1} : s >= 0}

User(p, sp) == [sz |-> sz[p], sp |-> sp]

Run(p) == panicked = "no" /\ state[p] = "RUNNING"
\* initproc runs initcode, which only calls exec(); init.c never does.
Initcode(p) == p = First /\ top[p] = PGSIZE

\* The end of a call by p on its own address space.
Return(p, c) ==
  /\ free' = c.free
  /\ twice' = c.twice
  /\ panicked' = c.panic
  /\ pagetable' = [pagetable EXCEPT ![p] = c.pt]

-----------------------------------------------------------------------------
\* sys_sbrk(): growth only moves sz; growproc() keeps sz in a uint.
growproc(p, n) ==
  LET size == sz[p] % UINT
      newsz == (size + n) % UINT
  IN  /\ Return(p, uvmdealloc(Call(0, pagetable[p]), size, newsz))
      /\ sz' = [sz EXCEPT ![p] = IF newsz >= size THEN size ELSE newsz]
sys_sbrk(p, n) ==
  /\ Run(p) /\ p # First
  /\ sz[p] + n <= MAXSZ
  /\ IF n > 0
     THEN /\ sz' = [sz EXCEPT ![p] = @ + n]
          /\ UNCHANGED <<free, pagetable, twice, panicked>>
     ELSE growproc(p, n)
  /\ UNCHANGED <<trapframe, top, state>>

\* usertrap() on a load or store that faults: map a page or kill p.
Faults(p, va) ==
  LET v == va \div PGSIZE
      leaf == pagetable[p].leaf
  IN  ~(v \in DOMAIN leaf /\ leaf[v].user)
lazy_fault(c, va, u) ==
  IF va >= u.sz \/ va < PGROUNDDOWN(u.sp) THEN Fail(c) ELSE map_page(c, va \div PGSIZE, TRUE)
usertrap(p, va, sp, left) ==
  /\ Run(p) /\ p # First
  /\ Faults(p, va)
  /\ \E c \in {lazy_fault(Call(left, pagetable[p]), va, User(p, sp))} :
       /\ Return(p, c)
       /\ state' = IF c.ok \/ c.panic # "no" THEN state
                   ELSE [state EXCEPT ![p] = "ZOMBIE"]
  /\ UNCHANGED <<trapframe, sz, top>>

\* A system call that copies to, from, or a string from user memory.
copy_user(p, va, len, sp, left, how) ==
  /\ Run(p) /\ ~Initcode(p)
  /\ LET c == Call(left, pagetable[p])
         u == User(p, sp)
     IN  Return(p, CASE how = "out" -> copyout(c, va, len, u)
                     [] how = "in" -> copyin(c, va, len, u)
                     [] how = "str" -> fetchstr(c, va, len, u))
  /\ UNCHANGED <<trapframe, sz, top, state>>

-----------------------------------------------------------------------------
\* freeproc(): tf is the trapframe page or 0; no page table, nothing to free.
freeproc(c, tf, size) ==
  LET d == IF tf = 0 THEN c ELSE kfree(c, {tf})
  IN  IF d.pt = NoTable THEN d ELSE proc_freepagetable(d, size)

\* allocproc(): the trapframe's page is kept in "held".
allocproc(c) ==
  Then(kalloc(c), LAMBDA t :
    OnFail(proc_pagetable([t EXCEPT !.held = {t.page}], t.page),
           LAMBDA d : freeproc(d, t.page, 0)))

\* fork(): all of the child, or nothing.
fork_memory(c, old, size) ==
  Then(allocproc(c), LAMBDA d :
    OnFail(uvmcopy(d, old, size), LAMBDA e : freeproc(e, Min(e.held), 0)))
fork(p, np, left) ==
  /\ Run(p) /\ ~Initcode(p)
  /\ state[np] = "UNUSED"
  /\ \E c \in {fork_memory(Call(left, NoTable), pagetable[p], sz[p])} :
       /\ Return(np, c)
       /\ IF c.ok
          THEN /\ state' = [state EXCEPT ![np] = "RUNNING"]
               /\ trapframe' = [trapframe EXCEPT ![np] = Min(c.held)]
               /\ sz' = [sz EXCEPT ![np] = sz[p]]
               /\ top' = [top EXCEPT ![np] = top[p]]
          ELSE UNCHANGED <<state, trapframe, sz, top>>

\* exit(), also for a trap that is no page fault: the memory stays.
exit(p) ==
  /\ Run(p) /\ p # First
  /\ state' = [state EXCEPT ![p] = "ZOMBIE"]
  /\ UNCHANGED <<free, pagetable, trapframe, sz, top, twice, panicked>>

\* wait(): p copies out the status (to address 0: not), then frees np.
wait(p, np, va, sp, left) ==
  /\ Run(p) /\ ~Initcode(p)
  /\ state[np] = "ZOMBIE"
  /\ \E a \in {IF va = 0 THEN Call(left, pagetable[p])
               ELSE copyout(Call(left, pagetable[p]), va, 1, User(p, sp))} :
     \E b \in {Then(a, LAMBDA d : freeproc([d EXCEPT !.pt = pagetable[np]],
                                          trapframe[np], sz[np]))} :
       /\ free' = b.free /\ twice' = b.twice /\ panicked' = b.panic
       /\ pagetable' = [pagetable EXCEPT ![p] = a.pt, ![np] = IF a.ok THEN b.pt ELSE @]
       /\ IF a.ok
          THEN /\ trapframe' = [trapframe EXCEPT ![np] = 0]
               /\ sz' = [sz EXCEPT ![np] = 0]
               /\ top' = [top EXCEPT ![np] = 0]
               /\ state' = [state EXCEPT ![np] = "UNUSED"]
          ELSE UNCHANGED <<trapframe, sz, top, state>>

-----------------------------------------------------------------------------
\* One program header in exec()'s loop.  seg.bad says what is wrong with the
\* file: nothing, the header ("header") or the bytes it promises ("data").
loadseg(c, seg) ==
  IF ~(PagesOf(seg.vaddr, seg.vaddr + seg.filesz) \subseteq DOMAIN c.pt.leaf)
  THEN panic(c, "loadseg: address should exist")
  ELSE IF seg.bad = "data" THEN Fail(c) ELSE c
exec_load(c, seg) ==
  IF seg.bad = "header" \/ seg.memsz < seg.filesz THEN Fail(c)
  ELSE Then(uvmalloc(c, seg.vaddr + seg.memsz), LAMBDA d :
         IF d.sz = 0 \/ seg.vaddr % PGSIZE # 0 THEN Fail(d) ELSE loadseg(d, seg))

\* The guard page and the stack page.
exec_stack(c) ==
  Then(uvmalloc([c EXCEPT !.sz = PGROUNDUP(@)], PGROUNDUP(c.sz) + 2 * PGSIZE), LAMBDA d :
    [uvmclear(d, (d.sz - 2 * PGSIZE) \div PGSIZE) EXCEPT !.sp = d.sz])

\* Pushes len bytes and aligns sp.
exec_push(c, len, u) ==
  LET sp == (c.sp - len) - ((c.sp - len) % ALIGN)
  IN  IF sp < c.sz - PGSIZE THEN Fail(c)
      ELSE copyout([c EXCEPT !.sp = sp], sp, len, u)

\* exec(): the new image in c.pt; a failure frees what was built.
exec(c, prog, argv, tf, u) ==
  Then(proc_pagetable(c, tf), LAMBDA a :
    LET b == FoldLeft(LAMBDA d, seg : Then(d, LAMBDA e : exec_load(e, seg)), a, prog)
        d == Then(b, exec_stack)
        f == FoldLeft(LAMBDA e, len : Then(e, LAMBDA g : exec_push(g, len + 1, u)), d, argv)
        g == Then(f, LAMBDA e : exec_push(e, (Len(argv) + 1) * PTR, u))
    IN  OnFail(g, LAMBDA e : proc_freepagetable(e, e.sz)))

\* sys_exec(): the path and the arguments at va are fetched into pages that
\* are freed whatever exec() does.
fetch_arg(c, len, va, u) ==
  Then(Then(fetchaddr(c, va, u), kalloc), LAMBDA d :
    fetchstr([d EXCEPT !.held = @ \cup {d.page}], va, len, u))
fetch_args(c, argv, va, u) ==
  LET args == FoldLeft(LAMBDA d, len : Then(d, LAMBDA e : fetch_arg(e, len, va, u)),
                       fetchstr(c, va, 0, u), argv)
  IN  Then(args, LAMBDA d : IF Len(argv) >= MAXARG THEN Fail(d) ELSE fetchaddr(d, va, u))
sys_exec(p, prog, argv, va, sp, left) ==
  /\ Run(p) /\ (p = First => Initcode(p))
  /\ \E a \in {fetch_args(Call(left, pagetable[p]), argv, va, User(p, sp))} :
     \E e \in {Then(a, LAMBDA d : exec(d, prog, argv, trapframe[p], User(p, sp)))} :
       IF e.ok
       THEN \E old \in {proc_freepagetable([e EXCEPT !.pt = a.pt], sz[p])} :
              /\ Return(p, [kfree(old, e.held) EXCEPT !.pt = e.pt])
              /\ sz' = [sz EXCEPT ![p] = e.sz]
              /\ top' = [top EXCEPT ![p] = e.sz]
       ELSE /\ Return(p, [kfree(e, e.held) EXCEPT !.pt = a.pt])
            /\ UNCHANGED <<sz, top>>
  /\ UNCHANGED <<trapframe, state>>

-----------------------------------------------------------------------------
\* kinit() puts every page on the free list; userinit() makes the first
\* process, with initcode in one page.
kinit == [free |-> Page, left |-> NPAGE, pt |-> NoTable, sz |-> 0, sp |-> 0, page |-> 0,
          held |-> {}, ok |-> TRUE, twice |-> FALSE, panic |-> "no"]
uvminit(c) == map_page(c, 0, TRUE)
userinit == uvminit(allocproc(kinit))

Init ==
  /\ free = userinit.free
  /\ pagetable = [p \in Proc |-> IF p = First THEN userinit.pt ELSE NoTable]
  /\ trapframe = [p \in Proc |-> IF p = First THEN Min(userinit.held) ELSE 0]
  /\ sz = [p \in Proc |-> IF p = First THEN PGSIZE ELSE 0]
  /\ top = [p \in Proc |-> IF p = First THEN PGSIZE ELSE 0]
  /\ state = [p \in Proc |-> IF p = First THEN "RUNNING" ELSE "UNUSED"]
  /\ calls = 0
  /\ twice = FALSE
  /\ panicked = "no"

Memory(p) ==
  \/ \E n \in Increments : sys_sbrk(p, n)
  \/ \E np \in Proc, left \in Left : fork(p, np, left)
  \/ \E sp \in UserSp(p), left \in LazyLeft, va \in Address :
       \/ usertrap(p, va, sp, left)
       \/ \E len \in Lengths, how \in {"out", "in", "str"} : copy_user(p, va, len, sp, left, how)
  \/ \E prog \in Programs, argv \in Args, sp \in UserSp(p), left \in Left, va \in Address :
       sys_exec(p, prog, argv, va, sp, left)

Next == \E p \in Proc :
  \/ calls < MAXCALLS /\ calls' = calls + 1 /\ Memory(p)
  \/ exit(p) /\ UNCHANGED calls
  \/ /\ \E np \in Proc, sp \in UserSp(p), left \in LazyLeft, va \in Address \cup {0} :
           wait(p, np, va, sp, left)
     /\ UNCHANGED calls

Spec == Init /\ [][Next]_vars

-----------------------------------------------------------------------------
\* The uses p has for physical pages: its trapframe, its page-table pages and
\* the user pages below the trapframe.
Uses(p) == {<<"trapframe", p>> : t \in {trapframe[p]} \ {0}}
             \cup {<<"node", p, n>> : n \in DOMAIN pagetable[p].nodes}
             \cup {<<"user", p, v>> : v \in DOMAIN pagetable[p].leaf \ {TRAMPOLINE, TRAPFRAME}}
PageOf(u) == CASE u[1] = "trapframe" -> trapframe[u[2]]
               [] u[1] = "node" -> pagetable[u[2]].nodes[u[3]]
               [] u[1] = "user" -> pagetable[u[2]].leaf[u[3]].pa

\* Every page is on the free list or has exactly one use, and none was freed
\* twice: fork(), exec() and the lazy allocations that fail half-way return
\* what they took, and no two processes share a page.
PagesExact ==
  LET uses == UNION {Uses(p) : p \in Proc}
  IN  panicked = "no" =>
        /\ ~twice
        /\ Cardinality(free) + Cardinality(uses) = NPAGE
        /\ {PageOf(u) : u \in uses} = Page \ free

\* A panic is always mappages()'s "remap", for a process whose stack pointer
\* has run into the guard page below its stack; above all no page table is
\* freed with a mapping left beyond p->sz.
OnlyGuardPanics ==
  /\ panicked \in {"no", "remap"}
  /\ panicked = "remap" =>
       \E p \in Proc : \E sp \in UserSp(p) :
         LET v == sp \div PGSIZE
         IN  v \in DOMAIN pagetable[p].leaf /\ ~pagetable[p].leaf[v].user

\* While a process has its stack page, the kernel can copy to an address of
\* it exactly when the process could load or store there: walkaddr() and
\* usertrap() agree on what is lazily allocated.  (Only the tail of a last
\* page that p->sz cuts is different: walkaddr() is given page addresses.)
LazyAgrees ==
  \A p \in Proc : \A sp \in UserSp(p) : \A va \in (0 .. MAXSZ) \ (sz[p] .. PGROUNDUP(sz[p]) - 1) :
    LET leaf == pagetable[p].leaf
        c == Call(NPAGE, pagetable[p])
        stack == (top[p] - 1) \div PGSIZE
        touched == ~Faults(p, va) \/ lazy_fault(c, va, User(p, sp)).ok
    IN  state[p] = "RUNNING" /\ panicked = "no" /\ stack \in DOMAIN leaf
          /\ sp \in top[p] - PGSIZE .. top[p]
        => (touched <=> walkaddr(c, va \div PGSIZE, User(p, sp)).ok)
=============================================================================
