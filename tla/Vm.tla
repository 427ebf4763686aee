--------------------------------- MODULE Vm ---------------------------------
(***************************************************************************)
(* User memory: kernel/kalloc.c, kernel/vm.c, and what growproc(), fork(), *)
(* exec() and freeproc() do with them, when memory runs out at any point.  *)
(*                                                                         *)
(* A page table is the tree that walk() walks: a function from its nodes   *)
(* to physical pages.  The root is the node <<>>, the leaf <<i, j, k>>     *)
(* maps the user page with these indices.  Processes share nothing but the *)
(* free list, so a step may hold all calls of kalloc() of a round of a     *)
(* loop: they commute with the steps of other processes.  Which page       *)
(* kalloc() finds does not matter; it is the least one here.               *)
(***************************************************************************)
EXTENDS Integers, Sequences, FiniteSets, FiniteSetsExt, Functions, TLC

CONSTANTS
  NPROC, NPAGE,
  PGSIZE,               \* in the units in which sizes are counted
  R2, R1, R0,           \* entries of a page table of level 2, 1, 0
  UINT,                 \* growproc() computes in a uint: modulo UINT
  ULONG,                \* exec() adds in a uint64: modulo ULONG
  SbrkArgs,             \* bound: arguments of sbrk()
  Segments,             \* bound: <<vaddr, memsz, filesz>> of an ELF file
  MaxArgs               \* bound: strings in argv[]

Proc == 1..NPROC
Page == 1..NPAGE
Trampoline == 0         \* a page of the kernel's text

VA == R2 * R1 * R0
TRAMPOLINE == VA - 1    \* in pages, like all addresses below
TRAPFRAME  == VA - 2

(* The kernel has more user addresses than pages, as 128 megabytes of RAM  *)
(* and 39 bits of address do: memory ends before TRAPFRAME is reached.     *)
VmConstants ==
  /\ NPROC \in Nat \ {0} /\ NPAGE \in Nat /\ PGSIZE \in Nat \ {0}
  /\ R2 \in Nat \ {0} /\ R1 \in Nat \ {0} /\ R0 \in Nat \ {0, 1}
  /\ NPAGE < VA + 3
  /\ ULONG \in Nat /\ UINT <= ULONG
  /\ UINT > 2 * VA * PGSIZE /\ SbrkArgs \subseteq -(UINT \div 2)..(UINT \div 2) - 1

VARIABLES
  free,                 \* kmem.freelist
  fault,                \* a panic() of vm.c, or a page freed twice
  state, sz, trapframe, pagetable,      \* struct proc
  pc, a, old, new,      \* uvmalloc() and uvmcopy(): a, oldsz rounded up, newsz
  child,                \* fork(): np
  npt, nsz, seg, argv   \* exec(): pagetable, sz, the segment, sys_exec()'s argv

vars == <<free, fault, state, sz, trapframe, pagetable, pc, a, old, new, child, npt, nsz, seg, argv>>
procVars == <<state, sz, trapframe, pagetable>>
loopVars == <<a, old, new, child>>
execVars == <<npt, nsz, seg, argv>>

Empty == <<>>           \* no page table: a function with an empty domain

PGROUNDUP(x) == ((x + PGSIZE - 1) \div PGSIZE) * PGSIZE
PageOf(x) == x \div PGSIZE

PX2(va) == va \div (R1 * R0)
PX1(va) == (va \div R0) % R1
PX0(va) == va % R0
Table1(va) == <<PX2(va)>>
Table0(va) == <<PX2(va), PX1(va)>>
Leaf(va)   == <<PX2(va), PX1(va), PX0(va)>>

-----------------------------------------------------------------------------
(* The functions of kalloc.c and vm.c, on m: the free list, a page table,  *)
(* and whether something went wrong.                                       *)
Mem(t) == [free |-> free, pt |-> t, fault |-> fault]

kfree(m, pages) ==
  [m EXCEPT !.free = @ \union pages, !.fault = @ \/ pages \intersect m.free # {}]

(* walk() makes a table of a page from kalloc(), unless it exists.         *)
MakeTable(m, node) ==
  IF node \in DOMAIN m.pt \/ m.free = {} THEN m
  ELSE [m EXCEPT !.free = @ \ {Min(m.free)}, !.pt = @ @@ (node :> Min(m.free))]

(* It fails when Table0(va) is not there afterwards; Table1(va) stays.     *)
walk(m, va) == MakeTable(MakeTable(m, Table1(va)), Table0(va))

mappages(m, va, pa) ==
  LET w == walk(m, va)
  IN  IF Table0(va) \notin DOMAIN w.pt THEN w
      ELSE [w EXCEPT !.pt = @ @@ (Leaf(va) :> pa), !.fault = @ \/ Leaf(va) \in DOMAIN w.pt]

uvmunmap(m, va, npages, do_free) ==
  LET nodes == {Leaf(v) : v \in va..va + npages - 1}
      there == nodes \intersect DOMAIN m.pt
      rest  == [m EXCEPT !.pt = Restrict(@, DOMAIN @ \ nodes), !.fault = @ \/ nodes # there]
  IN  IF do_free THEN kfree(rest, {m.pt[x] : x \in there}) ELSE rest

(* Mutant: the size is rounded down.                                       *)
uvmdealloc_down(m, oldsz, newsz) ==
  IF newsz >= oldsz THEN m
  ELSE uvmunmap(m, PageOf(newsz), PageOf(PGROUNDUP(oldsz)) - PageOf(newsz), TRUE)

uvmdealloc(m, oldsz, newsz) ==
  IF newsz >= oldsz THEN m
  ELSE uvmunmap(m, PageOf(PGROUNDUP(newsz)),
                PageOf(PGROUNDUP(oldsz)) - PageOf(PGROUNDUP(newsz)), TRUE)

(* All tables; "freewalk: leaf" when a leaf is still there.                *)
freewalk(m) ==
  LET f == kfree(m, Range(m.pt) \ {Trampoline})
  IN  [f EXCEPT !.pt = Empty, !.fault = @ \/ \E x \in DOMAIN m.pt : Len(x) = 3]

uvmfree(m, size) == freewalk(uvmunmap(m, 0, PageOf(PGROUNDUP(size)), TRUE))

(* Mutant: the page is not given back when there is no table for it.       *)
allocmap_leak(m, va) ==
  IF m.free = {} THEN m
  ELSE mappages([m EXCEPT !.free = @ \ {Min(m.free)}], va, Min(m.free))

(* The body of the loops of uvmalloc() and uvmcopy(): kalloc(), mappages(),*)
(* and kfree() if that fails.  Leaf(va) is there afterwards or it failed.  *)
allocmap(m, va) ==
  IF m.free = {} THEN m
  ELSE LET mem == Min(m.free)
           w   == mappages([m EXCEPT !.free = @ \ {mem}], va, mem)
       IN  IF Leaf(va) \in DOMAIN w.pt THEN w ELSE kfree(w, {mem})

(* proc_pagetable(): with an empty page table after a failure.             *)
proc_pagetable(m, tf) ==
  LET root == MakeTable([m EXCEPT !.pt = Empty], <<>>)
      tramp == mappages(root, TRAMPOLINE, Trampoline)
      both == mappages(tramp, TRAPFRAME, tf)
  IN  CASE <<>> \notin DOMAIN root.pt -> root
        [] <<>> \in DOMAIN root.pt /\ Leaf(TRAMPOLINE) \notin DOMAIN tramp.pt -> uvmfree(tramp, 0)
        [] Leaf(TRAMPOLINE) \in DOMAIN tramp.pt /\ Leaf(TRAPFRAME) \notin DOMAIN both.pt ->
             uvmfree(uvmunmap(both, TRAMPOLINE, 1, FALSE), 0)
        [] OTHER -> both

proc_freepagetable(m, size) ==
  uvmfree(uvmunmap(uvmunmap(m, TRAMPOLINE, 1, FALSE), TRAPFRAME, 1, FALSE), size)

SetMem(m) == free' = m.free /\ fault' = m.fault
Goto(p, l) == pc' = [pc EXCEPT ![p] = l]

-----------------------------------------------------------------------------
(* userinit(): process 1 with one page, the others UNUSED.                 *)
Init ==
  LET m0 == [free |-> Page \ {1}, pt |-> Empty, fault |-> FALSE]
      m  == allocmap(proc_pagetable(m0, 1), 0)
  IN  /\ free = m.free /\ fault = m.fault
      /\ state = [p \in Proc |-> IF p = 1 THEN "used" ELSE "UNUSED"]
      /\ sz = [p \in Proc |-> IF p = 1 THEN PGSIZE ELSE 0]
      /\ trapframe = [p \in Proc |-> IF p = 1 THEN 1 ELSE 0]
      /\ pagetable = [p \in Proc |-> IF p = 1 THEN m.pt ELSE Empty]
      /\ pc = [p \in Proc |-> "user"]
      /\ a = [p \in Proc |-> 0] /\ old = [p \in Proc |-> 0] /\ new = [p \in Proc |-> 0]
      /\ child = [p \in Proc |-> 0]
      /\ npt = [p \in Proc |-> Empty] /\ nsz = [p \in Proc |-> 0]
      /\ seg = [p \in Proc |-> <<0, 0>>] /\ argv = [p \in Proc |-> {}]

Running(p) == state[p] = "used" /\ pc[p] = "user"

(* The locals of a system call that is over.                               *)
Forget(p) ==
  /\ Goto(p, "user")
  /\ a' = [a EXCEPT ![p] = 0] /\ old' = [old EXCEPT ![p] = 0] /\ new' = [new EXCEPT ![p] = 0]
  /\ child' = [child EXCEPT ![p] = 0]

-----------------------------------------------------------------------------
(* The loop of uvmalloc(oldsz, newsz), entered at label l.                 *)
uvmalloc(p, oldsz, newsz, l) ==
  /\ a' = [a EXCEPT ![p] = PGROUNDUP(oldsz)]
  /\ old' = [old EXCEPT ![p] = PGROUNDUP(oldsz)]
  /\ new' = [new EXCEPT ![p] = newsz]
  /\ Goto(p, l)

(* sbrk(n): a size below 0 wraps around, and uvmdealloc() returns the old. *)
growproc(p, n) ==
  /\ Running(p)
  /\ IF n > 0
     THEN /\ uvmalloc(p, sz[p], (sz[p] + n) % UINT, "grow")
          /\ UNCHANGED <<free, fault, procVars, child>>
     ELSE LET newsz == (sz[p] + n) % UINT
              m == uvmdealloc(Mem(pagetable[p]), sz[p], newsz)
          IN  /\ SetMem(m)
              /\ pagetable' = [pagetable EXCEPT ![p] = m.pt]
              /\ sz' = [sz EXCEPT ![p] = IF newsz >= @ THEN @ ELSE newsz]
              /\ UNCHANGED <<state, trapframe, pc, loopVars>>
  /\ UNCHANGED execVars

(* A round of uvmalloc()'s loop for growproc() ...                         *)
grow_page(p) ==
  /\ pc[p] = "grow" /\ a[p] < new[p]
  /\ LET m == allocmap(Mem(pagetable[p]), PageOf(a[p]))
         d == uvmdealloc(m, a[p], old[p])
     IN  IF Leaf(PageOf(a[p])) \in DOMAIN m.pt
         THEN /\ SetMem(m)
              /\ pagetable' = [pagetable EXCEPT ![p] = m.pt]
              /\ a' = [a EXCEPT ![p] = @ + PGSIZE]
              /\ UNCHANGED <<pc, old, new, child>>
         ELSE /\ SetMem(d)
              /\ pagetable' = [pagetable EXCEPT ![p] = d.pt]
              /\ Forget(p)
  /\ UNCHANGED <<state, sz, trapframe, execVars>>

grow_done(p) ==
  /\ pc[p] = "grow" /\ a[p] >= new[p]
  /\ sz' = [sz EXCEPT ![p] = new[p]]
  /\ Forget(p)
  /\ UNCHANGED <<free, fault, state, trapframe, pagetable, execVars>>

-----------------------------------------------------------------------------
(* freeproc(q), given the memory without q's page table.                   *)
freeproc(q, m) ==
  LET f == proc_freepagetable(kfree(m, {trapframe[q]}), sz[q])
  IN  /\ SetMem(f)
      /\ state' = [state EXCEPT ![q] = "UNUSED"]
      /\ sz' = [sz EXCEPT ![q] = 0]
      /\ trapframe' = [trapframe EXCEPT ![q] = 0]
      /\ pagetable' = [pagetable EXCEPT ![q] = Empty]

(* fork(), allocproc(): a trapframe and a page table, or neither.          *)
fork(p, np) ==
  /\ Running(p) /\ state[np] = "UNUSED" /\ free # {}
  /\ LET tf == Min(free)
         m  == proc_pagetable([Mem(Empty) EXCEPT !.free = @ \ {tf}], tf)
     IN  IF m.pt = Empty
         THEN SetMem(kfree(m, {tf})) /\ UNCHANGED <<procVars, pc, loopVars>>
         ELSE /\ SetMem(m)
              /\ state' = [state EXCEPT ![np] = "embryo"]
              /\ trapframe' = [trapframe EXCEPT ![np] = tf]
              /\ pagetable' = [pagetable EXCEPT ![np] = m.pt]
              /\ child' = [child EXCEPT ![p] = np]
              /\ Goto(p, "copy")
              /\ UNCHANGED <<sz, a, old, new>>
  /\ UNCHANGED execVars

(* A round of uvmcopy(); its error path, and fork()'s.                     *)
copy_page(p) ==
  /\ pc[p] = "copy" /\ a[p] < sz[p]
  /\ LET np == child[p]
         m  == allocmap(Mem(pagetable[np]), PageOf(a[p]))
     IN  IF Leaf(PageOf(a[p])) \in DOMAIN m.pt
         THEN /\ free' = m.free
              /\ fault' = (m.fault \/ Leaf(PageOf(a[p])) \notin DOMAIN pagetable[p])
              /\ pagetable' = [pagetable EXCEPT ![np] = m.pt]
              /\ a' = [a EXCEPT ![p] = @ + PGSIZE]
              /\ UNCHANGED <<state, sz, trapframe, pc, old, new, child>>
         ELSE freeproc(np, uvmunmap(m, 0, PageOf(a[p]), TRUE)) /\ Forget(p)
  /\ UNCHANGED execVars

copy_done(p) ==
  /\ pc[p] = "copy" /\ a[p] >= sz[p]
  /\ sz' = [sz EXCEPT ![child[p]] = sz[p]]
  /\ state' = [state EXCEPT ![child[p]] = "used"]
  /\ Forget(p)
  /\ UNCHANGED <<free, fault, trapframe, pagetable, execVars>>

exit(p) ==
  /\ Running(p) /\ p # 1
  /\ state' = [state EXCEPT ![p] = "ZOMBIE"]
  /\ UNCHANGED <<free, fault, sz, trapframe, pagetable, pc, loopVars, execVars>>

(* wait() finds a zombie.                                                  *)
wait(q) ==
  /\ state[q] = "ZOMBIE"
  /\ freeproc(q, Mem(pagetable[q]))
  /\ UNCHANGED <<pc, loopVars, execVars>>

-----------------------------------------------------------------------------
(* sys_exec(): a page for each of k arguments, given back when there are   *)
(* not enough of them.                                                     *)
sys_exec(p, k) ==
  /\ Running(p)
  /\ Cardinality(free) >= k
  /\ \E pages \in {{x \in free : Cardinality({y \in free : y <= x}) <= k}} :
       /\ free' = free \ pages
       /\ argv' = [argv EXCEPT ![p] = pages]
  /\ Goto(p, "exec")
  /\ UNCHANGED <<fault, procVars, loopVars, npt, nsz, seg>>

(* exec() returns, and sys_exec() frees argv[].                            *)
exec_return(p, m) ==
  /\ SetMem(kfree(m, argv[p]))
  /\ npt' = [npt EXCEPT ![p] = Empty]
  /\ nsz' = [nsz EXCEPT ![p] = 0]
  /\ seg' = [seg EXCEPT ![p] = <<0, 0>>]
  /\ argv' = [argv EXCEPT ![p] = {}]
  /\ Forget(p)

(* "goto bad", with m the memory and the new page table.                   *)
bad(p, m, size) ==
  exec_return(p, IF m.pt = Empty THEN m ELSE proc_freepagetable(m, size))

(* The file is a program, and proc_pagetable() succeeds, or not.           *)
exec(p) ==
  /\ pc[p] = "exec"
  /\ LET m == proc_pagetable(Mem(Empty), trapframe[p])
     IN  IF m.pt = Empty
         THEN bad(p, m, 0)
         ELSE /\ SetMem(m)
              /\ npt' = [npt EXCEPT ![p] = m.pt]
              /\ Goto(p, "segs")
              /\ UNCHANGED <<loopVars, nsz, seg, argv>>
  /\ UNCHANGED procVars

(* namei() fails, or the file is no program.                               *)
exec_nofile(p) ==
  /\ pc[p] = "exec"
  /\ bad(p, Mem(Empty), 0)
  /\ UNCHANGED procVars

(* A program header, and uvmalloc() up to the end of its segment.          *)
exec_segment(p, vaddr, memsz, filesz) ==
  /\ pc[p] = "segs"
  /\ LET end == (vaddr + memsz) % ULONG
     IN  IF memsz < filesz \/ end < vaddr \/ (end = 0 /\ nsz[p] = 0)
         THEN bad(p, Mem(npt[p]), nsz[p])
         ELSE /\ seg' = [seg EXCEPT ![p] = <<vaddr, filesz>>]
              /\ uvmalloc(p, nsz[p], IF end < nsz[p] THEN nsz[p] ELSE end, "seg")
              /\ UNCHANGED <<free, fault, child, npt, nsz, argv>>
  /\ UNCHANGED procVars

(* A round of uvmalloc()'s loop for exec().                                *)
exec_page(p) ==
  /\ pc[p] \in {"seg", "stack"} /\ a[p] < new[p]
  /\ LET m == allocmap(Mem(npt[p]), PageOf(a[p]))
     IN  IF Leaf(PageOf(a[p])) \in DOMAIN m.pt
         THEN /\ SetMem(m)
              /\ npt' = [npt EXCEPT ![p] = m.pt]
              /\ a' = [a EXCEPT ![p] = @ + PGSIZE]
              /\ UNCHANGED <<pc, old, new, child, nsz, seg, argv>>
         ELSE bad(p, uvmdealloc(m, a[p], old[p]), nsz[p])
  /\ UNCHANGED procVars

(* "the pages from va to va+sz must already be mapped".                    *)
Loaded(p, t) ==
  \A x \in seg[p][1]..seg[p][1] + seg[p][2] - 1 : Leaf(PageOf(x)) \in DOMAIN t

(* sz = sz1; loadseg() succeeds if ok.                                     *)
exec_load(p, ok) ==
  /\ pc[p] = "seg" /\ a[p] >= new[p]
  /\ IF seg[p][1] % PGSIZE # 0 \/ ~ok
     THEN bad(p, Mem(npt[p]), new[p])
     ELSE /\ nsz' = [nsz EXCEPT ![p] = new[p]]
          /\ fault' = (fault \/ ~Loaded(p, npt[p]))
          /\ Goto(p, "segs")
          /\ a' = [a EXCEPT ![p] = 0] /\ old' = [old EXCEPT ![p] = 0]
          /\ new' = [new EXCEPT ![p] = 0]
          /\ seg' = [seg EXCEPT ![p] = <<0, 0>>]
          /\ UNCHANGED <<free, child, npt, argv>>
  /\ UNCHANGED procVars

(* All segments are loaded; two pages for the stack.                       *)
exec_stack(p) ==
  /\ pc[p] = "segs"
  /\ nsz' = [nsz EXCEPT ![p] = PGROUNDUP(@)]
  /\ uvmalloc(p, PGROUNDUP(nsz[p]), PGROUNDUP(nsz[p]) + 2 * PGSIZE, "stack")
  /\ UNCHANGED <<free, fault, procVars, child, npt, seg, argv>>

(* The arguments fit: the new image replaces the old one.                  *)
exec_commit(p) ==
  /\ pc[p] = "stack" /\ a[p] >= new[p]
  /\ pagetable' = [pagetable EXCEPT ![p] = npt[p]]
  /\ sz' = [sz EXCEPT ![p] = new[p]]
  /\ exec_return(p, proc_freepagetable(Mem(pagetable[p]), sz[p]))
  /\ UNCHANGED <<state, trapframe>>

(* They do not, or a header cannot be read.                                *)
exec_bad(p) ==
  /\ pc[p] = "segs" \/ (pc[p] = "stack" /\ a[p] >= new[p])
  /\ bad(p, Mem(npt[p]), IF pc[p] = "segs" THEN nsz[p] ELSE new[p])
  /\ UNCHANGED procVars

-----------------------------------------------------------------------------
Next ==
  \/ \E p \in Proc :
       \/ \E n \in SbrkArgs : growproc(p, n)
       \/ grow_page(p) \/ grow_done(p)
       \/ \E np \in Proc : fork(p, np)
       \/ copy_page(p) \/ copy_done(p) \/ exit(p) \/ wait(p)
       \/ \E k \in 0..MaxArgs : sys_exec(p, k)
       \/ exec(p) \/ exec_nofile(p)
       \/ \E s \in Segments : exec_segment(p, s[1], s[2], s[3])
       \/ exec_page(p)
       \/ \E ok \in BOOLEAN : exec_load(p, ok)
       \/ exec_stack(p) \/ exec_commit(p) \/ exec_bad(p)

Spec == Init /\ [][Next]_vars

-----------------------------------------------------------------------------
Node == {<<>>} \union {Table1(v) : v \in 0..VA - 1} \union {Table0(v) : v \in 0..VA - 1}
          \union {Leaf(v) : v \in 0..VA - 1}
IsTable(t) == DOMAIN t \subseteq Node /\ Range(t) \subseteq Page \union {Trampoline}

TypeOK ==
  /\ free \subseteq Page /\ fault \in BOOLEAN
  /\ state \in [Proc -> {"UNUSED", "embryo", "used", "ZOMBIE"}]
  /\ sz \in [Proc -> 0..VA * PGSIZE] /\ trapframe \in [Proc -> Page \union {0}]
  /\ \A p \in Proc : IsTable(pagetable[p]) /\ IsTable(npt[p])
  /\ pc \in [Proc -> {"user", "grow", "copy", "exec", "segs", "seg", "stack"}]
  /\ child \in [Proc -> Proc \union {0}]
  /\ \A p \in Proc : argv[p] \subseteq Page

(* The places that hold a page: trapframes, arguments, and the tables and  *)
(* user pages of each page table, where the leaf TRAPFRAME is a second     *)
(* name of the process' trapframe.                                         *)
Held(t) == DOMAIN t \ {Leaf(TRAMPOLINE), Leaf(TRAPFRAME)}
Holders ==
  {<<"tf", p>> : p \in {q \in Proc : trapframe[q] # 0}}
    \union UNION {{<<"pt", p, x>> : x \in Held(pagetable[p])} : p \in Proc}
    \union UNION {{<<"npt", p, x>> : x \in Held(npt[p])} : p \in Proc}
    \union UNION {{<<"argv", p, x>> : x \in argv[p]} : p \in Proc}
PageAt(h) ==
  CASE h[1] = "tf"   -> trapframe[h[2]]
    [] h[1] = "pt"   -> pagetable[h[2]][h[3]]
    [] h[1] = "npt"  -> npt[h[2]][h[3]]
    [] h[1] = "argv" -> h[3]

(* Every page of memory is free or held in exactly one place, wherever     *)
(* sbrk(), fork() or exec() run out of memory: nothing leaks, nothing is   *)
(* shared, nothing in use is free.                                         *)
PagesOwnedOnce ==
  LET held == {PageAt(h) : h \in Holders}
  IN  /\ held \intersect free = {}
      /\ held \union free = Page
      /\ Cardinality(held) = Cardinality(Holders)

(* A process outside of sbrk() has exactly the pages below its size, and   *)
(* its own trapframe.  So no cleanup path unmaps what is not mapped        *)
(* ("uvmunmap: not mapped"), leaves a leaf behind ("freewalk: leaf") or    *)
(* frees a page twice, nothing is mapped twice ("remap"), and fork() and   *)
(* exec() find the pages they read or load.                                *)
UserPages(t) == {v \in 0..VA - 3 : Leaf(v) \in DOMAIN t}
MappedToSize ==
  /\ ~fault
  /\ \A p \in Proc : state[p] \in {"used", "ZOMBIE"} =>
       /\ Leaf(TRAMPOLINE) \in DOMAIN pagetable[p]
       /\ Leaf(TRAPFRAME) \in DOMAIN pagetable[p] /\ pagetable[p][Leaf(TRAPFRAME)] = trapframe[p]
       /\ pc[p] # "grow" => UserPages(pagetable[p]) = 0..PageOf(PGROUNDUP(sz[p])) - 1
       /\ pc[p] = "grow" => UserPages(pagetable[p]) = 0..PageOf(a[p]) - 1
=============================================================================
