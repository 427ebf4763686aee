------------------------------ MODULE Umalloc ------------------------------
(***************************************************************************)
(* user/umalloc.c: malloc() and free() of user programs.  Addresses and    *)
(* sizes count Headers; 0 is the address of base, below the heap.  A       *)
(* program has one thread, so that a call is one step.  A Header that is   *)
(* joined to a block, and the ptr of a used one, are 0 here: nothing reads *)
(* them.                                                                   *)
(***************************************************************************)
EXTENDS Integers, FiniteSets

CONSTANTS
  NUNITS,       \* memory: sbrk() fails beyond it
  CORE,         \* the 4096 of morecore()
  HDR,          \* sizeof(Header)
  Requests,     \* bound: the arguments of malloc(), in bytes
  Gaps          \* bound: what the program takes with sbrk() for itself

Addr == 0..NUNITS

UmallocConstants ==
  /\ NUNITS \in Nat \ {0} /\ CORE \in Nat \ {0} /\ HDR \in Nat \ {0}
  /\ Requests \subseteq Nat /\ Gaps \subseteq Nat \ {0}

VARIABLES
  ptr, size,    \* the Headers in memory
  freep,        \* 0, which is &base, from the first call on; here from Init on
  brk,          \* the end of memory
  core, used    \* what morecore() got, and the program's blocks: ghosts

vars == <<ptr, size, freep, brk, core, used>>

Init ==
  /\ ptr = [x \in Addr |-> 0] /\ size = [x \in Addr |-> 0]
  /\ freep = 0
  /\ brk = 1
  /\ core = {} /\ used = {}

Heap == [ptr |-> ptr, size |-> size, freep |-> freep, brk |-> brk, core |-> core]

(* Where free() inserts bp: between p and p->s.ptr, or at an end.          *)
RECURSIVE Place(_, _, _)
Place(h, p, bp) ==
  LET q == h.ptr[p]
  IN  IF (bp > p /\ bp < q) \/ (p >= q /\ (bp > p \/ bp < q)) THEN p ELSE Place(h, q, bp)

(* Mutant: the block above is not joined.                                  *)
JoinAbove_not(h, p, bp) == [h EXCEPT !.ptr[bp] = h.ptr[p]]

(* Join to the block above ...                                             *)
JoinAbove(h, p, bp) ==
  LET q == h.ptr[p]
  IN  IF bp + h.size[bp] = q
      THEN [h EXCEPT !.size[bp] = @ + h.size[q], !.ptr[bp] = h.ptr[q], !.size[q] = 0, !.ptr[q] = 0]
      ELSE [h EXCEPT !.ptr[bp] = q]

(* ... and to the block below.                                             *)
JoinBelow(h, p, bp) ==
  IF p + h.size[p] = bp
  THEN [h EXCEPT !.size[p] = @ + h.size[bp], !.ptr[p] = h.ptr[bp], !.size[bp] = 0, !.ptr[bp] = 0]
  ELSE [h EXCEPT !.ptr[p] = bp]

Free(h, bp) ==
  LET p == Place(h, h.freep, bp)
  IN  [JoinBelow(JoinAbove(h, p, bp), p, bp) EXCEPT !.freep = p]

(* morecore(): at least CORE units, put on the free list.                  *)
MoreUnits(nu) == IF nu < CORE THEN CORE ELSE nu
morecore(h, nu) ==
  LET n == MoreUnits(nu)
  IN  Free([h EXCEPT !.size[h.brk] = n, !.brk = @ + n, !.core = @ \union (h.brk..h.brk + n - 1)],
           h.brk)

Units(nbytes) == (nbytes + HDR - 1) \div HDR + 1

(* The loop of malloc(): the block and the heap, or block 0.               *)
RECURSIVE Search(_, _, _, _)
Search(h, prevp, p, n) ==
  IF h.size[p] = n
  THEN [at |-> p, heap |-> [h EXCEPT !.ptr[p] = 0, !.ptr[prevp] = h.ptr[p], !.freep = prevp]]
  ELSE IF h.size[p] > n
  THEN LET a == p + h.size[p] - n
       IN  [at |-> a, heap |-> [h EXCEPT !.size[p] = @ - n, !.size[a] = n, !.freep = prevp]]
  ELSE IF p # h.freep THEN Search(h, p, h.ptr[p], n)
  ELSE IF h.brk + MoreUnits(n) > NUNITS + 1 THEN [at |-> 0, heap |-> h]
  ELSE LET g == morecore(h, n) IN Search(g, g.freep, g.ptr[g.freep], n)

-----------------------------------------------------------------------------
SetHeap(h) ==
  ptr' = h.ptr /\ size' = h.size /\ freep' = h.freep /\ brk' = h.brk /\ core' = h.core

malloc(nbytes) ==
  LET r == Search(Heap, freep, ptr[freep], Units(nbytes))
  IN  /\ SetHeap(r.heap)
      /\ used' = IF r.at = 0 THEN used ELSE used \union {<<r.at, Units(nbytes)>>}

free(b) ==
  /\ b \in used
  /\ SetHeap(Free(Heap, b[1]))
  /\ used' = used \ {b}

(* The program calls sbrk() itself.                                        *)
sbrk(n) ==
  /\ brk + n <= NUNITS
  /\ brk' = brk + n
  /\ UNCHANGED <<ptr, size, freep, core, used>>

Next ==
  \/ \E nbytes \in Requests : malloc(nbytes)
  \/ \E b \in used : free(b)
  \/ \E n \in Gaps : sbrk(n)

Spec == Init /\ [][Next]_vars

-----------------------------------------------------------------------------
(* The free list, from base around.                                        *)
RECURSIVE FreeFrom(_)
FreeFrom(p) == IF p = 0 THEN {} ELSE {<<p, size[p]>>} \union FreeFrom(ptr[p])

Extent(b) == b[1]..b[1] + b[2] - 1

(* The program's blocks and those on the free list share out exactly what  *)
(* morecore() got, whatever order of malloc(), free() and sbrk(): none     *)
(* overlap, none is lost; a used block's size is what malloc() gave it,    *)
(* and free blocks side by side have been joined.                          *)
Tiled ==
  LET list == FreeFrom(ptr[0])
      all  == used \union list
  IN  /\ UNION {Extent(b) : b \in all} = core
      /\ \A b, c \in all : b # c => Extent(b) \intersect Extent(c) = {}
      /\ \A b \in used : size[b[1]] = b[2]
      /\ \A b, c \in list : b[1] + b[2] # c[1]
      /\ \A b \in list : b[2] > 0
=============================================================================
