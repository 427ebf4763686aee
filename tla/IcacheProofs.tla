---------------------------- MODULE IcacheProofs ----------------------------
(***************************************************************************)
(* Proofs about Icache, for any numbers of processes, inodes, names and    *)
(* entries of the cache: counts of references and of links are exact, no   *)
(* call panics, and the acquiresleep() in iput() does not block.           *)
(*                                                                         *)
(* The counts say two things that the rest of the argument needs: who has  *)
(* an entry when its count is 0 or 1 (Owned), and that an inode without    *)
(* links has no name (Unnamed).  The first part assumes these; the second  *)
(* derives them from the counts and shows that every step keeps the counts.*)
(***************************************************************************)
EXTENDS Icache, TLAPS

(* Labels at which a process holds ip->lock, holds dp->lock, has a pointer *)
(* to an inode in use.                                                     *)
Lockers == {"locked", "erased", "free", "freed"}
InDir   == {"ialloc", "created", "unlink"}
Users   == {"ref", "locked", "linked", "bad", "put", "created", "unlink", "erased", "free"}
Linking == {"linked", "bad", "erased"}

Names(n)   == {a \in Name : dir[a] = n}
Linkers(n) == {p \in Proc : pc[p] \in Linking /\ inum[ent[p]] = n}

(* Between ip->type = 0 and ip->valid = 0 in iput(), the entry is stale.   *)
Stale(e) == slock[e] # NoProc /\ pc[slock[e]] = "freed"

(* Who has which lock.                                                     *)
Locks ==
  /\ \A p \in Proc : pc[p] # "panic"
  /\ \A p \in Proc : pc[p] \in {"idle", "ialloc"} <=> ent[p] = 0
  /\ \A p \in Proc : pc[p] \in Lockers => slock[ent[p]] = p /\ valid[ent[p]] = 1
  /\ \A e \in Entry : slock[e] # NoProc => ent[slock[e]] = e /\ pc[slock[e]] \in Lockers
  /\ \A p \in Proc : dirlock = p <=> pc[p] \in InDir

(* A pointer is to an inode in use until the process that has the last one *)
(* frees it.                                                               *)
Used ==
  /\ \A e \in Entry : ref[e] > 0 => inum[e] \in Inum
  /\ \A p \in Proc : pc[p] \in Users => dtype[inum[ent[p]]] = 1
  /\ \A p \in Proc : pc[p] = "free" => ref[ent[p]] = 1 /\ nlink[ent[p]] = 0

(* A valid entry is what the disk has.                                     *)
Coherent ==
  \A e \in Entry :
    ref[e] > 0 /\ valid[e] = 1 =>
      Stale(e) \/ (type[e] = 1 /\ dtype[inum[e]] = 1 /\ nlink[e] = dnlink[inum[e]])

(* Nobody but its creator uses a new inode; an entry that an earlier inode *)
(* of its number left behind is not read.                                  *)
Births ==
  /\ \A p \in Proc : pc[p] = "ialloc" =>
       /\ new[p] \in Inum /\ dtype[new[p]] = 1 /\ dnlink[new[p]] = 0 /\ dir[name[p]] = 0
       /\ \A e \in Entry : ref[e] > 0 /\ inum[e] = new[p] =>
            /\ \A q \in Proc : ent[q] = e => pc[q] \in {"freed", "dec"}
            /\ valid[e] = 1 => Stale(e)
  /\ \A p \in Proc : pc[p] = "created" =>
       /\ dnlink[inum[ent[p]]] = 0 /\ dir[name[p]] = 0
       /\ \A q \in Proc : q # p /\ ent[q] = ent[p] => pc[q] \in {"freed", "dec"}
       /\ valid[ent[p]] = 1 => Stale(ent[p])
  /\ \A p \in Proc : pc[p] = "unlink" => dir[name[p]] = inum[ent[p]]

OneEntry ==
  \A e, f \in Entry : ref[e] > 0 /\ ref[f] > 0 /\ inum[e] = inum[f] => e = f

Named == \A a \in Name : dir[a] # 0 => dtype[dir[a]] = 1

CacheInvariant == TypeOK /\ Locks /\ Used /\ Coherent /\ Births /\ RefCount /\ LinkCount

(* What the two counts say.                                                *)
Owned ==
  \A e \in Entry :
    /\ ref[e] = 0 => \A p \in Proc : ent[p] # e
    /\ ref[e] = 1 => \A p, q \in Proc : ent[p] = e /\ ent[q] = e => p = q
    /\ \A p \in Proc : ent[p] = e => ref[e] > 0

Unnamed ==
  \A n \in Inum : dtype[n] = 1 /\ dnlink[n] = 0 => Names(n) = {} /\ Linkers(n) = {}

Known == TypeOK /\ Locks /\ Used /\ Coherent /\ Births /\ OneEntry /\ Named /\ Owned /\ Unnamed

-----------------------------------------------------------------------------
(* What the steps of process p do in a state of the invariant.             *)
At(p) == /\ ent[p] \in Entry /\ ref[ent[p]] > 0
         /\ inum[ent[p]] \in Inum /\ dtype[inum[ent[p]]] = 1

(* From label pc[p] to label l, leaving k links.                           *)
Turn(p, l, k) ==
  LET n == inum[ent[p]] IN
  \/ /\ pc[p] \in {"ref", "locked", "put"} /\ l \in {"ref", "locked", "free"}
     /\ k = dnlink[n] /\ dir' = dir
  \/ /\ pc[p] = "locked" /\ l = "linked" /\ k = dnlink[n] + 1 /\ dir' = dir
  \/ /\ pc[p] \in {"bad", "erased"} /\ l = "put" /\ dnlink[n] > 0 /\ k = dnlink[n] - 1
     /\ dir' = dir
  \/ /\ pc[p] = "created" /\ l = "locked" /\ dnlink[n] = 0 /\ k = 1
     /\ dir[name[p]] = 0 /\ dir' = [dir EXCEPT ![name[p]] = n]
  \/ /\ pc[p] = "unlink" /\ l = "erased" /\ k = dnlink[n]
     /\ dir[name[p]] = n /\ dir' = [dir EXCEPT ![name[p]] = 0]

(* p reads the inode, writes it, locks or unlocks it.                      *)
Works(p, l, k) ==
  /\ At(p) /\ Turn(p, l, k)
  /\ l = "free" => ref[ent[p]] = 1 /\ k = 0
  /\ slock[ent[p]] = IF pc[p] \in Lockers THEN p ELSE NoProc
  /\ slock' = [slock EXCEPT ![ent[p]] = IF l \in Lockers THEN p ELSE NoProc]
  /\ valid' = [valid EXCEPT ![ent[p]] = 1]
  /\ type' = [type EXCEPT ![ent[p]] = 1]
  /\ nlink' = [nlink EXCEPT ![ent[p]] = k]
  /\ dnlink' = [dnlink EXCEPT ![inum[ent[p]]] = k]
  /\ dirlock' = IF pc[p] \in InDir THEN NoProc ELSE dirlock
  /\ Goto(p, l)
  /\ UNCHANGED <<dtype, ref, inum, ent, name, new>>

(* p gets entry e of inode n from iget().                                  *)
Gets(p, e, n, l) ==
  /\ n \in Inum /\ dtype[n] = 1 /\ ent[p] = 0
  /\ \/ /\ pc[p] = "idle" /\ l = "ref" /\ dnlink[n] > 0
        /\ dirlock = NoProc /\ UNCHANGED <<dirlock, name, new>>
     \/ /\ pc[p] = "idle" /\ l = "unlink" /\ dnlink[n] > 0
        /\ dirlock = NoProc /\ dirlock' = p /\ UNCHANGED new
        /\ \E a \in Name : dir[a] = n /\ name' = [name EXCEPT ![p] = a]
     \/ /\ pc[p] = "ialloc" /\ l = "created" /\ new[p] = n
        /\ new' = [new EXCEPT ![p] = 0] /\ UNCHANGED <<dirlock, name>>
  /\ ref[e] > 0 => inum[e] = n
  /\ ref[e] = 0 => \A f \in Entry : ref[f] > 0 => inum[f] # n
  /\ ref' = [ref EXCEPT ![e] = @ + 1]
  /\ inum' = [inum EXCEPT ![e] = n]
  /\ valid' = [valid EXCEPT ![e] = IF ref[e] = 0 THEN 0 ELSE @]
  /\ ent' = [ent EXCEPT ![p] = e]
  /\ Goto(p, l)
  /\ UNCHANGED <<dtype, dnlink, dir, type, nlink, slock>>

(* p drops its pointer.                                                    *)
Puts(p) ==
  /\ pc[p] \in {"ref", "put", "dec"} /\ ent[p] \in Entry /\ ref[ent[p]] > 0
  /\ ref' = [ref EXCEPT ![ent[p]] = @ - 1]
  /\ ent' = [ent EXCEPT ![p] = 0]
  /\ Goto(p, "idle")
  /\ UNCHANGED <<dtype, dnlink, dir, dirlock, inum, valid, type, nlink, slock, name, new>>

(* p frees the inode.                                                      *)
Frees(p) ==
  /\ At(p) /\ pc[p] = "free" /\ ref[ent[p]] = 1
  /\ dnlink[inum[ent[p]]] = 0 /\ nlink[ent[p]] = 0
  /\ type' = [type EXCEPT ![ent[p]] = 0]
  /\ dtype' = [dtype EXCEPT ![inum[ent[p]]] = 0]
  /\ Goto(p, "freed")
  /\ UNCHANGED <<dnlink, dir, dirlock, ref, inum, valid, nlink, slock, ent, name, new>>

Effect(p) ==
  \/ \E l, k : Works(p, l, k)
  \/ \E e \in Entry : \E n, l : Gets(p, e, n, l)
  \/ Puts(p)
  \/ Frees(p)
  \/ iput_valid(p) /\ ent[p] \in Entry
  \/ link_fails(p)
  \/ \E a \in Name : link_entry(p, a) /\ At(p)
  \/ \E q \in Proc : idup(p, q) /\ At(p) /\ ent[q] = 0
  \/ \E a \in Name, n \in Inum : ialloc(p, a, n)

(* Leaves go to the SMT solver, unless they name another prover.           *)
USE SMTT(60)

LEMMA Zero == 0 \notin Entry /\ 0 \notin Inum /\ NoProc \notin Proc
  BY IcacheConstants DEF Entry

(* The entry a process works on: cached, of an inode in use; and what      *)
(* ilock() reads from it is what the disk has, unless it is stale.  It is  *)
(* not while its lock is free, or held by the process.                     *)
LEMMA Mine ==
  ASSUME Known, NEW p \in Proc, pc[p] \in Users
  PROVE  /\ At(p)
         /\ slock[ent[p]] = NoProc \/ pc[p] \in Lockers =>
              Type(ent[p]) = 1 /\ Nlink(ent[p]) = dnlink[inum[ent[p]]]
<1>1. ent[p] \in Entry
  BY DEF Known, TypeOK, Locks, Users
<1>2. At(p)
  BY <1>1, Zenon DEF Known, Owned, Used, At
<1>3. slock[ent[p]] = NoProc \/ pc[p] \in Lockers => ~Stale(ent[p])
  BY Zenon DEF Known, Locks, Users, Stale, Lockers
<1>4. ASSUME ~Stale(ent[p])
      PROVE  Type(ent[p]) = 1 /\ Nlink(ent[p]) = dnlink[inum[ent[p]]]
  BY <1>1, <1>2, <1>4, Zenon DEF Known, Coherent, Type, Nlink, TypeOK, At
<1> QED  BY <1>2, <1>3, <1>4, Zenon

(* What a process with the lock of its inode has in the entry.             *)
LEMMA Held ==
  ASSUME Known, NEW p \in Proc, pc[p] \in Users, pc[p] \in Lockers
  PROVE  /\ slock[ent[p]] = p /\ valid[ent[p]] = 1
         /\ type[ent[p]] = 1 /\ nlink[ent[p]] = dnlink[inum[ent[p]]]
<1>1. slock[ent[p]] = p /\ valid[ent[p]] = 1
  BY Zenon DEF Known, Locks
<1> QED  BY <1>1, Mine, Zenon DEF Type, Nlink

(* An inode with a link on its way, or whose name unlink() has found, has  *)
(* a link.                                                                 *)
LEMMA MineLinks ==
  ASSUME Known, NEW p \in Proc, pc[p] \in {"linked", "bad", "erased", "unlink"}
  PROVE  dnlink[inum[ent[p]]] \in Nat /\ dnlink[inum[ent[p]]] > 0
<1>1. At(p)
  BY Mine, Zenon DEF Users
<1>2. CASE pc[p] = "unlink"
  <2>1. name[p] \in Names(inum[ent[p]])
    BY <1>2, Zenon DEF Known, Births, TypeOK, Names
  <2> QED  BY <2>1, <1>1 DEF Known, TypeOK, At, Unnamed
<1>3. CASE pc[p] # "unlink"
  <2>1. p \in Linkers(inum[ent[p]])
    BY <1>3, Zenon DEF Linkers, Linking
  <2> QED  BY <2>1, <1>1 DEF Known, TypeOK, At, Unnamed
<1> QED  BY <1>2, <1>3, Zenon

(* A name refers to an inode in use with a link.                           *)
LEMMA NamedFacts ==
  ASSUME Known, NEW a \in Name, dir[a] # 0
  PROVE  dir[a] \in Inum /\ dtype[dir[a]] = 1 /\ dnlink[dir[a]] > 0
<1>1. dir[a] \in Inum /\ dtype[dir[a]] = 1 /\ dnlink[dir[a]] \in Nat
  BY Zenon DEF Known, TypeOK, Named
<1>2. Names(dir[a]) # {}
  BY Zenon DEF Names
<1> QED  BY <1>1, <1>2 DEF Known, Unnamed

(* Writing back to the disk what it has.                                   *)
LEMMA NoChange ==
  ASSUME Known, NEW p \in Proc, At(p)
  PROVE  /\ dtype = [dtype EXCEPT ![inum[ent[p]]] = 1]
         /\ dnlink = [dnlink EXCEPT ![inum[ent[p]]] = dnlink[inum[ent[p]]]]
  BY Zenon DEF Known, TypeOK, At

LEMMA Effects == ASSUME Known, NEW p \in Proc PROVE
    /\ ilock(p) => Works(p, "locked", dnlink[inum[ent[p]]])
    /\ iunlock(p) => Works(p, "ref", dnlink[inum[ent[p]]])
    /\ link(p) => Works(p, "linked", dnlink[inum[ent[p]]] + 1)
    /\ link_undo(p) => Works(p, "put", dnlink[inum[ent[p]]] - 1)
    /\ create(p) => Works(p, "locked", 1)
    /\ unlink_erase(p) => Works(p, "erased", dnlink[inum[ent[p]]])
    /\ unlink_nlink(p) => Works(p, "put", dnlink[inum[ent[p]]] - 1)
    /\ iput(p) => Works(p, "free", dnlink[inum[ent[p]]]) \/ Puts(p)
    /\ iput_free(p) => Frees(p)
    /\ iput_ref(p) => Puts(p)
<1> DEFINE e == ent[p]
           n == inum[e]
<1>a. ASSUME pc[p] \in Users PROVE At(p)
  BY <1>a, Mine, Zenon
<1>b. ASSUME pc[p] \in Users, slock[e] = NoProc
      PROVE  Type(e) = 1 /\ Type(e) # 0 /\ Nlink(e) = dnlink[n]
  BY <1>b, Mine
<1>c. ASSUME pc[p] \in Users, pc[p] \in Lockers
      PROVE  Type(e) = 1 /\ type[e] = 1 /\ nlink[e] = dnlink[n] /\ slock[e] = p /\ valid[e] = 1
  BY <1>c, Held, Zenon DEF Type
<1>d. ASSUME pc[p] \in Users
      PROVE  dtype = [dtype EXCEPT ![n] = 1] /\ dnlink = [dnlink EXCEPT ![n] = dnlink[n]]
  BY <1>d, <1>a, NoChange, Zenon
<1>w. ASSUME NEW l, NEW k, At(p), Turn(p, l, k), l # "free",
             slock[e] = NoProc <=> pc[p] \notin Lockers, slock[e] \in {p, NoProc},
             slock' = [slock EXCEPT ![e] = IF l \in Lockers THEN p ELSE NoProc],
             valid' = [valid EXCEPT ![e] = 1], type' = [type EXCEPT ![e] = Type(e)],
             nlink' = [nlink EXCEPT ![e] = k], dnlink' = [dnlink EXCEPT ![n] = k],
             dtype' = dtype \/ dtype' = [dtype EXCEPT ![n] = Type(e)], Type(e) = 1,
             dirlock' = IF pc[p] \in InDir THEN NoProc ELSE dirlock,
             Goto(p, l), UNCHANGED <<ref, inum, ent, name, new>>
      PROVE  Works(p, l, k)
  <2>1. dtype' = dtype
    BY <1>w, NoChange, Zenon
  <2>2. type' = [type EXCEPT ![e] = 1]
    BY <1>w, Zenon
  <2>3. slock[e] = IF pc[p] \in Lockers THEN p ELSE NoProc
    BY <1>w, Zero, Zenon
  <2> QED  BY <1>w, <2>1, <2>2, <2>3, Zenon DEF Works
<1>1. ASSUME ilock(p) PROVE Works(p, "locked", dnlink[n])
  <2>1. pc[p] = "ref" /\ pc[p] \in Users /\ pc[p] \notin Lockers /\ pc[p] \notin InDir /\ slock[e] = NoProc
    BY <1>1, Zenon DEF ilock, Users, Lockers, InDir
  <2>2. Turn(p, "locked", dnlink[n]) /\ "locked" \in Lockers
    BY <1>1, <2>1, Zenon DEF ilock, Turn, Lockers
  <2>3. At(p) /\ Type(e) = 1 /\ ~(Type(e) = 0) /\ Nlink(e) = dnlink[n] /\ dnlink' = [dnlink EXCEPT ![n] = dnlink[n]]
    BY <1>1, <2>1, <1>a, <1>b, <1>d, Zenon DEF ilock, disk
  <2> QED  BY <1>1, <2>1, <2>2, <2>3, <1>w, Zenon DEF ilock, disk
<1>2. ASSUME iunlock(p) PROVE Works(p, "ref", dnlink[n])
  <2>1. pc[p] = "locked" /\ pc[p] \in Users /\ pc[p] \in Lockers /\ pc[p] \notin InDir
    BY <1>2, Zenon DEF iunlock, Users, Lockers, InDir
  <2>2. At(p) /\ type[e] = 1 /\ nlink[e] = dnlink[n] /\ slock[e] = p /\ valid[e] = 1
    BY <2>1, <1>a, <1>c, Zenon
  <2>3. valid = [valid EXCEPT ![e] = 1] /\ type = [type EXCEPT ![e] = 1] /\ nlink = [nlink EXCEPT ![e] = dnlink[n]]
    BY <2>2, Zenon DEF Known, TypeOK, At
  <2> QED  BY <1>2, <2>1, <2>2, <2>3, <1>d, Zenon DEF iunlock, Works, Turn, Lockers, disk
<1>3. ASSUME link(p) PROVE Works(p, "linked", dnlink[n] + 1)
  <2>1. pc[p] = "locked" /\ pc[p] \in Users /\ pc[p] \in Lockers /\ pc[p] \notin InDir
    BY <1>3, Zenon DEF link, Users, Lockers, InDir
  <2>2. Turn(p, "linked", dnlink[n] + 1) /\ "linked" \notin Lockers
    BY <1>3, <2>1, Zenon DEF link, Turn, Lockers
  <2>3. At(p) /\ Type(e) = 1 /\ nlink[e] = dnlink[n] /\ slock[e] = p /\ p # NoProc
    BY <2>1, <1>a, <1>c, Zero, Zenon
  <2> QED  BY <1>3, <2>1, <2>2, <2>3, <1>w, Zenon DEF link, Update
<1>4. ASSUME link_undo(p) PROVE Works(p, "put", dnlink[n] - 1)
  <2>1. pc[p] = "bad" /\ pc[p] \in Users /\ pc[p] \notin Lockers /\ pc[p] \notin InDir /\ slock[e] = NoProc
    BY <1>4, Zenon DEF link_undo, Users, Lockers, InDir
  <2>2. Turn(p, "put", dnlink[n] - 1) /\ "put" \notin Lockers
    BY <1>4, <2>1, MineLinks, Zenon DEF link_undo, Turn, Lockers
  <2>3. At(p) /\ Type(e) = 1 /\ Nlink(e) = dnlink[n]
    BY <2>1, <1>a, <1>b, Zenon
  <2>4. slock' = [slock EXCEPT ![e] = NoProc]
    BY <1>4, <2>1, <2>3, Zenon DEF link_undo, At, Known, TypeOK
  <2> QED  BY <1>4, <2>1, <2>2, <2>3, <2>4, <1>w, Zenon DEF link_undo, Update
<1>5. ASSUME create(p) PROVE Works(p, "locked", 1)
  <2>1. pc[p] = "created" /\ pc[p] \in Users /\ pc[p] \notin Lockers /\ pc[p] \in InDir /\ slock[e] = NoProc
    BY <1>5, Zenon DEF create, Users, Lockers, InDir
  <2>2. Turn(p, "locked", 1) /\ "locked" \in Lockers
    BY <1>5, <2>1, Zenon DEF create, Turn, Lockers, Known, Births
  <2>3. At(p) /\ Type(e) = 1 /\ ~(Type(e) = 0)
    BY <2>1, <1>a, <1>b, Zenon
  <2> QED  BY <1>5, <2>1, <2>2, <2>3, <1>w, Zenon DEF create, Update
<1>6. ASSUME unlink_erase(p) PROVE Works(p, "erased", dnlink[n])
  <2>1. pc[p] = "unlink" /\ pc[p] \in Users /\ pc[p] \notin Lockers /\ pc[p] \in InDir /\ slock[e] = NoProc
    BY <1>6, Zenon DEF unlink_erase, Users, Lockers, InDir
  <2>2. Turn(p, "erased", dnlink[n]) /\ "erased" \in Lockers
    BY <1>6, <2>1, Zenon DEF unlink_erase, Turn, Lockers, Known, Births
  <2>3. At(p) /\ Type(e) = 1 /\ Nlink(e) = dnlink[n] /\ ~(Type(e) = 0 \/ Nlink(e) < 1)
    BY <2>1, <1>a, <1>b, MineLinks
  <2>4. dnlink' = [dnlink EXCEPT ![n] = dnlink[n]]
    BY <1>6, <2>1, <1>d, Zenon DEF unlink_erase, disk
  <2> QED  BY <1>6, <2>1, <2>2, <2>3, <2>4, <1>w, Zenon DEF unlink_erase, disk
<1>7. ASSUME unlink_nlink(p) PROVE Works(p, "put", dnlink[n] - 1)
  <2>1. pc[p] = "erased" /\ pc[p] \in Users /\ pc[p] \in Lockers /\ pc[p] \notin InDir
    BY <1>7, Zenon DEF unlink_nlink, Users, Lockers, InDir
  <2>2. Turn(p, "put", dnlink[n] - 1) /\ "put" \notin Lockers
    BY <1>7, <2>1, MineLinks, Zenon DEF unlink_nlink, Turn, Lockers
  <2>3. At(p) /\ Type(e) = 1 /\ nlink[e] = dnlink[n] /\ slock[e] = p /\ p # NoProc
    BY <2>1, <1>a, <1>c, Zero, Zenon
  <2> QED  BY <1>7, <2>1, <2>2, <2>3, <1>w, Zenon DEF unlink_nlink, Update
<1>8. ASSUME iput(p) PROVE Works(p, "free", dnlink[n]) \/ Puts(p)
  <2>1. pc[p] \in {"ref", "put"} /\ pc[p] \in Users /\ pc[p] \notin Lockers /\ pc[p] \notin InDir /\ At(p)
    BY <1>8, <1>a, Zenon DEF iput, Users, Lockers, InDir
  <2>2. CASE Last(e)
    <3>1. slock[e] = NoProc /\ ref[e] = 1 /\ valid[e] = 1 /\ nlink[e] = 0
      BY <1>8, <2>2, Zenon DEF iput, Last
    <3>2. type[e] = 1 /\ dnlink[n] = 0
      BY <2>1, <3>1, <1>b, Zenon DEF Type, Nlink
    <3>3. valid = [valid EXCEPT ![e] = 1] /\ type = [type EXCEPT ![e] = 1] /\ nlink = [nlink EXCEPT ![e] = dnlink[n]]
      BY <2>1, <3>1, <3>2 DEF Known, TypeOK, At
    <3> QED  BY <1>8, <2>1, <2>2, <3>1, <3>2, <3>3, <1>d, Zenon DEF iput, Works, Turn, Lockers, disk
  <2>3. CASE ~Last(e)
    BY <1>8, <2>1, <2>3, Zenon DEF iput, Puts, At, disk
  <2> QED  BY <2>2, <2>3, Zenon
<1>9. ASSUME iput_free(p) PROVE Frees(p)
  <2>1. pc[p] = "free" /\ pc[p] \in Users /\ pc[p] \in Lockers
    BY <1>9, Zenon DEF iput_free, Users, Lockers
  <2>2. nlink[e] = 0 /\ ref[e] = 1
    BY <2>1, Zenon DEF Known, Used
  <2> QED  BY <1>9, <2>1, <2>2, <1>a, <1>c, <1>d, Zenon DEF iput_free, Frees
<1>10. ASSUME iput_ref(p) PROVE Puts(p)
  <2>1. pc[p] = "dec" /\ ent[p] \in Entry
    BY <1>10 DEF iput_ref, Known, TypeOK, Locks
  <2>2. ref[ent[p]] > 0
    BY <2>1, Zenon DEF Known, Owned
  <2> QED  BY <1>10, <2>1, <2>2, Zenon DEF iput_ref, Puts, disk, entry
<1> QED  BY <1>1, <1>2, <1>3, <1>4, <1>5, <1>6, <1>7, <1>8, <1>9, <1>10, Zenon

(* iget() finds the inode in the cache, or the cache does not have it.     *)
LEMMA Lookups ==
  ASSUME Known, NEW p \in Proc, NEW e \in Entry
  PROVE  /\ \A a \in Name : namei(p, e, a) => Gets(p, e, dir[a], "ref")
         /\ \A a \in Name : unlink(p, e, a) => Gets(p, e, dir[a], "unlink")
         /\ ialloc_iget(p, e) => Gets(p, e, new[p], "created")
<1>0. ASSUME NEW n, iget(p, e, n)
      PROVE  /\ ref[e] > 0 => inum[e] = n
             /\ ref[e] = 0 => \A f \in Entry : ref[f] > 0 => inum[f] # n
             /\ ref' = [ref EXCEPT ![e] = @ + 1]
             /\ inum' = [inum EXCEPT ![e] = n]
             /\ valid' = [valid EXCEPT ![e] = IF ref[e] = 0 THEN 0 ELSE @]
             /\ ent' = [ent EXCEPT ![p] = e]
  BY <1>0 DEF iget
<1>1. pc[p] \in {"idle", "ialloc"} => ent[p] = 0
  BY Zenon DEF Known, Locks
<1>2. ASSUME NEW a \in Name, namei(p, e, a) PROVE Gets(p, e, dir[a], "ref")
  <2>1. dir[a] \in Inum /\ dtype[dir[a]] = 1 /\ dnlink[dir[a]] > 0 /\ pc[p] \in {"idle", "ialloc"}
    BY <1>2, NamedFacts, Zenon DEF namei
  <2> QED  BY <1>0, <1>1, <1>2, <2>1, Zenon DEF namei, Gets, disk
<1>3. ASSUME NEW a \in Name, unlink(p, e, a) PROVE Gets(p, e, dir[a], "unlink")
  <2>1. dir[a] \in Inum /\ dtype[dir[a]] = 1 /\ dnlink[dir[a]] > 0 /\ pc[p] \in {"idle", "ialloc"}
    BY <1>3, NamedFacts, Zenon DEF unlink
  <2> QED  BY <1>0, <1>1, <1>3, <2>1, Zenon DEF unlink, Gets, disk
<1>4. ASSUME ialloc_iget(p, e) PROVE Gets(p, e, new[p], "created")
  <2>1. new[p] \in Inum /\ dtype[new[p]] = 1 /\ pc[p] \in {"idle", "ialloc"}
    BY <1>4, Zenon DEF ialloc_iget, Known, Births
  <2> QED  BY <1>0, <1>1, <1>4, <2>1, Zenon DEF ialloc_iget, Gets, disk
<1> QED  BY <1>2, <1>3, <1>4, Zenon

(* Every step of Icache is one of these.                                   *)
LEMMA Acts == ASSUME Known, Next PROVE \E p \in Proc : Effect(p)
<1>1. ASSUME NEW p \in Proc,
             \/ ilock(p) \/ iunlock(p) \/ link(p) \/ link_undo(p) \/ create(p)
             \/ unlink_erase(p) \/ unlink_nlink(p) \/ iput(p) \/ iput_free(p) \/ iput_ref(p)
      PROVE  Effect(p)
  <2>1. (\E l, k : Works(p, l, k)) \/ Puts(p) \/ Frees(p)
    BY <1>1, Effects, Zenon
  <2> QED  BY <2>1, Zenon DEF Effect
<1>2. ASSUME NEW p \in Proc, NEW e \in Entry,
             (\E a \in Name : namei(p, e, a) \/ unlink(p, e, a)) \/ ialloc_iget(p, e)
      PROVE  Effect(p)
  BY <1>2, Lookups, Zenon DEF Effect
<1>3. ASSUME NEW p \in Proc, iput_valid(p) PROVE Effect(p)
  <2>1. ent[p] \in Entry
    BY <1>3 DEF iput_valid, Known, TypeOK, Locks
  <2> QED  BY <1>3, <2>1, Zenon DEF Effect
<1>4. ASSUME NEW p \in Proc, NEW a \in Name, link_entry(p, a) PROVE Effect(p)
  <2>1. At(p)
    BY <1>4, Mine, Zenon DEF link_entry, Users
  <2> QED  BY <1>4, <2>1, Zenon DEF Effect
<1>5. ASSUME NEW p \in Proc, NEW q \in Proc, idup(p, q) PROVE Effect(p)
  <2>1. At(p) /\ ent[q] = 0
    BY <1>5, Mine, Zenon DEF idup, Users, Known, Locks
  <2> QED  BY <1>5, <2>1, Zenon DEF Effect
<1>6. ASSUME NEW p \in Proc, link_fails(p) \/ \E a \in Name, n \in Inum : ialloc(p, a, n)
      PROVE  Effect(p)
  BY <1>6, Zenon DEF Effect
<1> QED  BY <1>1, <1>2, <1>3, <1>4, <1>5, <1>6, Zenon DEF Next

-----------------------------------------------------------------------------
LEMMA TypeStep == ASSUME Known, NEW p \in Proc, Effect(p) PROVE TypeOK'
<1>t. TypeOK
  BY Zenon DEF Known
<1> USE Zero DEF Goto, TypeOK
<1>1. ASSUME NEW l, NEW k, Works(p, l, k) PROVE TypeOK'
  <2>1. k \in Nat /\ l \in {"ref", "locked", "free", "linked", "put", "erased"}
        /\ dir' \in [Name -> Inum \union {0}]
    BY <1>1, <1>t DEF Works, Turn, At
  <2> QED  BY <1>1, <1>t, <2>1, Zenon DEF Works, At
<1>2. ASSUME NEW e \in Entry, NEW n, NEW l, Gets(p, e, n, l) PROVE TypeOK'
  BY <1>2, <1>t DEF Gets
<1>3. ASSUME Puts(p) PROVE TypeOK'
  BY <1>3, <1>t DEF Puts
<1>4. ASSUME Frees(p) PROVE TypeOK'
  BY <1>4, <1>t, Zenon DEF Frees, At
<1>5. ASSUME iput_valid(p), ent[p] \in Entry PROVE TypeOK'
  BY <1>5, <1>t, Zenon DEF iput_valid, disk
<1>6. ASSUME link_fails(p) PROVE TypeOK'
  BY <1>6, <1>t, Zenon DEF link_fails, disk, entry
<1>7. ASSUME NEW a \in Name, link_entry(p, a), At(p) PROVE TypeOK'
  BY <1>7, <1>t, Zenon DEF link_entry, At, disk, entry
<1>8. ASSUME NEW q \in Proc, idup(p, q), At(p), ent[q] = 0 PROVE TypeOK'
  BY <1>8, <1>t DEF idup, At, disk, entry
<1>9. ASSUME NEW a \in Name, NEW n \in Inum, ialloc(p, a, n) PROVE TypeOK'
  BY <1>9, <1>t, Zenon DEF ialloc, entry
<1> QED  BY <1>1, <1>2, <1>3, <1>4, <1>5, <1>6, <1>7, <1>8, <1>9, Zenon DEF Effect

LEMMA LocksStep == ASSUME Known, NEW p \in Proc, Effect(p) PROVE Locks'
<1>t. TypeOK /\ Locks
  BY Zenon DEF Known
<1> USE Zero DEF Goto, TypeOK, Locks, Lockers, InDir
<1>1. ASSUME NEW l, NEW k, Works(p, l, k) PROVE Locks'
  <2>1. /\ l \in {"ref", "locked", "free", "linked", "put", "erased"}
        /\ pc[p] \notin {"idle", "ialloc", "freed"}
    BY <1>1, Zenon DEF Works, Turn
  <2> QED  BY <1>1, <1>t, <2>1 DEF Works, At
<1>2. ASSUME NEW e \in Entry, NEW n, NEW l, Gets(p, e, n, l) PROVE Locks'
  BY <1>2, <1>t DEF Gets, Known, Owned
<1>3. ASSUME Puts(p) PROVE Locks'
  BY <1>3, <1>t DEF Puts
<1>4. ASSUME Frees(p) PROVE Locks'
  BY <1>4, <1>t DEF Frees, At
<1>5. ASSUME iput_valid(p), ent[p] \in Entry PROVE Locks'
  BY <1>5, <1>t DEF iput_valid
<1>6. ASSUME link_fails(p) PROVE Locks'
  BY <1>6, <1>t DEF link_fails, entry
<1>7. ASSUME NEW a \in Name, link_entry(p, a) PROVE Locks'
  BY <1>7, <1>t DEF link_entry, entry
<1>8. ASSUME NEW q \in Proc, idup(p, q), At(p), ent[q] = 0 PROVE Locks'
  BY <1>8, <1>t DEF idup, At, entry
<1>9. ASSUME NEW a \in Name, NEW n \in Inum, ialloc(p, a, n) PROVE Locks'
  BY <1>9, <1>t DEF ialloc, entry
<1> QED  BY <1>1, <1>2, <1>3, <1>4, <1>5, <1>6, <1>7, <1>8, <1>9, Zenon DEF Effect

LEMMA OneEntryStep == ASSUME Known, NEW p \in Proc, Effect(p) PROVE OneEntry'
<1>t. OneEntry /\ ref \in [Entry -> Nat] /\ inum \in [Entry -> Inum \union {0}]
  BY Zenon DEF Known, TypeOK
<1> USE DEF OneEntry
<1>1. ASSUME NEW l, NEW k, Works(p, l, k) PROVE OneEntry'
  BY <1>1, <1>t, Zenon DEF Works
<1>2. ASSUME NEW e \in Entry, NEW n, NEW l, Gets(p, e, n, l) PROVE OneEntry'
  BY <1>2, <1>t DEF Gets
<1>3. ASSUME Puts(p) PROVE OneEntry'
  BY <1>3, <1>t, Zenon DEF Puts
<1>4. ASSUME Frees(p) PROVE OneEntry'
  BY <1>4, <1>t, Zenon DEF Frees
<1>5. ASSUME iput_valid(p) PROVE OneEntry'
  BY <1>5, <1>t, Zenon DEF iput_valid
<1>6. ASSUME link_fails(p) PROVE OneEntry'
  BY <1>6, <1>t, Zenon DEF link_fails, entry
<1>7. ASSUME NEW a \in Name, link_entry(p, a) PROVE OneEntry'
  BY <1>7, <1>t, Zenon DEF link_entry, entry
<1>8. ASSUME NEW q \in Proc, idup(p, q), At(p) PROVE OneEntry'
  BY <1>8, <1>t, Zenon DEF idup, At, entry
<1>9. ASSUME NEW a \in Name, NEW n \in Inum, ialloc(p, a, n) PROVE OneEntry'
  BY <1>9, <1>t, Zenon DEF ialloc, entry
<1> QED  BY <1>1, <1>2, <1>3, <1>4, <1>5, <1>6, <1>7, <1>8, <1>9, Zenon DEF Effect

(* A process with a pointer to an inode in use shares neither its entry    *)
(* nor its inode with one that has freed it.                               *)
LEMMA Apart ==
  ASSUME Known, NEW p \in Proc, At(p), ref[ent[p]] = 1,
         NEW q \in Proc, q # p, pc[q] \in Users
  PROVE  ent[q] # ent[p] /\ inum[ent[q]] # inum[ent[p]]
<1>1. At(q)
  BY Mine, Zenon
<1>2. ent[q] # ent[p]
  BY Zenon DEF Known, Owned, At
<1> QED  BY <1>1, <1>2, Zenon DEF Known, OneEntry, At

LEMMA UsedStep == ASSUME Known, NEW p \in Proc, Effect(p) PROVE Used'
<1>t. TypeOK /\ Locks /\ Used /\ Owned
  BY Zenon DEF Known
<1>m. \A q \in Proc : pc[q] \in Users => At(q)
  BY Mine, Zenon
<1> USE Zero DEF Goto, TypeOK, Used, Users, At
<1>1. ASSUME NEW l, NEW k, Works(p, l, k) PROVE Used'
  <2>1. l \in {"ref", "locked", "free", "linked", "put", "erased"}
    BY <1>1, Zenon DEF Works, Turn
  <2>2. \A q \in Proc : q # p /\ pc[q] = "free" => ent[q] # ent[p]
    BY <1>1, <1>t, Zenon DEF Works, Owned
  <2> QED  BY <1>1, <1>t, <1>m, <2>1, <2>2, Zenon DEF Works
<1>2. ASSUME NEW e \in Entry, NEW n, NEW l, Gets(p, e, n, l) PROVE Used'
  <2>1. \A f \in Entry : ref'[f] > 0 => inum'[f] \in Inum
    BY <1>2, <1>t, Zenon DEF Gets
  <2>2. ASSUME NEW q \in Proc, q # p, pc[q] \in Users
        PROVE  dtype'[inum'[ent'[q]]] = 1
    BY <1>2, <2>2, <1>t, <1>m, Zenon DEF Gets
  <2>3. ASSUME NEW q \in Proc, q # p, pc[q] = "free"
        PROVE  ref'[ent'[q]] = 1 /\ nlink'[ent'[q]] = 0
    <3>1. dnlink[inum[ent[q]]] = 0
      BY <2>3, Held, <1>t, Zenon DEF Lockers
    <3>2. ent[q] # e
      BY <1>2, <2>3, <3>1, <1>m DEF Gets, Known, Births
    <3> QED  BY <1>2, <2>3, <3>2, <1>t, <1>m, Zenon DEF Gets
  <2> QED  BY <1>2, <1>t, <2>1, <2>2, <2>3 DEF Gets
<1>3. ASSUME Puts(p) PROVE Used'
  BY <1>3, <1>t, <1>m DEF Puts, Owned
<1>4. ASSUME Frees(p) PROVE Used'
  <2>1. \A q \in Proc : q # p /\ pc[q] \in Users => inum[ent[q]] # inum[ent[p]]
    BY <1>4, Apart, Zenon DEF Frees
  <2> QED  BY <1>4, <1>t, <1>m, <2>1, Zenon DEF Frees
<1>5. ASSUME iput_valid(p), ent[p] \in Entry PROVE Used'
  BY <1>5, <1>t, Zenon DEF iput_valid, disk
<1>6. ASSUME link_fails(p) PROVE Used'
  BY <1>6, <1>t, Zenon DEF link_fails, entry, disk
<1>7. ASSUME NEW a \in Name, link_entry(p, a) PROVE Used'
  BY <1>7, <1>t DEF link_entry, entry, disk
<1>8. ASSUME NEW q \in Proc, idup(p, q), At(p), ent[q] = 0 PROVE Used'
  BY <1>8, <1>t, <1>m DEF idup, entry, disk, Owned
<1>9. ASSUME NEW a \in Name, NEW n \in Inum, ialloc(p, a, n) PROVE Used'
  BY <1>9, <1>t, <1>m, Zenon DEF ialloc, entry
<1> QED  BY <1>1, <1>2, <1>3, <1>4, <1>5, <1>6, <1>7, <1>8, <1>9, Zenon DEF Effect

LEMMA CoherentStep == ASSUME Known, NEW p \in Proc, Effect(p) PROVE Coherent'
<1>t. TypeOK /\ Locks /\ Coherent
  BY Zenon DEF Known
<1>o. \A e \in Entry : ref[e] > 0 /\ At(p) /\ inum[e] = inum[ent[p]] => e = ent[p]
  BY Zenon DEF Known, OneEntry, At
<1> USE Zero DEF Goto, TypeOK, Coherent, Stale
<1>1. ASSUME NEW l, NEW k, Works(p, l, k) PROVE Coherent'
  <2>1. \A e \in Entry : e # ent[p] /\ ref[e] > 0 => inum[e] # inum[ent[p]]
    BY <1>1, <1>o, Zenon DEF Works
  <2>2. \A e \in Entry : e # ent[p] => slock[e] # p
    BY <1>t DEF Locks
  <2>3. ASSUME NEW e \in Entry, e # ent[p] PROVE Stale(e)' <=> Stale(e)
    BY <1>1, <1>t, <2>2, <2>3 DEF Works, At
  <2> HIDE DEF Stale
  <2> QED  BY <1>1, <1>t, <2>1, <2>3 DEF Works, At
<1>2. ASSUME NEW e \in Entry, NEW n, NEW l, Gets(p, e, n, l) PROVE Coherent'
  <2>1. ASSUME NEW f \in Entry PROVE Stale(f)' <=> Stale(f)
    BY <1>2, <1>t DEF Gets, Locks, Lockers
  <2> HIDE DEF Stale
  <2> QED  BY <1>2, <1>t, <2>1 DEF Gets
<1>3. ASSUME Puts(p) PROVE Coherent'
  BY <1>3, <1>t DEF Puts, Locks, Lockers
<1>4. ASSUME Frees(p) PROVE Coherent'
  <2>1. slock[ent[p]] = p
    BY <1>4, <1>t, Zenon DEF Frees, Locks, Lockers
  <2> QED  BY <1>4, <1>t, <1>o, <2>1 DEF Frees, At
<1>5. ASSUME iput_valid(p), ent[p] \in Entry PROVE Coherent'
  BY <1>5, <1>t DEF iput_valid, disk, Locks
<1>6. ASSUME link_fails(p) PROVE Coherent'
  BY <1>6, <1>t DEF link_fails, entry, disk
<1>7. ASSUME NEW a \in Name, link_entry(p, a) PROVE Coherent'
  BY <1>7, <1>t DEF link_entry, entry, disk
<1>8. ASSUME NEW q \in Proc, idup(p, q), At(p), ent[q] = 0 PROVE Coherent'
  BY <1>8, <1>t DEF idup, entry, disk, At
<1>9. ASSUME NEW a \in Name, NEW n \in Inum, ialloc(p, a, n) PROVE Coherent'
  BY <1>9, <1>t DEF ialloc, entry
<1> QED  BY <1>1, <1>2, <1>3, <1>4, <1>5, <1>6, <1>7, <1>8, <1>9, Zenon DEF Effect

(* Nobody with a pointer to an inode in use has one to a new inode.        *)
LEMMA NotNew ==
  ASSUME Known, NEW p \in Proc, At(p), pc[p] \notin {"freed", "dec"}, NEW q \in Proc, q # p
  PROVE  /\ pc[q] = "ialloc" => inum[ent[p]] # new[q]
         /\ pc[q] = "created" => ent[q] # ent[p] /\ inum[ent[p]] # inum[ent[q]]
         /\ pc[q] \in InDir => pc[p] \notin InDir
<1>1. pc[q] = "ialloc" => inum[ent[p]] # new[q]
  BY Zenon DEF Known, Births, At
<1>2. pc[q] = "created" => ent[q] # ent[p]
  BY Zenon DEF Known, Births
<1>3. pc[q] = "created" => At(q)
  BY Mine, Zenon DEF Users
<1>4. pc[q] = "created" => inum[ent[p]] # inum[ent[q]]
  BY <1>2, <1>3, Zenon DEF Known, OneEntry, At
<1>5. pc[q] \in InDir => pc[p] \notin InDir
  BY DEF Known, Locks
<1> QED  BY <1>1, <1>2, <1>4, <1>5, Zenon

LEMMA BirthsStep == ASSUME Known, NEW p \in Proc, Effect(p) PROVE Births'
<1>t. TypeOK /\ Locks /\ Births /\ Owned
  BY Zenon DEF Known
<1>m. \A q \in Proc : pc[q] \in {"created", "unlink"} => At(q)
  BY Mine, Zenon DEF Users
<1>n. ASSUME At(p), pc[p] \notin {"freed", "dec"}
      PROVE  \A q \in Proc : q # p =>
               /\ pc[q] = "ialloc" => inum[ent[p]] # new[q]
               /\ pc[q] = "created" => ent[q] # ent[p] /\ inum[ent[p]] # inum[ent[q]]
               /\ pc[q] \in InDir => pc[p] \notin InDir
  BY <1>n, NotNew, Zenon
<1> USE Zero DEF Goto, TypeOK, Births
<1>1. ASSUME NEW l, NEW k, Works(p, l, k) PROVE Births'
  <2>1. /\ l \in {"ref", "locked", "free", "linked", "put", "erased"}
        /\ pc[p] \notin {"freed", "dec"} /\ (pc[p] \notin InDir => dir' = dir) /\ At(p)
    BY <1>1, Zenon DEF Works, Turn, InDir
  <2>2. ASSUME NEW e \in Entry, e # ent[p], Stale(e) PROVE Stale(e)'
    BY <1>1, <1>t, <2>1, <2>2 DEF Works, At, Stale, Locks
  <2>3. \A q \in Proc : q # p => pc'[q] = pc[q]
    BY <1>1, <1>t, Zenon DEF Works
  <2>4. pc'[p] = l
    BY <1>1, <1>t, Zenon DEF Works
  <2>5. ASSUME NEW q \in Proc, q # p, pc[q] = "ialloc"
        PROVE  /\ new'[q] \in Inum /\ dtype'[new'[q]] = 1 /\ dnlink'[new'[q]] = 0 /\ dir'[name'[q]] = 0
               /\ \A e \in Entry : ref'[e] > 0 /\ inum'[e] = new'[q] =>
                    /\ \A r \in Proc : ent'[r] = e => pc'[r] \in {"freed", "dec"}
                    /\ valid'[e] = 1 => Stale(e)'
    BY <1>1, <1>t, <1>n, <2>1, <2>2, <2>3, <2>5 DEF Works, At, InDir
  <2>6. ASSUME NEW q \in Proc, q # p, pc[q] = "created"
        PROVE  /\ dnlink'[inum'[ent'[q]]] = 0 /\ dir'[name'[q]] = 0
               /\ \A r \in Proc : r # q /\ ent'[r] = ent'[q] => pc'[r] \in {"freed", "dec"}
               /\ valid'[ent'[q]] = 1 => Stale(ent[q])' /\ ent' = ent
    BY <1>1, <1>t, <1>n, <1>m, <2>1, <2>2, <2>3, <2>6 DEF Works, At, InDir
  <2>7. ASSUME NEW q \in Proc, q # p, pc[q] = "unlink"
        PROVE  dir'[name'[q]] = inum'[ent'[q]]
    BY <1>1, <1>t, <1>n, <2>1, <2>7, Zenon DEF Works, InDir
  <2> QED  BY <2>1, <2>3, <2>4, <2>5, <2>6, <2>7 DEF Stale
<1>2. ASSUME NEW e \in Entry, NEW n, NEW l, Gets(p, e, n, l) PROVE Births'
  <2>1. \A f \in Entry : Stale(f) => Stale(f)'
    BY <1>2, <1>t DEF Gets, Stale, Locks, Lockers
  <2>2. \A q \in Proc : q # p /\ l # "ref" => pc[q] \notin InDir
    BY <1>2, <1>t DEF Gets, Locks, InDir
  <2>3. CASE l = "ref"
    <3>1. \A q \in Proc : /\ pc[q] = "ialloc" => n # new[q]
                         /\ pc[q] = "created" => ent[q] # e
      BY <1>2, <1>t, <1>m, <2>3 DEF Gets, At
    <3> QED  BY <1>2, <1>t, <1>m, <2>1, <2>3, <3>1 DEF Gets, At, Stale
  <2>4. CASE l = "unlink"
    BY <1>2, <1>t, <2>2, <2>4 DEF Gets, InDir, Stale
  <2>5. CASE l = "created"
    <3>1. \A q \in Proc : ent[q] = e => pc[q] \in {"freed", "dec"}
      BY <1>2, <1>t, <2>5 DEF Gets, Owned
    <3>2. valid'[e] = 1 => Stale(e)
      BY <1>2, <1>t, <2>5 DEF Gets
    <3>3. dnlink[n] = 0 /\ dir[name[p]] = 0
      BY <1>2, <1>t, <2>5, Zenon DEF Gets
    <3> QED  BY <1>2, <1>t, <2>1, <2>2, <2>5, <3>1, <3>2, <3>3 DEF Gets, InDir, Stale
  <2> QED  BY <1>2, <2>3, <2>4, <2>5, Zenon DEF Gets
<1>3. ASSUME Puts(p) PROVE Births'
  <2>1. \A f \in Entry : Stale(f) => Stale(f)'
    BY <1>3, <1>t DEF Puts, Stale, Locks, Lockers
  <2> QED  BY <1>3, <1>t, <1>m, <2>1 DEF Puts, At, Stale
<1>4. ASSUME Frees(p) PROVE Births'
  <2>1. \A f \in Entry : Stale(f) => Stale(f)'
    BY <1>4, <1>t DEF Frees, Stale, Locks, Lockers
  <2> QED  BY <1>4, <1>t, <1>m, <1>n, <2>1 DEF Frees, At, Stale
<1>5. ASSUME iput_valid(p), ent[p] \in Entry PROVE Births'
  <2>1. \A f \in Entry : f # ent[p] /\ Stale(f) => Stale(f)'
    BY <1>5, <1>t DEF iput_valid, Stale, Locks, Lockers
  <2> QED  BY <1>5, <1>t, <1>m, <2>1 DEF iput_valid, disk, At, Stale
<1>6. ASSUME link_fails(p) PROVE Births'
  <2>1. \A f \in Entry : Stale(f) => Stale(f)'
    BY <1>6, <1>t DEF link_fails, Stale, Locks, Lockers, entry
  <2> QED  BY <1>6, <1>t, <1>m, <2>1 DEF link_fails, disk, entry, Stale
<1>7. ASSUME NEW a \in Name, link_entry(p, a), At(p) PROVE Births'
  <2>1. \A f \in Entry : Stale(f) => Stale(f)'
    BY <1>7, <1>t DEF link_entry, Stale, Locks, Lockers, entry
  <2>2. \A q \in Proc : pc[q] \notin InDir
    BY <1>7, <1>t DEF link_entry, Locks, InDir
  <2> QED  BY <1>7, <1>t, <2>1, <2>2 DEF link_entry, InDir, Stale
<1>8. ASSUME NEW q \in Proc, idup(p, q), At(p), ent[q] = 0 PROVE Births'
  <2>1. \A f \in Entry : Stale(f) => Stale(f)'
    BY <1>8, <1>t DEF idup, Stale, entry, Locks, Lockers
  <2> QED  BY <1>8, <1>t, <1>m, <1>n, <2>1 DEF idup, disk, entry, At, Stale
<1>9. ASSUME NEW a \in Name, NEW n \in Inum, ialloc(p, a, n) PROVE Births'
  <2>1. \A f \in Entry : Stale(f) => Stale(f)'
    BY <1>9, <1>t DEF ialloc, Stale, Locks, Lockers, entry
  <2>2. \A q \in Proc : pc[q] \notin InDir
    BY <1>9, <1>t DEF ialloc, Locks
  <2>3. ASSUME NEW e \in Entry, ref[e] > 0, inum[e] = n, NEW q \in Proc, ent[q] = e
        PROVE  pc[q] \in {"freed", "dec"}
    <3>1. pc[q] \notin Users /\ pc[q] \notin {"idle", "ialloc", "panic"}
      BY <1>9, <1>t, <2>3 DEF ialloc, Locks, Known, Used
    <3> QED  BY <1>t, <3>1, Zenon DEF Users
  <2>4. ASSUME NEW e \in Entry, ref[e] > 0, inum[e] = n, valid[e] = 1 PROVE Stale(e)
    BY <1>9, <2>4 DEF ialloc, Known, Coherent
  <2> QED  BY <1>9, <1>t, <2>1, <2>2, <2>3, <2>4 DEF ialloc, entry, InDir, Stale, Locks
<1> QED  BY <1>1, <1>2, <1>3, <1>4, <1>5, <1>6, <1>7, <1>8, <1>9, Zenon DEF Effect

-----------------------------------------------------------------------------
(* The counts.  This is what is used of finite sets; it is shown at the    *)
(* end, from the library's theorems.                                       *)
FiniteFacts ==
  /\ \A S, T : IsFiniteSet(S) /\ T \subseteq S => IsFiniteSet(T)
  /\ \A S : IsFiniteSet(S) =>
       /\ Cardinality(S) \in Nat
       /\ Cardinality(S) = 0 <=> S = {}
       /\ Cardinality(S) = 1 <=> \E x : S = {x}
  /\ \A S, x : IsFiniteSet(S) /\ x \notin S => Cardinality(S \union {x}) = Cardinality(S) + 1
  /\ \A S, x : IsFiniteSet(S) /\ x \in S => Cardinality(S \ {x}) = Cardinality(S) - 1

LEMMA FiniteParts ==
  ASSUME FiniteFacts
  PROVE  /\ \A e : IsFiniteSet({p \in Proc : ent[p] = e})
         /\ \A n : IsFiniteSet(Linkers(n)) /\ IsFiniteSet(Names(n))
<1>1. \A e : {p \in Proc : ent[p] = e} \subseteq Proc
  OBVIOUS
<1>2. \A n : Linkers(n) \subseteq Proc /\ Names(n) \subseteq Name
  BY DEF Linkers, Names
<1> QED  BY <1>1, <1>2, IcacheConstants, Zenon DEF FiniteFacts

LEMMA Sizes ==
  ASSUME FiniteFacts
  PROVE  \A n : Cardinality(Names(n)) \in Nat /\ Cardinality(Linkers(n)) \in Nat
  BY FiniteParts, Zenon DEF FiniteFacts

Counts ==
  \A n \in Inum : dtype[n] = 1 => dnlink[n] = Cardinality(Names(n)) + Cardinality(Linkers(n))

LEMMA LinkCountIs == LinkCount <=> Counts /\ Named /\ \A p \in Proc : pc[p] # "panic"
  BY Zenon DEF LinkCount, Counts, Names, Linkers, Linking, Named

(* Who has an entry when its count is 0 or 1.                              *)
LEMMA OwnedFacts == ASSUME FiniteFacts, TypeOK, RefCount PROVE Owned /\ OneEntry
<1>1. ASSUME NEW e \in Entry
      PROVE  /\ ref[e] = 0 => \A p \in Proc : ent[p] # e
             /\ ref[e] = 1 => \A p, q \in Proc : ent[p] = e /\ ent[q] = e => p = q
             /\ \A p \in Proc : ent[p] = e => ref[e] > 0
  <2> DEFINE S == {p \in Proc : ent[p] = e}
  <2>1. IsFiniteSet(S) /\ ref[e] = Cardinality(S)
    BY FiniteParts, Zenon DEF RefCount, TypeOK
  <2>2. /\ ref[e] \in Nat
        /\ ref[e] = 0 <=> S = {}
        /\ ref[e] = 1 <=> \E x : S = {x}
    <3> HIDE DEF S
    <3>1. /\ Cardinality(S) \in Nat
          /\ Cardinality(S) = 0 <=> S = {}
          /\ Cardinality(S) = 1 <=> \E x : S = {x}
      BY <2>1, Zenon DEF FiniteFacts
    <3> QED  BY <2>1, <3>1
  <2> QED  BY <2>2
<1> QED  BY <1>1 DEF Owned, OneEntry, RefCount

(* An inode without links has no name, and nobody is about to change one.  *)
LEMMA UnnamedFacts == ASSUME FiniteFacts, TypeOK, LinkCount PROVE Unnamed /\ Named
<1>1. ASSUME NEW n \in Inum, dtype[n] = 1, dnlink[n] = 0 PROVE Names(n) = {} /\ Linkers(n) = {}
  <2>1. 0 = Cardinality(Names(n)) + Cardinality(Linkers(n))
    BY <1>1, LinkCountIs DEF Counts
  <2>2. Cardinality(Names(n)) = 0 /\ Cardinality(Linkers(n)) = 0
    BY <2>1, Sizes
  <2> QED  BY <2>2, FiniteParts, Zenon DEF FiniteFacts
<1> QED  BY <1>1, LinkCountIs DEF Unnamed

LEMMA InvariantKnown == ASSUME FiniteFacts, CacheInvariant PROVE Known
  BY OwnedFacts, UnnamedFacts, Zenon DEF CacheInvariant, Known

(* A process gets at an entry, or leaves it.                               *)
LEMMA EntGain ==
  ASSUME FiniteFacts, TypeOK, NEW p \in Proc, NEW e \in Entry, ent[p] \notin Entry,
         \A f \in Entry : ref[f] = Cardinality({q \in Proc : ent[q] = f}),
         ref' = [ref EXCEPT ![e] = @ + 1], ent' = [ent EXCEPT ![p] = e]
  PROVE  \A f \in Entry : ref'[f] = Cardinality({q \in Proc : ent'[q] = f})
<1> SUFFICES ASSUME NEW f \in Entry
             PROVE  ref'[f] = Cardinality({q \in Proc : ent'[q] = f})
  OBVIOUS
<1> DEFINE S == {q \in Proc : ent[q] = f}
           T == {q \in Proc : ent'[q] = f}
<1>1. CASE f = e
  <2>1. T = S \union {p} /\ p \notin S
    BY <1>1 DEF TypeOK
  <2>2. IsFiniteSet(S)
    BY FiniteParts
  <2>3. Cardinality(T) = Cardinality(S) + 1
    <3> HIDE DEF S, T
    <3> QED  BY <2>1, <2>2, Zenon DEF FiniteFacts
  <2> QED  BY <1>1, <2>3 DEF TypeOK
<1>2. CASE f # e
  <2>1. T = S
    BY <1>2 DEF TypeOK
  <2> QED  BY <1>2, <2>1 DEF TypeOK
<1> QED  BY <1>1, <1>2

LEMMA EntLoss ==
  ASSUME FiniteFacts, TypeOK, NEW p \in Proc, NEW e \in Entry, ent[p] = e,
         \A f \in Entry : ref[f] = Cardinality({q \in Proc : ent[q] = f}),
         ref' = [ref EXCEPT ![e] = @ - 1], ent' = [ent EXCEPT ![p] = 0]
  PROVE  \A f \in Entry : ref'[f] = Cardinality({q \in Proc : ent'[q] = f})
<1> SUFFICES ASSUME NEW f \in Entry
             PROVE  ref'[f] = Cardinality({q \in Proc : ent'[q] = f})
  OBVIOUS
<1> DEFINE S == {q \in Proc : ent[q] = f}
           T == {q \in Proc : ent'[q] = f}
<1>1. CASE f = e
  <2>1. T = S \ {p} /\ p \in S
    BY <1>1, Zero DEF TypeOK
  <2>2. IsFiniteSet(S)
    BY FiniteParts
  <2>3. Cardinality(T) = Cardinality(S) - 1
    <3> HIDE DEF S, T
    <3> QED  BY <2>1, <2>2, Zenon DEF FiniteFacts
  <2> QED  BY <1>1, <2>3 DEF TypeOK
<1>2. CASE f # e
  <2>1. T = S
    BY <1>2, Zero DEF TypeOK
  <2> QED  BY <1>2, <2>1 DEF TypeOK
<1> QED  BY <1>1, <1>2

LEMMA RefStep ==
  ASSUME FiniteFacts, CacheInvariant, NEW p \in Proc, Effect(p), OneEntry'
  PROVE  RefCount'
<1>t. TypeOK /\ \A f \in Entry : ref[f] = Cardinality({q \in Proc : ent[q] = f})
  BY DEF CacheInvariant, RefCount
<1>r. ASSUME \A f \in Entry : ref'[f] = Cardinality({q \in Proc : ent'[q] = f}) PROVE RefCount'
  BY <1>r DEF OneEntry, RefCount
<1>s. ASSUME ref' = ref, ent' = ent PROVE RefCount'
  BY <1>s, <1>t, <1>r
<1>1. ASSUME NEW l, NEW k, Works(p, l, k) PROVE RefCount'
  BY <1>1, <1>s DEF Works
<1>2. ASSUME NEW e \in Entry, NEW n, NEW l, Gets(p, e, n, l) PROVE RefCount'
  <2>1. ref' = [ref EXCEPT ![e] = @ + 1] /\ ent' = [ent EXCEPT ![p] = e] /\ ent[p] \notin Entry
    BY <1>2, Zero DEF Gets
  <2> QED  BY <2>1, <1>t, <1>r, EntGain, Zenon
<1>3. ASSUME Puts(p) PROVE RefCount'
  <2>1. ref' = [ref EXCEPT ![ent[p]] = @ - 1] /\ ent' = [ent EXCEPT ![p] = 0] /\ ent[p] \in Entry
    BY <1>3 DEF Puts
  <2> QED  BY <2>1, <1>t, <1>r, EntLoss, Zenon
<1>4. ASSUME Frees(p) \/ iput_valid(p) \/ link_fails(p) \/ (\E a \in Name : link_entry(p, a))
                \/ (\E a \in Name, n \in Inum : ialloc(p, a, n))
      PROVE  RefCount'
  BY <1>4, <1>s DEF Frees, iput_valid, link_fails, link_entry, ialloc
<1>5. ASSUME NEW q \in Proc, idup(p, q), At(p), ent[q] = 0 PROVE RefCount'
  <2>1. /\ ref' = [ref EXCEPT ![ent[p]] = @ + 1] /\ ent' = [ent EXCEPT ![q] = ent[p]]
        /\ ent[q] \notin Entry /\ ent[p] \in Entry
    BY <1>5, Zero DEF idup, At
  <2> QED  BY <2>1, <1>t, <1>r, EntGain, Zenon
<1> QED  BY <1>1, <1>2, <1>3, <1>4, <1>5, Zenon DEF Effect

(* A step changes the number of names of n by g, of the processes that are *)
(* about to make or to take away one by h, and those of no other inode.    *)
NamesBy(n, g) ==
  /\ Cardinality(Names(n)') = Cardinality(Names(n)) + g
  /\ \A m \in Inum : m # n => Names(m)' = Names(m)

LinkersBy(n, h) ==
  /\ Cardinality(Linkers(n)') = Cardinality(Linkers(n)) + h
  /\ \A m \in Inum : m # n => Linkers(m)' = Linkers(m)

LEMMA Recount ==
  ASSUME FiniteFacts, TypeOK, Counts, NEW n \in Inum, NEW g \in Int, NEW h \in Int,
         NamesBy(n, g), LinkersBy(n, h),
         dtype' = dtype, dnlink' = [dnlink EXCEPT ![n] = @ + g + h]
  PROVE  Counts'
<1> SUFFICES ASSUME NEW m \in Inum, dtype[m] = 1
             PROVE  dnlink'[m] = Cardinality(Names(m)') + Cardinality(Linkers(m)')
  BY Zenon DEF Counts
<1>1. dnlink[m] = Cardinality(Names(m)) + Cardinality(Linkers(m))
  BY Zenon DEF Counts
<1>2. Cardinality(Names(m)) \in Nat /\ Cardinality(Linkers(m)) \in Nat
  BY Sizes, Zenon
<1>3. dnlink'[m] = IF m = n THEN dnlink[m] + g + h ELSE dnlink[m]
  BY Zenon DEF TypeOK
<1>4. CASE m = n
  BY <1>1, <1>2, <1>3, <1>4 DEF NamesBy, LinkersBy
<1>5. CASE m # n
  BY <1>1, <1>3, <1>5 DEF NamesBy, LinkersBy
<1> QED  BY <1>4, <1>5

LEMMA NamesSame == ASSUME FiniteFacts, dir' = dir, NEW n PROVE NamesBy(n, 0)
<1>1. \A m : Names(m)' = Names(m)
  BY Zenon DEF Names
<1>2. Cardinality(Names(n)) \in Nat
  BY Sizes, Zenon
<1> QED  BY <1>1, <1>2 DEF NamesBy

(* A name is made, or taken away.                                          *)
LEMMA NamesGain ==
  ASSUME FiniteFacts, TypeOK, NEW a \in Name, NEW n \in Inum, dir[a] = 0, dir' = [dir EXCEPT ![a] = n]
  PROVE  NamesBy(n, 1)
<1>1. Names(n)' = Names(n) \union {a} /\ a \notin Names(n)
  BY Zero DEF Names, TypeOK
<1>2. \A m \in Inum : m # n => Names(m)' = Names(m)
  BY Zero DEF Names, TypeOK
<1>3. Cardinality(Names(n) \union {a}) = Cardinality(Names(n)) + 1
  BY <1>1, FiniteParts, Zenon DEF FiniteFacts
<1> QED  BY <1>1, <1>2, <1>3, Zenon DEF NamesBy

LEMMA NamesLoss ==
  ASSUME FiniteFacts, TypeOK, NEW a \in Name, NEW n \in Inum, dir[a] = n, dir' = [dir EXCEPT ![a] = 0]
  PROVE  NamesBy(n, -1)
<1>1. Names(n)' = Names(n) \ {a} /\ a \in Names(n)
  BY Zero DEF Names, TypeOK
<1>2. \A m \in Inum : m # n => Names(m)' = Names(m)
  BY Zero DEF Names, TypeOK
<1>3. Cardinality(Names(n) \ {a}) = Cardinality(Names(n)) - 1
  BY <1>1, FiniteParts, Zenon DEF FiniteFacts
<1>4. Cardinality(Names(n)) \in Nat
  BY Sizes, Zenon
<1> QED  BY <1>1, <1>2, <1>3, <1>4 DEF NamesBy

(* A process begins to make or to take away a link of its inode, or ends.  *)
LEMMA LinkersSame ==
  ASSUME FiniteFacts, TypeOK, NEW p \in Proc, NEW l, pc[p] \in Linking <=> l \in Linking, Goto(p, l),
         ent' = ent, inum' = inum, NEW n
  PROVE  LinkersBy(n, 0)
<1>1. \A m : Linkers(m)' = Linkers(m)
  BY DEF Linkers, Goto, TypeOK
<1>2. Cardinality(Linkers(n)) \in Nat
  BY Sizes, Zenon
<1> QED  BY <1>1, <1>2 DEF LinkersBy

LEMMA LinkersGain ==
  ASSUME FiniteFacts, TypeOK, NEW p \in Proc, NEW l, pc[p] \notin Linking, l \in Linking, Goto(p, l),
         ent' = ent, inum' = inum, NEW n, n = inum[ent[p]]
  PROVE  LinkersBy(n, 1)
<1>1. Linkers(n)' = Linkers(n) \union {p} /\ p \notin Linkers(n)
  BY DEF Linkers, Goto, TypeOK
<1>2. \A m \in Inum : m # n => Linkers(m)' = Linkers(m)
  BY DEF Linkers, Goto, TypeOK
<1>3. Cardinality(Linkers(n) \union {p}) = Cardinality(Linkers(n)) + 1
  BY <1>1, FiniteParts, Zenon DEF FiniteFacts
<1> QED  BY <1>1, <1>2, <1>3, Zenon DEF LinkersBy

LEMMA LinkersLoss ==
  ASSUME FiniteFacts, TypeOK, NEW p \in Proc, NEW l, pc[p] \in Linking, l \notin Linking, Goto(p, l),
         ent' = ent, inum' = inum, NEW n, n = inum[ent[p]]
  PROVE  LinkersBy(n, -1)
<1>1. Linkers(n)' = Linkers(n) \ {p} /\ p \in Linkers(n)
  BY DEF Linkers, Goto, TypeOK
<1>2. \A m \in Inum : m # n => Linkers(m)' = Linkers(m)
  BY DEF Linkers, Goto, TypeOK
<1>3. Cardinality(Linkers(n) \ {p}) = Cardinality(Linkers(n)) - 1
  BY <1>1, FiniteParts, Zenon DEF FiniteFacts
<1>4. Cardinality(Linkers(n)) \in Nat
  BY Sizes, Zenon
<1> QED  BY <1>1, <1>2, <1>3, <1>4 DEF LinkersBy

LEMMA LinkStep ==
  ASSUME FiniteFacts, CacheInvariant, NEW p \in Proc, Effect(p), Locks'
  PROVE  LinkCount'
<1>k. Known
  BY InvariantKnown, Zenon
<1>t. TypeOK
  BY Zenon DEF CacheInvariant
<1>c. Counts /\ Named
  BY LinkCountIs, Zenon DEF CacheInvariant
<1>n. PICK n0 : n0 = inum[ent[p]]
  OBVIOUS
<1>q. ASSUME Counts', Named' PROVE LinkCount'
  BY <1>q, Zenon DEF LinkCount, Counts, Names, Linkers, Linking, Named, Locks
<1>s. ASSUME dtype' = dtype, dnlink' = dnlink, dir' = dir, \A m : Linkers(m)' = Linkers(m)
      PROVE  LinkCount'
  <2>1. \A m : Names(m)' = Names(m)
    BY <1>s, Zenon DEF Names
  <2>2. Counts'
    BY <1>s, <2>1, <1>c, Zenon DEF Counts
  <2>3. Named'
    BY <1>s, <1>c, Zenon DEF Named
  <2> QED  BY <2>2, <2>3, <1>q, Zenon
<1>1. ASSUME NEW l, NEW k, Works(p, l, k) PROVE LinkCount'
  <2>1. /\ n0 \in Inum /\ dtype[n0] = 1 /\ dtype' = dtype /\ ent' = ent /\ inum' = inum
        /\ dnlink' = [dnlink EXCEPT ![n0] = k] /\ Goto(p, l)
    BY <1>1, <1>n, Zenon DEF Works, At
  <2>2. dnlink[n0] \in Nat /\ name[p] \in Name
    BY <1>t, <2>1, Zenon DEF TypeOK
  <2>3. ASSUME NEW g \in Int, NEW h \in Int, k = dnlink[n0] + g + h, NamesBy(n0, g), LinkersBy(n0, h)
        PROVE  Counts'
    <3>1. dnlink' = [dnlink EXCEPT ![n0] = @ + g + h]
      BY <2>1, <2>3, Zenon
    <3> QED  BY <3>1, <2>1, <2>3, <1>t, <1>c, Recount, Zenon
  <2>a. CASE pc[p] \in {"ref", "locked", "put"} /\ l \in {"ref", "locked", "free"}
             /\ k = dnlink[n0] /\ dir' = dir
    <3>1. pc[p] \in Linking <=> l \in Linking
      BY <2>a DEF Linking
    <3>2. NamesBy(n0, 0) /\ LinkersBy(n0, 0)
      BY <3>1, <2>a, <2>1, <1>t, NamesSame, LinkersSame, Zenon
    <3>3. Counts'
      BY <3>2, <2>a, <2>2, <2>3
    <3>4. Named'
      BY <2>1, <2>a, <1>c, Zenon DEF Named
    <3> QED  BY <3>3, <3>4, <1>q, Zenon
  <2>b. CASE pc[p] = "locked" /\ l = "linked" /\ k = dnlink[n0] + 1 /\ dir' = dir
    <3>1. pc[p] \notin Linking /\ l \in Linking
      BY <2>b DEF Linking
    <3>2. NamesBy(n0, 0) /\ LinkersBy(n0, 1)
      BY <3>1, <2>b, <2>1, <1>t, <1>n, NamesSame, LinkersGain, Zenon
    <3>3. Counts'
      BY <3>2, <2>b, <2>2, <2>3
    <3>4. Named'
      BY <2>1, <2>b, <1>c, Zenon DEF Named
    <3> QED  BY <3>3, <3>4, <1>q, Zenon
  <2>c. CASE pc[p] \in {"bad", "erased"} /\ l = "put" /\ k = dnlink[n0] - 1 /\ dir' = dir
    <3>1. pc[p] \in Linking /\ l \notin Linking
      BY <2>c DEF Linking
    <3>2. NamesBy(n0, 0) /\ LinkersBy(n0, -1)
      BY <3>1, <2>c, <2>1, <1>t, <1>n, NamesSame, LinkersLoss, Zenon
    <3>3. Counts'
      BY <3>2, <2>c, <2>2, <2>3
    <3>4. Named'
      BY <2>1, <2>c, <1>c, Zenon DEF Named
    <3> QED  BY <3>3, <3>4, <1>q, Zenon
  <2>d. CASE pc[p] = "created" /\ l = "locked" /\ dnlink[n0] = 0 /\ k = 1
             /\ dir[name[p]] = 0 /\ dir' = [dir EXCEPT ![name[p]] = n0]
    <3>1. pc[p] \in Linking <=> l \in Linking
      BY <2>d DEF Linking
    <3>2. NamesBy(n0, 1) /\ LinkersBy(n0, 0)
      BY <3>1, <2>d, <2>1, <2>2, <1>t, NamesGain, LinkersSame, Zenon
    <3>3. Counts'
      BY <3>2, <2>d, <2>2, <2>3
    <3>4. Named'
      BY <2>1, <2>d, <1>c, <1>t DEF Named, TypeOK
    <3> QED  BY <3>3, <3>4, <1>q, Zenon
  <2>e. CASE pc[p] = "unlink" /\ l = "erased" /\ k = dnlink[n0]
             /\ dir[name[p]] = n0 /\ dir' = [dir EXCEPT ![name[p]] = 0]
    <3>1. pc[p] \notin Linking /\ l \in Linking
      BY <2>e DEF Linking
    <3>2. NamesBy(n0, -1) /\ LinkersBy(n0, 1)
      BY <3>1, <2>e, <2>1, <2>2, <1>t, <1>n, NamesLoss, LinkersGain, Zenon
    <3>3. Counts'
      BY <3>2, <2>e, <2>2, <2>3
    <3>4. Named'
      BY <2>1, <2>e, <1>c, <1>t DEF Named, TypeOK
    <3> QED  BY <3>3, <3>4, <1>q, Zenon
  <2> QED  BY <1>1, <1>n, <2>a, <2>b, <2>c, <2>d, <2>e, Zenon DEF Works, Turn
<1>2. ASSUME NEW e \in Entry, NEW n, NEW l, Gets(p, e, n, l) PROVE LinkCount'
  <2>1. \A q \in Proc : pc'[q] \in Linking <=> pc[q] \in Linking
    BY <1>2, <1>t DEF Gets, Goto, Linking, TypeOK
  <2>2. \A q \in Proc : pc[q] \in Linking => inum'[ent'[q]] = inum[ent[q]]
    BY <1>2, <1>t, <1>k DEF Gets, Linking, Known, Owned, TypeOK
  <2>3. \A m : Linkers(m)' = Linkers(m)
    BY <2>1, <2>2 DEF Linkers
  <2> QED  BY <2>3, <1>2, <1>s, Zenon DEF Gets
<1>3. ASSUME Puts(p) PROVE LinkCount'
  <2>1. \A m : Linkers(m)' = Linkers(m)
    BY <1>3, <1>t DEF Puts, Goto, Linkers, Linking, TypeOK
  <2> QED  BY <2>1, <1>3, <1>s, Zenon DEF Puts
<1>4. ASSUME Frees(p) PROVE LinkCount'
  <2>1. \A m : Linkers(m)' = Linkers(m)
    BY <1>4, <1>t DEF Frees, Goto, Linkers, Linking, TypeOK
  <2>2. /\ n0 \in Inum /\ dtype[n0] = 1 /\ dnlink[n0] = 0
        /\ dtype' = [dtype EXCEPT ![n0] = 0] /\ dnlink' = dnlink /\ dir' = dir
    BY <1>4, <1>n, Zenon DEF Frees, At
  <2>3. Names(n0) = {}
    BY <2>2, <1>k, Zenon DEF Known, Unnamed
  <2>4. \A m : Names(m)' = Names(m)
    BY <2>2, Zenon DEF Names
  <2>5. Counts'
    BY <2>1, <2>2, <2>4, <1>t, <1>c DEF Counts, TypeOK
  <2>6. Named'
    BY <2>2, <2>3, <1>t, <1>c DEF Named, Names, TypeOK
  <2> QED  BY <2>5, <2>6, <1>q, Zenon
<1>5. ASSUME iput_valid(p) PROVE LinkCount'
  <2>1. \A m : Linkers(m)' = Linkers(m)
    BY <1>5, <1>t DEF iput_valid, Goto, Linkers, Linking, TypeOK
  <2> QED  BY <2>1, <1>5, <1>s, Zenon DEF iput_valid, disk
<1>6. ASSUME link_fails(p) PROVE LinkCount'
  <2>1. \A m : Linkers(m)' = Linkers(m)
    BY <1>6, <1>t DEF link_fails, Goto, entry, Linkers, Linking, TypeOK
  <2> QED  BY <2>1, <1>6, <1>s, Zenon DEF link_fails, disk
<1>7. ASSUME NEW a \in Name, link_entry(p, a), At(p) PROVE LinkCount'
  <2>1. /\ n0 \in Inum /\ dtype[n0] = 1 /\ dtype' = dtype /\ dnlink' = dnlink
        /\ dir[a] = 0 /\ dir' = [dir EXCEPT ![a] = n0]
        /\ pc[p] = "linked" /\ Goto(p, "put") /\ ent' = ent /\ inum' = inum
    BY <1>7, <1>n, Zenon DEF link_entry, disk, entry, At
  <2>2. pc[p] \in Linking /\ "put" \notin Linking
    BY <2>1 DEF Linking
  <2>3. NamesBy(n0, 1) /\ LinkersBy(n0, -1)
    BY <2>1, <2>2, <1>t, <1>n, NamesGain, LinkersLoss, Zenon
  <2>4. dnlink' = [dnlink EXCEPT ![n0] = @ + 1 + (-1)]
    BY <2>1, <1>t DEF TypeOK
  <2>5. 1 \in Int /\ -1 \in Int
    OBVIOUS
  <2>6. Counts'
    BY <2>1, <2>3, <2>4, <2>5, <1>t, <1>c, Recount, Zenon
  <2>7. Named'
    BY <2>1, <1>c, <1>t DEF Named, TypeOK
  <2> QED  BY <2>6, <2>7, <1>q, Zenon
<1>8. ASSUME NEW q \in Proc, idup(p, q) PROVE LinkCount'
  <2>1. \A m : Linkers(m)' = Linkers(m)
    BY <1>8, <1>t DEF idup, Goto, entry, Linkers, Linking, TypeOK
  <2> QED  BY <2>1, <1>8, <1>s, Zenon DEF idup, disk
<1>9. ASSUME NEW a \in Name, NEW n \in Inum, ialloc(p, a, n) PROVE LinkCount'
  <2>0. /\ dtype[n] = 0 /\ dtype' = [dtype EXCEPT ![n] = 1] /\ dnlink' = [dnlink EXCEPT ![n] = 0]
        /\ dir' = dir /\ pc[p] = "idle" /\ Goto(p, "ialloc") /\ ent' = ent /\ inum' = inum
    BY <1>9, Zenon DEF ialloc, entry
  <2>1. \A m : Linkers(m)' = Linkers(m)
    BY <2>0, <1>t DEF Goto, Linkers, Linking, TypeOK
  <2>2. \A m : Names(m)' = Names(m)
    BY <2>0, Zenon DEF Names
  <2>3. Names(n) = {}
    BY <2>0, <1>c, Zero DEF Named, Names
  <2>4. Linkers(n) = {}
    <3>1. \A r \in Proc : pc[r] \in Linking => dtype[inum[ent[r]]] = 1
      BY <1>k DEF Known, Used, Linking, Users
    <3> QED  BY <2>0, <3>1 DEF Linkers
  <2>5. Cardinality(Names(n)) = 0 /\ Cardinality(Linkers(n)) = 0
    BY <2>3, <2>4, FiniteParts, Zenon DEF FiniteFacts
  <2>6. Counts'
    BY <2>0, <2>1, <2>2, <2>5, <1>t, <1>c DEF Counts, TypeOK
  <2>7. Named'
    BY <2>0, <1>c, <1>t DEF Named, TypeOK
  <2> QED  BY <2>6, <2>7, <1>q, Zenon
<1> QED  BY <1>1, <1>2, <1>3, <1>4, <1>5, <1>6, <1>7, <1>8, <1>9, Zenon DEF Effect

-----------------------------------------------------------------------------
(* An empty directory and an empty cache.                                  *)
LEMMA InitInvariant == ASSUME FiniteFacts, Init PROVE CacheInvariant
<1>1. TypeOK
  <2>1. (CHOOSE a \in Name : TRUE) \in Name
    BY IcacheConstants
  <2> QED  BY <2>1 DEF Init, TypeOK
<1>2. Locks
  BY Zero DEF Init, Locks, Lockers, InDir
<1>3. RefCount
  <2>1. \A e \in Entry : ref[e] = 0 /\ {p \in Proc : ent[p] = e} = {}
    BY Zero DEF Init
  <2>2. \A e \in Entry : Cardinality({p \in Proc : ent[p] = e}) = 0
    BY <2>1, FiniteParts, Zenon DEF FiniteFacts
  <2> QED  BY <2>1, <2>2 DEF RefCount
<1>4. Used /\ Coherent /\ Births
  BY DEF Init, Used, Coherent, Births, Users
<1>5. LinkCount
  BY DEF Init, LinkCount
<1> QED  BY <1>1, <1>2, <1>3, <1>4, <1>5, Zenon DEF CacheInvariant

LEMMA Stutter == ASSUME CacheInvariant, UNCHANGED vars PROVE CacheInvariant'
<1>1. TypeOK' /\ Locks'
  BY Zenon DEF CacheInvariant, vars, TypeOK, Locks
<1>2. Used' /\ Coherent'
  BY Zenon DEF CacheInvariant, vars, Used, Coherent, Stale
<1>3. Births'
  BY DEF CacheInvariant, vars, Births, Stale
<1>4. RefCount' /\ LinkCount'
  BY Zenon DEF CacheInvariant, vars, RefCount, LinkCount
<1> QED  BY <1>1, <1>2, <1>3, <1>4, Zenon DEF CacheInvariant

LEMMA StepInvariant == ASSUME FiniteFacts, CacheInvariant, [Next]_vars PROVE CacheInvariant'
<1>1. ASSUME Next PROVE CacheInvariant'
  <2>1. Known
    BY InvariantKnown, Zenon
  <2>2. PICK p \in Proc : Effect(p)
    BY <1>1, <2>1, Acts, Zenon
  <2>3. TypeOK' /\ Locks' /\ OneEntry'
    BY <2>1, <2>2, TypeStep, LocksStep, OneEntryStep, Zenon
  <2>4. Used' /\ Coherent' /\ Births'
    BY <2>1, <2>2, UsedStep, CoherentStep, BirthsStep, Zenon
  <2>5. RefCount' /\ LinkCount'
    BY <2>2, <2>3, RefStep, LinkStep, Zenon
  <2> QED  BY <2>3, <2>4, <2>5, Zenon DEF CacheInvariant
<1> QED  BY <1>1, Stutter, Zenon

(* Who waits in iput() with icache.lock held waits for nobody.             *)
LEMMA NobodyHolds == ASSUME FiniteFacts, CacheInvariant PROVE IputWontBlock
<1> SUFFICES ASSUME NEW p \in Proc, pc[p] \in {"ref", "put"}, Last(ent[p])
             PROVE  slock[ent[p]] = NoProc
  BY Zenon DEF IputWontBlock
<1>1. Known
  BY InvariantKnown, Zenon
<1>2. ent[p] \in Entry /\ ref[ent[p]] = 1
  <2>1. pc[p] \in Users
    BY DEF Users
  <2>2. At(p)
    BY <1>1, <2>1, Mine, Zenon
  <2> QED  BY <2>2, Zenon DEF At, Last
<1>3. \A q \in Proc : ent[q] = ent[p] => q = p
  BY <1>1, <1>2, Zenon DEF Known, Owned
<1>4. slock[ent[p]] \in Proc \union {NoProc}
  BY <1>1, <1>2, Zenon DEF Known, TypeOK
<1> QED  BY <1>1, <1>2, <1>3, <1>4 DEF Known, Locks, Lockers

-----------------------------------------------------------------------------
F == INSTANCE FiniteSetTheorems

(* The library's theorems are about the same Cardinality.                  *)
LEMMA Finite == FiniteFacts
<1>1. ASSUME NEW S
      PROVE  Cardinality(S) = F!Cardinality(S) /\ (IsFiniteSet(S) <=> F!IsFiniteSet(S))
  BY Zenon DEF Cardinality, F!Cardinality, IsFiniteSet, F!IsFiniteSet
<1>2. ASSUME NEW S, IsFiniteSet(S), NEW T, T \subseteq S PROVE IsFiniteSet(T)
  BY <1>1, <1>2, F!FS_Subset, Zenon
<1>3. ASSUME NEW S, IsFiniteSet(S)
      PROVE  /\ Cardinality(S) \in Nat
             /\ Cardinality(S) = 0 <=> S = {}
             /\ Cardinality(S) = 1 <=> \E x : S = {x}
  <2>1. F!IsFiniteSet(S) /\ Cardinality(S) = F!Cardinality(S)
    BY <1>1, <1>3, Zenon
  <2>2. F!Cardinality(S) \in Nat
    BY <2>1, F!FS_CardinalityType, Zenon
  <2>3. F!Cardinality(S) = 0 <=> S = {}
    BY <2>1, F!FS_EmptySet, Zenon
  <2>4. F!Cardinality(S) = 1 <=> \E x : S = {x}
    BY <2>1, F!FS_Singleton, Zenon
  <2> QED  BY <2>1, <2>2, <2>3, <2>4, Zenon
<1>4. ASSUME NEW S, IsFiniteSet(S), NEW x, x \notin S
      PROVE  Cardinality(S \union {x}) = Cardinality(S) + 1
  BY <1>1, <1>4, F!FS_AddElement
<1>5. ASSUME NEW S, IsFiniteSet(S), NEW x, x \in S
      PROVE  Cardinality(S \ {x}) = Cardinality(S) - 1
  BY <1>1, <1>5, F!FS_RemoveElement
<1> QED  BY <1>2, <1>3, <1>4, <1>5, Zenon DEF FiniteFacts

(* Every state of the inode cache satisfies the inductive invariant.       *)
THEOREM IcacheInvariance == Spec => []CacheInvariant
<1>1. Init => CacheInvariant
  BY InitInvariant, Finite, Zenon
<1>2. CacheInvariant /\ [Next]_vars => CacheInvariant'
  BY StepInvariant, Finite, Zenon
<1> QED  BY <1>1, <1>2, PTL DEF Spec

(* ip->ref counts the pointers to an entry, and an inode has one entry, so *)
(* that its lock is one lock, whatever open(), fork(), unlink() and        *)
(* close() do at the same time.                                            *)
THEOREM RefsCounted == Spec => []RefCount
<1>1. CacheInvariant => RefCount
  BY Zenon DEF CacheInvariant
<1> QED  BY <1>1, IcacheInvariance, PTL

(* The link count on disk is the number of names, and of links that        *)
(* sys_link() or sys_unlink() is about to make or take away; no name       *)
(* refers to a free inode, and ilock() and sys_unlink() do not panic.      *)
THEOREM LinksCounted == Spec => []LinkCount
<1>1. CacheInvariant => LinkCount
  BY Zenon DEF CacheInvariant
<1> QED  BY <1>1, IcacheInvariance, PTL

(* The acquiresleep() of iput(), with icache.lock held, finds the lock     *)
(* free: with ref 1 there is nobody else who could hold it.                *)
THEOREM IputNeverBlocks == Spec => []IputWontBlock
<1>1. CacheInvariant => IputWontBlock
  BY NobodyHolds, Finite, Zenon
<1> QED  BY <1>1, IcacheInvariance, PTL
=============================================================================
