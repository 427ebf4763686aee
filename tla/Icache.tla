------------------------------- MODULE Icache -------------------------------
(***************************************************************************)
(* The inode layer of kernel/fs.c (ialloc, iget, idup, ilock, iunlock,     *)
(* iput, iupdate) under the system calls of kernel/sysfile.c that change   *)
(* one directory: open, create, link, unlink, close.                       *)
(*                                                                         *)
(* dp->lock is held from step to step only where the code waits under it   *)
(* for another lock.  Sections under icache.lock, and changes of a buffer, *)
(* are one step; acquiresleep(&ip->lock) is the guard slock[e] = NoProc.   *)
(***************************************************************************)
EXTENDS Integers, FiniteSets

CONSTANTS
  Proc, NoProc,
  Inum,          \* inode numbers of files, 1..n
  Name,          \* names in the directory
  NINODE         \* entries of the cache; iget() panics without a free one

Entry == 1..NINODE

ASSUME IcacheConstants ==
  /\ NoProc \notin Proc /\ NINODE \in Nat \ {0} /\ 0 \notin Inum /\ Inum \subseteq Nat
  /\ IsFiniteSet(Proc) /\ IsFiniteSet(Name) /\ Name # {}

VARIABLES
  dtype, dnlink,                  \* dinodes; type 0 is a free one
  dir, dirlock,                   \* the directory and its inode's lock
  ref, inum, valid, type, nlink, slock,   \* the entries of the cache
  pc, ent, name, new              \* of each process: label, entry, name, inum of ialloc()

disk  == <<dtype, dnlink>>
entry == <<inum, valid, type, nlink, slock>>
vars  == <<dtype, dnlink, dir, dirlock, ref, inum, valid, type, nlink, slock, pc, ent, name, new>>

(* An empty directory.                                                     *)
Init ==
  /\ dtype = [n \in Inum |-> 0] /\ dnlink = [n \in Inum |-> 0]
  /\ dir = [a \in Name |-> 0] /\ dirlock = NoProc
  /\ ref = [e \in Entry |-> 0]
  /\ inum = [e \in Entry |-> 0]
  /\ valid = [e \in Entry |-> 0]
  /\ type = [e \in Entry |-> 0] /\ nlink = [e \in Entry |-> 0]
  /\ slock = [e \in Entry |-> NoProc]
  /\ pc = [p \in Proc |-> "idle"]
  /\ ent = [p \in Proc |-> 0]
  /\ name = [p \in Proc |-> CHOOSE a \in Name : TRUE]
  /\ new = [p \in Proc |-> 0]

Goto(p, l) == pc' = [pc EXCEPT ![p] = l]

(* Mutant: iget() takes a free entry although the inode is cached.         *)
iget_twice(p, e, n) ==
  /\ ref[e] = 0 /\ \A f \in Entry : f < e => ref[f] # 0
  /\ ref' = [ref EXCEPT ![e] = 1]
  /\ inum' = [inum EXCEPT ![e] = n]
  /\ valid' = [valid EXCEPT ![e] = 0]
  /\ ent' = [ent EXCEPT ![p] = e]

(* iget(n) returns entry e to p.                                           *)
iget(p, e, n) ==
  /\ IF \E f \in Entry : ref[f] > 0 /\ inum[f] = n
     THEN ref[e] > 0 /\ inum[e] = n
     ELSE ref[e] = 0 /\ \A f \in Entry : f < e => ref[f] # 0
  /\ ref' = [ref EXCEPT ![e] = @ + 1]
  /\ inum' = [inum EXCEPT ![e] = n]
  /\ valid' = [valid EXCEPT ![e] = IF ref[e] = 0 THEN 0 ELSE @]
  /\ ent' = [ent EXCEPT ![p] = e]

(* What ilock() finds in entry e: the inode is read if it is not valid.    *)
Type(e)  == IF valid[e] = 1 THEN type[e] ELSE dtype[inum[e]]
Nlink(e) == IF valid[e] = 1 THEN nlink[e] ELSE dnlink[inum[e]]

(* The entry is valid now, with n links, and iupdate() has written it.     *)
Update(e, n) ==
  /\ valid' = [valid EXCEPT ![e] = 1]
  /\ type' = [type EXCEPT ![e] = Type(e)]
  /\ nlink' = [nlink EXCEPT ![e] = n]
  /\ dnlink' = [dnlink EXCEPT ![inum[e]] = n]
  /\ dtype' = [dtype EXCEPT ![inum[e]] = Type(e)]

-----------------------------------------------------------------------------
(* namei(), or create() of a name that is there: dirlookup() with dp->lock.*)
namei(p, e, a) ==
  /\ pc[p] = "idle" /\ dirlock = NoProc
  /\ dir[a] # 0 /\ iget(p, e, dir[a])
  /\ Goto(p, "ref")
  /\ UNCHANGED <<disk, dir, dirlock, type, nlink, slock, name, new>>

(* fork() gives q the current directory or an open file of p.              *)
idup(p, q) ==
  /\ pc[p] = "ref" /\ pc[q] = "idle"
  /\ ref' = [ref EXCEPT ![ent[p]] = @ + 1]
  /\ ent' = [ent EXCEPT ![q] = ent[p]]
  /\ Goto(q, "ref")
  /\ UNCHANGED <<disk, dir, dirlock, entry, name, new>>

(* ilock(ip); "ilock: no type" is the panic.                               *)
ilock(p) ==
  /\ pc[p] = "ref"
  /\ LET e == ent[p] IN
       /\ slock[e] = NoProc
       /\ slock' = [slock EXCEPT ![e] = p]
       /\ valid' = [valid EXCEPT ![e] = 1]
       /\ type' = [type EXCEPT ![e] = Type(e)]
       /\ nlink' = [nlink EXCEPT ![e] = Nlink(e)]
       /\ Goto(p, IF Type(e) = 0 THEN "panic" ELSE "locked")
  /\ UNCHANGED <<disk, dir, dirlock, ref, inum, ent, name, new>>

iunlock(p) ==
  /\ pc[p] = "locked"
  /\ slock' = [slock EXCEPT ![ent[p]] = NoProc]
  /\ Goto(p, "ref")
  /\ UNCHANGED <<disk, dir, dirlock, ref, inum, valid, type, nlink, ent, name, new>>

-----------------------------------------------------------------------------
(* sys_link(): ip->nlink++ before there is an entry for it.                *)
link(p) ==
  /\ pc[p] = "locked"
  /\ Update(ent[p], nlink[ent[p]] + 1)
  /\ slock' = [slock EXCEPT ![ent[p]] = NoProc]
  /\ Goto(p, "linked")
  /\ UNCHANGED <<dir, dirlock, ref, inum, ent, name, new>>

link_entry(p, a) ==
  /\ pc[p] = "linked" /\ dirlock = NoProc
  /\ dir[a] = 0
  /\ dir' = [dir EXCEPT ![a] = inum[ent[p]]]
  /\ Goto(p, "put")
  /\ UNCHANGED <<disk, dirlock, ref, entry, ent, name, new>>

(* The new name exists, or its directory does not.                         *)
link_fails(p) ==
  /\ pc[p] = "linked" /\ dirlock = NoProc
  /\ Goto(p, "bad")
  /\ UNCHANGED <<disk, dir, dirlock, ref, entry, ent, name, new>>

(* Mutant: the count stays.                                                *)
link_undo_not(p) ==
  /\ pc[p] = "bad"
  /\ slock[ent[p]] = NoProc
  /\ Goto(p, "put")
  /\ UNCHANGED <<disk, dir, dirlock, ref, entry, ent, name, new>>

link_undo(p) ==
  /\ pc[p] = "bad"
  /\ slock[ent[p]] = NoProc
  /\ Update(ent[p], Nlink(ent[p]) - 1)
  /\ Goto(p, "put")
  /\ UNCHANGED <<dir, dirlock, ref, inum, slock, ent, name, new>>

-----------------------------------------------------------------------------
(* create() of a new name: ialloc() marks the dinode ...                   *)
ialloc(p, a, n) ==
  /\ pc[p] = "idle" /\ dirlock = NoProc
  /\ dir[a] = 0
  /\ dtype[n] = 0 /\ \A m \in Inum : m < n => dtype[m] # 0
  /\ dirlock' = p
  /\ dtype' = [dtype EXCEPT ![n] = 1]
  /\ dnlink' = [dnlink EXCEPT ![n] = 0]
  /\ name' = [name EXCEPT ![p] = a]
  /\ new' = [new EXCEPT ![p] = n]
  /\ Goto(p, "ialloc")
  /\ UNCHANGED <<dir, ref, entry, ent>>

(* ... calls iget() ...                                                    *)
ialloc_iget(p, e) ==
  /\ pc[p] = "ialloc"
  /\ iget(p, e, new[p])
  /\ new' = [new EXCEPT ![p] = 0]
  /\ Goto(p, "created")
  /\ UNCHANGED <<disk, dir, dirlock, type, nlink, slock, name>>

(* ... and create() locks the inode and makes the entry.                   *)
create(p) ==
  /\ pc[p] = "created"
  /\ slock[ent[p]] = NoProc
  /\ slock' = [slock EXCEPT ![ent[p]] = p]
  /\ Update(ent[p], 1)
  /\ dir' = [dir EXCEPT ![name[p]] = inum[ent[p]]]
  /\ dirlock' = NoProc
  /\ Goto(p, IF Type(ent[p]) = 0 THEN "panic" ELSE "locked")
  /\ UNCHANGED <<ref, inum, ent, name, new>>

-----------------------------------------------------------------------------
(* sys_unlink(): ilock(dp), dirlookup() ...                                *)
unlink(p, e, a) ==
  /\ pc[p] = "idle" /\ dirlock = NoProc
  /\ dir[a] # 0 /\ iget(p, e, dir[a])
  /\ dirlock' = p
  /\ name' = [name EXCEPT ![p] = a]
  /\ Goto(p, "unlink")
  /\ UNCHANGED <<disk, dir, type, nlink, slock, new>>

(* ... ilock(ip), which may wait with dp locked; "unlink: nlink < 1" is a  *)
(* panic ...                                                               *)
unlink_erase(p) ==
  /\ pc[p] = "unlink"
  /\ LET e == ent[p] IN
       /\ slock[e] = NoProc
       /\ slock' = [slock EXCEPT ![e] = p]
       /\ valid' = [valid EXCEPT ![e] = 1]
       /\ type' = [type EXCEPT ![e] = Type(e)]
       /\ nlink' = [nlink EXCEPT ![e] = Nlink(e)]
       /\ Goto(p, IF Type(e) = 0 \/ Nlink(e) < 1 THEN "panic" ELSE "erased")
  /\ dir' = [dir EXCEPT ![name[p]] = 0]
  /\ dirlock' = NoProc
  /\ UNCHANGED <<disk, ref, inum, ent, name, new>>

(* ... and ip->nlink--, iupdate(ip), iunlock(ip).                          *)
unlink_nlink(p) ==
  /\ pc[p] = "erased"
  /\ Update(ent[p], nlink[ent[p]] - 1)
  /\ slock' = [slock EXCEPT ![ent[p]] = NoProc]
  /\ Goto(p, "put")
  /\ UNCHANGED <<dir, dirlock, ref, inum, ent, name, new>>

-----------------------------------------------------------------------------
(* Mutant: iput() does not look at ip->ref.                                *)
LastLink(e) == valid[e] = 1 /\ nlink[e] = 0

(* The last reference to an inode without links.                           *)
Last(e) == ref[e] = 1 /\ valid[e] = 1 /\ nlink[e] = 0

(* iput(): "this acquiresleep() won't block"; it holds icache.lock.        *)
iput(p) ==
  /\ pc[p] \in {"ref", "put"}
  /\ IF Last(ent[p])
     THEN /\ slock[ent[p]] = NoProc
          /\ slock' = [slock EXCEPT ![ent[p]] = p]
          /\ Goto(p, "free")
          /\ UNCHANGED <<ref, ent>>
     ELSE /\ ref' = [ref EXCEPT ![ent[p]] = @ - 1]
          /\ ent' = [ent EXCEPT ![p] = 0]
          /\ Goto(p, "idle")
          /\ UNCHANGED slock
  /\ UNCHANGED <<disk, dir, dirlock, inum, valid, type, nlink, name, new>>

(* itrunc(), ip->type = 0, iupdate().                                      *)
iput_free(p) ==
  /\ pc[p] = "free"
  /\ type' = [type EXCEPT ![ent[p]] = 0]
  /\ dtype' = [dtype EXCEPT ![inum[ent[p]]] = 0]
  /\ dnlink' = [dnlink EXCEPT ![inum[ent[p]]] = nlink[ent[p]]]
  /\ Goto(p, "freed")
  /\ UNCHANGED <<dir, dirlock, ref, inum, valid, nlink, slock, ent, name, new>>

(* ip->valid = 0, releasesleep().                                          *)
iput_valid(p) ==
  /\ pc[p] = "freed"
  /\ valid' = [valid EXCEPT ![ent[p]] = 0]
  /\ slock' = [slock EXCEPT ![ent[p]] = NoProc]
  /\ Goto(p, "dec")
  /\ UNCHANGED <<disk, dir, dirlock, ref, inum, type, nlink, ent, name, new>>

iput_ref(p) ==
  /\ pc[p] = "dec"
  /\ ref' = [ref EXCEPT ![ent[p]] = @ - 1]
  /\ ent' = [ent EXCEPT ![p] = 0]
  /\ Goto(p, "idle")
  /\ UNCHANGED <<disk, dir, dirlock, entry, name, new>>

-----------------------------------------------------------------------------
Next ==
  \E p \in Proc :
    \/ ilock(p) \/ iunlock(p)
    \/ link(p) \/ link_fails(p) \/ link_undo(p)
    \/ create(p) \/ unlink_erase(p) \/ unlink_nlink(p)
    \/ iput(p) \/ iput_free(p) \/ iput_valid(p) \/ iput_ref(p)
    \/ \E q \in Proc : idup(p, q)
    \/ \E e \in Entry, a \in Name : namei(p, e, a) \/ unlink(p, e, a)
    \/ \E a \in Name : link_entry(p, a)
    \/ \E e \in Entry : ialloc_iget(p, e)
    \/ \E a \in Name, n \in Inum : ialloc(p, a, n)

Spec == Init /\ [][Next]_vars

-----------------------------------------------------------------------------
TypeOK ==
  /\ dtype \in [Inum -> {0, 1}] /\ dnlink \in [Inum -> Nat]
  /\ dir \in [Name -> Inum \union {0}] /\ dirlock \in Proc \union {NoProc}
  /\ ref \in [Entry -> Nat] /\ inum \in [Entry -> Inum \union {0}]
  /\ valid \in [Entry -> {0, 1}] /\ type \in [Entry -> {0, 1}]
  /\ nlink \in [Entry -> Nat]
  /\ slock \in [Entry -> Proc \union {NoProc}]
  /\ pc \in [Proc -> {"idle", "ref", "locked", "linked", "bad", "put", "ialloc", "created",
                      "unlink", "erased", "free", "freed", "dec", "panic"}]
  /\ ent \in [Proc -> Entry \union {0}] /\ name \in [Proc -> Name]
  /\ new \in [Proc -> Inum \union {0}]

(* "ip->ref == 1 means no other process can have ip locked, so this        *)
(* acquiresleep() won't block (or deadlock)".                              *)
IputWontBlock ==
  \A p \in Proc : pc[p] \in {"ref", "put"} /\ Last(ent[p]) => slock[ent[p]] = NoProc

(* The links on disk are the names of the inode, and those that link() and *)
(* unlink() are about to make or to take away.  So no name refers to a     *)
(* free inode, no process gets at one ("ilock: no type"), and unlink()     *)
(* finds a link to take away ("unlink: nlink < 1").                        *)
LinkCount ==
  /\ \A n \in Inum :
       dtype[n] = 1 =>
         dnlink[n] = Cardinality({a \in Name : dir[a] = n})
                   + Cardinality({p \in Proc : pc[p] \in {"linked", "bad", "erased"} /\ inum[ent[p]] = n})
  /\ \A a \in Name : dir[a] # 0 => dtype[dir[a]] = 1
  /\ \A p \in Proc : pc[p] # "panic"

(* "the number of in-memory pointers to the entry", and one entry for one  *)
(* inode.                                                                  *)
RefCount ==
  /\ \A e \in Entry : ref[e] = Cardinality({p \in Proc : ent[p] = e})
  /\ \A e, f \in Entry : ref[e] > 0 /\ ref[f] > 0 /\ inum[e] = inum[f] => e = f
=============================================================================
