-------------------------------- MODULE Dirs --------------------------------
(***************************************************************************)
(* Directories and paths: namex(), dirlookup() and dirlink() of            *)
(* kernel/fs.c, and the system calls of kernel/sysfile.c that change the   *)
(* tree: mkdir, mknod, link, unlink, chdir.                                *)
(*                                                                         *)
(* Below them is the inode cache, as module Icache shows it to work: ip is *)
(* the inode's number, a reference is a variable of a process that holds   *)
(* it, and whoever drops the last reference to an inode without links      *)
(* frees it.  What happens under one ip->lock is one step; a lock is kept  *)
(* from step to step only where the code waits for another one under it.   *)
(***************************************************************************)
EXTENDS Integers, Sequences, FiniteSets

CONSTANTS
  Proc, NoProc, NINODES,
  Name,           \* names that are made
  Paths,          \* bound: arguments of system calls, sequences of elements
  StrayWalks      \* whether processes look up ".." in a removed directory

Inode == 1..NINODES
ROOTINO == 1
Entry == Name \union {".", ".."}

DirsConstants ==
  /\ NoProc \notin Proc /\ NINODES \in Nat \ {0}
  /\ Name \intersect {".", "..", "/"} = {}
  /\ \A path \in Paths : path # <<>> /\ \A k \in 2..Len(path) : path[k] \in Entry
  /\ StrayWalks \in BOOLEAN

VARIABLES
  type, nlink, dirent,   \* inodes; type 0 is a free one
  lock,                  \* ip->lock held from step to step
  cwd,
  pc, op,                \* of a process: label, system call
  path, ip,              \* namex(): what is left of the path, the inode it is at
  held,                  \* a second inode that the call refers to
  new                    \* the inode that ialloc() has marked

inodes == <<type, nlink, dirent>>
vars == <<type, nlink, dirent, lock, cwd, pc, op, path, ip, held, new>>

NoEntries == [a \in Entry |-> 0]

(* Mutant: ".." is the root, as in the first directory.                    *)
Dots_root(i, dp) == [NoEntries EXCEPT !["."] = i, ![".."] = ROOTINO]

(* The entries of a new directory i in dp.                                 *)
Dots(i, dp) == [NoEntries EXCEPT !["."] = i, ![".."] = dp]

(* What mkfs leaves, and processes in the root directory.                  *)
Init ==
  /\ type = [i \in Inode |-> IF i = ROOTINO THEN "T_DIR" ELSE "free"]
  /\ nlink = [i \in Inode |-> IF i = ROOTINO THEN 1 ELSE 0]
  /\ dirent = [i \in Inode |->
       IF i = ROOTINO THEN Dots(i, i) ELSE NoEntries]
  /\ lock = [i \in Inode |-> NoProc]
  /\ cwd = [p \in Proc |-> ROOTINO]
  /\ pc = [p \in Proc |-> "user"]
  /\ op = [p \in Proc |-> "none"]
  /\ path = [p \in Proc |-> <<>>]
  /\ ip = [p \in Proc |-> 0]
  /\ held = [p \in Proc |-> 0] /\ new = [p \in Proc |-> 0]

-----------------------------------------------------------------------------
Panics == {"ilock: no type", "ialloc: no inodes", "unlink: nlink < 1"}
Up == \A p \in Proc : pc[p] \notin Panics

At(p, l) == Up /\ pc[p] = l
Goto(p, l) == pc' = [pc EXCEPT ![p] = l]

(* ip->ref: the pointers to inode i.                                       *)
Ref(i) == Cardinality({p \in Proc : cwd[p] = i}) + Cardinality({p \in Proc : ip[p] = i})
          + Cardinality({p \in Proc : held[p] = i})

(* iput() of the inodes S, after the changes ty, nl and de of this step.   *)
Iput(S, ty, nl, de) ==
  LET Gone(i) == i \in S /\ nl[i] = 0 /\ Ref(i)' = 0
  IN  /\ type' = [i \in Inode |-> IF Gone(i) THEN "free" ELSE ty[i]]
      /\ nlink' = nl
      /\ dirent' = [i \in Inode |-> IF Gone(i) THEN NoEntries ELSE de[i]]

(* The system call is over: its references are dropped.                    *)
Return(p, S, ty, nl, de) ==
  /\ new' = new
  /\ ip' = [ip EXCEPT ![p] = 0] /\ held' = [held EXCEPT ![p] = 0]
  /\ path' = [path EXCEPT ![p] = <<>>] /\ op' = [op EXCEPT ![p] = "none"]
  /\ Iput(S, ty, nl, de)
  /\ Goto(p, "user")

(* It fails without a change.                                              *)
Fail(p) == UNCHANGED cwd /\ Return(p, {ip[p], held[p]}, type, nlink, dirent)

(* ilock(i), and its panic.                                                *)
Free(i) == lock[i] = NoProc
NoType(p, i) ==
  /\ type[i] = "free"
  /\ Goto(p, "ilock: no type")
  /\ UNCHANGED <<inodes, lock, cwd, op, path, ip, held, new>>

-----------------------------------------------------------------------------
(* skipelem() copies the next element to name; dirlookup() is the inode of *)
(* a name in a directory, or 0.                                            *)
name(p) == Head(path[p])
dirlookup(dp, a) == dirent[dp][a]

Calls == {"mkdir", "mknod", "link", "unlink", "chdir"}
WantsParent(p) == op[p] \in {"mkdir", "mknod", "unlink", "newname"}

(* namex() begins at the root or in the current directory.                 *)
Start(p, s) ==
  /\ ip' = [ip EXCEPT ![p] = IF Head(s) = "/" THEN ROOTINO ELSE cwd[p]]
  /\ path' = [path EXCEPT ![p] = IF Head(s) = "/" THEN Tail(s) ELSE s]
  /\ Goto(p, "namex")

syscall(p, o, s) ==
  /\ At(p, "user")
  /\ Start(p, s)
  /\ op' = [op EXCEPT ![p] = o]
  /\ UNCHANGED <<inodes, lock, cwd, held, new>>

(* What the caller of namex() does when it returns 0; sys_link() has a     *)
(* count to put back.                                                      *)
NotFound(p) ==
  IF op[p] = "newname"
  THEN /\ UNCHANGED <<cwd, op, held, new>>
       /\ ip' = [ip EXCEPT ![p] = 0] /\ path' = [path EXCEPT ![p] = <<>>]
       /\ Iput({ip[p]}, type, nlink, dirent)
       /\ Goto(p, "bad")
  ELSE Fail(p)

(* The look-up is not of ".." in a removed directory, or that is allowed.  *)
Allowed(p) == name(p) = ".." /\ nlink[ip[p]] = 0 => StrayWalks

(* One round of namex(): ilock(ip), dirlookup(), iunlockput(ip).           *)
namex(p) ==
  /\ At(p, "namex") /\ path[p] # <<>> /\ Free(ip[p])
  /\ \/ NoType(p, ip[p])
     \/ /\ type[ip[p]] = "T_FILE" /\ NotFound(p)
        /\ UNCHANGED lock
     \/ /\ type[ip[p]] = "T_DIR"
        /\ IF WantsParent(p) /\ Len(path[p]) = 1
           THEN Goto(p, op[p]) /\ UNCHANGED <<inodes, lock, cwd, op, path, ip, held, new>>
           ELSE LET next == dirlookup(ip[p], name(p)) IN
                /\ Allowed(p)
                /\ UNCHANGED lock
                /\ IF next = 0 THEN NotFound(p)
                   ELSE /\ UNCHANGED <<cwd, pc, op, held, new>>
                        /\ ip' = [ip EXCEPT ![p] = next]
                        /\ path' = [path EXCEPT ![p] = Tail(@)]
                        /\ Iput({ip[p]}, type, nlink, dirent)

(* No element is left.                                                     *)
namex_end(p) ==
  /\ At(p, "namex") /\ path[p] = <<>>
  /\ IF WantsParent(p) THEN NotFound(p) /\ UNCHANGED lock
     ELSE Goto(p, op[p]) /\ UNCHANGED <<inodes, lock, cwd, op, path, ip, held, new>>

-----------------------------------------------------------------------------
(* sys_chdir() with the inode: iput() of the old directory.                *)
chdir(p) ==
  /\ At(p, "chdir") /\ Free(ip[p])
  /\ \/ NoType(p, ip[p])
     \/ type[ip[p]] = "T_FILE" /\ Fail(p) /\ UNCHANGED lock
     \/ /\ type[ip[p]] = "T_DIR"
        /\ cwd' = [cwd EXCEPT ![p] = ip[p]]
        /\ Return(p, {cwd[p]}, type, nlink, dirent)
        /\ UNCHANGED lock

(* create() of a name that exists: unlocks dp, looks at the type.          *)
create_exists(p) ==
  /\ At(p, "mkdir") \/ At(p, "mknod")
  /\ Free(ip[p]) /\ Allowed(p)
  /\ LET i == dirlookup(ip[p], name(p)) IN
       /\ i # 0
       /\ UNCHANGED <<lock, cwd, op, path, held, new>>
       /\ ip' = [ip EXCEPT ![p] = i]
       /\ Iput({ip[p]}, type, nlink, dirent)
       /\ Goto(p, "exists")

exists(p) ==
  /\ At(p, "exists") /\ Free(ip[p])
  /\ \/ NoType(p, ip[p])
     \/ type[ip[p]] # "free" /\ Fail(p) /\ UNCHANGED lock

TypeOf(p) == IF op[p] = "mkdir" THEN "T_DIR" ELSE "T_FILE"
FreeInodes == {i \in Inode : type[i] = "free"}

(* create() of a new name: ialloc() marks an inode, with dp locked ...     *)
ialloc(p) ==
  /\ At(p, "mkdir") \/ At(p, "mknod")
  /\ Free(ip[p]) /\ dirlookup(ip[p], name(p)) = 0
  /\ IF FreeInodes = {}
     THEN Goto(p, "ialloc: no inodes") /\ UNCHANGED <<inodes, lock, new>>
     ELSE \E i \in FreeInodes :
            /\ \A j \in FreeInodes : i <= j
            /\ type' = [type EXCEPT ![i] = TypeOf(p)]
            /\ new' = [new EXCEPT ![p] = i]
            /\ lock' = [lock EXCEPT ![ip[p]] = p]
            /\ Goto(p, "iget")
            /\ UNCHANGED <<nlink, dirent>>
  /\ UNCHANGED <<cwd, op, path, ip, held>>

(* ... refers to it only then ...                                          *)
iget(p) ==
  /\ At(p, "iget")
  /\ held' = [held EXCEPT ![p] = new[p]]
  /\ new' = [new EXCEPT ![p] = 0]
  /\ Goto(p, "create")
  /\ UNCHANGED <<inodes, lock, cwd, op, path, ip>>

(* ... and create() gives it a link, its dots, and then its name.          *)
create(p) ==
  /\ At(p, "create") /\ Free(held[p])
  /\ LET dp == ip[p]
         i  == held[p]
         dir == op[p] = "mkdir"
     IN  \/ NoType(p, i)
         \/ /\ type[i] # "free"
            /\ lock' = [lock EXCEPT ![dp] = NoProc]
            /\ UNCHANGED cwd
            /\ Return(p, {dp, i}, type,
                 [nlink EXCEPT ![i] = 1, ![dp] = IF dir THEN @ + 1 ELSE @],
                 [dirent EXCEPT ![i] = IF dir THEN Dots(i, dp) ELSE @, ![dp][name(p)] = i])

-----------------------------------------------------------------------------
(* sys_link(): the count first, then the walk to the new name.             *)
link(p, s) ==
  /\ At(p, "link") /\ Free(ip[p])
  /\ \/ NoType(p, ip[p])
     \/ type[ip[p]] = "T_DIR" /\ Fail(p) /\ UNCHANGED lock
     \/ /\ type[ip[p]] = "T_FILE"
        /\ nlink' = [nlink EXCEPT ![ip[p]] = @ + 1]
        /\ held' = [held EXCEPT ![p] = ip[p]]
        /\ op' = [op EXCEPT ![p] = "newname"]
        /\ Start(p, s)
        /\ UNCHANGED <<type, dirent, lock, cwd, new>>

(* dirlink(dp, name, ip->inum).                                            *)
newname(p) ==
  /\ At(p, "newname") /\ Free(ip[p])
  /\ IF dirlookup(ip[p], name(p)) # 0 THEN NotFound(p)
     ELSE /\ UNCHANGED cwd
          /\ Return(p, {ip[p], held[p]}, type, nlink,
               [dirent EXCEPT ![ip[p]][name(p)] = held[p]])
  /\ UNCHANGED lock

bad(p) ==
  /\ At(p, "bad") /\ Free(held[p])
  /\ UNCHANGED <<lock, cwd>>
  /\ Return(p, {held[p]}, type, [nlink EXCEPT ![held[p]] = @ - 1], dirent)

-----------------------------------------------------------------------------
(* Mutant: "." and ".." can be removed.                                    *)
unlink_dots(p) ==
  /\ At(p, "unlink") /\ Free(ip[p])
  /\ LET i == dirlookup(ip[p], name(p)) IN
       IF i = 0 THEN Fail(p) /\ UNCHANGED lock
       ELSE /\ lock' = [lock EXCEPT ![ip[p]] = p]
            /\ held' = [held EXCEPT ![p] = i]
            /\ Goto(p, "erase")
            /\ UNCHANGED <<inodes, cwd, op, path, ip, new>>

(* sys_unlink(): ilock(dp), dirlookup() ...                                *)
unlink(p) ==
  /\ At(p, "unlink") /\ Free(ip[p])
  /\ LET i == dirlookup(ip[p], name(p)) IN
       IF name(p) \in {".", ".."} \/ i = 0 THEN Fail(p) /\ UNCHANGED lock
       ELSE /\ lock' = [lock EXCEPT ![ip[p]] = p]
            /\ held' = [held EXCEPT ![p] = i]
            /\ Goto(p, "erase")
            /\ UNCHANGED <<inodes, cwd, op, path, ip, new>>

isdirempty(i) == \A a \in Name : dirent[i][a] = 0

(* What unlink() may erase.                                                *)
Removable(i) == type[i] = "T_DIR" => isdirempty(i)

(* ... and ilock(ip), with dp locked.                                      *)
erase(p) ==
  /\ At(p, "erase") /\ Free(held[p])
  /\ LET dp == ip[p]
         i  == held[p]
         dir == IF type[i] = "T_DIR" THEN 1 ELSE 0
     IN  \/ NoType(p, i)
         \/ /\ type[i] # "free" /\ nlink[i] < 1
            /\ Goto(p, "unlink: nlink < 1")
            /\ UNCHANGED <<inodes, lock, cwd, op, path, ip, held, new>>
         \/ /\ type[i] # "free" /\ nlink[i] >= 1
            /\ lock' = [lock EXCEPT ![dp] = NoProc]
            /\ IF Removable(i)
               THEN /\ UNCHANGED cwd
                    /\ Return(p, {dp, i}, type, [nlink EXCEPT ![i] = @ - 1, ![dp] = @ - dir],
                         [dirent EXCEPT ![dp][name(p)] = 0])
               ELSE Fail(p)

-----------------------------------------------------------------------------
Next ==
  \E p \in Proc :
    \/ \E o \in Calls, s \in Paths : syscall(p, o, s)
    \/ namex(p) \/ namex_end(p)
    \/ chdir(p) \/ create_exists(p) \/ exists(p) \/ ialloc(p) \/ iget(p) \/ create(p)
    \/ \E s \in Paths : link(p, s)
    \/ newname(p) \/ bad(p) \/ unlink(p) \/ erase(p)

Spec == Init /\ [][Next]_vars

-----------------------------------------------------------------------------
TypeOK ==
  /\ type \in [Inode -> {"free", "T_DIR", "T_FILE"}] /\ nlink \in [Inode -> Nat]
  /\ dirent \in [Inode -> [Entry -> Inode \union {0}]]
  /\ lock \in [Inode -> Proc \union {NoProc}]
  /\ cwd \in [Proc -> Inode]
  /\ ip \in [Proc -> Inode \union {0}] /\ held \in [Proc -> Inode \union {0}]
  /\ new \in [Proc -> Inode \union {0}]

(* The names of inode i in the directories T, and what the names from the  *)
(* root on lead to in k steps.                                             *)
NamesIn(T, i) == {x \in T \X Name : dirent[x[1]][x[2]] = i}
InTree[k \in Nat] ==
  IF k = 0 THEN {ROOTINO}
  ELSE LET T == InTree[k - 1]
       IN  T \union ({dirent[x[1]][x[2]] : x \in T \X Name} \ {0})

(* Whatever system calls do at the same time, names below the root form a  *)
(* tree of allocated inodes: a directory has one name, ".." is where that  *)
(* name is, and its links are that name and the ".." of its directories;   *)
(* and a file has at least as many links as names.                         *)
IsTree ==
  LET T == InTree[NINODES - 1]
      Subdirs(i) == {a \in Name : dirent[i][a] # 0 /\ type[dirent[i][a]] = "T_DIR"}
  IN  \A i \in T :
        /\ type[i] # "free"
        /\ type[i] = "T_FILE" => nlink[i] >= Cardinality(NamesIn(T, i))
        /\ type[i] = "T_DIR" =>
             /\ nlink[i] = 1 + Cardinality(Subdirs(i))
             /\ dirent[i]["."] = i
             /\ IF i = ROOTINO THEN dirent[i][".."] = i /\ NamesIn(T, i) = {}
                ELSE \E a \in Name : NamesIn(T, i) = {<<dirent[i][".."], a>>}

(* The inode whose lock a process waits for, holding another or none.      *)
Wants(p) ==
  CASE pc[p] \in {"bad", "create", "erase"} -> {held[p]}
    [] pc[p] \in {"user", "iget"} \union Panics -> {}
    [] OTHER -> {ip[p]}

(* namex() holds one lock at a time, create() and unlink() lock a          *)
(* directory before what is in it: processes never wait in a circle.       *)
NoCircularWait ==
  ~ \E S \in (SUBSET Proc) \ {{}} : \A p \in S : \E i \in Wants(p) : lock[i] \in S

(* ilock() finds the inode that a name or ".." led to allocated: the panic *)
(* "ilock: no type" is not reached.                                        *)
NamesAllocated == \A p \in Proc : pc[p] # "ilock: no type"
=============================================================================
