------------------------------- MODULE Ftable -------------------------------
(***************************************************************************)
(* kernel/file.c and the descriptors of kernel/sysfile.c: processes open   *)
(* files, make pipes, dup(), close(), fork() and exit(), on a table of     *)
(* struct file that may be full.                                           *)
(*                                                                         *)
(* A step is a section under ftable.lock and what its process does to its  *)
(* own descriptors until the next one.  Inodes and pipes are here only how *)
(* often they are open: iref[i] is what iget() and iput() count, ends[k]   *)
(* are the ends of the pipe in page k.                                     *)
(***************************************************************************)
EXTENDS Integers, Sequences, FiniteSets, FiniteSetsExt

CONSTANTS
  NPROC, NFILE, NOFILE,
  Inode,        \* the files one can open
  NPIPE         \* pages kalloc() has for pipes

Proc == 1..NPROC
File == 1..NFILE
Fd   == 0..NOFILE - 1
PipeId == 1..NPIPE

FtableConstants ==
  /\ NPROC \in Nat \ {0} /\ NFILE \in Nat /\ NOFILE \in Nat \ {0} /\ NPIPE \in Nat
  /\ Inode \subseteq Nat

VARIABLES
  ref, type, obj,       \* ftable.file: type, and f->ip or f->pipe
  ofile,                \* of each process; 0 is no file
  iref, ends,
  alive, pc,
  rf, wf,               \* sys_pipe(): rf, wf; sys_open(): rf is f
  ip,                   \* sys_open(): ip; fileclose(): ff.ip or ff.pipe
  todo,                 \* files fileclose() will be called for
  fd, np                \* fork() and exit(): loop index, child

fileVars == <<ref, type, obj>>
objVars == <<iref, ends>>
vars == <<ref, type, obj, ofile, iref, ends, alive, pc, rf, wf, ip, todo, fd, np>>

NoType == "FD_NONE"
Ends == {"r", "w"}
Object == (Inode \X {"i"}) \union (PipeId \X Ends)
NoObject == <<0, "-">>

(* Process 1 with no file open.                                            *)
Init ==
  /\ ref = [f \in File |-> 0]
  /\ type = [f \in File |-> NoType]
  /\ obj = [f \in File |-> NoObject]
  /\ ofile = [p \in Proc |-> [d \in Fd |-> 0]]
  /\ iref = [i \in Inode |-> 0]
  /\ ends = [k \in PipeId |-> {}]
  /\ alive = [p \in Proc |-> p = 1]
  /\ pc = [p \in Proc |-> "user"]
  /\ rf = [p \in Proc |-> 0] /\ wf = [p \in Proc |-> 0]
  /\ ip = [p \in Proc |-> NoObject]
  /\ todo = [p \in Proc |-> <<>>]
  /\ fd = [p \in Proc |-> 0] /\ np = [p \in Proc |-> 0]

Goto(p, l) == pc' = [pc EXCEPT ![p] = l]
In(p) == alive[p] /\ pc[p] = "user"

FreeFiles == {f \in File : ref[f] = 0}
FreeFds(p) == {d \in Fd : ofile[p][d] = 0}

(* The call is over, and so are its locals.                                *)
Return(p) ==
  /\ Goto(p, "user")
  /\ rf' = [rf EXCEPT ![p] = 0] /\ wf' = [wf EXCEPT ![p] = 0]
  /\ ip' = [ip EXCEPT ![p] = NoObject]

-----------------------------------------------------------------------------
(* sys_open(): create() or namei(), and ilock().                           *)
sys_open(p, i) ==
  /\ In(p)
  /\ iref' = [iref EXCEPT ![i] = @ + 1]
  /\ ip' = [ip EXCEPT ![p] = <<i, "i">>]
  /\ Goto(p, "open")
  /\ UNCHANGED <<fileVars, ofile, ends, alive, rf, wf, todo, fd, np>>

(* filealloc() succeeds; with fdalloc() the file is open, without it       *)
(* fileclose(f) follows.                                                   *)
open_file(p) ==
  /\ pc[p] = "open" /\ FreeFiles # {}
  /\ LET f == Min(FreeFiles) IN
       /\ ref' = [ref EXCEPT ![f] = 1]
       /\ IF FreeFds(p) = {}
          THEN /\ rf' = [rf EXCEPT ![p] = f]
               /\ Goto(p, "openbad")
               /\ UNCHANGED <<type, obj, ofile, wf, ip>>
          ELSE /\ ofile' = [ofile EXCEPT ![p][Min(FreeFds(p))] = f]
               /\ type' = [type EXCEPT ![f] = "FD_INODE"]
               /\ obj' = [obj EXCEPT ![f] = ip[p]]
               /\ Return(p)
  /\ UNCHANGED <<objVars, alive, todo, fd, np>>

(* A directory opened for writing, or a device without a driver's number.  *)
open_refused(p) ==
  /\ pc[p] = "open"
  /\ Goto(p, "put")
  /\ UNCHANGED <<fileVars, ofile, objVars, alive, rf, wf, ip, todo, fd, np>>

(* filealloc() fails.                                                      *)
open_full(p) ==
  /\ pc[p] = "open" /\ FreeFiles = {}
  /\ Goto(p, "put")
  /\ UNCHANGED <<fileVars, ofile, objVars, alive, rf, wf, ip, todo, fd, np>>

(* fileclose(f) of a file that was never open: nothing else is closed.     *)
open_bad(p) ==
  /\ pc[p] = "openbad"
  /\ ref' = [ref EXCEPT ![rf[p]] = 0]
  /\ rf' = [rf EXCEPT ![p] = 0]
  /\ type' = [type EXCEPT ![rf[p]] = NoType]
  /\ Goto(p, IF type[rf[p]] = NoType THEN "put" ELSE "panic")
  /\ UNCHANGED <<obj, ofile, objVars, alive, wf, ip, todo, fd, np>>

(* iunlockput(ip), end_op().                                               *)
open_put(p) ==
  /\ pc[p] = "put"
  /\ iref' = [iref EXCEPT ![ip[p][1]] = @ - 1]
  /\ Return(p)
  /\ UNCHANGED <<fileVars, ofile, ends, alive, todo, fd, np>>

-----------------------------------------------------------------------------
(* sys_pipe(), pipealloc(): two files, one after the other ...             *)
sys_pipe(p) ==
  /\ In(p) /\ FreeFiles # {}
  /\ ref' = [ref EXCEPT ![Min(FreeFiles)] = 1]
  /\ rf' = [rf EXCEPT ![p] = Min(FreeFiles)]
  /\ Goto(p, "pipe2")
  /\ UNCHANGED <<type, obj, ofile, objVars, alive, wf, ip, todo, fd, np>>

pipe_second(p) ==
  /\ pc[p] = "pipe2"
  /\ IF FreeFiles = {}
     THEN /\ todo' = [todo EXCEPT ![p] = <<rf[p]>>]
          /\ Goto(p, "close")
          /\ UNCHANGED <<ref, wf>>
     ELSE /\ ref' = [ref EXCEPT ![Min(FreeFiles)] = 1]
          /\ wf' = [wf EXCEPT ![p] = Min(FreeFiles)]
          /\ Goto(p, "pipe3")
          /\ UNCHANGED todo
  /\ UNCHANGED <<type, obj, ofile, objVars, alive, rf, ip, fd, np>>

(* ... and a page, or "goto bad".                                          *)
pipe_nomem(p) ==
  /\ pc[p] = "pipe3" /\ \A k \in PipeId : ends[k] # {}
  /\ todo' = [todo EXCEPT ![p] = <<rf[p], wf[p]>>]
  /\ Goto(p, "close")
  /\ UNCHANGED <<fileVars, ofile, objVars, alive, rf, wf, ip, fd, np>>

(* Both ends in the descriptor table, and copyout() ok; or both closed and *)
(* no descriptor left.                                                     *)
pipe_done(p, k, ok) ==
  /\ pc[p] = "pipe3" /\ ends[k] = {} /\ \A j \in PipeId : j < k => ends[j] # {}
  /\ ends' = [ends EXCEPT ![k] = Ends]
  /\ type' = [type EXCEPT ![rf[p]] = "FD_PIPE", ![wf[p]] = "FD_PIPE"]
  /\ obj' = [obj EXCEPT ![rf[p]] = <<k, "r">>, ![wf[p]] = <<k, "w">>]
  /\ IF Cardinality(FreeFds(p)) < 2 \/ ~ok
     THEN /\ todo' = [todo EXCEPT ![p] = <<rf[p], wf[p]>>]
          /\ Goto(p, "close")
          /\ UNCHANGED <<ofile, rf, wf, ip>>
     ELSE LET d0 == Min(FreeFds(p))
              d1 == Min(FreeFds(p) \ {d0})
          IN  /\ ofile' = [ofile EXCEPT ![p][d0] = rf[p], ![p][d1] = wf[p]]
              /\ Return(p)
              /\ UNCHANGED todo
  /\ UNCHANGED <<ref, iref, alive, fd, np>>

-----------------------------------------------------------------------------
(* sys_dup(): fdalloc(f), filedup(f).                                      *)
sys_dup(p, d) ==
  /\ In(p) /\ ofile[p][d] # 0 /\ FreeFds(p) # {}
  /\ ofile' = [ofile EXCEPT ![p][Min(FreeFds(p))] = ofile[p][d]]
  /\ ref' = [ref EXCEPT ![ofile[p][d]] = @ + 1]
  /\ Goto(p, IF ref[ofile[p][d]] < 1 THEN "panic" ELSE "user")
  /\ UNCHANGED <<type, obj, objVars, alive, rf, wf, ip, todo, fd, np>>

sys_close(p, d) ==
  /\ In(p) /\ ofile[p][d] # 0
  /\ ofile' = [ofile EXCEPT ![p][d] = 0]
  /\ todo' = [todo EXCEPT ![p] = <<ofile[p][d]>>]
  /\ Goto(p, "close")
  /\ UNCHANGED <<fileVars, objVars, alive, rf, wf, ip, fd, np>>

(* Mutant: the file is closed with every descriptor.                       *)
fileclose_each(p) ==
  /\ pc[p] = "close" /\ todo[p] # <<>>
  /\ LET f == Head(todo[p]) IN
       /\ ref' = [ref EXCEPT ![f] = @ - 1]
       /\ IF type[f] = NoType THEN UNCHANGED <<type, ip, pc>>
          ELSE /\ type' = [type EXCEPT ![f] = IF ref[f] = 1 THEN NoType ELSE @]
               /\ ip' = [ip EXCEPT ![p] = obj[f]]
               /\ Goto(p, "drop")
  /\ todo' = [todo EXCEPT ![p] = Tail(@)]
  /\ UNCHANGED <<obj, ofile, objVars, alive, rf, wf, fd, np>>

(* fileclose(): the count; the last one copies the file before it frees    *)
(* the entry, which another process can have before the next step.         *)
fileclose(p) ==
  /\ pc[p] = "close" /\ todo[p] # <<>>
  /\ LET f == Head(todo[p]) IN
       /\ ref' = [ref EXCEPT ![f] = @ - 1]
       /\ IF ref[f] # 1 \/ type[f] = NoType
          THEN Goto(p, IF ref[f] < 1 THEN "panic" ELSE "close") /\ UNCHANGED <<type, ip>>
          ELSE /\ type' = [type EXCEPT ![f] = NoType]
               /\ ip' = [ip EXCEPT ![p] = obj[f]]
               /\ Goto(p, "drop")
  /\ todo' = [todo EXCEPT ![p] = Tail(@)]
  /\ UNCHANGED <<obj, ofile, objVars, alive, rf, wf, fd, np>>

(* iput(ff.ip), or pipeclose(ff.pipe, ff.writable).                        *)
close_object(p) ==
  /\ pc[p] = "drop"
  /\ IF ip[p][2] = "i"
     THEN iref' = [iref EXCEPT ![ip[p][1]] = @ - 1] /\ UNCHANGED ends
     ELSE ends' = [ends EXCEPT ![ip[p][1]] = @ \ {ip[p][2]}] /\ UNCHANGED iref
  /\ Goto(p, "close")
  /\ ip' = [ip EXCEPT ![p] = NoObject]
  /\ UNCHANGED <<fileVars, ofile, alive, rf, wf, todo, fd, np>>

(* The call returns, or exit() clears the descriptor and goes on.          *)
close_done(p) ==
  /\ pc[p] = "close" /\ todo[p] = <<>>
  /\ IF alive[p] THEN Return(p) /\ UNCHANGED ofile
     ELSE /\ ofile' = [ofile EXCEPT ![p][fd[p] - 1] = 0]
          /\ Goto(p, "exit")
          /\ UNCHANGED <<rf, wf, ip>>
  /\ UNCHANGED <<fileVars, objVars, alive, todo, fd, np>>

-----------------------------------------------------------------------------
(* fork(): filedup() of each open file in turn.                            *)
fork(p, q) ==
  /\ In(p) /\ ~alive[q] /\ pc[q] = "user"
  /\ np' = [np EXCEPT ![p] = q]
  /\ Goto(p, "fork")
  /\ UNCHANGED <<fileVars, ofile, objVars, alive, rf, wf, ip, todo, fd>>

fork_dup(p) ==
  /\ pc[p] = "fork" /\ fd[p] < NOFILE
  /\ LET f == ofile[p][fd[p]] IN
       /\ ref' = [g \in File |-> IF g = f THEN ref[g] + 1 ELSE ref[g]]
       /\ ofile' = [ofile EXCEPT ![np[p]][fd[p]] = f]
       /\ Goto(p, IF f # 0 /\ ref[f] < 1 THEN "panic" ELSE "fork")
  /\ fd' = [fd EXCEPT ![p] = @ + 1]
  /\ UNCHANGED <<type, obj, objVars, alive, rf, wf, ip, todo, np>>

fork_done(p) ==
  /\ pc[p] = "fork" /\ fd[p] = NOFILE
  /\ alive' = [alive EXCEPT ![np[p]] = TRUE]
  /\ fd' = [fd EXCEPT ![p] = 0]
  /\ np' = [np EXCEPT ![p] = 0]
  /\ Goto(p, "user")
  /\ UNCHANGED <<fileVars, ofile, objVars, rf, wf, ip, todo>>

(* exit(): fileclose() of each open file in turn.                          *)
exit(p) ==
  /\ In(p) /\ p # 1
  /\ alive' = [alive EXCEPT ![p] = FALSE]
  /\ Goto(p, "exit")
  /\ UNCHANGED <<fileVars, ofile, objVars, rf, wf, ip, todo, fd, np>>

exit_close(p) ==
  /\ pc[p] = "exit" /\ fd[p] < NOFILE
  /\ todo' = [todo EXCEPT ![p] = IF ofile[p][fd[p]] = 0 THEN <<>> ELSE <<ofile[p][fd[p]]>>]
  /\ fd' = [fd EXCEPT ![p] = @ + 1]
  /\ Goto(p, "close")
  /\ UNCHANGED <<fileVars, ofile, objVars, alive, rf, wf, ip, np>>

exit_done(p) ==
  /\ pc[p] = "exit" /\ fd[p] = NOFILE
  /\ fd' = [fd EXCEPT ![p] = 0]
  /\ Goto(p, "user")
  /\ UNCHANGED <<fileVars, ofile, objVars, alive, rf, wf, ip, todo, np>>

-----------------------------------------------------------------------------
Next ==
  \E p \in Proc :
    \/ \E i \in Inode : sys_open(p, i)
    \/ open_file(p) \/ open_refused(p) \/ open_full(p) \/ open_bad(p) \/ open_put(p)
    \/ sys_pipe(p) \/ pipe_second(p) \/ pipe_nomem(p)
    \/ \E k \in PipeId, ok \in BOOLEAN : pipe_done(p, k, ok)
    \/ \E d \in Fd : sys_dup(p, d) \/ sys_close(p, d)
    \/ fileclose(p) \/ close_object(p) \/ close_done(p)
    \/ \E q \in Proc : fork(p, q)
    \/ fork_dup(p) \/ fork_done(p)
    \/ exit(p) \/ exit_close(p) \/ exit_done(p)

Spec == Init /\ [][Next]_vars

-----------------------------------------------------------------------------
TypeOK ==
  /\ ref \in [File -> Nat] /\ type \in [File -> {NoType, "FD_INODE", "FD_PIPE"}]
  /\ obj \in [File -> Object \union {NoObject}]
  /\ ofile \in [Proc -> [Fd -> File \union {0}]]
  /\ iref \in [Inode -> Nat] /\ ends \in [PipeId -> SUBSET Ends]
  /\ alive \in [Proc -> BOOLEAN]
  /\ pc \in [Proc -> {"user", "open", "openbad", "put", "pipe2", "pipe3", "close", "drop",
                      "fork", "exit", "panic"}]
  /\ rf \in [Proc -> File \union {0}] /\ wf \in [Proc -> File \union {0}]
  /\ todo \in [Proc -> Seq(File)] /\ fd \in [Proc -> 0..NOFILE]

(* The files a process holds by a local variable of a call.                *)
Local(p) ==
  CASE pc[p] = "openbad" -> {rf[p]}
    [] pc[p] = "pipe2"   -> {rf[p]}
    [] pc[p] = "pipe3"   -> {rf[p], wf[p]}
    [] OTHER             -> {todo[p][k] : k \in 1..Len(todo[p])}

(* exit() clears a descriptor after it has closed the file.                *)
Closing(p, d) == ~alive[p] /\ pc[p] \in {"close", "drop"} /\ d = fd[p] - 1

(* f->ref counts the descriptors of all processes and the calls that are   *)
(* about to make or to close one.                                          *)
RefCounts ==
  \A f \in File :
    ref[f] = Cardinality({x \in Proc \X Fd : ofile[x[1]][x[2]] = f /\ ~Closing(x[1], x[2])})
           + Cardinality({p \in Proc : f \in Local(p)})

(* The files that hold an object, and the calls that do.                   *)
Holding(o) ==
  Cardinality({f \in File : ref[f] > 0 /\ type[f] # NoType /\ obj[f] = o})
    + Cardinality({p \in Proc : pc[p] \in {"open", "openbad", "put", "drop"} /\ ip[p] = o})

(* No entry of the table is lost in a failed open() or pipe(), and none is *)
(* free while it is in use; the last close of a file closes its inode or   *)
(* its end of the pipe, once, also when the entry is in use again by then. *)
ClosedOnce ==
  /\ RefCounts
  /\ \A i \in Inode : iref[i] = Holding(<<i, "i">>)
  /\ \A k \in PipeId, x \in Ends :
       Holding(<<k, x>>) = IF x \in ends[k] THEN 1 ELSE 0
=============================================================================
