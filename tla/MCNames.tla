------------------------------ MODULE MCNames ------------------------------
(***************************************************************************)
(* Inodes for TLC: the cache they are in, and the directories that name    *)
(* them.  The two share no state here, so that one moves in a behaviour    *)
(* and the other stays in its initial state.                               *)
(***************************************************************************)
EXTENDS Icache, Sequences, TLC

CONSTANTS Walker, NINODES, StrayWalks

VARIABLES
  layer,
  ftype, flink, dirent, flock, cwd, wpc, op, path, ip, held, fresh

dirVars == <<ftype, flink, dirent, flock, cwd, wpc, op, path, ip, held, fresh>>

(* Names relative to the current directory and to the root, and the parent *)
(* directory.  chdir() makes longer paths of them.                         *)
MCPaths == {<<"a">>, <<"/", "b">>, <<"..">>}

D == INSTANCE Dirs WITH
  Proc <- Walker, Name <- {"a", "b"}, Paths <- MCPaths,
  type <- ftype, nlink <- flink, lock <- flock, pc <- wpc, new <- fresh

ASSUME DirsAssumption == D!DirsConstants

MCInit == Init /\ D!Init /\ layer \in {"cache", "dirs"}

MCNext ==
  /\ UNCHANGED layer
  /\ \/ layer = "cache" /\ Next   /\ UNCHANGED dirVars
     \/ layer = "dirs"  /\ D!Next /\ UNCHANGED vars

MCSpec == MCInit /\ [][MCNext]_<<layer, vars, dirVars>>

Symmetry == Permutations(Proc) \union Permutations(Walker)

-----------------------------------------------------------------------------
(* create(), link() and unlink() keep the names below the root a tree.     *)
IsTree == D!IsTree

(* namex(), create() and unlink() do not wait for inodes in a circle.      *)
NoCircularWait == D!NoCircularWait

(* ilock() does not panic with "ilock: no type".                           *)
NamesAllocated == D!NamesAllocated
=============================================================================
