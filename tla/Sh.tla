--------------------------------- MODULE Sh ---------------------------------
(***************************************************************************)
(* user/sh.c: the shell parses a line and runs it.                         *)
(*                                                                         *)
(* A line is a sequence of what gettoken() returns: "a" is a word, "+" is  *)
(* ">>".  A pointer into buf is the number of a token, and a word is known *)
(* by it.  A command is a tuple that begins with its type; a "|" names the *)
(* pipe it makes.  The kernel's part is that of Ftable: open(), dup() and  *)
(* pipe() take the lowest free descriptors, fork() copies them.            *)
(***************************************************************************)
EXTENDS Integers, Sequences, FiniteSets, SequencesExt

CONSTANTS
  Lines,       \* bound: what is typed
  MAXARGS,
  NOFILE

ShConstants == MAXARGS \in Nat \ {0} /\ NOFILE \in Nat /\ NOFILE >= 5

VARIABLES
  buf,         \* the line
  proc         \* the shell, proc[1], and the processes that run the line: the
               \* command, the descriptors, the parent and the label of each

vars == <<buf, proc>>

-----------------------------------------------------------------------------
(* The token that gettoken() or peek() finds at s.                         *)
Tok(s) == IF s <= Len(buf) THEN buf[s] ELSE "end"
peek(s, toks) == Tok(s) \in toks

(* What a parsing function returns: a command and the place after it, or   *)
(* the exit(1) of panic().                                                 *)
Ok(cmd, s) == [ok |-> TRUE, cmd |-> cmd, at |-> s]
Panic == [ok |-> FALSE]

execcmd(argv) == <<"EXEC", argv>>
redircmd(cmd, tok, file) == <<"REDIR", cmd, file, IF tok = "<" THEN 0 ELSE 1, tok>>
pipecmd(left, right, s) == <<"PIPE", left, right, s>>
listcmd(left, right) == <<"LIST", left, right>>
backcmd(cmd) == <<"BACK", cmd>>

Redir == {"<", ">", "+"}

(* What is done with the result of a function that has not panicked.       *)
Then(x, F(_)) == IF x.ok THEN F(x) ELSE Panic

(* parseredirs(): the commands that it wraps around one, as tokens.        *)
RECURSIVE parseredirs(_, _)
parseredirs(r, s) ==
  IF ~peek(s, Redir) THEN Ok(r, s)
  ELSE IF Tok(s + 1) # "a" THEN Panic
  ELSE parseredirs(Append(r, s), s + 2)

Wrap(cmd, r) == FoldLeft(LAMBDA c, s : redircmd(c, Tok(s), s + 1), cmd, r)

(* The loop of parseexec(), with the words and redirections so far.        *)
RECURSIVE Words(_, _, _)
Words(argv, r, s) ==
  IF peek(s, {"|", ")", "&", ";", "end"}) THEN Ok(Wrap(execcmd(argv), r), s)
  ELSE IF Tok(s) # "a" \/ Len(argv) + 1 >= MAXARGS THEN Panic
  ELSE Then(parseredirs(r, s + 1), LAMBDA x : Words(Append(argv, s), x.cmd, x.at))

RECURSIVE parseline(_), parsepipe(_), Backs(_, _)

parseblock(s) ==
  Then(parseline(s + 1), LAMBDA x :
    IF ~peek(x.at, {")"}) THEN Panic
    ELSE Then(parseredirs(<<>>, x.at + 1), LAMBDA r : Ok(Wrap(x.cmd, r.cmd), r.at)))

parseexec(s) ==
  IF peek(s, {"("}) THEN parseblock(s)
  ELSE Then(parseredirs(<<>>, s), LAMBDA r : Words(<<>>, r.cmd, r.at))

parsepipe(s) ==
  Then(parseexec(s), LAMBDA x :
    IF ~peek(x.at, {"|"}) THEN x
    ELSE Then(parsepipe(x.at + 1), LAMBDA y : Ok(pipecmd(x.cmd, y.cmd, x.at), y.at)))

Backs(cmd, s) == IF peek(s, {"&"}) THEN Backs(backcmd(cmd), s + 1) ELSE Ok(cmd, s)

(* Mutant: what follows a ";" is a pipe, not a line.                       *)
parseline_pipe(s) ==
  Then(parsepipe(s), LAMBDA x :
    Then(Backs(x.cmd, x.at), LAMBDA b :
      IF ~peek(b.at, {";"}) THEN b
      ELSE Then(parsepipe(b.at + 1), LAMBDA y : Ok(listcmd(b.cmd, y.cmd), y.at))))

parseline(s) ==
  Then(parsepipe(s), LAMBDA x :
    Then(Backs(x.cmd, x.at), LAMBDA b :
      IF ~peek(b.at, {";"}) THEN b
      ELSE Then(parseline(b.at + 1), LAMBDA y : Ok(listcmd(b.cmd, y.cmd), y.at))))

parsecmd ==
  Then(parseline(1), LAMBDA x : IF x.at = Len(buf) + 1 THEN x ELSE Panic)

(* The words that nulterminate() ends.                                     *)
RECURSIVE nulterminate(_)
nulterminate(cmd) ==
  CASE cmd[1] = "EXEC"  -> ToSet(cmd[2])
    [] cmd[1] = "REDIR" -> nulterminate(cmd[2]) \union {cmd[3]}
    [] cmd[1] \in {"PIPE", "LIST"} -> nulterminate(cmd[2]) \union nulterminate(cmd[3])
    [] cmd[1] = "BACK"  -> nulterminate(cmd[2])

-----------------------------------------------------------------------------
(* What a descriptor refers to: nothing, the console, a file opened for    *)
(* the redirection at a token, an end of the pipe of a "|".                *)
Closed == <<>>
Console == <<"console">>
File(s) == <<"file", s>>
ReadEnd(s) == <<"read", s>>
WriteEnd(s) == <<"write", s>>

Fd == 0..(NOFILE - 1)
Lowest(fd) == CHOOSE n \in Fd : fd[n] = Closed /\ \A m \in 0..(n - 1) : fd[m] # Closed
close(fd, n) == [fd EXCEPT ![n] = Closed]
open(fd, f) == [fd EXCEPT ![Lowest(fd)] = f]
dup(fd, n) == open(fd, fd[n])
p0(fd, s) == CHOOSE n \in Fd : fd[n] = ReadEnd(s)
p1(fd, s) == CHOOSE n \in Fd : fd[n] = WriteEnd(s)

(* What the two children of a PIPE do before they call runcmd().           *)
LeftFd(fd, s) == close(close(dup(close(fd, 1), p1(fd, s)), p0(fd, s)), p1(fd, s))
(* Mutant: the reader keeps the end it does not use.                       *)
RightFd_open(fd, s) == close(dup(close(fd, 0), p0(fd, s)), p0(fd, s))
RightFd(fd, s) == close(close(dup(close(fd, 0), p0(fd, s)), p0(fd, s)), p1(fd, s))

Init ==
  /\ buf = <<>>
  /\ \E held \in SUBSET (0..2) :
       proc = <<[cmd |-> <<>>, parent |-> 0, at |-> "main",
                 fd |-> [n \in Fd |-> IF n \in held THEN Console ELSE Closed]]>>

At(i, l) == proc[i].at = l
Is(i, type) == At(i, "run") /\ proc[i].cmd[1] = type
Goto(i, l) == proc' = [proc EXCEPT ![i].at = l]

(* fork1(): the child goes on with a command and descriptors; panic() ends *)
(* the caller when there is no process to be had.                          *)
fork1(i, self, cmd, fd, l) ==
  \/ proc' = Append([proc EXCEPT ![i] = self], [cmd |-> cmd, fd |-> fd, parent |-> i, at |-> l])
  \/ Goto(i, "exit")

(* wait(): one child that has exited.                                      *)
wait(i, self) ==
  \E c \in DOMAIN proc :
    /\ proc[c].parent = i /\ At(c, "exit")
    /\ proc' = [proc EXCEPT ![c].at = "reaped", ![i] = self]

(* main(): three descriptors are open; the fourth is closed again.         *)
consoles ==
  /\ At(1, "main")
  /\ proc' = [proc EXCEPT ![1].at = "prompt",
                          ![1].fd = [n \in Fd |-> IF n < 3 THEN Console ELSE @[n]]]
  /\ UNCHANGED buf

(* getcmd() and the loop of main(), for one line: a command, a cd that the *)
(* shell does itself, or the end of the input.                             *)
getcmd ==
  /\ At(1, "prompt")
  /\ \/ /\ buf' \in Lines
        /\ fork1(1, [proc[1] EXCEPT !.at = "wait"], <<>>, proc[1].fd, "parse")
     \/ buf' = <<"cd">> /\ Goto(1, "done")
     \/ buf' = <<>> /\ Goto(1, "exit")

main_wait == At(1, "wait") /\ wait(1, [proc[1] EXCEPT !.at = "done"]) /\ UNCHANGED buf

parse(i) ==
  /\ At(i, "parse")
  /\ IF parsecmd.ok THEN proc' = [proc EXCEPT ![i].at = "run", ![i].cmd = parsecmd.cmd]
     ELSE Goto(i, "exit")
  /\ UNCHANGED buf

-----------------------------------------------------------------------------
(* runcmd().                                                               *)
run_exec(i) ==
  /\ Is(i, "EXEC")
  /\ \/ proc[i].cmd[2] # <<>> /\ Goto(i, "program")
     \/ Goto(i, "exit")
  /\ UNCHANGED buf

run_redir(i) ==
  /\ Is(i, "REDIR")
  /\ LET c == proc[i].cmd IN
     \/ proc' = [proc EXCEPT ![i].cmd = c[2], ![i].fd = open(close(@, c[4]), File(c[3]))]
     \/ Goto(i, "exit")
  /\ UNCHANGED buf

run_list(i) ==
  /\ Is(i, "LIST")
  /\ LET me == proc[i] IN
     fork1(i, [me EXCEPT !.at = "list", !.cmd = @[3]], me.cmd[2], me.fd, "run")
  /\ UNCHANGED buf

list_wait(i) == At(i, "list") /\ wait(i, [proc[i] EXCEPT !.at = "run"]) /\ UNCHANGED buf

run_pipe(i) ==
  /\ Is(i, "PIPE")
  /\ LET me == proc[i]
         s == me.cmd[4]
         fd == open(open(me.fd, ReadEnd(s)), WriteEnd(s))
     IN  fork1(i, [me EXCEPT !.at = "right", !.fd = fd], me.cmd[2], LeftFd(fd, s), "run")
  /\ UNCHANGED buf

pipe_right(i) ==
  /\ At(i, "right")
  /\ LET me == proc[i]
         s == me.cmd[4]
     IN  fork1(i, [me EXCEPT !.at = "wait2", !.fd = close(close(@, p0(@, s)), p1(@, s))],
               me.cmd[3], RightFd(me.fd, s), "run")
  /\ UNCHANGED buf

pipe_wait(i) ==
  /\ \/ At(i, "wait2") /\ wait(i, [proc[i] EXCEPT !.at = "wait1"])
     \/ At(i, "wait1") /\ wait(i, [proc[i] EXCEPT !.at = "exit"])
  /\ UNCHANGED buf

run_back(i) ==
  /\ Is(i, "BACK")
  /\ fork1(i, [proc[i] EXCEPT !.at = "exit"], proc[i].cmd[2], proc[i].fd, "run")
  /\ UNCHANGED buf

(* The program that was exec'd ends (external).                            *)
program(i) == At(i, "program") /\ Goto(i, "exit") /\ UNCHANGED buf

Runs(i) ==
  \/ parse(i) \/ run_exec(i) \/ run_redir(i) \/ run_list(i) \/ list_wait(i)
  \/ run_pipe(i) \/ pipe_right(i) \/ pipe_wait(i) \/ run_back(i) \/ program(i)

Next == consoles \/ getcmd \/ main_wait \/ \E i \in DOMAIN proc : Runs(i)

Spec == Init /\ [][Next]_vars

-----------------------------------------------------------------------------
(* What a line means, as a grammar: the trees of the tokens from i to j.   *)
(*   line ::= back | back ";" line      back ::= pipe | back "&"           *)
(*   pipe ::= exec | exec "|" pipe      exec ::= "(" line ")" redir*       *)
(*   redir ::= ("<"|">"|">>") word              | (word | redir)*          *)
From(i, j) == {k \in i..j : buf[k] \in Redir}
Files(i, j) == {k + 1 : k \in From(i, j)}
Plain(i, j) == (i..j) \ (From(i, j) \union Files(i, j))
Redirs(i, j) == Files(i, j) \subseteq {k \in i..j : buf[k] = "a"}
Order(S) == SetToSortSeq(S, LAMBDA a, b : a < b)
Wrapped(cmd, i, j) == Wrap(cmd, Order(From(i, j)))

RECURSIVE LineTrees(_, _), PipeTrees(_, _), BackTrees(_, _)
SimpleTrees(i, j) ==
  IF /\ Redirs(i, j)
     /\ \A k \in Plain(i, j) : buf[k] = "a"
     /\ Cardinality(Plain(i, j)) < MAXARGS
  THEN {Wrapped(execcmd(Order(Plain(i, j))), i, j)} ELSE {}
ExecTrees(i, j) ==
  SimpleTrees(i, j)
  \union UNION {{Wrapped(c, k + 1, j) : c \in LineTrees(i + 1, k - 1)} :
                k \in {k \in (i + 1)..j : /\ buf[i] = "(" /\ buf[k] = ")"
                                         /\ Redirs(k + 1, j) /\ Plain(k + 1, j) = {}}}
PipeTrees(i, j) ==
  ExecTrees(i, j) \union
  UNION {{pipecmd(l, r, k) : l \in ExecTrees(i, k - 1), r \in PipeTrees(k + 1, j)} :
         k \in {k \in i..j : buf[k] = "|"}}
BackTrees(i, j) ==
  PipeTrees(i, j) \union
  IF i <= j /\ buf[j] = "&" THEN {backcmd(c) : c \in BackTrees(i, j - 1)} ELSE {}
LineTrees(i, j) ==
  BackTrees(i, j) \union
  UNION {{listcmd(l, r) : l \in BackTrees(i, k - 1), r \in LineTrees(k + 1, j)} :
         k \in {k \in i..j : buf[k] = ";"}}

(* A line with one meaning in the grammar is parsed to it, a line without  *)
(* one is refused, no line has two, and nulterminate() ends each of its    *)
(* words, whatever the order of words, redirections and operators.         *)
ParsesBack ==
  \A i \in DOMAIN proc :
    At(i, "parse") =>
      /\ LineTrees(1, Len(buf)) = IF parsecmd.ok THEN {parsecmd.cmd} ELSE {}
      /\ parsecmd.ok => nulterminate(parsecmd.cmd) = {k \in DOMAIN buf : buf[k] = "a"}

(* The programs of a command with their standard input and output, when    *)
(* the command has in and out: of two redirections of one descriptor the   *)
(* first in the text holds.                                                *)
RECURSIVE Programs(_, _, _)
Programs(c, in, out) ==
  CASE c[1] = "EXEC"  -> {<<c[2], in, out>>}
    [] c[1] = "REDIR" -> IF c[4] = 0 THEN Programs(c[2], File(c[3]), out)
                         ELSE Programs(c[2], in, File(c[3]))
    [] c[1] = "PIPE"  -> Programs(c[2], in, WriteEnd(c[4]))
                         \union Programs(c[3], ReadEnd(c[4]), out)
    [] c[1] = "LIST"  -> Programs(c[2], in, out) \union Programs(c[3], in, out)
    [] c[1] = "BACK"  -> Programs(c[2], in, out)

(* Every program that runcmd() starts has the descriptors its place in the *)
(* line gives it: input, output, the console for errors and nothing else;  *)
(* and whoever waits holds nothing else either.  An end of a pipe that     *)
(* stays open anywhere keeps its reader from ever seeing the end of file.  *)
Plumbed ==
  \A i \in DOMAIN proc :
    LET me == proc[i] IN
    /\ me.at \in {"program", "wait", "wait2", "wait1", "list"} =>
         {n \in Fd : me.fd[n] # Closed} = 0..2 /\ me.fd[2] = Console
    /\ me.at = "program" =>
         <<me.cmd[2], me.fd[0], me.fd[1]>> \in Programs(parsecmd.cmd, Console, Console)
=============================================================================
