-------------------------------- MODULE Tty --------------------------------
(***************************************************************************)
(* What the console promises to those who read it: characters are edited   *)
(* in a line, whole lines become ready, and ready characters are read in   *)
(* the order they were typed in.                                           *)
(***************************************************************************)
EXTENDS Naturals, Sequences

CONSTANTS
  Char, Ends,   \* what can be in a line, and what ends one
  Eof,          \* the character that is seen, not read
  Size
VARIABLES line, ready, out

Init == line = <<>> /\ ready = <<>> /\ out = <<>>

Type(c) ==
  /\ Len(ready) + Len(line) < Size
  /\ LET typed == Append(line, c)
     IN  IF c \in Ends \/ Len(ready) + Len(typed) = Size
         THEN line' = <<>> /\ ready' = ready \o typed
         ELSE line' = typed /\ ready' = ready
  /\ UNCHANGED out

Erase == line # <<>> /\ line' = SubSeq(line, 1, Len(line) - 1) /\ UNCHANGED <<ready, out>>
KillLine == line' = <<>> /\ UNCHANGED <<ready, out>>

(* A character is read, or an end of file seen.                            *)
Read ==
  /\ ready # <<>>
  /\ out' = <<Head(ready)>>
  /\ ready' = Tail(ready)
  /\ UNCHANGED line

(* A character is lost with a read that fails.                             *)
Lose ==
  /\ ready # <<>> /\ Head(ready) # Eof
  /\ ready' = Tail(ready)
  /\ UNCHANGED <<line, out>>

Next == (\E c \in Char : Type(c)) \/ Erase \/ KillLine \/ Read \/ Lose

Spec == Init /\ [][Next]_<<line, ready, out>>
=============================================================================
