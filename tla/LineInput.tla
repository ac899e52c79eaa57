----------------------------- MODULE LineInput ------------------------------
(***************************************************************************)
(* What the console promises to the programs that read it: characters are  *)
(* collected in a line that can be edited, and given to readers in the     *)
(* order in which they were typed once the line is complete, or the space  *)
(* for input is used up.                                                   *)
(***************************************************************************)
EXTENDS Naturals, Sequences

CONSTANTS Char, EndsLine, Size

VARIABLES line, ready   \* being edited; complete and not yet read

vars == <<line, ready>>

Init == line = <<>> /\ ready = <<>>

Type(c) ==
  /\ Len(line) + Len(ready) < Size
  /\ IF c \in EndsLine \/ Len(line) + Len(ready) + 1 = Size
     THEN line' = <<>> /\ ready' = ready \o Append(line, c)
     ELSE line' = Append(line, c) /\ ready' = ready

Erase ==
  /\ line # <<>>
  /\ line' = SubSeq(line, 1, Len(line) - 1)
  /\ ready' = ready

EraseLine == line' = <<>> /\ ready' = ready

Take ==
  /\ ready # <<>>
  /\ ready' = Tail(ready)
  /\ line' = line

Next == (\E c \in Char : Type(c)) \/ Erase \/ EraseLine \/ Take

Spec == Init /\ [][Next]_vars
=============================================================================
