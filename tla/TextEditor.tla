----------------------------- MODULE TextEditor -----------------------------
(****************************************************************************)
(* What a line editor promises: a text with a cursor in it, which keys     *)
(* insert into, delete from and move over, and which a line of the past    *)
(* may replace.                                                            *)
(****************************************************************************)
EXTENDS Naturals, Sequences, SequencesExt

CONSTANTS Characters, Capacity
VARIABLES before, after,        \* the text on either side of the cursor
          past                  \* the lines entered so far

vars == <<before, after, past>>
text == before \o after

Init == before = <<>> /\ after = <<>> /\ past = <<>>

Insert == /\ Len(text) < Capacity
          /\ \E c \in Characters : before' = Append(before, c)
          /\ UNCHANGED <<after, past>>
Erase == /\ before # <<>>
         /\ before' = Front(before)
         /\ UNCHANGED <<after, past>>
Left == /\ before # <<>>
        /\ before' = Front(before) /\ after' = <<Last(before)>> \o after
        /\ UNCHANGED past
Right == /\ after # <<>>
         /\ before' = Append(before, Head(after)) /\ after' = Tail(after)
         /\ UNCHANGED past
Recall == /\ before' \in ToSet(past) \cup {<<>>} /\ after' = <<>>
          /\ UNCHANGED past
Enter == /\ past' = Append(past, text)
         /\ before' = <<>> /\ after' = <<>>

Next == Insert \/ Erase \/ Left \/ Right \/ Recall \/ Enter
Spec == Init /\ [][Next]_vars
=============================================================================
