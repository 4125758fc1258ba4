-------------------------------- MODULE Line --------------------------------
(***************************************************************************)
(* What two clients that are bridged may count on, with every queue, task, *)
(* buffer and socket left out: a line that carries the messages of each,   *)
(* numbered as they are said, to the other.  The line comes to an orderly  *)
(* end only when both have hung up; that one alone has is not told to the  *)
(* other.  It may break off when one no longer listens, or, if it is not   *)
(* reliable, at any time.                                                  *)
(***************************************************************************)
EXTENDS Sequences, Naturals

CONSTANT Side  \* the two ends of the line

VARIABLES
  said,     \* said[p]: how many messages p has said
  heard,    \* heard[p]: the messages that p has heard
  hungUp,   \* who will not say any more
  deaf,     \* who no longer listens
  gone,     \* who has left with words unsaid, perhaps
  reliable, \* the line does not break by itself
  broken,   \* the line has broken
  told      \* who has been told of the end

vars == <<said, heard, hungUp, deaf, gone, reliable, broken, told>>

Other(p) == CHOOSE q \in Side : q # p

Init ==
  /\ said = [p \in Side |-> 0]
  /\ heard = [p \in Side |-> <<>>]
  /\ hungUp = {} /\ deaf = {} /\ gone = {} /\ told = {}
  /\ reliable \in BOOLEAN /\ broken = FALSE

Say(p) ==
  /\ p \notin hungUp
  /\ said' = [said EXCEPT ![p] = @ + 1]
  /\ UNCHANGED <<heard, hungUp, deaf, gone, reliable, broken, told>>

\* Messages arrive one by one, in order, and never after the end.
Hear(p) ==
  /\ p \notin deaf \cup told
  /\ Len(heard[p]) < said[Other(p)]
  /\ heard' = [heard EXCEPT ![p] = Append(@, Len(@) + 1)]
  /\ UNCHANGED <<said, hungUp, deaf, gone, reliable, broken, told>>

HangUp(p) ==
  /\ hungUp' = hungUp \cup {p}
  /\ UNCHANGED <<said, heard, deaf, gone, reliable, broken, told>>

Deafen(p) ==
  /\ deaf' = deaf \cup {p}
  /\ UNCHANGED <<said, heard, hungUp, gone, reliable, broken, told>>

\* All at once, with what is not on its way yet.
Leave(p) ==
  /\ hungUp' = hungUp \cup {p}
  /\ deaf' = deaf \cup {p}
  /\ gone' = gone \cup {p}
  /\ UNCHANGED <<said, heard, reliable, broken, told>>

Break ==
  /\ deaf # {} \/ ~reliable
  /\ broken' = TRUE
  /\ UNCHANGED <<said, heard, hungUp, deaf, gone, reliable, told>>

\* An orderly end comes after everything that was said, unless the
\* other one has left.
TellEnd(p) ==
  /\ p \notin deaf
  /\ \/ broken
     \/ hungUp = Side /\ (Len(heard[p]) = said[Other(p)] \/ Other(p) \in gone)
  /\ told' = told \cup {p}
  /\ UNCHANGED <<said, heard, hungUp, deaf, gone, reliable, broken>>

Next ==
  \/ Break
  \/ \E p \in Side :
       Say(p) \/ Hear(p) \/ HangUp(p) \/ Deafen(p) \/ Leave(p) \/ TellEnd(p)

Spec == Init /\ [][Next]_vars
=============================================================================
