-------------------------------- MODULE Pipe --------------------------------
(***************************************************************************)
(* What a tunnel promises its two ends, with no word on sockets, deadlines *)
(* or goroutines.  The pieces that an end sends are numbered.  What the    *)
(* other end is given of them is, at any time, an unbroken run in order,   *)
(* each piece once; it starts with the first piece or, at an end whose     *)
(* protocol is read through a buffer, after those that came before the     *)
(* tunnel was open and were lost.  Nothing passes before the tunnel opens  *)
(* or after it is shut, and it is shut for good.  A tunnel may stop with   *)
(* pieces still on their way: then nothing that follows them passes.       *)
(***************************************************************************)
EXTENDS Naturals, Sequences

CONSTANT Sides

VARIABLES
  buffered,  \* the ends that may lose early data
  state,     \* "new", "open" or "shut"
  sent,      \* per end: how many pieces it has sent
  lost,      \* per end: how many were lost before the tunnel was open
  got        \* per end: those of its pieces that the other end was given

vars == <<buffered, state, sent, lost, got>>

Init ==
  /\ buffered \subseteq Sides /\ state = "new"
  /\ sent = [s \in Sides |-> 0] /\ lost = sent /\ got = [s \in Sides |-> <<>>]

Send(s) == sent' = [sent EXCEPT ![s] = @ + 1] /\ UNCHANGED <<buffered, state, lost, got>>

Lose(s) ==
  /\ s \in buffered /\ state = "new"
  /\ lost' \in {[lost EXCEPT ![s] = n] : n \in lost[s]..sent[s]}
  /\ UNCHANGED <<buffered, state, sent, got>>

\* The piece after the last one given, or after those that were lost.
Deliver(s) ==
  LET next == lost[s] + Len(got[s]) + 1
  IN  /\ state = "open" /\ next <= sent[s]
      /\ got' = [got EXCEPT ![s] = Append(@, next)]
      /\ UNCHANGED <<buffered, state, sent, lost>>

Open == state = "new" /\ state' = "open" /\ UNCHANGED <<buffered, sent, lost, got>>

\* The tunnel opens by the very step that loses the last early data.
LoseAndOpen(s) ==
  /\ s \in buffered /\ state = "new" /\ state' = "open"
  /\ lost' \in {[lost EXCEPT ![s] = n] : n \in lost[s]..sent[s]}
  /\ UNCHANGED <<buffered, sent, got>>

Shut == state # "shut" /\ state' = "shut" /\ UNCHANGED <<buffered, sent, lost, got>>

Next ==
  \/ \E s \in Sides : Send(s) \/ Lose(s) \/ Deliver(s) \/ LoseAndOpen(s)
  \/ Open \/ Shut

Spec == Init /\ [][Next]_vars
=============================================================================
