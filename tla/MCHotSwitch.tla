---------------------------- MODULE MCHotSwitch ----------------------------
(* Small instances of HotSwitch: the database the daemon boots on. *)
EXTENDS HotSwitch, TLC

CONSTANTS u1, u2, u3, m1, m2, w1, d0, t1, t2, n1, n2, p1, p2

\* u1 is mapped to the manual proxy m1, u2 to the Webshare proxy w1, u3 does
\* not exist yet; m2 is an id that a later insertion may draw.
\* The display name of w1 has been edited to the empty string.
MCDb ==
  /\ dbUp = [i \in Ids |->
       CASE i = Default -> [def |-> t1, name |-> DefaultName]
         [] i = m1 -> [def |-> t1, name |-> n1]
         [] i = w1 -> [def |-> t1, name |-> NoName]
         [] OTHER -> NoRow]
  /\ dbUser = [u \in Users |->
       CASE u = u1 -> [pwd |-> p1, up |-> m1, broken |-> FALSE]
         [] u = u2 -> [pwd |-> p1, up |-> w1, broken |-> FALSE]
         [] OTHER -> NoRow]
  /\ dbUniv = p2
  /\ dbKey = TRUE

MCInit == MCDb /\ InitDb /\ Boot
MCSpec == MCInit /\ [][Next]_vars
MCFairSpec == MCSpec /\ Fairness

Symmetry == Permutations(Reqs) \cup Permutations(Conns)
=============================================================================
