-------------------------- MODULE AbstractSequences --------------------------
(***************************************************************************)
(* What the sequence containers promise: every object holds a sequence of   *)
(* values that changes only where it is told to, and by one call at a time. *)
(***************************************************************************)
EXTENDS Naturals, Sequences

CONSTANTS Objects, Values, MaxLength,
          Literals   \* sequences of the standard library that are assigned

VARIABLES content,
          fills      \* what the entries that a resize adds may hold: never changes

(* A value comes to stand at some position, what was there moves on.        *)
Inserted(q) == {SubSeq(q, 1, i - 1) \o <<v>> \o SubSeq(q, i, Len(q)) :
                  i \in 1..(Len(q) + 1), v \in Values}

(* The entries from one position up to another go.                         *)
Removed(q) == {SubSeq(q, 1, i - 1) \o SubSeq(q, j, Len(q)) :
                 i \in 1..Len(q), j \in 2..(Len(q) + 1)}

Written(q) == {[q EXCEPT ![i] = v] : i \in 1..Len(q), v \in Values}

(* Cut off, or filled up.                                                   *)
Resized(q) == {[i \in 1..n |-> IF i <= Len(q) THEN q[i] ELSE f[i]] :
                 n \in 0..MaxLength, f \in fills}

Edits(q) ==
  Inserted(q) \cup Removed(q) \cup Written(q) \cup Resized(q) \cup Literals

Init == content = [o \in Objects |-> <<>>]

(* An edit, a copy or a move between the contents before and after a call,  *)
(* which are bound here to be evaluated once.                               *)
Next ==
  \E old \in {content}, new \in {content'} :
  LET Others(set) == \A o \in Objects \ set : new[o] = old[o]
  IN /\ DOMAIN new = Objects
     /\ \E o \in Objects :
          \/ Others({o}) /\ new[o] \in Edits(old[o])
          \/ \E p \in Objects \ {o} :
               /\ new[o] = old[p]
               /\ \/ Others({o})
                  \/ new[p] = <<>> /\ Others({o, p})

Spec == Init /\ [][Next]_content
=============================================================================
