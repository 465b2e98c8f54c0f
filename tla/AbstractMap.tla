----------------------------- MODULE AbstractMap -----------------------------
(***************************************************************************)
(* What unordered_map promises: every object is a function from some keys   *)
(* to values that changes where it is told to, one call at a time.          *)
(***************************************************************************)
EXTENDS Naturals

CONSTANTS Objects, Keys, Values

VARIABLE content

Without(f, k) == [j \in DOMAIN f \ {k} |-> f[j]]

Put(f, k, v) == [j \in DOMAIN f \cup {k} |-> IF j = k THEN v ELSE f[j]]

Edits(f) == {Put(f, k, v) : k \in Keys, v \in Values}
            \cup {Without(f, k) : k \in Keys} \cup {<<>>}

Init == content = [o \in Objects |-> <<>>]

(* An edit, a copy or a move between the contents before and after a call,  *)
(* which are bound here to be evaluated once.                               *)
Next ==
  \E old \in {content}, new \in {content'} :
  LET Others(set) == \A o \in Objects \ set : new[o] = old[o]
  IN /\ DOMAIN new = Objects
     /\ \E o \in Objects :
          \/ Others({o}) /\ new[o] \in Edits(old[o])
          \/ \E p \in Objects \ {o} :
               /\ new[o] = old[p]
               /\ \/ Others({o})
                  \/ new[p] = <<>> /\ Others({o, p})

Spec == Init /\ [][Next]_content
=============================================================================
