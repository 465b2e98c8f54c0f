----------------------------- MODULE LinkedLists -----------------------------
(***************************************************************************)
(* The three linked containers.  Every behaviour uses the containers of one *)
(* kind; what they promise is the same.                                     *)
(***************************************************************************)
EXTENDS LinkedCells

VARIABLE kind

L == INSTANCE List
S == INSTANCE SList
Q == INSTANCE IQueue

Kinds == {"list", "slist", "iqueue"}

KindInit == Init /\ kind \in Kinds

Next ==
  \/ kind = "list"   /\ L!Next
  \/ kind = "slist"  /\ S!Next
  \/ kind = "iqueue" /\ Q!Next

-----------------------------------------------------------------------------
(* An iqueue is what its length counts: behind that a stale link may follow.*)
Entries(l) ==
  IF kind = "iqueue"
  THEN [i \in 1..store.length[l] |-> After(store, First(store, l), i - 1)]
  ELSE Walk(store, l)

(* What a caller sees; what an iqueue holds are the entries themselves.     *)
Contents(l) == IF kind = "iqueue" THEN Entries(l) ELSE Data(store, Entries(l))

Fits(l) ==
  LET cells == Entries(l) n == Len(cells) IN
  /\ store.length[l] = n
  /\ kind # "iqueue" => store.tail[l] = (IF n = 0 THEN Null ELSE cells[n])
  /\ kind = "list" => \A i \in 1..n :
       store.prior[cells[i]] = IF i = 1 THEN Null ELSE cells[i - 1]
=============================================================================
