---------------------------- MODULE MCContainers ----------------------------
(* Two objects of each kind, two values, two allocators.                    *)
EXTENDS Containers

CONSTANTS o1, o2, v1, v2, a1, a2

TwoObjects == {o1, o2}
TwoValues == {v1, v2}
TwoAllocators == {a1, a2}
TwoTexts == {<<v1, v2>>, <<v2, v1>>}
FourCells == 1..4
TwelveBlocks == 1..12
(* In one bucket all keys collide, in three 0 and 3 do, and 1 stays empty.  *)
SomeKeys == {0, 2, 3}
OneOrThree == {1, 3}
Symmetry == Permutations(TwoValues) \cup Permutations(TwoAllocators)

(* Which free block an allocation returns makes no difference to what       *)
(* follows: states are told apart after blocks are renamed by the order in  *)
(* which the headers refer to them, and the slots of those (ptr is the      *)
(* field of a header with its block, slots may hold blocks too).            *)
Order(t) ==
  LET heads == [i \in 1..Cardinality(Objects) |-> t.hdr[SetToSeq(Objects)[i]].ptr]
      own   == SelectSeq(heads, LAMBDA b : b \in t.live)
      slots == FoldLeft(LAMBDA q, b : q \o t.mem[b], <<>>, own)
  IN FoldLeft(LAMBDA q, b : IF b \in t.live \ Range(q) THEN Append(q, b) ELSE q,
              <<>>, own \o slots \o [i \in 1..Cardinality(Blocks) |-> i])

Renamed(t) ==
  LET order == Order(t)
      name(b) == IF b \in t.live THEN CHOOSE i \in DOMAIN order : order[i] = b ELSE b
  IN [live  |-> DOMAIN order,
      mem   |-> [i \in DOMAIN order |->
                  [k \in DOMAIN t.mem[order[i]] |-> name(t.mem[order[i]][k])]],
      hdr   |-> [o \in Objects |-> [f \in DOMAIN t.hdr[o] |->
                  IF f \in {"ptr", "local"} THEN name(t.hdr[o][f]) ELSE t.hdr[o][f]]],
      alloc |-> t.alloc]

(* Likewise the arrays of maps: named by the first map that has them.       *)
RenamedArrays(t) ==
  LET maps == SetToSeq(Objects)
      name(b) == IF b = Map!NoArray THEN b
                 ELSE SelectInSeq(maps, LAMBDA o : t.array[o] = b)
  IN [t EXCEPT !.array = [o \in Objects |-> name(t.array[o])],
               !.live  = <<{name(b) : b \in @ \cap Range(t.array)},
                           Cardinality(@ \ Range(t.array))>>]

View == <<kind, CASE kind \in BufferKinds -> Renamed(store)
                  [] kind = "map"         -> RenamedArrays(store)
                  [] OTHER                -> store>>
=============================================================================
