------------------------------- MODULE Buffers -------------------------------
(***************************************************************************)
(* What keeps its contents in one block.  Every behaviour uses objects of   *)
(* one kind; "nested" is a vector of containers.                            *)
(***************************************************************************)
EXTENDS HeapBlocks

CONSTANTS GrowthStep, SSO

ASSUME BuffersAssumption ==
  /\ IsFiniteSet(Blocks) /\ Blocks \subseteq Nat /\ IsFiniteSet(Objects)
  /\ Null \notin Blocks \cup Values /\ Raw \notin Values \cup Blocks
  /\ Literals \subseteq Seq(Values) /\ MaxLength \in Nat
  /\ GrowthStep \in Nat \ {0} /\ SSO \in Nat \ {0}

VARIABLE kind

elements == IF kind = "nested" THEN "shm" ELSE "pod"

Vec  == INSTANCE Vector
Str  == INSTANCE ShmString
Char == INSTANCE CharBuf
Obj  == INSTANCE Objects
Ring == INSTANCE QueueObjects WITH marked <- kind = "marked_ring"

BufferKinds == {"vector", "nested", "string", "charbuf", "array", "pointer",
                "ring", "marked_ring"}

BuffersInit ==
  /\ kind \in BufferKinds
  /\ CASE kind \in {"vector", "nested"}    -> Vec!Init
       [] kind = "string"                  -> Str!Init
       [] kind = "charbuf"                 -> Char!Init
       [] kind = "array"                   -> Obj!InitWith(Obj!Array)
       [] kind = "pointer"                 -> Obj!InitWith(Obj!Pointer)
       [] kind \in {"ring", "marked_ring"} -> Ring!Init

BuffersNext ==
  \/ kind \in {"vector", "nested"}    /\ Vec!Next
  \/ kind = "string"                  /\ Str!Next
  \/ kind = "charbuf"                 /\ Char!Next
  \/ kind = "array"                   /\ Obj!NextArray
  \/ kind = "pointer"                 /\ Obj!NextPointer
  \/ kind \in {"ring", "marked_ring"} /\ Ring!Next

-----------------------------------------------------------------------------
BufferContents(o) ==
  CASE kind \in {"vector", "nested"}    -> Vec!Contents(store, o)
    [] kind = "string"                  -> Str!Contents(store, o)
    [] kind = "charbuf"                 -> Char!Contents(store, o)
    [] kind \in {"array", "pointer"}    -> Obj!Contents(o)
    [] kind \in {"ring", "marked_ring"} -> Ring!Contents(store, o)

BufferOwned(o) ==
  CASE kind \in {"vector", "nested"}    -> Vec!Owned(o)
    [] kind = "string"                  -> Str!Owned(o)
    [] kind = "charbuf"                 -> Char!Owned(o)
    [] kind \in {"array", "pointer"}    -> Obj!Owned(o)
    [] kind \in {"ring", "marked_ring"} -> Ring!Owned(o)

BufferFits(o) ==
  CASE kind \in {"vector", "nested"}    -> Vec!Fits(o)
    [] kind = "string"                  -> Str!Fits(o)
    [] kind = "charbuf"                 -> Char!Fits(o)
    [] kind = "array"                   -> Obj!FitsArray(o)
    [] kind = "pointer"                 -> Obj!FitsPointer(o)
    [] kind \in {"ring", "marked_ring"} -> Ring!Fits(o)

(* What the slots that a resize adds may hold: one value, or any bytes.     *)
Fills == IF kind \in {"vector", "nested", "array", "ring", "marked_ring"}
         THEN {[i \in 1..MaxLength |-> v] : v \in Values}
         ELSE [1..MaxLength -> Values]
=============================================================================
