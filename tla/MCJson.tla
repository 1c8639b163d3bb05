------------------------------- MODULE MCJson -------------------------------
(* What the library makes of texts and of values: JsonText and JsonCompare side by side.
   They share no state, so a behaviour is about a text or about two values.  *)
EXTENDS MCJsonText

VARIABLES heap, roots    \* the items of JsonCompare

Of == INSTANCE MCJsonValues
Values == INSTANCE JsonCompare WITH
  Items <- Of!Paths, Kinds <- {"object", "array", "one", "two"}, NULL <- Of!NoName,
  Names <- Of!ThreeNames, Lower <- Of!LowerCase, Values <- Of!FlatAndNested

JsonInit ==
  \/ Init /\ heap = <<>> /\ roots = {}
  \/ /\ Values!CompareInit
     /\ source = Plain(<<>>) /\ text = <<>> /\ value = <<>> /\ step = "values"
     /\ minified = FALSE /\ printed = PrintBuffer(0, TRUE) /\ format = TRUE

JsonNext == \/ Next /\ UNCHANGED <<heap, roots>>
            \/ Values!DuplicateOne /\ UNCHANGED vars

JsonSpec == JsonInit /\ [][JsonNext]_<<vars, heap, roots>>

\* The properties of JsonCompare, under their names.
CompareIsEquality == Values!CompareIsEquality
DuplicateIsEqual == Values!DuplicateIsEqual
=============================================================================
