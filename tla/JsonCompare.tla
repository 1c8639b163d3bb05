---------------------------- MODULE JsonCompare ----------------------------
(***************************************************************************)
(* The comparison of two items of lib/c_json.c and the copying of one, for *)
(* two values that were put together with the operations of JsonTree.  An  *)
(* address is the path to its item: the value it belongs to and the places *)
(* of its parents and itself in their lists.                               *)
(***************************************************************************)
EXTENDS JsonTree

CONSTANT Values    \* sets of values, each a kind and the parts of a list: names and values

\* cJSON_Create*, then cJSON_AddItemTo* for each part, on the memory h.
RECURSIVE Built(_, _, _)
Built(h, x, v) ==
  LET part(g, i) == LET y == Append(x, i)
                        n == v.parts[i].name
                        made == Built(g, y, v.parts[i].value)
                    IN IF n = NULL THEN add_item_to_array(made, x, y)
                       ELSE add_item_to_object(made, x, n, y)
  IN FoldLeft(part, [h EXCEPT ![x] = Item(v.kind)], [i \in DOMAIN v.parts |-> i])

One == <<1>>
Other == <<2>>
Copy == <<3>>

CompareInit ==
  /\ roots = {One, Other}
  /\ \E V \in Values : \E v \in V :
       LET first == Built([x \in Items |-> Unused], One, v)
       IN \E w \in V : heap = Built(first, Other, w)

\* The items that recursive calls for x make, with the places of those they copy.
CopyAddress == [c \in Calls(One)[Cardinality(Items)] |-> [Last(c) EXCEPT ![1] = Copy[1]]]

DuplicateOne ==
  /\ One \in roots /\ Copy \notin roots
  /\ heap' = DuplicateOf(DOMAIN CopyAddress, TRUE, CopyAddress)
  /\ roots' = roots \cup {Copy}

----------------------------------------------------------------------------
(* The comparison *)

\* Seeded defect: only the members of the first object are looked up in the other one.
RECURSIVE CompareOneWay(_, _, _)
CompareOneWay(a, b, cs) ==
  LET s == Chain(heap, a)
      t == Chain(heap, b)
  IN /\ NULL \notin {a, b} /\ heap[a].kind = heap[b].kind
     /\ a # b => CASE heap[a].kind = "array" ->
                      Len(s) = Len(t) /\ \A i \in DOMAIN s : CompareOneWay(s[i], t[i], cs)
                   [] heap[a].kind = "object" ->
                      \A i \in DOMAIN s :
                        CompareOneWay(s[i], get_object_item(b, heap[s[i]].name, cs), cs)
                   [] OTHER -> TRUE

RECURSIVE cJSON_Compare(_, _, _)
cJSON_Compare(a, b, cs) ==
  LET s == Chain(heap, a)
      t == Chain(heap, b)
      InOther(u, o) == \A i \in DOMAIN u :
        cJSON_Compare(u[i], get_object_item(o, heap[u[i]].name, cs), cs)
  IN /\ NULL \notin {a, b} /\ heap[a].kind = heap[b].kind
     /\ a # b => CASE heap[a].kind = "array" ->
                      Len(s) = Len(t) /\ \A i \in DOMAIN s : cJSON_Compare(s[i], t[i], cs)
                   [] heap[a].kind = "object" -> InOther(s, b) /\ InOther(t, a)
                   [] OTHER -> TRUE

----------------------------------------------------------------------------
(* What it is held against *)

NameOf(x, cs) == IF cs \/ heap[x].name = NULL THEN heap[x].name ELSE Lower[heap[x].name]

\* What an item stands for: a sequence of values, or a set of names with a value each.
RECURSIVE Meaning(_, _)
Meaning(x, cs) ==
  LET s == Chain(heap, x)
  IN <<heap[x].kind,
       CASE heap[x].kind = "array" -> [i \in DOMAIN s |-> Meaning(s[i], cs)]
         [] heap[x].kind = "object" -> {<<NameOf(s[i], cs), Meaning(s[i], cs)>> : i \in DOMAIN s}
         [] OTHER -> {}>>

RECURSIVE Below(_)
Below(x) == {x} \cup UNION {Below(y) : y \in ToSet(Chain(heap, x))}

\* No object below x has two members of one name.
OwnNames(x, cs) ==
  \A p \in Below(x) : heap[p].kind = "object" =>
    LET s == Chain(heap, p)
    IN \A i, j \in DOMAIN s : NameOf(s[i], cs) = NameOf(s[j], cs) => i = j

(* Two items whose objects have no name twice, with or without regard to case as asked for,
   compare equal exactly if they stand for the same value: arrays with the same elements in
   order, objects with the same members in any order, found by name in both directions.  *)
CompareIsEquality ==
  \A cs \in BOOLEAN :
    LET own == {x \in roots : OwnNames(x, cs)}
    IN \A x, y \in own : cJSON_Compare(x, y, cs) <=> Meaning(x, cs) = Meaning(y, cs)

(* A copy stands for what its original stands for, in memory of its own and with lists
   that are linked like those of the original.  *)
DuplicateIsEqual ==
  Copy \in roots =>
    /\ Meaning(Copy, TRUE) = Meaning(One, TRUE)
    /\ Below(Copy) \cap Below(One) = {}
    /\ ListsAreSound
=============================================================================
