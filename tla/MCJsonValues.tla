---------------------------- MODULE MCJsonValues ----------------------------
(* Values for JsonCompare: the kind of an item, and the names and values in its list. *)
EXTENDS Naturals, Sequences, Functions

\* An item is found at the end of the path to it: of one of three values, the first two of
\* which are put together, and the third is the copy.
Paths == UNION {{<<r>>} \cup {<<r, i>> : i \in 1 .. 3} \cup {<<r, i, j>> : i, j \in 1 .. 2} :
                  r \in 1 .. 3}

NoName == "none"
ThreeNames == {"a", "A", "b"}
LowerCase == [n \in ThreeNames |-> IF n = "A" THEN "a" ELSE n]

Leaf(k) == [kind |-> k, parts |-> <<>>]
ArrayOf(s) == [kind |-> "array", parts |-> [i \in DOMAIN s |-> [name |-> NoName, value |-> s[i]]]]
ObjectOf(n, s) ==
  [kind |-> "object", parts |-> [i \in DOMAIN s |-> [name |-> n[i], value |-> s[i]]]]

Leaves == {Leaf("one"), Leaf("two")}
UpTo(n, S) == UNION {[1 .. m -> S] : m \in 0 .. n}

\* Arrays of at most two leaves, objects of at most three, names told apart by case or not.
Flat == Leaves \cup {ArrayOf(s) : s \in UpTo(2, Leaves)}
               \cup UNION {{ObjectOf(n, s) : s \in [DOMAIN n -> Leaves]} :
                             n \in UNION {Injection(1 .. m, ThreeNames) : m \in 0 .. 3}}

\* Two lists in a list, or a leaf and a list.
Small == {Leaf("one"), ArrayOf(<<Leaf("one"), Leaf("two")>>),
          ObjectOf(<<"a", "b">>, <<Leaf("one"), Leaf("two")>>),
          ObjectOf(<<"b", "a">>, <<Leaf("two"), Leaf("one")>>)}
Nested == {ArrayOf(s) : s \in [1 .. 2 -> Small]}
          \cup {ObjectOf(n, s) : n \in {<<"a", "b">>, <<"b", "a">>}, s \in [1 .. 2 -> Small]}

FlatAndNested == {Flat, Nested}
=============================================================================
