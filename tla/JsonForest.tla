---------------------------- MODULE JsonForest -----------------------------
(***************************************************************************)
(* What the item operations of cJSON promise: every array and object is a  *)
(* sequence of items, an item is in one sequence or in the caller's hands, *)
(* and memory is what can be reached from there.                           *)
(***************************************************************************)
EXTENDS Naturals, Sequences, SequencesExt

CONSTANTS Items, Names, NoName

VARIABLES kids, name, roots, live

fvars == <<kids, name, roots, live>>

Init == /\ kids = [x \in Items |-> <<>>] /\ name = [x \in Items |-> NoName]
        /\ roots = {} /\ live = {}

\* x, what is in its sequence k[x], and so on.
Below(k, x) == LET closed == {S \in SUBSET Items : x \in S /\ \A y \in S : ToSet(k[y]) \subseteq S}
               IN {y \in Items : \A S \in closed : y \in S}

PutIn(x) == roots' = roots \ {x} /\ UNCHANGED live
NameMayChange(x) == name' \in {[name EXCEPT ![x] = n] : n \in Names \cup {NoName}}
Nameless(S) == [y \in Items |-> IF y \in S THEN NoName ELSE name[y]]

\* With the sequences k, x and everything below it is freed.
Free(k, x) == /\ live' = live \ Below(k, x)
              /\ kids' = [y \in Items |-> IF y \in Below(k, x) THEN <<>> ELSE k[y]]

\* One or more new items, at the top or as the last child of p, never any old one moved.
Create ==
  /\ live' # live /\ live \subseteq live' /\ roots \subseteq roots'
  /\ \A x \in live : SubSeq(kids'[x], 1, Len(kids[x])) = kids[x]
                     /\ Len(kids'[x]) <= Len(kids[x]) + 1 /\ name'[x] = name[x]

Add(p, x) == /\ x \in roots \ {p} /\ PutIn(x) /\ NameMayChange(x)
             /\ kids' = [kids EXCEPT ![p] = Append(@, x)]

Insert(p, i, x) == /\ x \in roots \ {p} /\ PutIn(x) /\ UNCHANGED name
                   /\ i \in DOMAIN kids[p]
                   /\ kids' = [kids EXCEPT ![p] = InsertAt(@, i, x)]

Detach(p, i) == /\ UNCHANGED <<name, live>>
                /\ i \in DOMAIN kids[p] /\ roots' = roots \cup {kids[p][i]}
                /\ kids' = [kids EXCEPT ![p] = RemoveAt(@, i)]

Delete(x) == /\ x \in roots /\ roots' = roots \ {x}
             /\ Free(kids, x) /\ name' = Nameless(Below(kids, x))

DropChild(p, i) ==
  LET k == [kids EXCEPT ![p] = RemoveAt(@, i)]
  IN /\ i \in DOMAIN kids[p] /\ UNCHANGED roots
     /\ Free(k, kids[p][i]) /\ name' = Nameless(Below(k, kids[p][i]))

\* x takes the place, and the name it is given, of item i, which is freed.
Replace(p, i, x) ==
  LET k == [kids EXCEPT ![p] = ReplaceAt(@, i, x)]
  IN /\ x \in roots \ {p} /\ roots' = roots \ {x} /\ i \in DOMAIN kids[p]
     /\ Free(k, kids[p][i])
     /\ name' \in {[Nameless(Below(k, kids[p][i])) EXCEPT ![x] = n] : n \in Names \cup {NoName}}

\* A replacement may get its name although there is nothing to replace.
Rename(x) == NameMayChange(x) /\ UNCHANGED <<kids, roots, live>>

Next == \/ Create
        \/ \E x \in roots : Delete(x) \/ Rename(x)
        \/ \E p \in live, x \in roots : Add(p, x)
        \/ \E p \in live : \E i \in DOMAIN kids[p] :
             \/ Detach(p, i) \/ DropChild(p, i)
             \/ \E x \in roots : Insert(p, i, x) \/ Replace(p, i, x)

Spec == Init /\ [][Next]_fvars
=============================================================================
