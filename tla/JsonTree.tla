----------------------------- MODULE JsonTree ------------------------------
(***************************************************************************)
(* The items of lib/c_json.c in memory: child, next and prev pointers,     *)
(* with the prev of a first child pointing to the last one.  An action for *)
(* every public operation on them, each called as the header asks for: on  *)
(* live items, with an added item that is in no list and not above the     *)
(* list it is added to, and not on lists that a reference shares.          *)
(***************************************************************************)
EXTENDS Naturals, Sequences, SequencesExt, FiniteSets, FiniteSetsExt

CONSTANTS Items,   \* addresses
          Kinds,   \* kinds of items to create: "array", "object" or the value of a leaf
          Names, NULL,
          Lower    \* tolower, on Names

ASSUME JsonTreeAssumption ==
    /\ IsFiniteSet(Items) /\ NULL \notin Items /\ NULL \notin Names
    /\ "free" \notin Kinds /\ Lower \in [Names -> Names]

VARIABLES heap,    \* the item at each address
          roots    \* the items the caller holds

vars == <<heap, roots>>

Unused == [kind |-> "free", ref |-> FALSE, name |-> NULL,
           child |-> NULL, next |-> NULL, prev |-> NULL]
LiveIn(h) == {x \in Items : h[x].kind # "free"}
Live == LiveIn(heap)
IsList(p) == heap[p].kind \in {"array", "object"}

\* What the allocator may give.
Available == Items \ Live

\* The items from the child of p on along next: one too many shows a cycle.
Chain(h, p) ==
  LET Longer(s) == LET after == IF s = <<>> THEN h[p].child ELSE h[Last(s)].next
                   IN IF after = NULL THEN s ELSE Append(s, after)
      walk[n \in 0 .. Cardinality(Items) + 1] == IF n = 0 THEN <<>> ELSE Longer(walk[n - 1])
  IN walk[Cardinality(Items) + 1]

\* What cJSON_Delete visits: next, and the child of what is no reference.
Closed(h, S) == \A x \in S : {h[x].next, IF h[x].ref THEN NULL ELSE h[x].child} \ {NULL} \subseteq S
Reach(h, x) == LET closed == {S \in SUBSET Items : x \in S /\ Closed(h, S)}
               IN {y \in Items : \A S \in closed : y \in S}
Subtree(x) == Reach(heap, x)

\* The caller's side: lists that a reference shares are left alone.
Shared(h) == {h[r].child : r \in {x \in LiveIn(h) : h[x].ref}} \ {NULL}
Untouched(h, x) == h[x].child \notin Shared(h)
Parent(p) == p \in Live /\ IsList(p) /\ ~heap[p].ref /\ Untouched(heap, p)
Addable(p, x) == Parent(p) /\ x \in roots /\ p \notin Subtree(x)

----------------------------------------------------------------------------
(* Lookups *)

get_array_item(p, index) ==
  IF index < Len(Chain(heap, p)) THEN Chain(heap, p)[index + 1] ELSE NULL

\* Seeded defect: only the name that is looked for is put in lower case.
SameNameLowersOne(n, m, cs) ==
  NULL \notin {n, m} /\ IF cs THEN n = m ELSE Lower[n] = m

\* case_insensitive_strcmp = 0: never of a missing name.
SameName(n, m, cs) == NULL \notin {n, m} /\ IF cs THEN n = m ELSE Lower[n] = Lower[m]

\* The case-sensitive walk stops at an item without a name, the other one goes on.
get_object_item(p, n, cs) ==
  LET s == Chain(heap, p)
      stops == {i \in DOMAIN s : SameName(n, heap[s[i]].name, cs)
                                 \/ (cs /\ heap[s[i]].name = NULL)}
  IN IF n = NULL \/ stops = {} THEN NULL
     ELSE IF heap[s[Min(stops)]].name = NULL THEN NULL ELSE s[Min(stops)]

----------------------------------------------------------------------------
(* The lists.  Each operator gives the memory after the C function of that name. *)

suffix_object(h, last, x) == [h EXCEPT ![last].next = x, ![x].prev = last]

\* Seeded defect: the first item is not told about the new last one.
AddItemKeepsPrev(h, p, x) ==
  LET first == h[p].child
  IN IF first = NULL
     THEN [h EXCEPT ![p].child = x, ![x].prev = x, ![x].next = NULL]
     ELSE IF h[first].prev = NULL THEN h ELSE suffix_object(h, h[first].prev, x)

\* Seeded defect: an item is added in front.
AddItemInFront(h, p, x) ==
  LET first == h[p].child
  IN IF first = NULL
     THEN [h EXCEPT ![p].child = x, ![x].prev = x, ![x].next = NULL]
     ELSE [h EXCEPT ![p].child = x, ![x].next = first, ![x].prev = h[first].prev,
                    ![first].prev = x]

add_item_to_array(h, p, x) ==
  LET first == h[p].child
  IN IF first = NULL
     THEN [h EXCEPT ![p].child = x, ![x].prev = x, ![x].next = NULL]
     ELSE IF h[first].prev = NULL THEN h     \* nothing to append to, and still TRUE
     ELSE [suffix_object(h, h[first].prev, x) EXCEPT ![first].prev = x]

add_item_to_object(h, p, n, x) == add_item_to_array([h EXCEPT ![x].name = n], p, x)

\* Seeded defect: the caller's item keeps its next pointer.
DetachKeepsNext(h, p, x) ==
  LET i == h[x]
      h1 == IF x # h[p].child THEN [h EXCEPT ![i.prev].next = i.next] ELSE h
      h2 == IF i.next # NULL THEN [h1 EXCEPT ![i.next].prev = i.prev] ELSE h1
      h3 == IF x = h[p].child THEN [h2 EXCEPT ![p].child = i.next]
            ELSE IF i.next = NULL THEN [h2 EXCEPT ![h[p].child].prev = i.prev] ELSE h2
  IN [h3 EXCEPT ![x].prev = NULL]

DetachItemViaPointer(h, p, x) ==
  LET i == h[x]
      h1 == IF x # h[p].child THEN [h EXCEPT ![i.prev].next = i.next] ELSE h
      h2 == IF i.next # NULL THEN [h1 EXCEPT ![i.next].prev = i.prev] ELSE h1
      h3 == IF x = h[p].child THEN [h2 EXCEPT ![p].child = i.next]
            ELSE IF i.next = NULL THEN [h2 EXCEPT ![h[p].child].prev = i.prev] ELSE h2
  IN [h3 EXCEPT ![x].prev = NULL, ![x].next = NULL]

InsertItem(h, p, at, x) ==
  LET h1 == [h EXCEPT ![x].next = at, ![x].prev = h[at].prev, ![at].prev = x]
  IN IF at = h[p].child THEN [h1 EXCEPT ![p].child = x]
     ELSE [h1 EXCEPT ![h[at].prev].next = x]

Free(h, x) == [y \in Items |-> IF y \in Reach(h, x) THEN Unused ELSE h[y]]

\* r in the place of x, before x is deleted: between its neighbours, as the first item or not.
Between(h, x, r) ==
  LET h1 == [h EXCEPT ![r].next = h[x].next, ![r].prev = h[x].prev]
  IN IF h[x].next # NULL THEN [h1 EXCEPT ![h[x].next].prev = r] ELSE h1
AsFirst(h, p, r) ==
  LET first == h[p].child
  IN [h EXCEPT ![r].prev = IF h[first].prev = first THEN r ELSE @, ![p].child = r]
AsLater(h, p, r) ==
  LET h1 == IF h[r].prev # NULL THEN [h EXCEPT ![h[r].prev].next = r] ELSE h
  IN IF h1[r].next = NULL THEN [h1 EXCEPT ![h[p].child].prev = r] ELSE h1
TakePlace(h, p, x, r) ==
  LET h1 == Between(h, x, r)
      h2 == IF h[p].child = x THEN AsFirst(h1, p, r) ELSE AsLater(h1, p, r)
  IN [h2 EXCEPT ![x].next = NULL, ![x].prev = NULL]

\* Seeded defect: the item that is replaced is not freed.
ReplaceForgetsOld(h, p, x, r) == TakePlace(h, p, x, r)

ReplaceItemViaPointer(h, p, x, r) == Free(TakePlace(h, p, x, r), x)

----------------------------------------------------------------------------
(* Creation and copies *)

Item(k) == [Unused EXCEPT !.kind = k]

\* cJSON_Create*Array: leaves chained behind each other, the first one told the last.
ArrayOf(n, k, at) ==
  [y \in Items |->
     IF y = at[0] THEN [Item("array") EXCEPT !.child = IF n = 0 THEN NULL ELSE at[1]]
     ELSE IF \E i \in 1 .. n : y = at[i]
     THEN LET i == CHOOSE j \in 1 .. n : y = at[j]
          IN [Item(k) EXCEPT !.next = IF i = n THEN NULL ELSE at[i + 1],
                             !.prev = at[IF i = 1 THEN n ELSE i - 1]]
     ELSE heap[y]]

create_reference(x) ==
  [heap[x] EXCEPT !.name = NULL, !.ref = TRUE, !.next = NULL, !.prev = NULL]

\* The calls cJSON_Duplicate(x) makes of itself, at most n deep: each is for an item, here
\* behind the items of the calls it is made from.  Children of references count.
Calls(x) ==
  LET calls[n \in 0 .. Cardinality(Items)] ==
        IF n = 0 THEN {<<x>>}
        ELSE LET outer == calls[n - 1]
             IN outer \cup UNION {{Append(c, y) : y \in ToSet(Chain(heap, Last(c)))} :
                                   c \in outer}
  IN calls

\* Seeded defect: the name is left behind.
CopyNameless(c, recurse, at) ==
  LET y == heap[Last(c)]
      CopyAt(z) == IF z = NULL \/ Len(c) = 1 THEN NULL ELSE at[Append(Front(c), z)]
  IN [y EXCEPT !.ref = FALSE, !.name = NULL, !.next = CopyAt(@), !.prev = CopyAt(@),
               !.child = IF @ = NULL \/ ~recurse THEN NULL ELSE at[Append(c, @)]]

\* The copy call c makes: no reference, its pointers led to the copies of the calls for its
\* child and its neighbours; that of the first call is in no list.
CopyOf(c, recurse, at) ==
  LET y == heap[Last(c)]
      CopyAt(z) == IF z = NULL \/ Len(c) = 1 THEN NULL ELSE at[Append(Front(c), z)]
  IN [y EXCEPT !.ref = FALSE, !.next = CopyAt(@), !.prev = CopyAt(@),
               !.child = IF @ = NULL \/ ~recurse THEN NULL ELSE at[Append(c, @)]]

DuplicateOf(calls, recurse, at) ==
  [z \in Items |-> IF \E c \in calls : at[c] = z
                   THEN CopyOf(CHOOSE c \in calls : at[c] = z, recurse, at) ELSE heap[z]]

----------------------------------------------------------------------------
(* The operations *)

Init == heap = [x \in Items |-> Unused] /\ roots = {}

Create(k) ==
  \E new \in Available :
    heap' = [heap EXCEPT ![new] = Item(k)] /\ roots' = roots \cup {new}

\* cJSON_CreateObjectReference and cJSON_CreateArrayReference, of the first item of a list.
CreateListReference(k, x) ==
  /\ x \in {heap[p].child : p \in Live} \ {NULL}
  /\ \E new \in Available :
       /\ heap' = [heap EXCEPT ![new] = [Item(k) EXCEPT !.ref = TRUE, !.child = x]]
       /\ roots' = roots \cup {new}

CreateLeafArray(n, k) ==
  \E at \in Injection(0 .. n, Available) :
    heap' = ArrayOf(n, k, at) /\ roots' = roots \cup {at[0]}

AddItemToArray(p, x) ==
  /\ Addable(p, x)
  /\ heap' = add_item_to_array(heap, p, x) /\ roots' = roots \ {x}

AddItemToObject(p, n, x) ==
  /\ Addable(p, x)
  /\ heap' = add_item_to_object(heap, p, n, x) /\ roots' = roots \ {x}

\* cJSON_Add*ToObject: created and added, or deleted again when it cannot be.
AddNewToObject(p, n, k) ==
  /\ Parent(p)
  /\ \E new \in Available :
       heap' = add_item_to_object([heap EXCEPT ![new] = Item(k)], p, n, new)
  /\ UNCHANGED roots

AddItemReferenceToArray(p, x) ==
  /\ Parent(p) /\ x \in Live /\ p \notin Subtree(x)
  /\ \E new \in Available :
       heap' = add_item_to_array([heap EXCEPT ![new] = create_reference(x)], p, new)
  /\ UNCHANGED roots

AddItemReferenceToObject(p, n, x) ==
  /\ Parent(p) /\ x \in Live /\ p \notin Subtree(x)
  /\ \E new \in Available :
       heap' = add_item_to_object([heap EXCEPT ![new] = create_reference(x)], p, n, new)
  /\ UNCHANGED roots

\* An item found by its index or by its name, case ignored or not.
Found(p) == ({get_array_item(p, i) : i \in 0 .. Cardinality(Items)} \cup
             {get_object_item(p, n, cs) : n \in Names, cs \in BOOLEAN}) \ {NULL}

DetachItem(p) ==
  /\ Parent(p)
  /\ \E x \in Found(p) : /\ heap' = DetachItemViaPointer(heap, p, x)
                         /\ roots' = roots \cup {x}

\* Deleting is only safe while nothing below is shared.
Deletable(h, x) == \A y \in Reach(h, x) : h[y].ref \/ Untouched(h, y)

cJSON_Delete(x) ==
  /\ x \in roots /\ Deletable(heap, x)
  /\ heap' = Free(heap, x) /\ roots' = roots \ {x}

DeleteItem(p) ==
  /\ Parent(p)
  /\ \E x \in Found(p) : LET h == DetachItemViaPointer(heap, p, x)
                         IN Deletable(h, x) /\ heap' = Free(h, x)
  /\ UNCHANGED roots

\* Past the end the new item is appended.
InsertItemInArray(p, which, x) ==
  /\ Addable(p, x)
  /\ heap' = IF get_array_item(p, which) = NULL THEN add_item_to_array(heap, p, x)
             ELSE InsertItem(heap, p, get_array_item(p, which), x)
  /\ roots' = roots \ {x}

ReplaceItemInArray(p, which, r) ==
  LET x == get_array_item(p, which)
  IN /\ Addable(p, r) /\ x # NULL /\ Deletable(TakePlace(heap, p, x, r), x)
     /\ heap' = ReplaceItemViaPointer(heap, p, x, r) /\ roots' = roots \ {r}

\* The replacement is given its name before anything is looked up.
replace_item_in_object(p, n, r, cs) ==
  LET x == get_object_item(p, n, cs)
      h == [heap EXCEPT ![r].name = n]
  IN /\ Addable(p, r)
     /\ \/ x = NULL /\ heap' = h /\ UNCHANGED roots
        \/ /\ x # NULL /\ Deletable(TakePlace(h, p, x, r), x)
           /\ heap' = ReplaceItemViaPointer(h, p, x, r) /\ roots' = roots \ {r}

\* A copy of all there is below x asks for an end of that.
cJSON_Duplicate(x, recurse) ==
  LET deep == Cardinality(Items)
      calls == IF recurse THEN Calls(x)[deep] ELSE {<<x>>}
  IN /\ x \in Live
     /\ recurse => Calls(x)[deep - 1] = Calls(x)[deep]
     /\ \E at \in Injection(calls, Available) :
          heap' = DuplicateOf(calls, recurse, at) /\ roots' = roots \cup {at[<<x>>]}

Next ==
  \/ \E k \in Kinds : Create(k)
  \/ \E k \in Kinds \ {"array", "object"}, n \in 0 .. 2 : CreateLeafArray(n, k)
  \/ \E k \in Kinds \cap {"array", "object"}, x \in Items : CreateListReference(k, x)
  \/ \E p, x \in Items :
       \/ AddItemToArray(p, x) \/ AddItemReferenceToArray(p, x)
       \/ \E i \in 0 .. 2 : InsertItemInArray(p, i, x) \/ ReplaceItemInArray(p, i, x)
       \/ \E n \in Names : \/ AddItemToObject(p, n, x) \/ AddItemReferenceToObject(p, n, x)
                           \/ \E cs \in BOOLEAN : replace_item_in_object(p, n, x, cs)
  \/ \E p \in Items : DetachItem(p) \/ DeleteItem(p) \/ cJSON_Delete(p)
  \/ \E p \in Items, n \in Names, k \in Kinds : AddNewToObject(p, n, k)
  \/ \E x \in Items, recurse \in BOOLEAN : cJSON_Duplicate(x, recurse)

Spec == Init /\ [][Next]_vars

----------------------------------------------------------------------------
(* What the operations together guarantee *)

(* In every list, whatever sequence of operations built it, next and prev agree, the
   first item points back to the last one, the list ends, and nothing freed is in it.  *)
ListsAreSound ==
  \A p \in Live :
    LET s == Chain(heap, p)
    IN /\ Len(s) <= Cardinality(Items) /\ ToSet(s) \subseteq Live
       /\ \A i \in DOMAIN s : heap[s[i]].prev = s[IF i = 1 THEN Len(s) ELSE i - 1]

\* Every item is in the caller's hands or in exactly one list, and not in both.
OneOwner ==
  \A x \in Live :
    LET owners == {p \in Live : ~heap[p].ref /\ x \in ToSet(Chain(heap, p))}
    IN /\ Cardinality(owners) = (IF x \in roots THEN 0 ELSE 1)
       /\ x \in roots => heap[x].next = NULL

\* Every item in use is below one of the caller's.
NothingLost == \A x \in Live : \E r \in roots : x \in Subtree(r)

(* Whatever was added, moved, replaced or copied, an item has one owner and the caller
   gets to it: what he deletes is freed once (c_json.c:253-274), nothing is out of his reach
   (no leak), and no list is below itself.  *)
OwnedAndHeld == OneOwner /\ NothingLost

(* Both lookups by name find an item of that name.  The one that ignores case finds the
   first that matches, if there is one, and never a later one than the other; the other
   one misses an item of that name only behind an item without a name.  *)
LookupsAgree ==
  \A p \in Live, n \in Names :
    LET s == Chain(heap, p)
        at(x) == CHOOSE i \in DOMAIN s : s[i] = x
        any == get_object_item(p, n, FALSE)
        exact == get_object_item(p, n, TRUE)
    IN /\ exact # NULL => heap[exact].name = n /\ any # NULL /\ at(any) <= at(exact)
       /\ any # NULL => /\ SameName(n, heap[any].name, FALSE)
                        /\ \A i \in 1 .. at(any) - 1 : ~SameName(n, heap[s[i]].name, FALSE)
       /\ any = NULL => \A i \in DOMAIN s : ~SameName(n, heap[s[i]].name, FALSE)
       /\ exact = NULL => \A i \in DOMAIN s :
            heap[s[i]].name = n => \E j \in 1 .. i - 1 : heap[s[j]].name = NULL

\* The sequences that the pointers stand for.
Kids(h) == [x \in Items |-> IF x \in LiveIn(h) /\ ~h[x].ref THEN Chain(h, x) ELSE <<>>]
Forest == INSTANCE JsonForest WITH
  kids <- Kids(heap), name <- [x \in Items |-> heap[x].name], live <- Live, NoName <- NULL

(* The pointer operations do to the lists what JsonForest says of sequences.  *)
ImplementsForest == Forest!Spec
=============================================================================
