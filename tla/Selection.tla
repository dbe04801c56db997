----------------------------- MODULE Selection ------------------------------
(***************************************************************************)
(* The selection of a function's input and the merge of its output, as the *)
(* list algorithms of pkg/fn/runtime/utils.go.  A node is a record with    *)
(* attrs, what selectors look at, and id, the kpt-resource-id annotation   *)
(* (NoID if it has none).  A selector is a function from the attributes it *)
(* constrains to the values it wants.                                      *)
(***************************************************************************)
EXTENDS Naturals, Sequences, SequencesExt

CONSTANT NoID

ASSUME SelectionAssumption == NoID \notin Nat

\* The members of a list that are in S, in their order.
Only(list, S) == FlattenSeq([i \in DOMAIN list |-> IF list[i] \in S THEN <<list[i]>> ELSE <<>>])

IsMatch(node, selector) ==
  \A a \in DOMAIN selector : a \in DOMAIN node.attrs /\ node.attrs[a] = selector[a]

IsEmpty(selector) == DOMAIN selector = {}

\* A node is taken once for each selector that matches it.
Matching(node, selectors) ==
  LET hits == Only(selectors, {s \in ToSet(selectors) : IsMatch(node, s)}) IN
  [i \in DOMAIN hits |-> node]

Excluded(node, exclusions) ==
  \E e \in ToSet(exclusions) : ~IsEmpty(e) /\ IsMatch(node, e)

SelectInput(input, selectors, exclusions) ==
  LET selected == IF selectors = <<>> THEN input
                  ELSE FlattenSeq([i \in DOMAIN input |-> Matching(input[i], selectors)]) IN
  Only(selected, {n \in ToSet(selected) : ~Excluded(n, exclusions)})

SetResourceIDs(input) == [i \in DOMAIN input |-> [input[i] EXCEPT !.id = i - 1]]

DeleteResourceIDs(input) == [i \in DOMAIN input |-> [input[i] EXCEPT !.id = NoID]]

\* Without an id: what the function generated.
Generated(list) == Only(list, {n \in ToSet(list) : n.id = NoID})

PresentIn(node, list) == \E n \in ToSet(list) : n.id = node.id

\* The first node of the list with that id.
NodeWithResourceID(id, list) ==
  list[CHOOSE i \in DOMAIN list : list[i].id = id /\ \A j \in 1..(i - 1) : list[j].id # id]

\* A mutant: a node counts as deleted only if it was selected and changed its id.
MergeWithInputKeeping(output, selectedInput, input) ==
  [i \in DOMAIN input |->
     IF PresentIn(input[i], selectedInput) /\ PresentIn(input[i], output)
       THEN NodeWithResourceID(input[i].id, output) ELSE input[i]]
  \o Generated(output)

\* What was not selected stays, what the function returned replaces its input, what it
\* did not return is gone, and what it generated comes last.
MergeWithInput(output, selectedInput, input) ==
  LET kept == Only(input, {n \in ToSet(input) : PresentIn(n, selectedInput) => PresentIn(n, output)}) IN
  [i \in DOMAIN kept |->
     IF PresentIn(kept[i], selectedInput) THEN NodeWithResourceID(kept[i].id, output) ELSE kept[i]]
  \o Generated(output)
=============================================================================
