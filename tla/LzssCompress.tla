---------------------------- MODULE LzssCompress ----------------------------
(***************************************************************************)
(* camtac/lzss.go, Compress: the sliding window, the binary tree of the    *)
(* strings in it, and the literals and pairs that are put out.             *)
(*                                                                         *)
(* The input is chosen while it is read and may have any length.  The      *)
(* window holds the last symbols put out and, from currentPosition on, the *)
(* look-ahead; the tree orders the strings of lookAheadSize symbols that   *)
(* start at the positions outside the look-ahead, by content.  Descending  *)
(* one node of the tree is a step of its own; the other loops of the code  *)
(* are bounded by the window and are part of the step they belong to.      *)
(*                                                                         *)
(* What Expand makes of the output so far is kept beside it, as the window *)
(* Expand has at that point (lzss.go 319-367): the grouping of the output  *)
(* into bytes is LzssStream's subject.                                     *)
(***************************************************************************)
EXTENDS Integers, FiniteSets

CONSTANTS
  WindowSize,        \* 4096 in the code
  RawLookAheadSize,  \* how many match lengths a pair can encode: 16
  BreakEven,         \* matches of up to this length are put out as literals: 1
  Symbols,           \* the bytes
  MaxSinceDamage     \* bound: the symbols replaced since the tree was damaged

ASSUME WindowAssumption == WindowSize \in Nat /\ WindowSize > 1
ASSUME LookAheadAssumption ==
  /\ RawLookAheadSize \in Nat \ {0}
  /\ BreakEven \in Nat
  /\ RawLookAheadSize + BreakEven < WindowSize - 1
ASSUME SymbolsAssumption == Symbols \subseteq Nat /\ 0 \in Symbols
ASSUME BoundsAssumption == MaxSinceDamage \in Nat

LookAheadSize == RawLookAheadSize + BreakEven

Positions == 0 .. WindowSize - 1
TreeRoot == WindowSize
Nodes == 0 .. WindowSize
Unused == 0
EndOfStream == 0

ModWindow(a) == a % WindowSize

Node == [parent : Nodes, smallerChild : Positions, largerChild : Positions]
FreshNode == [parent |-> Unused, smallerChild |-> Unused, largerChild |-> Unused]

VARIABLES
  window,           \* the compressor's window
  tree,             \* the nodes of the tree, TreeRoot among them
  currentPosition,
  lookAheadBytes,
  matchLength, matchPosition,
  replaceCount,     \* symbols of the last output that are not replaced yet
  endOfInput,       \* has all input been read?
  pc,               \* "output", "replace", "add" or "done"
  testNode,         \* the node addString has come to
  expanded,         \* Expand's window, after all that was put out
  \* history
  added,            \* strings added since the start, at most those the tree can hold
  damaged,          \* has the deletion of position 0 changed a node of the tree?
  sinceDamage,      \* symbols replaced since then
  strayed           \* has a pair been put out for a string of the look-ahead?

vars == <<window, tree, currentPosition, lookAheadBytes, matchLength, matchPosition,
          replaceCount, endOfInput, pc, testNode, expanded, added, damaged, sinceDamage, strayed>>

TypeOK ==
  /\ window \in [Positions -> Symbols]
  /\ tree \in [Nodes -> Node]
  /\ currentPosition \in Positions
  /\ lookAheadBytes \in 0 .. LookAheadSize
  /\ matchLength \in 0 .. LookAheadSize
  /\ matchPosition \in Positions
  /\ replaceCount \in 0 .. LookAheadSize
  /\ endOfInput \in BOOLEAN
  /\ pc \in {"output", "replace", "add", "done"}
  /\ testNode \in Positions
  /\ expanded \in [Positions -> Symbols]
  /\ added \in 0 .. WindowSize - LookAheadSize
  /\ damaged \in BOOLEAN
  /\ sinceDamage \in 0 .. MaxSinceDamage
  /\ strayed \in BOOLEAN

(* initTree: the first string is the only one in the tree.                 *)
InitTree(r) ==
  [n \in Nodes |-> CASE n = TreeRoot -> [FreshNode EXCEPT !.largerChild = r]
                     [] n = r        -> [FreshNode EXCEPT !.parent = TreeRoot]
                     [] OTHER        -> FreshNode]

(* The look-ahead is filled, as far as there is input, behind position 0.  *)
Init ==
  /\ \E n \in 0 .. LookAheadSize : \E head \in [1 .. n -> Symbols] :
       /\ window = [p \in Positions |-> IF p \in 1 .. n THEN head[p] ELSE 0]
       /\ lookAheadBytes = n
       /\ endOfInput = (n < LookAheadSize)
  /\ tree = InitTree(1)
  /\ currentPosition = 1
  /\ matchLength = 0
  /\ matchPosition = 0
  /\ replaceCount = 0
  /\ pc = "output"
  /\ testNode = 0
  /\ expanded = [p \in Positions |-> 0]
  /\ added = 0
  /\ damaged = FALSE
  /\ sinceDamage = 0
  /\ strayed = FALSE

-----------------------------------------------------------------------------
(* The operations on the tree.                                             *)

ContractNode(t, oldNode, newNode) ==
  LET t1 == [t EXCEPT ![newNode].parent = t[oldNode].parent]
      parent == t1[oldNode].parent
      t2 == IF t1[parent].largerChild = oldNode
            THEN [t1 EXCEPT ![parent].largerChild = newNode]
            ELSE [t1 EXCEPT ![parent].smallerChild = newNode]
  IN  [t2 EXCEPT ![oldNode].parent = Unused]

(* newNode takes oldNode's place: its parent and its children.             *)
ReplaceNode(t, oldNode, newNode) ==
  LET parent == t[oldNode].parent
      t1 == IF t[parent].smallerChild = oldNode
            THEN [t EXCEPT ![parent].smallerChild = newNode]
            ELSE [t EXCEPT ![parent].largerChild = newNode]
      t2 == [t1 EXCEPT ![newNode] = t1[oldNode]]
      t3 == [n \in Nodes |->
               IF n # Unused /\ n \in {t2[newNode].smallerChild, t2[newNode].largerChild}
               THEN [t2[n] EXCEPT !.parent = newNode] ELSE t2[n]]
  IN  [t3 EXCEPT ![oldNode].parent = Unused]

(* The largest node below the smaller child.                               *)
FindNextNode(t, node) ==
  LET largest[n \in Nodes] ==
        IF t[n].largerChild = Unused THEN n ELSE largest[t[n].largerChild]
  IN  largest[t[node].smallerChild]

(* Whether there is such a node: in a damaged tree the larger children may *)
(* go round in a circle, and findNextNode with them.                       *)
FindNextEnds(t, node) ==
  \E m \in Nodes :
    /\ t[m].largerChild = Unused
    /\ \A X \in SUBSET Nodes :
         /\ t[node].smallerChild \in X
         /\ \A x \in X : t[x].largerChild # Unused => t[x].largerChild \in X
         => m \in X

(* Mutant of Contract: what is below the larger child is lost.             *)
ContractSmaller(t, p) == ContractNode(t, p, t[p].smallerChild)

(* A node with at most one child is contracted: the child, or Unused, takes*)
(* its place.  Unused is also node 0, whose parent is set then, although   *)
(* position 0 is never in the tree.                                        *)
Contract(t, p) ==
  ContractNode(t, p, IF t[p].largerChild = Unused THEN t[p].smallerChild
                                                 ELSE t[p].largerChild)

(* Mutant of DeleteString: the replacement is not taken out first.         *)
ReplaceOnly(t, p) ==
  IF t[p].parent = Unused THEN t
  ELSE IF Unused \in {t[p].smallerChild, t[p].largerChild} THEN Contract(t, p)
  ELSE ReplaceNode(t, p, FindNextNode(t, p))

(* A node with two children is replaced by the next smaller one, which has *)
(* at most one child and is taken out first.                               *)
DeleteString(t, p) ==
  IF t[p].parent = Unused THEN t
  ELSE IF Unused \in {t[p].smallerChild, t[p].largerChild} THEN Contract(t, p)
  ELSE LET replacement == FindNextNode(t, p)
       IN  ReplaceNode(IF t[replacement].parent = Unused THEN t
                       ELSE Contract(t, replacement),
                       p, replacement)

DeleteReturns(t, p) ==
  \/ t[p].parent = Unused
  \/ Unused \in {t[p].smallerChild, t[p].largerChild}
  \/ FindNextEnds(t, p)

(* The nodes in the tree below n, n included; below the root's child there *)
(* are never more than WindowSize - LookAheadSize strings.                 *)
SubTree(n) ==
  LET Children(S) == {tree[m].smallerChild : m \in S} \cup {tree[m].largerChild : m \in S}
      reach[k \in 0 .. WindowSize] ==
        IF k = 0 THEN {n} \ {Unused}
        ELSE LET above == reach[k - 1] IN above \cup (Children(above) \ {Unused})
  IN  reach[WindowSize - LookAheadSize]

(* The positions that deleteString would take out of the tree: those with  *)
(* a parent.                                                               *)
InTree == {n \in Positions \ {Unused} : tree[n].parent # Unused}

-----------------------------------------------------------------------------
(* The loop of Compress: a literal, or a pair, is put out for the symbols  *)
(* at currentPosition, and Expand takes it.                                *)

(* Mutant of MatchLength: a match may reach beyond the end of the input.   *)
Unclamped == matchLength

(* No more than what is left of the input is matched.                      *)
MatchLength == IF matchLength > lookAheadBytes THEN lookAheadBytes ELSE matchLength

Ahead(n) == {ModWindow(currentPosition + i) : i \in 0 .. n - 1}
Offset(p) == ModWindow(p - currentPosition)

OutputChar ==
  /\ MatchLength <= BreakEven
  /\ replaceCount' = 1
  /\ expanded' = [expanded EXCEPT ![currentPosition] = window[currentPosition]]

(* Mutant of Copied: all symbols are read before the first is written.     *)
CopiedAtOnce(from) == [i \in 0 .. LookAheadSize - 1 |-> expanded[ModWindow(from + i)]]

(* Expand copies symbol by symbol: what it has just written may be copied  *)
(* again.                                                                  *)
Copied(from) ==
  LET copy[i \in 0 .. LookAheadSize - 1] ==
        IF Offset(ModWindow(from + i)) < i THEN copy[Offset(ModWindow(from + i))]
        ELSE expanded[ModWindow(from + i)]
  IN  copy

OutputPair ==
  /\ MatchLength > BreakEven
  /\ replaceCount' = MatchLength
  /\ expanded' = [p \in Positions |->
                    IF p \in Ahead(MatchLength) THEN Copied(matchPosition)[Offset(p)]
                    ELSE expanded[p]]

Output ==
  /\ pc = "output"
  /\ lookAheadBytes > 0
  /\ matchLength' = MatchLength
  /\ OutputChar \/ OutputPair
  /\ strayed' = (strayed \/ (MatchLength > BreakEven /\ matchPosition \in Ahead(lookAheadBytes)))
  /\ pc' = "replace"
  /\ UNCHANGED <<window, tree, currentPosition, lookAheadBytes, matchPosition,
                 endOfInput, testNode, added, damaged, sinceDamage>>

-----------------------------------------------------------------------------
(* The string that leaves the window is deleted, the next symbol is read,  *)
(* if there is one, and the string at the next position is added.          *)
(*                                                                         *)
(* Deleting position 0 can change the node at the stale parent that a      *)
(* contraction left in node 0, which is marked (damaged).  In a tree with  *)
(* that damage, findNextNode and addString may never come to an end.       *)

DeletedPosition == ModWindow(currentPosition + LookAheadSize)

ReadSymbol ==
  \/ /\ ~endOfInput
     /\ \E s \in Symbols : window' = [window EXCEPT ![DeletedPosition] = s]
     /\ UNCHANGED <<lookAheadBytes, endOfInput>>
  \/ /\ endOfInput' = TRUE
     /\ lookAheadBytes' = lookAheadBytes - 1
     /\ UNCHANGED window

ReplaceSymbol ==
  /\ pc = "replace"
  /\ replaceCount > 0
  /\ damaged => sinceDamage < MaxSinceDamage
  /\ DeleteReturns(tree, DeletedPosition)
  /\ tree' = DeleteString(tree, DeletedPosition)
  /\ ReadSymbol
  /\ currentPosition' = ModWindow(currentPosition + 1)
  /\ replaceCount' = replaceCount - 1
  /\ \/ /\ lookAheadBytes' = 0
        /\ UNCHANGED <<pc, matchLength, testNode>>
     \/ /\ lookAheadBytes' # 0
        /\ currentPosition' = EndOfStream
        /\ matchLength' = 0
        /\ UNCHANGED <<pc, testNode>>
     \/ /\ lookAheadBytes' # 0
        /\ currentPosition' # EndOfStream
        /\ matchLength' = 0
        /\ testNode' = tree'[TreeRoot].largerChild
        /\ pc' = "add"
  /\ added' = IF added < WindowSize - LookAheadSize THEN added + 1 ELSE added
  /\ damaged' = (damaged \/ (DeletedPosition = 0 /\ \E n \in InTree : tree'[n] # tree[n]))
  /\ sinceDamage' = IF damaged THEN sinceDamage + 1 ELSE 0
  /\ UNCHANGED <<matchPosition, expanded, strayed>>

(* How many symbols the strings at a and b have in common, and the         *)
(* difference between the first two that differ.                           *)
Differ(a, b) ==
  {i \in 0 .. LookAheadSize - 1 : window[ModWindow(a + i)] # window[ModWindow(b + i)]}
Common(a, b) ==
  IF Differ(a, b) = {} THEN LookAheadSize
  ELSE CHOOSE i \in Differ(a, b) : \A j \in Differ(a, b) : i <= j
Larger(a, b) ==
  LET i == Common(a, b)
  IN  i < LookAheadSize => window[ModWindow(a + i)] > window[ModWindow(b + i)]

(* The string at testNode is compared with the new one: the longest match  *)
(* is remembered, the most recent one of several.  An equal string is      *)
(* replaced, and otherwise the new one goes below testNode.                *)
AddString ==
  LET newNode == currentPosition
      common == Common(newNode, testNode)
      child == IF Larger(newNode, testNode) THEN tree[testNode].largerChild
                                            ELSE tree[testNode].smallerChild
      leaf == [FreshNode EXCEPT !.parent = testNode]
  IN
  /\ pc = "add"
  /\ \/ /\ common >= matchLength
        /\ matchLength' = common
        /\ matchPosition' = testNode
     \/ /\ common < matchLength
        /\ UNCHANGED <<matchLength, matchPosition>>
  /\ \/ /\ common = LookAheadSize
        /\ tree' = ReplaceNode(tree, testNode, newNode)
        /\ pc' = "replace"
        /\ UNCHANGED testNode
     \/ /\ common < LookAheadSize
        /\ child = Unused
        /\ tree' = IF Larger(newNode, testNode)
                   THEN [tree EXCEPT ![testNode].largerChild = newNode, ![newNode] = leaf]
                   ELSE [tree EXCEPT ![testNode].smallerChild = newNode, ![newNode] = leaf]
        /\ pc' = "replace"
        /\ UNCHANGED testNode
     \/ /\ common < LookAheadSize
        /\ child # Unused
        /\ testNode' = child
        /\ UNCHANGED <<tree, pc>>
  /\ UNCHANGED <<window, currentPosition, lookAheadBytes, replaceCount, endOfInput,
                 expanded, added, damaged, sinceDamage, strayed>>

Replaced ==
  /\ pc = "replace"
  /\ replaceCount = 0
  /\ pc' = "output"
  /\ UNCHANGED <<window, tree, currentPosition, lookAheadBytes, matchLength, matchPosition,
                 replaceCount, endOfInput, testNode, expanded, added, damaged, sinceDamage, strayed>>

Finish ==
  /\ pc = "output"
  /\ lookAheadBytes = 0
  /\ pc' = "done"
  /\ UNCHANGED <<window, tree, currentPosition, lookAheadBytes, matchLength, matchPosition,
                 replaceCount, endOfInput, testNode, expanded, added, damaged, sinceDamage, strayed>>

Next == Output \/ ReplaceSymbol \/ AddString \/ Replaced \/ Finish

Spec == Init /\ [][Next]_vars

-----------------------------------------------------------------------------
(* Expand's window agrees with the compressor's after every literal and    *)
(* every pair: all symbols that were put out come out again, also those of *)
(* pairs that overlap the position they are copied to, reach round the end *)
(* of the window or stop at the end of the input (Compress, Expand).  It   *)
(* does not matter what has become of the tree, with one exception: if the *)
(* tree offers a string of the look-ahead as a match, the pair refers to   *)
(* symbols that Expand does not have yet.  Only a damaged tree does.       *)
RoundTrip ==
  /\ strayed => damaged
  /\ pc \in {"output", "done"} /\ ~strayed =>
       \A p \in Positions \ Ahead(lookAheadBytes) : expanded[p] = window[p]

(* The positions whose strings have been added and still are in the window.*)
Past == {ModWindow(currentPosition - k) : k \in 1 .. added} \ {EndOfStream}

(* Between two additions the tree is a binary search tree of strings that  *)
(* are still in the window: every node is a child of its parent, what is   *)
(* below its smaller child is smaller and what is below its larger child   *)
(* larger, and no string of the look-ahead but the one at currentPosition  *)
(* is in it.                                                               *)
TreeIsSearchTree ==
  pc # "add" /\ ~damaged =>
    \A n \in InTree :
      /\ n \in Past \cup {currentPosition}
      /\ n \in {tree[tree[n].parent].smallerChild, tree[tree[n].parent].largerChild}
      /\ \A m \in SubTree(tree[n].smallerChild) : ~Larger(m, n)
      /\ \A m \in SubTree(tree[n].largerChild) : Larger(m, n) /\ Differ(m, n) # {}

(* A pair is as long as any string in the window allows: no deletion and   *)
(* no replacement has lost a string (addString, deleteString).  Position 0 *)
(* is never added, and nothing is looked up for it.                        *)
LongestMatch ==
  pc = "output" /\ lookAheadBytes > 0 /\ currentPosition # EndOfStream /\ ~damaged =>
    \A p \in Past : Common(currentPosition, p) <= matchLength
=============================================================================
