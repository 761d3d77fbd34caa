-------------------------- MODULE LzssCompressProofs --------------------------
(***************************************************************************)
(* Proofs about LzssCompress, for any window, look-ahead and alphabet.  As *)
(* long as the tree is not damaged, however long the input is, it is a     *)
(* binary search tree of the strings in the window, and a match is as long *)
(* as any of them allows.  Damaged or not, what is put out expands to the  *)
(* input, until a pair is put out for a string of the look-ahead; and only *)
(* a damaged tree offers such a pair.                                      *)
(*                                                                         *)
(* The tree is reasoned about through the sets of nodes that are below its *)
(* nodes: a function B, of which the invariant says that it exists.  Each  *)
(* operation on the tree is described once, by what it makes of B; the     *)
(* order of the strings is a second step on top of that.                   *)
(***************************************************************************)
EXTENDS LzssCompress, WellFoundedInduction, FiniteSetTheorems, TLAPS

-----------------------------------------------------------------------------
(* Strings and their order.                                                *)

Index == 0 .. LookAheadSize - 1

(* The string that starts at a position.                                   *)
Strings(w) == [p \in Nodes |-> [i \in Index |-> w[ModWindow(p + i)]]]

Shares(u, v, n) == \A i \in 0 .. n - 1 : u[i] = v[i]

Less(u, v) == \E i \in Index : u[i] < v[i] /\ Shares(u, v, i)

(* u and v have no more than n symbols in common.                          *)
NoLonger(n, u, v) == \A k \in 0 .. LookAheadSize : Shares(u, v, k) => k <= n

-----------------------------------------------------------------------------
(* The shape of the tree.                                                  *)

Live(t) == {n \in Positions \ {Unused} : t[n].parent # Unused}
Rooted(t) == Live(t) \cup {TreeRoot}

(* Children are in the tree, and name their parent.                        *)
ChildOf(t, c, m) == c \in Live(t) /\ t[c].parent = m
Linked(t) ==
  /\ \A m \in Rooted(t) :
       /\ t[m].smallerChild = Unused \/ ChildOf(t, t[m].smallerChild, m)
       /\ t[m].largerChild = Unused \/ ChildOf(t, t[m].largerChild, m)
       /\ t[m].smallerChild = t[m].largerChild => t[m].smallerChild = Unused
  /\ t[TreeRoot].smallerChild = Unused
  /\ t[Unused].smallerChild = Unused /\ t[Unused].largerChild = Unused

(* B[n] are the nodes below n, n included.                                 *)
Shaped(t, B) ==
  /\ B \in [Nodes -> SUBSET Nodes]
  /\ B[Unused] = {}
  /\ \A n \in Live(t) :
       /\ t[n].parent \in Rooted(t)
       /\ t[t[n].parent].smallerChild = n \/ t[t[n].parent].largerChild = n
       /\ B[n] \subseteq Live(t)
  /\ \A n \in Rooted(t) :
       /\ B[n] = {n} \cup B[t[n].smallerChild] \cup B[t[n].largerChild]
       /\ n \notin B[t[n].smallerChild] /\ n \notin B[t[n].largerChild]
       /\ B[t[n].smallerChild] \cap B[t[n].largerChild] = {}
       /\ \A x \in Live(t) \ {n} : x \in B[n] <=> t[x].parent \in B[n]
  /\ B[TreeRoot] = Rooted(t)

(* What is below the smaller child is smaller, below the larger one larger.*)
Ordered(t, B, S) ==
  \A n \in Live(t) :
    /\ \A m \in B[t[n].smallerChild] : Less(S[m], S[n])
    /\ \A m \in B[t[n].largerChild] : Less(S[n], S[m])

-----------------------------------------------------------------------------
(* The inductive invariant.                                                *)

Age(p) == ModWindow(currentPosition - p)

Counted ==
  /\ replaceCount <= lookAheadBytes
  /\ ~endOfInput => lookAheadBytes = LookAheadSize
  /\ pc \in {"output", "done"} => replaceCount = 0
  /\ pc = "add" => lookAheadBytes > 0 /\ currentPosition # EndOfStream
  /\ currentPosition # 1 => added > 0

(* Symbols that were put out are the same on both sides, those that were   *)
(* not moved out of the look-ahead yet included.                           *)
Agree ==
  \A p \in Positions :
    Offset(p) \notin replaceCount .. lookAheadBytes - 1 => expanded[p] = window[p]

(* What is remembered as a match is one.                                   *)
Remembers == lookAheadBytes > 0 /\ (pc = "add" \/ replaceCount = 0) /\ matchLength > 0
Matched ==
  Remembers =>
    \A i \in 0 .. matchLength - 1 :
      window[ModWindow(matchPosition + i)] = window[ModWindow(currentPosition + i)]

(* It starts outside the look-ahead.                                       *)
Located == Remembers => Age(matchPosition) \in 1 .. WindowSize - LookAheadSize

(* The search for the place of a new string is at a node of the tree.      *)
Searching == pc = "add" => testNode \in Live(tree)

(* Only strings that were added and are still in the window are in the     *)
(* tree; at "add", the new one is not.                                     *)
Recent ==
  \A n \in Live(tree) : Age(n) <= added /\ (pc = "add" => n # currentPosition)

(* Every string that was added is in the tree, or an equal, younger one.   *)
Stored(p) ==
  \/ Age(p) \in 1 .. added
  \/ p = currentPosition /\ pc # "add" /\ lookAheadBytes > 0
Represented ==
  \A p \in Positions \ {Unused} : Stored(p) =>
    \E q \in Live(tree) : Age(q) <= Age(p) /\ Strings(window)[q] = Strings(window)[p]

(* Once the new string is in the tree, no other match would be longer.     *)
FoundLongest ==
  /\ pc # "add" /\ replaceCount = 0 /\ lookAheadBytes > 0 /\ currentPosition # EndOfStream
  => \A p \in Positions \ {Unused} : Age(p) \in 1 .. added =>
       NoLonger(matchLength, Strings(window)[currentPosition], Strings(window)[p])

(* While the place of the new string is looked for: it is below testNode,  *)
(* and what is not was no better match.                                    *)
OnPath(B) ==
  pc = "add" =>
    \A n \in Live(tree) :
      /\ testNode \in B[tree[n].smallerChild] =>
           Less(Strings(window)[currentPosition], Strings(window)[n])
      /\ testNode \in B[tree[n].largerChild] =>
           Less(Strings(window)[n], Strings(window)[currentPosition])
      /\ n \in B[testNode] \/ NoLonger(matchLength, Strings(window)[currentPosition],
                                       Strings(window)[n])

TreeInv(B) == Shaped(tree, B) /\ Ordered(tree, B, Strings(window)) /\ OnPath(B)

(* What holds until the deletion of position 0 changes a node of the tree, *)
(* and what holds after it as well.                                        *)
SoundTree ==
  /\ Linked(tree)
  /\ Recent
  /\ Located
  /\ Searching
  /\ Represented
  /\ FoundLongest
  /\ \E B : TreeInv(B)

IInv ==
  /\ TypeOK
  /\ Counted
  /\ Matched
  /\ ~strayed => Agree
  /\ strayed => damaged
  /\ ~damaged => SoundTree

-----------------------------------------------------------------------------
(* Arithmetic of the window.                                               *)

LEMMA Sizes ==
  /\ WindowSize \in Nat \ {0}
  /\ LookAheadSize \in Nat \ {0}
  /\ LookAheadSize + 1 < WindowSize
BY WindowAssumption, LookAheadAssumption DEF LookAheadSize

LEMMA ModOf ==
  ASSUME NEW n \in Nat \ {0}, NEW a \in Int
  PROVE  /\ a % n \in 0 .. n - 1
         /\ a \in 0 .. n - 1 => a % n = a
         /\ a \in n .. 2 * n - 1 => a % n = a - n
         /\ a \in (- n) .. (-1) => a % n = a + n
OBVIOUS

LEMMA Wrapped ==
  ASSUME NEW a \in Int
  PROVE  /\ ModWindow(a) \in Positions
         /\ a \in 0 .. WindowSize - 1 => ModWindow(a) = a
         /\ a \in WindowSize .. 2 * WindowSize - 1 => ModWindow(a) = a - WindowSize
         /\ a \in (- WindowSize) .. (-1) => ModWindow(a) = a + WindowSize
BY Sizes, ModOf DEF ModWindow, Positions

(* How far ahead of the current position, and how far behind it.           *)
LEMMA Distances ==
  ASSUME currentPosition \in Positions, NEW p \in Positions
  PROVE  /\ Offset(p) = IF p >= currentPosition THEN p - currentPosition
                        ELSE p - currentPosition + WindowSize
         /\ Age(p) = IF currentPosition >= p THEN currentPosition - p
                     ELSE currentPosition - p + WindowSize
         /\ Offset(p) \in 0 .. WindowSize - 1
         /\ Age(p) \in 0 .. WindowSize - 1
<1>1. /\ p - currentPosition \in Int
      /\ currentPosition - p \in Int
      /\ p - currentPosition \in (- WindowSize) .. WindowSize - 1
      /\ currentPosition - p \in (- WindowSize) .. WindowSize - 1
  BY Sizes DEF Positions
<1> QED
  BY <1>1, Sizes, Wrapped DEF Offset, Age, Positions

(* The current position moves on by one.                                   *)
LEMMA Turned ==
  ASSUME currentPosition \in Positions, currentPosition' = ModWindow(currentPosition + 1)
  PROVE  /\ currentPosition' \in Positions
         /\ currentPosition' = IF currentPosition = WindowSize - 1 THEN 0
                               ELSE currentPosition + 1
         /\ \A p \in Positions :
              /\ Age(p)' = IF Age(p) = WindowSize - 1 THEN 0 ELSE Age(p) + 1
              /\ Offset(p)' = IF Offset(p) = 0 THEN WindowSize - 1 ELSE Offset(p) - 1
              /\ Age(p)' = 0 => p = currentPosition'
              /\ p = currentPosition' => Age(p)' = 0
<1>1. /\ currentPosition' \in Positions
      /\ currentPosition' = IF currentPosition = WindowSize - 1 THEN 0
                            ELSE currentPosition + 1
  BY Sizes, Wrapped DEF Positions
<1>2. ASSUME NEW p \in Positions
      PROVE  /\ Offset(p)' = IF p >= currentPosition' THEN p - currentPosition'
                             ELSE p - currentPosition' + WindowSize
             /\ Age(p)' = IF currentPosition' >= p THEN currentPosition' - p
                          ELSE currentPosition' - p + WindowSize
  <2>1. /\ p - currentPosition' \in Int
        /\ currentPosition' - p \in Int
        /\ p - currentPosition' \in (- WindowSize) .. WindowSize - 1
        /\ currentPosition' - p \in (- WindowSize) .. WindowSize - 1
    BY <1>1, Sizes DEF Positions
  <2> QED
    BY <2>1, <1>1, Sizes, Wrapped DEF Offset, Age, Positions
<1>3. ASSUME NEW p \in Positions
      PROVE  /\ Age(p)' = IF Age(p) = WindowSize - 1 THEN 0 ELSE Age(p) + 1
             /\ Offset(p)' = IF Offset(p) = 0 THEN WindowSize - 1 ELSE Offset(p) - 1
  <2>1. /\ Offset(p) = IF p >= currentPosition THEN p - currentPosition
                       ELSE p - currentPosition + WindowSize
        /\ Age(p) = IF currentPosition >= p THEN currentPosition - p
                    ELSE currentPosition - p + WindowSize
    BY Distances
  <2>2. /\ Offset(p)' = IF p >= currentPosition' THEN p - currentPosition'
                        ELSE p - currentPosition' + WindowSize
        /\ Age(p)' = IF currentPosition' >= p THEN currentPosition' - p
                     ELSE currentPosition' - p + WindowSize
    BY <1>2
  <2>3. CASE currentPosition = WindowSize - 1
    BY <2>1, <2>2, <2>3, <1>1, Sizes DEF Positions
  <2>4. CASE currentPosition # WindowSize - 1
    BY <2>1, <2>2, <2>4, <1>1, Sizes DEF Positions
  <2> QED
    BY <2>3, <2>4
<1>4. ASSUME NEW p \in Positions
      PROVE  /\ Age(p)' = 0 => p = currentPosition'
             /\ p = currentPosition' => Age(p)' = 0
  BY <1>1, <1>2, Sizes DEF Positions
<1> QED
  BY <1>1, <1>3, <1>4

(* The position that is deleted is the oldest one.                         *)
LEMMA Oldest ==
  ASSUME currentPosition \in Positions
  PROVE  /\ DeletedPosition \in Positions
         /\ DeletedPosition # currentPosition
         /\ \A p \in Positions :
              /\ p = DeletedPosition <=> Offset(p) = LookAheadSize
              /\ p = DeletedPosition <=> Age(p) = WindowSize - LookAheadSize
<1>1. /\ currentPosition + LookAheadSize \in Int
      /\ currentPosition + LookAheadSize \in 0 .. 2 * WindowSize - 1
  BY Sizes DEF Positions
<1>2. /\ DeletedPosition \in Positions
      /\ DeletedPosition = IF currentPosition + LookAheadSize < WindowSize
                           THEN currentPosition + LookAheadSize
                           ELSE currentPosition + LookAheadSize - WindowSize
  BY <1>1, Sizes, Wrapped DEF DeletedPosition, Positions
<1> QED
  BY <1>2, Distances, Sizes DEF Positions


-----------------------------------------------------------------------------
(* The order of strings.                                                   *)

LEMMA Smallest ==
  ASSUME NEW D, D \subseteq Nat, D # {}
  PROVE  \E x \in D : \A y \in D : x <= y
<1> DEFINE R == OpToRel(<, Nat)
<1>1. IsWellFoundedOn(R, Nat)
  BY NatLessThanWellFounded
<1>2. \A m, n \in Nat : m < n => <<m, n>> \in R
  BY DEF OpToRel
<1> HIDE DEF R
<1>3. PICK x \in D : \A y \in D : ~ (<<y, x>> \in R)
  BY <1>1, WFMin
<1>4. x \in Nat /\ \A y \in D : y \in Nat /\ ~ (y < x)
  BY <1>2, <1>3
<1> QED
  BY <1>3, <1>4

(* A set of numbers that holds 0 and every successor holds all of them.    *)
LEMMA SetInduction ==
  ASSUME NEW S, 0 \in S, \A n \in Nat : n \in S => n + 1 \in S
  PROVE  \A n \in Nat : n \in S
<1> SUFFICES ASSUME Nat \ S # {} PROVE FALSE
  OBVIOUS
<1>1. PICK x \in Nat \ S : \A y \in Nat \ S : x <= y
  BY Smallest
<1>2. x - 1 \in Nat
  BY <1>1
<1>3. x - 1 \in S
  BY <1>1, <1>2
<1> QED
  BY <1>1, <1>2, <1>3

String == [Index -> Nat]

LEMMA StringsTyped ==
  ASSUME NEW w \in [Positions -> Symbols]
  PROVE  Strings(w) \in [Nodes -> String]
<1>1. ASSUME NEW p \in Nodes, NEW i \in Index PROVE w[ModWindow(p + i)] \in Nat
  <2>1. p + i \in Int
    BY Sizes DEF Nodes, Index
  <2>2. ModWindow(p + i) \in Positions
    BY <2>1, Wrapped
  <2> QED
    BY <2>2, SymbolsAssumption
<1> QED
  BY <1>1 DEF Strings, String

LEMMA FirstDifference ==
  ASSUME NEW u \in String, NEW v \in String, u # v
  PROVE  \E i \in Index : u[i] # v[i] /\ Shares(u, v, i)
<1> DEFINE D == {i \in Index : u[i] # v[i]}
<1>1. D # {} /\ D \subseteq Nat
  <2>1. PICK i \in Index : u[i] # v[i]
    BY DEF String
  <2> QED
    BY <2>1 DEF Index
<1>2. PICK i \in D : \A j \in D : i <= j
  BY <1>1, Smallest
<1>3. Shares(u, v, i)
  BY <1>1, <1>2, Sizes DEF Shares, Index
<1> QED
  BY <1>2, <1>3

LEMMA LessTotal ==
  ASSUME NEW u \in String, NEW v \in String, u # v
  PROVE  Less(u, v) \/ Less(v, u)
<1>1. PICK i \in Index : u[i] # v[i] /\ Shares(u, v, i)
  BY FirstDifference
<1>2. u[i] \in Nat /\ v[i] \in Nat
  BY DEF String
<1>3. u[i] < v[i] \/ v[i] < u[i]
  BY <1>1, <1>2
<1>4. Shares(v, u, i)
  BY <1>1 DEF Shares
<1> QED
  BY <1>1, <1>3, <1>4 DEF Less

LEMMA LessAsymmetric ==
  ASSUME NEW u \in String, NEW v \in String, Less(u, v)
  PROVE  ~Less(v, u) /\ u # v
<1>1. PICK i \in Index : u[i] < v[i] /\ Shares(u, v, i)
  BY DEF Less
<1>2. \A k \in Index : u[k] \in Nat /\ v[k] \in Nat
  BY DEF String
<1>3. u # v
  BY <1>1, <1>2
<1>4. ASSUME NEW j \in Index, v[j] < u[j], Shares(v, u, j) PROVE FALSE
  <2>1. ~(i < j)
    BY <1>1, <1>2, <1>4 DEF Shares, Index
  <2>2. ~(j < i)
    BY <1>1, <1>2, <1>4 DEF Shares, Index
  <2> QED
    BY <2>1, <2>2, <1>1, <1>2, <1>4 DEF Index
<1> QED
  BY <1>3, <1>4 DEF Less

LEMMA LessTransitive ==
  ASSUME NEW u \in String, NEW v \in String, NEW w \in String, Less(u, v), Less(v, w)
  PROVE  Less(u, w)
<1>1. PICK i \in Index : u[i] < v[i] /\ Shares(u, v, i)
  BY DEF Less
<1>2. PICK j \in Index : v[j] < w[j] /\ Shares(v, w, j)
  BY DEF Less
<1>3. \A k \in Index : u[k] \in Nat /\ v[k] \in Nat /\ w[k] \in Nat
  BY DEF String
<1>4. CASE i < j
  <2>1. u[i] < w[i] /\ Shares(u, w, i)
    BY <1>1, <1>2, <1>3, <1>4 DEF Shares, Index
  <2> QED
    BY <2>1 DEF Less
<1>5. CASE j <= i
  <2>1. u[j] < w[j]
    BY <1>1, <1>2, <1>3, <1>5 DEF Shares, Index
  <2>2. Shares(u, w, j)
    BY <1>1, <1>2, <1>3, <1>5 DEF Shares, Index
  <2> QED
    BY <2>1, <2>2 DEF Less
<1> QED
  BY <1>4, <1>5 DEF Index

(* The outer two of three strings in order share no more than the inner    *)
(* one does with either of them.                                           *)
LEMMA Between ==
  ASSUME NEW u \in String, NEW v \in String, NEW w \in String,
         Less(u, v), Less(v, w), NEW n \in 0 .. LookAheadSize, Shares(u, w, n)
  PROVE  Shares(u, v, n) /\ Shares(v, w, n)
<1>1. PICK i \in Index : u[i] < v[i] /\ Shares(u, v, i)
  BY DEF Less
<1>2. PICK j \in Index : v[j] < w[j] /\ Shares(v, w, j)
  BY DEF Less
<1>3. \A k \in Index : u[k] \in Nat /\ v[k] \in Nat /\ w[k] \in Nat
  BY DEF String
<1>4. CASE i < j
  <2>1. u[i] < w[i]
    BY <1>1, <1>2, <1>3, <1>4 DEF Shares, Index
  <2>2. n <= i
    BY <2>1, <1>3, Sizes DEF Shares, Index
  <2> QED
    BY <2>2, <1>1, <1>2, <1>4, Sizes DEF Shares, Index
<1>5. CASE j <= i
  <2>1. u[j] < w[j]
    BY <1>1, <1>2, <1>3, <1>5 DEF Shares, Index
  <2>2. n <= j
    BY <2>1, <1>3, Sizes DEF Shares, Index
  <2> QED
    BY <2>2, <1>1, <1>2, <1>5, Sizes DEF Shares, Index
<1> QED
  BY <1>4, <1>5 DEF Index

(* A string that is not better than n for v is none for what is beyond v.  *)
LEMMA NoLongerBeyond ==
  ASSUME NEW u \in String, NEW v \in String, NEW w \in String, NEW n \in Nat,
         \/ Less(u, v) /\ Less(v, w)
         \/ Less(w, v) /\ Less(v, u),
         NoLonger(n, u, v)
  PROVE  NoLonger(n, u, w)
<1> SUFFICES ASSUME NEW k \in 0 .. LookAheadSize, Shares(u, w, k) PROVE k <= n
  BY DEF NoLonger
<1>1. Shares(w, u, k)
  BY DEF Shares
<1>2. Shares(u, v, k) \/ Shares(v, u, k)
  BY <1>1, Between
<1>3. Shares(u, v, k)
  BY <1>2 DEF Shares
<1> QED
  BY <1>3 DEF NoLonger

(* What the comparison of addString finds out.                             *)
LEMMA Comparison ==
  ASSUME window \in [Positions -> Symbols], NEW a \in Positions, NEW b \in Positions
  PROVE  /\ Common(a, b) \in 0 .. LookAheadSize
         /\ Common(a, b) = LookAheadSize <=> Strings(window)[a] = Strings(window)[b]
         /\ Differ(a, b) = {} <=> Strings(window)[a] = Strings(window)[b]
         /\ \A i \in 0 .. Common(a, b) - 1 :
              window[ModWindow(a + i)] = window[ModWindow(b + i)]
         /\ NoLonger(Common(a, b), Strings(window)[a], Strings(window)[b])
         /\ Larger(a, b) =>
              \/ Strings(window)[a] = Strings(window)[b]
              \/ Less(Strings(window)[b], Strings(window)[a])
         /\ ~Larger(a, b) => Less(Strings(window)[a], Strings(window)[b])
<1> DEFINE S == Strings(window)
           c == Common(a, b)
<1>0. a \in Nodes /\ b \in Nodes
  BY Sizes DEF Positions, Nodes
<1>1. S[a] \in String /\ S[b] \in String
  BY <1>0, StringsTyped
<1>2. \A i \in Index : /\ S[a][i] = window[ModWindow(a + i)]
                       /\ S[b][i] = window[ModWindow(b + i)]
  BY <1>0 DEF Strings
<1>3. Differ(a, b) = {i \in Index : S[a][i] # S[b][i]}
  BY <1>2 DEF Differ, Index
<1>4. Differ(a, b) = {} <=> S[a] = S[b]
  BY <1>1, <1>3 DEF String
<1>5. CASE Differ(a, b) = {}
  <2>1. c = LookAheadSize
    BY <1>5 DEF Common
  <2>2. NoLonger(c, S[a], S[b])
    BY <2>1, Sizes DEF NoLonger
  <2>3. \A i \in 0 .. c - 1 : window[ModWindow(a + i)] = window[ModWindow(b + i)]
    BY <2>1, <1>2, <1>4, <1>5 DEF Index
  <2>4. Larger(a, b)
    BY <2>1, Sizes DEF Larger
  <2> QED
    BY <2>1, <2>2, <2>3, <2>4, <1>4, <1>5, Sizes
<1>6. CASE Differ(a, b) # {}
  <2>1. \E i \in Differ(a, b) : \A j \in Differ(a, b) : i <= j
    BY <1>3, <1>6, Smallest, Sizes DEF Index
  <2>2. c \in Differ(a, b) /\ \A j \in Differ(a, b) : c <= j
    BY <2>1, <1>6 DEF Common
  <2> HIDE DEF c
  <2>3. c \in Index /\ S[a][c] # S[b][c] /\ c < LookAheadSize
    BY <2>2, <1>3, Sizes DEF Index
  <2>4. Shares(S[a], S[b], c) /\ Shares(S[b], S[a], c)
    BY <2>2, <2>3, <1>3, Sizes DEF Shares, Index
  <2>5. NoLonger(c, S[a], S[b])
    BY <2>3, Sizes DEF NoLonger, Shares, Index
  <2>6. \A i \in 0 .. c - 1 : window[ModWindow(a + i)] = window[ModWindow(b + i)]
    BY <2>3, <2>4, <1>2, Sizes DEF Shares, Index
  <2>7. Larger(a, b) <=> S[a][c] > S[b][c]
    BY <2>3, <1>2 DEF Larger, c
  <2>8. S[a][c] \in Nat /\ S[b][c] \in Nat
    BY <2>3, <1>1 DEF String
  <2>9. Larger(a, b) => Less(S[b], S[a])
    BY <2>3, <2>4, <2>7, <2>8 DEF Less
  <2>10. ~Larger(a, b) => Less(S[a], S[b])
    BY <2>3, <2>4, <2>7, <2>8 DEF Less
  <2> QED
    BY <2>3, <2>5, <2>6, <2>9, <2>10, <1>4, <1>6, Sizes DEF Index, c
<1> QED
  BY <1>5, <1>6


-----------------------------------------------------------------------------
(* contractNode: p leaves the tree, and its only child c takes its place.  *)

LEMMA NodeNumbers ==
  /\ Unused \in Positions
  /\ TreeRoot \in Nodes
  /\ TreeRoot \notin Positions
  /\ Positions \subseteq Nodes
  /\ Unused # TreeRoot
BY Sizes DEF Unused, Positions, TreeRoot, Nodes

LEMMA LiveNodes ==
  ASSUME NEW t
  PROVE  /\ \A n \in Live(t) : n \in Positions /\ n \in Nodes /\ n # Unused /\ n # TreeRoot
         /\ \A n \in Rooted(t) : n \in Nodes /\ n # Unused
         /\ \A n \in Live(t) : n \in Rooted(t)
         /\ TreeRoot \in Rooted(t)
BY NodeNumbers DEF Live, Rooted

(* The fields after ContractNode.                                          *)
LEMMA ContractedFields ==
  ASSUME NEW t \in [Nodes -> Node], NEW p \in Nodes, NEW c \in Positions, NEW q \in Nodes,
         q = t[p].parent, p # c, q # p, q # c,
         NEW u, u = ContractNode(t, p, c)
  PROVE  /\ u \in [Nodes -> Node]
         /\ u[p].parent = Unused
         /\ u[c].parent = q
         /\ \A n \in Nodes \ {p, c} : u[n].parent = t[n].parent
         /\ \A n \in Nodes \ {q} : /\ u[n].smallerChild = t[n].smallerChild
                                   /\ u[n].largerChild = t[n].largerChild
         /\ t[q].largerChild = p => /\ u[q].largerChild = c
                                    /\ u[q].smallerChild = t[q].smallerChild
         /\ t[q].largerChild # p => /\ u[q].smallerChild = c
                                    /\ u[q].largerChild = t[q].largerChild
<1>1. Unused \in Nodes /\ c \in Nodes
  BY NodeNumbers
<1>2. PICK t1 : t1 = [t EXCEPT ![c].parent = t[p].parent]
  OBVIOUS
<1>3. /\ t1 \in [Nodes -> Node]
      /\ t1[c] = [t[c] EXCEPT !.parent = q]
      /\ \A n \in Nodes \ {c} : t1[n] = t[n]
  BY <1>1, <1>2 DEF Node
<1>4. t1[p] = t[p] /\ t1[q] = t[q]
  BY <1>3
<1>5. PICK t2 : t2 = IF t1[q].largerChild = p
                     THEN [t1 EXCEPT ![q].largerChild = c]
                     ELSE [t1 EXCEPT ![q].smallerChild = c]
  OBVIOUS
<1>6. /\ t2 \in [Nodes -> Node]
      /\ t2[q] = IF t[q].largerChild = p THEN [t[q] EXCEPT !.largerChild = c]
                 ELSE [t[q] EXCEPT !.smallerChild = c]
      /\ \A n \in Nodes \ {q} : t2[n] = t1[n]
  BY <1>3, <1>4, <1>5 DEF Node
<1>7. u = [t2 EXCEPT ![p].parent = Unused]
  BY <1>2, <1>4, <1>5 DEF ContractNode
<1>8. /\ u \in [Nodes -> Node]
      /\ u[p] = [t[p] EXCEPT !.parent = Unused]
      /\ u[c] = [t[c] EXCEPT !.parent = q]
      /\ u[q] = t2[q]
      /\ \A n \in Nodes \ {p, c, q} : u[n] = t[n]
  <2>1. u \in [Nodes -> Node]
    BY <1>1, <1>6, <1>7 DEF Node
  <2>2. \A n \in Nodes \ {p} : u[n] = t2[n]
    BY <1>6, <1>7
  <2>3. u[p] = [t2[p] EXCEPT !.parent = Unused]
    BY <1>6, <1>7
  <2> QED
    BY <2>1, <2>2, <2>3, <1>1, <1>3, <1>4, <1>6
<1>9. t[p] \in Node /\ t[c] \in Node /\ t[q] \in Node
  BY <1>1
<1> QED
  BY <1>6, <1>8, <1>9 DEF Node

(* A node is not its own grandchild, and below its child there is neither  *)
(* it nor its parent.                                                      *)
LEMMA ParentApart ==
  ASSUME NEW t, NEW B, Linked(t), Shaped(t, B), NEW p \in Live(t)
  PROVE  /\ t[p].parent # p
         /\ t[p].parent # t[p].smallerChild
         /\ t[p].parent # t[p].largerChild
         /\ p # t[p].smallerChild
         /\ p # t[p].largerChild
         /\ t[p].parent \in Rooted(t)
         /\ t[p].parent \notin B[p]
<1> DEFINE q == t[p].parent
<1>1. /\ q \in Rooted(t)
      /\ t[q].smallerChild = p \/ t[q].largerChild = p
      /\ p \in Rooted(t)
      /\ p \in B[p]
  BY DEF Shaped, Rooted
<1>2. B[p] \subseteq B[q] /\ q \notin B[p]
  BY <1>1 DEF Shaped
<1>3. q # p
  BY <1>1, <1>2
<1>4. ASSUME NEW c \in {t[p].smallerChild, t[p].largerChild} PROVE q # c /\ p # c
  <2>1. c # Unused => c \in B[c]
    BY <1>1, LiveNodes, NodeNumbers DEF Linked, ChildOf, Shaped, Rooted
  <2>2. p \notin B[c] /\ B[c] \subseteq B[p]
    BY <1>1 DEF Shaped
  <2>3. q # Unused /\ p # Unused
    BY <1>1, LiveNodes, NodeNumbers
  <2> QED
    BY <2>1, <2>2, <2>3, <1>1, <1>2
<1> QED
  BY <1>1, <1>2, <1>3, <1>4


Without(B, p) == [n \in Nodes |-> B[n] \ {p}]

(* What is below a node only shrinks when p is taken out.                  *)
LEMMA ContractShape ==
  ASSUME NEW t \in [Nodes -> Node], NEW B, Linked(t), Shaped(t, B), NEW p \in Live(t),
         t[p].smallerChild = Unused \/ t[p].largerChild = Unused,
         NEW u, u = Contract(t, p), NEW C, C = Without(B, p)
  PROVE  /\ u \in [Nodes -> Node]
         /\ Live(u) = Live(t) \ {p}
         /\ Linked(u)
         /\ Shaped(u, C)
         /\ \A n \in Live(u) : /\ C[u[n].smallerChild] \subseteq B[t[n].smallerChild]
                               /\ C[u[n].largerChild] \subseteq B[t[n].largerChild]
<1>1. PICK c, q : /\ c = IF t[p].largerChild = Unused THEN t[p].smallerChild
                         ELSE t[p].largerChild
                  /\ q = t[p].parent
  OBVIOUS
<1>2. /\ c = Unused \/ ChildOf(t, c, p)
      /\ B[p] = {p} \cup B[c]
      /\ p \notin B[c]
      /\ \A x \in Live(t) : t[x].parent = p => x = c
  <2>1. p \in Rooted(t)
    BY DEF Rooted
  <2>2. \A x \in Live(t) : t[x].parent = p => t[p].smallerChild = x \/ t[p].largerChild = x
    BY DEF Shaped
  <2>3. \A x \in Live(t) : x # Unused
    BY LiveNodes, NodeNumbers
  <2> QED
    BY <1>1, <2>1, <2>2, <2>3 DEF Linked, Shaped
<1>3. /\ q \in Rooted(t) /\ q # p /\ q # c /\ p # c /\ q \notin B[p]
      /\ t[q].smallerChild = p \/ t[q].largerChild = p
      /\ ~ (t[q].smallerChild = p /\ t[q].largerChild = p)
  <2>1. /\ q \in Rooted(t) /\ q # p /\ q # c /\ p # c /\ q \notin B[p]
    BY <1>1, ParentApart
  <2>2. t[q].smallerChild = p \/ t[q].largerChild = p
    BY <1>1 DEF Shaped
  <2>3. ~ (t[q].smallerChild = p /\ t[q].largerChild = p)
    BY <2>1, LiveNodes, NodeNumbers DEF Linked
  <2> QED
    BY <2>1, <2>2, <2>3
<1>4. /\ p \in Nodes /\ q \in Nodes /\ q # Unused /\ p # TreeRoot
      /\ c \in Positions /\ c \in Nodes
  BY <1>1, <1>3, LiveNodes, NodeNumbers DEF Node
<1>5. u = ContractNode(t, p, c)
  BY <1>1 DEF Contract
<1>6. /\ u \in [Nodes -> Node]
      /\ u[p].parent = Unused
      /\ u[c].parent = q
      /\ \A n \in Nodes \ {p, c} : u[n].parent = t[n].parent
      /\ \A n \in Nodes \ {q} : /\ u[n].smallerChild = t[n].smallerChild
                                /\ u[n].largerChild = t[n].largerChild
      /\ t[q].largerChild = p => /\ u[q].largerChild = c
                                 /\ u[q].smallerChild = t[q].smallerChild
      /\ t[q].largerChild # p => /\ u[q].smallerChild = c
                                 /\ u[q].largerChild = t[q].largerChild
  BY <1>1, <1>3, <1>4, <1>5, ContractedFields
<1>7. Live(u) = Live(t) \ {p}
  <2>1. \A n \in Positions \ {Unused} : n \in Live(u) <=> n \in Live(t) /\ n # p
    BY <1>2, <1>4, <1>6, LiveNodes, NodeNumbers DEF Live, ChildOf
  <2> QED
    BY <2>1 DEF Live
<1>8. Rooted(u) = Rooted(t) \ {p}
  BY <1>4, <1>7 DEF Rooted
<1>9. \A m \in Rooted(u) \ {q} : /\ u[m].smallerChild = t[m].smallerChild
                                 /\ u[m].largerChild = t[m].largerChild
                                 /\ m # q /\ m # p /\ m \in Rooted(t)
  BY <1>6, <1>8, LiveNodes, NodeNumbers
<1>10. Linked(u)
  <2>1. ASSUME NEW m \in Rooted(t) \ {p}, NEW x, ChildOf(t, x, m), x # p
        PROVE  ChildOf(u, x, m)
    <3>1. x \in Nodes \ {p, c}
      BY <1>2, <2>1, LiveNodes, NodeNumbers DEF ChildOf
    <3> QED
      BY <1>6, <1>7, <2>1, <3>1 DEF ChildOf
  <2>2. c = Unused \/ ChildOf(u, c, q)
    BY <1>2, <1>3, <1>6, <1>7 DEF ChildOf
  <2>3. ASSUME NEW m \in Rooted(u) \ {q}
        PROVE  /\ u[m].smallerChild = Unused \/ ChildOf(u, u[m].smallerChild, m)
               /\ u[m].largerChild = Unused \/ ChildOf(u, u[m].largerChild, m)
               /\ u[m].smallerChild = u[m].largerChild => u[m].smallerChild = Unused
    <3>1. t[m].smallerChild # p /\ t[m].largerChild # p
      BY <1>1, <1>9, LiveNodes, NodeNumbers DEF Linked, ChildOf
    <3> QED
      BY <2>1, <3>1, <1>8, <1>9 DEF Linked
  <2>4. /\ u[q].smallerChild = Unused \/ ChildOf(u, u[q].smallerChild, q)
        /\ u[q].largerChild = Unused \/ ChildOf(u, u[q].largerChild, q)
    BY <2>1, <2>2, <1>3, <1>6 DEF Linked
  <2>5. u[q].smallerChild = u[q].largerChild => u[q].smallerChild = Unused
    BY <1>2, <1>3, <1>6 DEF Linked, ChildOf
  <2>6. u[TreeRoot].smallerChild = Unused
    <3>1. CASE q = TreeRoot
      BY <3>1, <1>3, <1>4, <1>6, LiveNodes, NodeNumbers DEF Linked
    <3>2. CASE q # TreeRoot
      BY <3>2, <1>6, LiveNodes, NodeNumbers DEF Linked
    <3> QED
      BY <3>1, <3>2
  <2>7. u[Unused].smallerChild = Unused /\ u[Unused].largerChild = Unused
    BY <1>4, <1>6, LiveNodes, NodeNumbers DEF Linked
  <2> QED
    BY <2>3, <2>4, <2>5, <2>6, <2>7 DEF Linked
<1>11. /\ C \in [Nodes -> SUBSET Nodes]
       /\ \A n \in Nodes : C[n] = B[n] \ {p}
  BY DEF Shaped, Without
<1>12. \A n \in Rooted(u) :
         /\ u[n].smallerChild \in Nodes /\ u[n].largerChild \in Nodes
         /\ t[n].smallerChild \in Nodes /\ t[n].largerChild \in Nodes
  BY <1>6, LiveNodes, NodeNumbers DEF Node
<1>13. \A n \in Rooted(u) : /\ C[u[n].smallerChild] = B[t[n].smallerChild] \ {p}
                            /\ C[u[n].largerChild] = B[t[n].largerChild] \ {p}
  <2>1. ASSUME NEW n \in Rooted(u), n # q
        PROVE  /\ C[u[n].smallerChild] = B[t[n].smallerChild] \ {p}
               /\ C[u[n].largerChild] = B[t[n].largerChild] \ {p}
    BY <2>1, <1>9, <1>11, <1>12
  <2>2. C[c] = B[p] \ {p}
    BY <1>2, <1>4, <1>11
  <2>3. q \in Rooted(u)
    BY <1>3, <1>8
  <2>4. /\ C[u[q].smallerChild] = B[t[q].smallerChild] \ {p}
        /\ C[u[q].largerChild] = B[t[q].largerChild] \ {p}
    BY <2>2, <2>3, <1>3, <1>6, <1>11, <1>12
  <2> QED
    BY <2>1, <2>4
<1>14. Shaped(u, C)
  <2>1. C[Unused] = {}
    BY <1>11, LiveNodes, NodeNumbers DEF Shaped
  <2>2. ASSUME NEW n \in Live(u)
        PROVE  /\ u[n].parent \in Rooted(u)
               /\ u[u[n].parent].smallerChild = n \/ u[u[n].parent].largerChild = n
               /\ C[n] \subseteq Live(u)
    <3>1. n \in Live(t) /\ n # p /\ n \in Nodes
      BY <1>7, LiveNodes, NodeNumbers
    <3>2. C[n] \subseteq Live(u)
      BY <3>1, <1>7, <1>11 DEF Shaped
    <3>3. CASE n = c
      BY <3>1, <3>2, <3>3, <1>3, <1>6, <1>8
    <3>4. CASE n # c
      <4>1. u[n].parent = t[n].parent /\ t[n].parent # p
        BY <3>1, <3>4, <1>2, <1>6
      <4>2. /\ t[n].parent \in Rooted(u)
            /\ t[t[n].parent].smallerChild = n \/ t[t[n].parent].largerChild = n
        BY <3>1, <4>1, <1>8 DEF Shaped
      <4>3. CASE t[n].parent = q
        BY <3>1, <3>2, <4>1, <4>2, <4>3, <1>3, <1>6
      <4>4. CASE t[n].parent # q
        BY <3>2, <4>1, <4>2, <4>4, <1>9
      <4> QED
        BY <4>3, <4>4
    <3> QED
      BY <3>3, <3>4
  <2>3. ASSUME NEW n \in Rooted(u)
        PROVE  /\ C[n] = {n} \cup C[u[n].smallerChild] \cup C[u[n].largerChild]
               /\ n \notin C[u[n].smallerChild] /\ n \notin C[u[n].largerChild]
               /\ C[u[n].smallerChild] \cap C[u[n].largerChild] = {}
    <3>1. /\ C[u[n].smallerChild] = B[t[n].smallerChild] \ {p}
          /\ C[u[n].largerChild] = B[t[n].largerChild] \ {p}
          /\ C[n] = B[n] \ {p}
          /\ n \in Rooted(t) /\ n # p
      BY <1>8, <1>11, <1>13, LiveNodes, NodeNumbers
    <3>2. /\ B[n] = {n} \cup B[t[n].smallerChild] \cup B[t[n].largerChild]
          /\ n \notin B[t[n].smallerChild] /\ n \notin B[t[n].largerChild]
          /\ B[t[n].smallerChild] \cap B[t[n].largerChild] = {}
      BY <3>1 DEF Shaped
    <3>3. \A X, Y, Z : X = {n} \cup Y \cup Z => X \ {p} = {n} \cup (Y \ {p}) \cup (Z \ {p})
      BY <3>1
    <3> QED
      BY <3>1, <3>2, <3>3
  <2>4. ASSUME NEW n \in Rooted(u), NEW x \in Live(u) \ {n}
        PROVE  x \in C[n] <=> u[x].parent \in C[n]
    <3>1. /\ n \in Rooted(t) /\ n # p /\ n \in Nodes
          /\ x \in Live(t) /\ x # p /\ x # n /\ x \in Nodes
      BY <1>7, <1>8, LiveNodes, NodeNumbers
    <3>2. x \in B[n] <=> t[x].parent \in B[n]
      BY <3>1 DEF Shaped
    <3>3. CASE x = c
      <4>1. t[x].parent = p /\ u[x].parent = q
        BY <3>1, <3>3, <1>2, <1>6, LiveNodes, NodeNumbers DEF ChildOf
      <4>2. p \in B[n] <=> q \in B[n]
        BY <3>1, <1>1 DEF Shaped
      <4> QED
        BY <3>1, <3>2, <4>1, <4>2, <1>3, <1>11
    <3>4. CASE x # c
      <4>1. t[x].parent # p /\ u[x].parent = t[x].parent
        BY <3>1, <3>4, <1>2, <1>6
      <4> QED
        BY <3>1, <3>2, <4>1, <1>11
    <3> QED
      BY <3>3, <3>4
  <2>5. C[TreeRoot] = Rooted(u)
    BY <1>8, <1>11, LiveNodes, NodeNumbers DEF Shaped
  <2> QED
    BY <1>11, <2>1, <2>2, <2>3, <2>4, <2>5 DEF Shaped
<1>15. \A n \in Live(u) : /\ C[u[n].smallerChild] \subseteq B[t[n].smallerChild]
                          /\ C[u[n].largerChild] \subseteq B[t[n].largerChild]
  BY <1>13, LiveNodes
<1> QED
  BY <1>6, <1>7, <1>10, <1>14, <1>15


-----------------------------------------------------------------------------
(* replaceNode: new takes old's place.                                     *)

LEMMA ReplacedType ==
  ASSUME NEW t \in [Nodes -> Node], NEW old \in Nodes, NEW new \in Positions
  PROVE  ReplaceNode(t, old, new) \in [Nodes -> Node]
<1>1. Unused \in Nodes /\ new \in Nodes
  BY NodeNumbers
<1>2. PICK t1 : t1 = IF t[t[old].parent].smallerChild = old
                     THEN [t EXCEPT ![t[old].parent].smallerChild = new]
                     ELSE [t EXCEPT ![t[old].parent].largerChild = new]
  OBVIOUS
<1>3. t1 \in [Nodes -> Node]
  BY <1>2 DEF Node
<1>4. PICK t2 : t2 = [t1 EXCEPT ![new] = t1[old]]
  OBVIOUS
<1>5. t2 \in [Nodes -> Node]
  BY <1>1, <1>3, <1>4
<1>6. PICK t3 : t3 = [n \in Nodes |->
                        IF n # Unused /\ n \in {t2[new].smallerChild, t2[new].largerChild}
                        THEN [t2[n] EXCEPT !.parent = new] ELSE t2[n]]
  OBVIOUS
<1>7. t3 \in [Nodes -> Node]
  BY <1>1, <1>5, <1>6 DEF Node
<1>8. ReplaceNode(t, old, new) = [t3 EXCEPT ![old].parent = Unused]
  BY <1>2, <1>4, <1>6 DEF ReplaceNode
<1> QED
  BY <1>1, <1>7, <1>8 DEF Node

(* The fields after ReplaceNode, for a node that is not next to itself.    *)
LEMMA ReplacedFields ==
  ASSUME NEW t \in [Nodes -> Node], NEW old \in Nodes, NEW new \in Positions,
         NEW q \in Nodes, q = t[old].parent, q # old, q # new, old # new,
         old # t[old].smallerChild, old # t[old].largerChild,
         new # t[old].smallerChild, new # t[old].largerChild,
         NEW u, u = ReplaceNode(t, old, new)
  PROVE  /\ u \in [Nodes -> Node]
         /\ u[old].parent = Unused
         /\ u[new].parent = q
         /\ u[new].smallerChild = t[old].smallerChild
         /\ u[new].largerChild = t[old].largerChild
         /\ \A n \in Nodes \ {old, new} :
              u[n].parent = IF n # Unused /\ (n = t[old].smallerChild \/ n = t[old].largerChild)
                            THEN new ELSE t[n].parent
         /\ \A n \in Nodes \ {q, new} : /\ u[n].smallerChild = t[n].smallerChild
                                        /\ u[n].largerChild = t[n].largerChild
         /\ t[q].smallerChild = old => /\ u[q].smallerChild = new
                                       /\ u[q].largerChild = t[q].largerChild
         /\ t[q].smallerChild # old => /\ u[q].largerChild = new
                                       /\ u[q].smallerChild = t[q].smallerChild
<1>1. Unused \in Nodes /\ new \in Nodes
  BY NodeNumbers
<1>2. PICK t1 : t1 = IF t[q].smallerChild = old
                     THEN [t EXCEPT ![q].smallerChild = new]
                     ELSE [t EXCEPT ![q].largerChild = new]
  OBVIOUS
<1>3. /\ t1 \in [Nodes -> Node]
      /\ t1[q] = IF t[q].smallerChild = old THEN [t[q] EXCEPT !.smallerChild = new]
                 ELSE [t[q] EXCEPT !.largerChild = new]
      /\ \A n \in Nodes \ {q} : t1[n] = t[n]
  BY <1>2 DEF Node
<1>4. PICK t2 : t2 = [t1 EXCEPT ![new] = t1[old]]
  OBVIOUS
<1>5. /\ t2 \in [Nodes -> Node]
      /\ t2[new] = t[old]
      /\ \A n \in Nodes \ {new} : t2[n] = t1[n]
  BY <1>1, <1>3, <1>4
<1>6. PICK t3 : t3 = [n \in Nodes |->
                        IF n # Unused /\ n \in {t2[new].smallerChild, t2[new].largerChild}
                        THEN [t2[n] EXCEPT !.parent = new] ELSE t2[n]]
  OBVIOUS
<1>7. /\ t3 \in [Nodes -> Node]
      /\ \A n \in Nodes :
           t3[n] = IF n # Unused /\ (n = t[old].smallerChild \/ n = t[old].largerChild)
                   THEN [t2[n] EXCEPT !.parent = new] ELSE t2[n]
  BY <1>1, <1>5, <1>6 DEF Node
<1>8. u = [t3 EXCEPT ![old].parent = Unused]
  BY <1>2, <1>4, <1>6 DEF ReplaceNode
<1>9. /\ u \in [Nodes -> Node]
      /\ u[old] = [t3[old] EXCEPT !.parent = Unused]
      /\ \A n \in Nodes \ {old} : u[n] = t3[n]
  BY <1>1, <1>7, <1>8 DEF Node
<1>10. t3[old] = t[old] /\ t3[new] = t[old]
  BY <1>1, <1>3, <1>5, <1>7
<1>11. \A n \in Nodes : t[n] \in Node /\ t2[n] \in Node
  BY <1>5
<1>12. ASSUME NEW n \in Nodes \ {old, new}
       PROVE  /\ u[n].smallerChild = t1[n].smallerChild
              /\ u[n].largerChild = t1[n].largerChild
              /\ u[n].parent = IF n # Unused /\ (n = t[old].smallerChild \/ n = t[old].largerChild)
                               THEN new ELSE t1[n].parent
  BY <1>5, <1>7, <1>9, <1>11 DEF Node
<1>13. \A n \in Nodes : t1[n].parent = t[n].parent
  BY <1>3, <1>11 DEF Node
<1>14. /\ t1[q].smallerChild = IF t[q].smallerChild = old THEN new ELSE t[q].smallerChild
       /\ t1[q].largerChild = IF t[q].smallerChild = old THEN t[q].largerChild ELSE new
  BY <1>3, <1>11 DEF Node
<1>15. /\ u[old].parent = Unused
       /\ u[old].smallerChild = t[old].smallerChild
       /\ u[old].largerChild = t[old].largerChild
       /\ u[new].parent = q
       /\ u[new].smallerChild = t[old].smallerChild
       /\ u[new].largerChild = t[old].largerChild
  BY <1>1, <1>9, <1>10, <1>11 DEF Node
<1>16. \A n \in Nodes \ {q, new} : /\ u[n].smallerChild = t[n].smallerChild
                                   /\ u[n].largerChild = t[n].largerChild
  BY <1>3, <1>12, <1>15
<1>17. \A n \in Nodes \ {old, new} :
         u[n].parent = IF n # Unused /\ (n = t[old].smallerChild \/ n = t[old].largerChild)
                       THEN new ELSE t[n].parent
  BY <1>12, <1>13
<1>18. /\ u[q].smallerChild = t1[q].smallerChild
       /\ u[q].largerChild = t1[q].largerChild
  BY <1>12
<1> QED
  BY <1>9, <1>14, <1>15, <1>16, <1>17, <1>18


Swap(X, old, new) == IF old \in X THEN (X \ {old}) \cup {new} ELSE X
Swapped(B, old, new) ==
  [n \in Nodes |-> Swap(B[IF n = new THEN old ELSE n], old, new)]

(* In the tree u with C, new is where old was in t with B.                 *)
TakesPlace(t, B, old, new, u, C) ==
  /\ Live(u) = (Live(t) \ {old}) \cup {new}
  /\ C[u[new].smallerChild] = B[t[old].smallerChild]
  /\ C[u[new].largerChild] = B[t[old].largerChild]
  /\ \A n \in Live(u) \ {new} :
       /\ C[u[n].smallerChild] = Swap(B[t[n].smallerChild], old, new)
       /\ C[u[n].largerChild] = Swap(B[t[n].largerChild], old, new)

LEMMA ReplaceShape ==
  ASSUME NEW t \in [Nodes -> Node], NEW B, Linked(t), Shaped(t, B),
         NEW old \in Live(t), NEW new \in Positions \ {Unused}, new \notin Live(t),
         NEW u, u = ReplaceNode(t, old, new),
         NEW C, C = Swapped(B, old, new)
  PROVE  /\ u \in [Nodes -> Node]
         /\ Linked(u)
         /\ Shaped(u, C)
         /\ TakesPlace(t, B, old, new, u, C)
<1>1. PICK q : q = t[old].parent
  OBVIOUS
<1>2. /\ old \in Nodes /\ old # Unused /\ old # TreeRoot /\ old \in Rooted(t)
      /\ new \in Nodes /\ new # Unused /\ new # TreeRoot /\ new \notin Rooted(t) /\ new # old
  BY LiveNodes, NodeNumbers DEF Rooted
<1>3. /\ q \in Rooted(t) /\ q \in Nodes /\ q # Unused /\ q # old /\ q # new
      /\ old # t[old].smallerChild /\ old # t[old].largerChild
      /\ q # t[old].smallerChild /\ q # t[old].largerChild
  BY <1>1, <1>2, ParentApart, LiveNodes
<1>4. new # t[old].smallerChild /\ new # t[old].largerChild
  BY <1>2 DEF Linked, ChildOf
<1>5. /\ t[q].smallerChild = old \/ t[q].largerChild = old
      /\ ~ (t[q].smallerChild = old /\ t[q].largerChild = old)
  BY <1>1, <1>2, <1>3 DEF Shaped, Linked
<1>6. /\ u \in [Nodes -> Node]
      /\ u[old].parent = Unused
      /\ u[new].parent = q
      /\ u[new].smallerChild = t[old].smallerChild
      /\ u[new].largerChild = t[old].largerChild
      /\ \A n \in Nodes \ {old, new} :
           u[n].parent = IF n # Unused /\ (n = t[old].smallerChild \/ n = t[old].largerChild)
                         THEN new ELSE t[n].parent
      /\ \A n \in Nodes \ {q, new} : /\ u[n].smallerChild = t[n].smallerChild
                                     /\ u[n].largerChild = t[n].largerChild
      /\ t[q].smallerChild = old => /\ u[q].smallerChild = new
                                    /\ u[q].largerChild = t[q].largerChild
      /\ t[q].smallerChild # old => /\ u[q].largerChild = new
                                    /\ u[q].smallerChild = t[q].smallerChild
  BY <1>1, <1>2, <1>3, <1>4, ReplacedFields
<1>7. \A x \in Live(t) \ {old} :
        u[x].parent = IF t[x].parent = old THEN new ELSE t[x].parent
  <2>1. ASSUME NEW x \in Live(t) \ {old}
        PROVE  t[x].parent = old <=> (x = t[old].smallerChild \/ x = t[old].largerChild)
    BY <1>2, LiveNodes DEF Shaped, Linked, ChildOf
  <2>2. ASSUME NEW x \in Live(t) \ {old}
        PROVE  x \in Nodes \ {old, new} /\ x # Unused
    BY LiveNodes
  <2> QED
    BY <2>1, <2>2, <1>6
<1>8. Live(u) = (Live(t) \ {old}) \cup {new}
  <2>1. ASSUME NEW n \in Positions \ {Unused} PROVE n \in Live(u) <=> n \in Live(t) \ {old} \/ n = new
    <3>1. n \in Nodes /\ n # Unused
      BY NodeNumbers
    <3>2. CASE n = old
      BY <3>2, <1>2, <1>6 DEF Live
    <3>3. CASE n = new
      BY <3>3, <3>1, <1>3, <1>6 DEF Live
    <3>4. CASE n # old /\ n # new
      BY <3>1, <3>4, <1>2, <1>4, <1>6 DEF Live, Linked, ChildOf
    <3> QED
      BY <3>2, <3>3, <3>4
  <2> QED
    BY <2>1 DEF Live
<1>9. /\ Rooted(u) = (Rooted(t) \ {old}) \cup {new}
      /\ q \in Rooted(u) /\ new \in Rooted(u)
  BY <1>2, <1>3, <1>8 DEF Rooted
<1>10. \A m \in Rooted(u) \ {q, new} : /\ u[m].smallerChild = t[m].smallerChild
                                       /\ u[m].largerChild = t[m].largerChild
                                       /\ m \in Rooted(t) /\ m # old
                                       /\ t[m].smallerChild # old /\ t[m].largerChild # old
  <2>1. ASSUME NEW m \in Rooted(u) \ {q, new}
        PROVE  m \in Rooted(t) /\ m # old /\ m \in Nodes \ {q, new}
    BY <1>9, LiveNodes
  <2>2. ASSUME NEW m \in Rooted(t) \ {q} PROVE t[m].smallerChild # old /\ t[m].largerChild # old
    BY <1>1, <1>2 DEF Linked, ChildOf
  <2> QED
    BY <2>1, <2>2, <1>6
<1>11. Linked(u)
  <2>1. ASSUME NEW m \in Rooted(t) \ {old}, NEW x, ChildOf(t, x, m), x # old
        PROVE  ChildOf(u, x, m)
    <3>1. x \in Live(t) \ {old}
      BY <2>1 DEF ChildOf
    <3> QED
      BY <3>1, <1>7, <1>8, <2>1 DEF ChildOf
  <2>2. ChildOf(u, new, q)
    BY <1>6, <1>8 DEF ChildOf
  <2>3. ASSUME NEW x, ChildOf(t, x, old)
        PROVE  ChildOf(u, x, new)
    <3>1. x \in Live(t) \ {old} /\ t[x].parent = old
      BY <2>3, <1>1, <1>3 DEF ChildOf
    <3> QED
      BY <3>1, <1>7, <1>8 DEF ChildOf
  <2>4. ASSUME NEW m \in Rooted(u) \ {q, new}
        PROVE  /\ u[m].smallerChild = Unused \/ ChildOf(u, u[m].smallerChild, m)
               /\ u[m].largerChild = Unused \/ ChildOf(u, u[m].largerChild, m)
               /\ u[m].smallerChild = u[m].largerChild => u[m].smallerChild = Unused
    BY <2>1, <1>10 DEF Linked
  <2>5. /\ u[q].smallerChild = Unused \/ ChildOf(u, u[q].smallerChild, q)
        /\ u[q].largerChild = Unused \/ ChildOf(u, u[q].largerChild, q)
        /\ u[q].smallerChild = u[q].largerChild => u[q].smallerChild = Unused
    <3>1. t[q].smallerChild # new /\ t[q].largerChild # new
      BY <1>2, <1>3 DEF Linked, ChildOf
    <3> QED
      BY <2>1, <2>2, <3>1, <1>3, <1>5, <1>6 DEF Linked
  <2>6. /\ u[new].smallerChild = Unused \/ ChildOf(u, u[new].smallerChild, new)
        /\ u[new].largerChild = Unused \/ ChildOf(u, u[new].largerChild, new)
        /\ u[new].smallerChild = u[new].largerChild => u[new].smallerChild = Unused
    BY <2>3, <1>2, <1>6 DEF Linked
  <2>7. u[TreeRoot].smallerChild = Unused
    <3>1. CASE q = TreeRoot
      BY <3>1, <1>2, <1>5, <1>6 DEF Linked
    <3>2. CASE q # TreeRoot
      BY <3>2, <1>2, <1>6, NodeNumbers DEF Linked
    <3> QED
      BY <3>1, <3>2
  <2>8. u[Unused].smallerChild = Unused /\ u[Unused].largerChild = Unused
    BY <1>2, <1>3, <1>6, NodeNumbers DEF Linked
  <2> QED
    BY <2>4, <2>5, <2>6, <2>7, <2>8 DEF Linked
<1>12. \A n \in Rooted(t) \cup {Unused} : n \in Nodes /\ n # new /\ new \notin B[n]
  <2>1. \A n \in Rooted(t) : B[n] \subseteq Rooted(t)
    BY DEF Shaped, Rooted
  <2> QED
    BY <2>1, <1>2, LiveNodes, NodeNumbers DEF Shaped
<1>13. /\ C \in [Nodes -> SUBSET Nodes]
       /\ \A n \in Rooted(t) \cup {Unused} : C[n] = Swap(B[n], old, new)
       /\ C[new] = Swap(B[old], old, new)
  <2>1. \A n \in Nodes : B[n] \subseteq Nodes
    BY DEF Shaped
  <2>2. C = [n \in Nodes |-> Swap(B[IF n = new THEN old ELSE n], old, new)]
    BY DEF Swapped
  <2>3. C \in [Nodes -> SUBSET Nodes]
    BY <2>1, <2>2, <1>2 DEF Swap
  <2> QED
    BY <2>2, <2>3, <1>2, <1>12
<1>14. \A n \in Rooted(t) :
         /\ t[n].smallerChild \in Rooted(t) \cup {Unused}
         /\ t[n].largerChild \in Rooted(t) \cup {Unused}
  BY LiveNodes DEF Linked, ChildOf
<1>15. ASSUME NEW n \in Rooted(u) \ {new}
       PROVE  /\ C[u[n].smallerChild] = Swap(B[t[n].smallerChild], old, new)
              /\ C[u[n].largerChild] = Swap(B[t[n].largerChild], old, new)
  <2>1. n \in Rooted(t)
    BY <1>9
  <2>2. CASE n # q
    BY <2>1, <2>2, <1>10, <1>13, <1>14
  <2>3. \A x \in {t[q].smallerChild, t[q].largerChild} : C[x] = Swap(B[x], old, new)
    BY <1>3, <1>13, <1>14
  <2>4. CASE n = q /\ t[q].smallerChild = old
    BY <2>3, <2>4, <1>6, <1>13
  <2>5. CASE n = q /\ t[q].smallerChild # old
    BY <2>3, <2>5, <1>5, <1>6, <1>13
  <2> QED
    BY <2>2, <2>4, <2>5
<1>16. /\ old \notin B[t[old].smallerChild] /\ old \notin B[t[old].largerChild]
       /\ C[u[new].smallerChild] = B[t[old].smallerChild]
       /\ C[u[new].largerChild] = B[t[old].largerChild]
  <2>1. old \notin B[t[old].smallerChild] /\ old \notin B[t[old].largerChild]
    BY <1>2 DEF Shaped
  <2>2. /\ C[t[old].smallerChild] = Swap(B[t[old].smallerChild], old, new)
        /\ C[t[old].largerChild] = Swap(B[t[old].largerChild], old, new)
    BY <1>2, <1>13, <1>14
  <2> QED
    BY <2>1, <2>2, <1>6 DEF Swap
<1>17. Shaped(u, C)
  <2>1. C[Unused] = {}
    <3>1. B[Unused] = {} /\ C[Unused] = Swap(B[Unused], old, new)
      BY <1>13 DEF Shaped
    <3> QED
      BY <3>1 DEF Swap
  <2>2. ASSUME NEW n \in Live(u)
        PROVE  /\ u[n].parent \in Rooted(u)
               /\ u[u[n].parent].smallerChild = n \/ u[u[n].parent].largerChild = n
               /\ C[n] \subseteq Live(u)
    <3>1. CASE n = new
      <4>1. C[n] \subseteq Live(u)
        BY <3>1, <1>8, <1>13 DEF Swap, Shaped
      <4> QED
        BY <3>1, <4>1, <1>5, <1>6, <1>9
    <3>2. CASE n # new
      <4>1. n \in Live(t) \ {old} /\ n \in Rooted(t)
        BY <3>2, <1>8, LiveNodes
      <4>2. C[n] \subseteq Live(u)
        <5>1. B[n] \subseteq Live(t) /\ C[n] = Swap(B[n], old, new)
          BY <4>1, <1>13 DEF Shaped
        <5>2. \A X, L : X \subseteq L => Swap(X, old, new) \subseteq (L \ {old}) \cup {new}
          BY DEF Swap
        <5> QED
          BY <5>1, <5>2, <1>8
      <4>3. /\ t[n].parent \in Rooted(t)
            /\ t[t[n].parent].smallerChild = n \/ t[t[n].parent].largerChild = n
        BY <4>1 DEF Shaped
      <4>4. CASE t[n].parent = old
        BY <4>1, <4>2, <4>3, <4>4, <1>6, <1>7, <1>9
      <4>5. CASE t[n].parent = q
        BY <4>1, <4>2, <4>3, <4>5, <1>3, <1>5, <1>6, <1>7, <1>9
      <4>6. CASE t[n].parent # old /\ t[n].parent # q
        <5>1. u[n].parent = t[n].parent /\ t[n].parent \in Rooted(u) \ {q, new}
          BY <4>1, <4>3, <4>6, <1>2, <1>7, <1>9
        <5> QED
          BY <4>2, <4>3, <5>1, <1>10
      <4> QED
        BY <4>4, <4>5, <4>6
    <3> QED
      BY <3>1, <3>2
  <2>3. ASSUME NEW n \in Rooted(u)
        PROVE  /\ C[n] = {n} \cup C[u[n].smallerChild] \cup C[u[n].largerChild]
               /\ n \notin C[u[n].smallerChild] /\ n \notin C[u[n].largerChild]
               /\ C[u[n].smallerChild] \cap C[u[n].largerChild] = {}
    <3>1. CASE n = new
      <4>1. /\ B[old] = {old} \cup B[t[old].smallerChild] \cup B[t[old].largerChild]
            /\ B[t[old].smallerChild] \cap B[t[old].largerChild] = {}
        BY <1>2 DEF Shaped
      <4>2. new \notin B[t[old].smallerChild] /\ new \notin B[t[old].largerChild]
        BY <1>2, <1>12, <1>14
      <4>3. C[n] = {new} \cup B[t[old].smallerChild] \cup B[t[old].largerChild]
        <5>1. PICK X, Y, Z : /\ X = B[old]
                             /\ Y = B[t[old].smallerChild]
                             /\ Z = B[t[old].largerChild]
          OBVIOUS
        <5>2. X = {old} \cup Y \cup Z /\ old \notin Y /\ old \notin Z
          BY <4>1, <5>1, <1>16
        <5>3. Swap(X, old, new) = {new} \cup Y \cup Z
          BY <5>2 DEF Swap
        <5> QED
          BY <3>1, <5>1, <5>3, <1>13
      <4> QED
        BY <3>1, <4>1, <4>2, <4>3, <1>16
    <3>2. CASE n # new
      <4>1. n \in Rooted(t) /\ n # old
        BY <3>2, <1>9, <1>2
      <4>2. PICK X, Y, Z : X = B[n] /\ Y = B[t[n].smallerChild] /\ Z = B[t[n].largerChild]
        OBVIOUS
      <4>3. /\ X = {n} \cup Y \cup Z
            /\ n \notin Y /\ n \notin Z
            /\ Y \cap Z = {}
        BY <4>1, <4>2 DEF Shaped
      <4>4. new \notin X /\ new \notin Y /\ new \notin Z
        BY <4>1, <4>2, <1>12, <1>14
      <4>5. /\ C[n] = Swap(X, old, new)
            /\ C[u[n].smallerChild] = Swap(Y, old, new)
            /\ C[u[n].largerChild] = Swap(Z, old, new)
        BY <3>2, <4>1, <4>2, <1>13, <1>15
      <4>6. Swap(X, old, new) = {n} \cup Swap(Y, old, new) \cup Swap(Z, old, new)
        BY <4>1, <4>3 DEF Swap
      <4>7. /\ n \notin Swap(Y, old, new) /\ n \notin Swap(Z, old, new)
            /\ Swap(Y, old, new) \cap Swap(Z, old, new) = {}
        BY <3>2, <4>1, <4>3, <4>4 DEF Swap
      <4> QED
        BY <4>5, <4>6, <4>7
    <3> QED
      BY <3>1, <3>2
  <2>4. ASSUME NEW n \in Rooted(u), NEW x \in Live(u) \ {n}
        PROVE  x \in C[n] <=> u[x].parent \in C[n]
    <3>1. PICK k : k = IF n = new THEN old ELSE n
      OBVIOUS
    <3>2. k \in Rooted(t) /\ C[n] = Swap(B[k], old, new) /\ new \notin B[k]
      BY <3>1, <1>2, <1>9, <1>12, <1>13
    <3>3. CASE x = new
      <4>1. k = n /\ k # old /\ old \in Live(t) \ {k}
        BY <3>1, <3>3, <1>2, <1>9
      <4>2. old \in B[k] <=> q \in B[k]
        BY <3>2, <4>1, <1>1 DEF Shaped
      <4>3. PICK X : X = B[k] /\ (old \in X <=> q \in X) /\ new \notin X
        BY <3>2, <4>2
      <4>4. new \in Swap(X, old, new) <=> q \in Swap(X, old, new)
        BY <4>3, <1>2, <1>3 DEF Swap
      <4> QED
        BY <3>2, <3>3, <4>3, <4>4, <1>6
    <3>4. CASE x # new
      <4>1. x \in Live(t) \ {old} /\ x # k
        BY <3>1, <3>4, <1>8
      <4>2. x \in B[k] <=> t[x].parent \in B[k]
        BY <3>2, <4>1 DEF Shaped
      <4>3. t[x].parent # new
        BY <4>1, <1>2 DEF Shaped
      <4> QED
        BY <3>2, <3>4, <4>1, <4>2, <4>3, <1>7 DEF Swap
    <3> QED
      BY <3>3, <3>4
  <2>5. C[TreeRoot] = Rooted(u)
    <3>1. TreeRoot \in Rooted(t) /\ B[TreeRoot] = Rooted(t)
      BY LiveNodes DEF Shaped
    <3> QED
      BY <3>1, <1>2, <1>9, <1>13 DEF Swap
  <2> QED
    BY <1>13, <2>1, <2>2, <2>3, <2>4, <2>5 DEF Shaped
<1>18. \A n \in Live(u) \ {new} :
         /\ C[u[n].smallerChild] = Swap(B[t[n].smallerChild], old, new)
         /\ C[u[n].largerChild] = Swap(B[t[n].largerChild], old, new)
  BY <1>15, LiveNodes
<1> QED
  BY <1>6, <1>8, <1>11, <1>16, <1>17, <1>18 DEF TakesPlace


-----------------------------------------------------------------------------
(* addString: new becomes the larger or the smaller child of a node "at"   *)
(* that had none there.                                                    *)

WithLeaf(t, at, new, large) ==
  LET leaf == [FreshNode EXCEPT !.parent = at]
  IN  IF large THEN [t EXCEPT ![at].largerChild = new, ![new] = leaf]
      ELSE [t EXCEPT ![at].smallerChild = new, ![new] = leaf]

WithLeafBelow(B, at, new) ==
  [n \in Nodes |-> IF n = new THEN {new}
                   ELSE IF at \in B[n] THEN B[n] \cup {new} ELSE B[n]]

(* In the tree u with C, new is the larger or the smaller child of at.     *)
GrowsLeaf(t, B, at, new, large, u, C) ==
  /\ Live(u) = Live(t) \cup {new}
  /\ C[u[new].smallerChild] = {} /\ C[u[new].largerChild] = {}
  /\ \A n \in Live(t) :
       /\ C[u[n].smallerChild] = IF at \in B[t[n].smallerChild] \/ (n = at /\ ~large)
                                 THEN B[t[n].smallerChild] \cup {new}
                                 ELSE B[t[n].smallerChild]
       /\ C[u[n].largerChild] = IF at \in B[t[n].largerChild] \/ (n = at /\ large)
                                THEN B[t[n].largerChild] \cup {new}
                                ELSE B[t[n].largerChild]

LEMMA LeafFields ==
  ASSUME NEW t \in [Nodes -> Node], NEW at \in Nodes, NEW new \in Positions,
         NEW large \in BOOLEAN, NEW u, u = WithLeaf(t, at, new, large)
  PROVE  /\ u \in [Nodes -> Node]
         /\ u[new].parent = at
         /\ u[new].smallerChild = Unused
         /\ u[new].largerChild = Unused
         /\ \A n \in Nodes \ {at, new} : u[n] = t[n]
         /\ at # new =>
              /\ u[at].parent = t[at].parent
              /\ u[at].smallerChild = IF large THEN t[at].smallerChild ELSE new
              /\ u[at].largerChild = IF large THEN new ELSE t[at].largerChild
<1>0. new \in Nodes
  BY NodeNumbers
<1>1. PICK leaf : leaf = [FreshNode EXCEPT !.parent = at]
  OBVIOUS
<1>2. leaf = [parent |-> at, smallerChild |-> Unused, largerChild |-> Unused]
  BY <1>1 DEF FreshNode
<1>3. leaf \in Node
  BY <1>2, NodeNumbers DEF Node
<1>4. CASE large
  <2>1. u = [[t EXCEPT ![at].largerChild = new] EXCEPT ![new] = leaf]
    BY <1>1, <1>4 DEF WithLeaf
  <2> QED
    BY <2>1, <1>0, <1>2, <1>3, <1>4 DEF Node
<1>5. CASE ~large
  <2>1. u = [[t EXCEPT ![at].smallerChild = new] EXCEPT ![new] = leaf]
    BY <1>1, <1>5 DEF WithLeaf
  <2> QED
    BY <2>1, <1>0, <1>2, <1>3, <1>5 DEF Node
<1> QED
  BY <1>4, <1>5

LEMMA LeafShape ==
  ASSUME NEW t \in [Nodes -> Node], NEW B, Linked(t), Shaped(t, B),
         NEW at \in Live(t), NEW new \in Positions \ {Unused}, new \notin Live(t),
         NEW large \in BOOLEAN,
         large => t[at].largerChild = Unused,
         ~large => t[at].smallerChild = Unused,
         NEW u, u = WithLeaf(t, at, new, large),
         NEW C, C = WithLeafBelow(B, at, new)
  PROVE  /\ u \in [Nodes -> Node]
         /\ Linked(u)
         /\ Shaped(u, C)
         /\ GrowsLeaf(t, B, at, new, large, u, C)
<1>1. /\ at \in Nodes /\ at # Unused /\ at # TreeRoot /\ at \in Rooted(t)
      /\ new \in Nodes /\ new # Unused /\ new # TreeRoot /\ new \notin Rooted(t) /\ new # at
  BY LiveNodes, NodeNumbers DEF Rooted
<1>2. /\ u \in [Nodes -> Node]
      /\ u[new].parent = at
      /\ u[new].smallerChild = Unused
      /\ u[new].largerChild = Unused
      /\ \A n \in Nodes \ {at, new} : u[n] = t[n]
      /\ u[at].parent = t[at].parent
      /\ u[at].smallerChild = IF large THEN t[at].smallerChild ELSE new
      /\ u[at].largerChild = IF large THEN new ELSE t[at].largerChild
  BY <1>1, LeafFields
<1>3. \A n \in Nodes \ {new} : u[n].parent = t[n].parent
  BY <1>2
<1>4. Live(u) = Live(t) \cup {new}
  <2>1. ASSUME NEW n \in Positions \ {Unused} PROVE n \in Live(u) <=> n \in Live(t) \/ n = new
    BY <1>1, <1>2, <1>3, NodeNumbers DEF Live
  <2> QED
    BY <2>1 DEF Live
<1>5. Rooted(u) = Rooted(t) \cup {new}
  BY <1>4 DEF Rooted
<1>6. \A n \in Rooted(t) \ {at} : /\ u[n].smallerChild = t[n].smallerChild
                                  /\ u[n].largerChild = t[n].largerChild
  BY <1>1, <1>2, LiveNodes
<1>7. \A x \in Live(t) : u[x].parent = t[x].parent
  BY <1>3, LiveNodes
<1>8. Linked(u)
  <2>1. ASSUME NEW m, NEW x, ChildOf(t, x, m) PROVE ChildOf(u, x, m)
    BY <2>1, <1>4, <1>7 DEF ChildOf
  <2>2. ChildOf(u, new, at)
    BY <1>2, <1>4 DEF ChildOf
  <2>3. ASSUME NEW m \in Rooted(t) \ {at}
        PROVE  /\ u[m].smallerChild = Unused \/ ChildOf(u, u[m].smallerChild, m)
               /\ u[m].largerChild = Unused \/ ChildOf(u, u[m].largerChild, m)
               /\ u[m].smallerChild = u[m].largerChild => u[m].smallerChild = Unused
    BY <2>1, <1>6 DEF Linked
  <2>4. /\ u[at].smallerChild = Unused \/ ChildOf(u, u[at].smallerChild, at)
        /\ u[at].largerChild = Unused \/ ChildOf(u, u[at].largerChild, at)
        /\ u[at].smallerChild = u[at].largerChild => u[at].smallerChild = Unused
    <3>1. t[at].smallerChild # new /\ t[at].largerChild # new
      BY <1>1 DEF Linked, ChildOf
    <3> QED
      BY <2>1, <2>2, <3>1, <1>1, <1>2 DEF Linked
  <2>5. u[TreeRoot].smallerChild = Unused
    BY <1>1, <1>6, LiveNodes DEF Linked
  <2>6. u[Unused].smallerChild = Unused /\ u[Unused].largerChild = Unused
    BY <1>1, <1>2, NodeNumbers DEF Linked
  <2> QED
    BY <2>3, <2>4, <2>5, <2>6, <1>2, <1>5 DEF Linked
<1>9. \A n \in Rooted(t) \cup {Unused} : n \in Nodes /\ n # new /\ new \notin B[n]
  <2>1. \A n \in Rooted(t) : B[n] \subseteq Rooted(t)
    BY DEF Shaped, Rooted
  <2>2. B[Unused] = {}
    BY DEF Shaped
  <2> QED
    BY <2>1, <2>2, <1>1, LiveNodes, NodeNumbers
<1>10. /\ C \in [Nodes -> SUBSET Nodes]
       /\ C[new] = {new}
       /\ C[Unused] = {}
       /\ \A n \in Rooted(t) \cup {Unused} :
            C[n] = IF at \in B[n] THEN B[n] \cup {new} ELSE B[n]
  <2>1. \A n \in Nodes : B[n] \subseteq Nodes
    BY DEF Shaped
  <2>2. B[Unused] = {}
    BY DEF Shaped
  <2>3. C = [n \in Nodes |-> IF n = new THEN {new}
                             ELSE IF at \in B[n] THEN B[n] \cup {new} ELSE B[n]]
    BY DEF WithLeafBelow
  <2> QED
    BY <2>1, <2>2, <2>3, <1>1, <1>9
<1>11. \A n \in Rooted(t) :
         /\ t[n].smallerChild \in Rooted(t) \cup {Unused}
         /\ t[n].largerChild \in Rooted(t) \cup {Unused}
  BY LiveNodes DEF Linked, ChildOf
<1>12. /\ at \in B[at]
       /\ at \notin B[t[at].smallerChild] /\ at \notin B[t[at].largerChild]
       /\ B[Unused] = {}
  BY <1>1 DEF Shaped
<1>13. ASSUME NEW n \in Rooted(t)
       PROVE  /\ C[u[n].smallerChild] = IF at \in B[t[n].smallerChild] \/ (n = at /\ ~large)
                                        THEN B[t[n].smallerChild] \cup {new}
                                        ELSE B[t[n].smallerChild]
              /\ C[u[n].largerChild] = IF at \in B[t[n].largerChild] \/ (n = at /\ large)
                                       THEN B[t[n].largerChild] \cup {new}
                                       ELSE B[t[n].largerChild]
  <2>1. CASE n # at
    BY <2>1, <1>6, <1>10, <1>11
  <2>2. CASE n = at /\ large
    <3>1. C[t[n].smallerChild] = B[t[n].smallerChild]
      BY <2>2, <1>10, <1>11, <1>12
    <3> QED
      BY <3>1, <2>2, <1>2, <1>10, <1>12
  <2>3. CASE n = at /\ ~large
    <3>1. C[t[n].largerChild] = B[t[n].largerChild]
      BY <2>3, <1>10, <1>11, <1>12
    <3> QED
      BY <3>1, <2>3, <1>2, <1>10, <1>12
  <2> QED
    BY <2>1, <2>2, <2>3
<1>14. Shaped(u, C)
  <2>1. ASSUME NEW n \in Live(u)
        PROVE  /\ u[n].parent \in Rooted(u)
               /\ u[u[n].parent].smallerChild = n \/ u[u[n].parent].largerChild = n
               /\ C[n] \subseteq Live(u)
    <3>1. CASE n = new
      BY <3>1, <1>1, <1>2, <1>4, <1>5, <1>10
    <3>2. CASE n # new
      <4>1. n \in Live(t) /\ n \in Rooted(t)
        BY <3>2, <1>4, LiveNodes
      <4>2. /\ B[n] \subseteq Live(t)
            /\ t[n].parent \in Rooted(t)
            /\ t[t[n].parent].smallerChild = n \/ t[t[n].parent].largerChild = n
        BY <4>1 DEF Shaped
      <4>3. C[n] \subseteq Live(u)
        <5>1. C[n] \subseteq B[n] \cup {new}
          BY <4>1, <1>10
        <5> QED
          BY <5>1, <4>2, <1>4
      <4>4. CASE t[n].parent = at
        <5>1. n # Unused
          BY <4>1, LiveNodes
        <5> QED
          BY <5>1, <4>1, <4>2, <4>3, <4>4, <1>2, <1>5, <1>7
      <4>5. CASE t[n].parent # at
        BY <4>1, <4>2, <4>3, <4>5, <1>5, <1>6, <1>7
      <4> QED
        BY <4>4, <4>5
    <3> QED
      BY <3>1, <3>2
  <2>2. ASSUME NEW n \in Rooted(u)
        PROVE  /\ C[n] = {n} \cup C[u[n].smallerChild] \cup C[u[n].largerChild]
               /\ n \notin C[u[n].smallerChild] /\ n \notin C[u[n].largerChild]
               /\ C[u[n].smallerChild] \cap C[u[n].largerChild] = {}
    <3>1. CASE n = new
      BY <3>1, <1>2, <1>10
    <3>2. CASE n # new
      <4>1. n \in Rooted(t)
        BY <3>2, <1>5
      <4>2. PICK X, Y, Z : X = B[n] /\ Y = B[t[n].smallerChild] /\ Z = B[t[n].largerChild]
        OBVIOUS
      <4>3. /\ X = {n} \cup Y \cup Z
            /\ n \notin Y /\ n \notin Z
            /\ Y \cap Z = {}
        BY <4>1, <4>2 DEF Shaped
      <4>4. new \notin X /\ new \notin Y /\ new \notin Z
        BY <4>1, <4>2, <1>9, <1>11
      <4>5. /\ C[n] = IF at \in X THEN X \cup {new} ELSE X
            /\ C[u[n].smallerChild] = IF at \in Y \/ (n = at /\ ~large) THEN Y \cup {new} ELSE Y
            /\ C[u[n].largerChild] = IF at \in Z \/ (n = at /\ large) THEN Z \cup {new} ELSE Z
        BY <4>1, <4>2, <1>10, <1>13
      <4>6. PICK X1, Y1, Z1 : /\ X1 = C[n]
                              /\ Y1 = C[u[n].smallerChild]
                              /\ Z1 = C[u[n].largerChild]
        OBVIOUS
      <4>7. CASE n = at /\ large
        <5>1. X1 = X \cup {new} /\ Y1 = Y /\ Z1 = Z \cup {new}
          BY <4>3, <4>5, <4>6, <4>7
        <5> QED
          BY <3>2, <4>3, <4>4, <4>6, <5>1
      <4>8. CASE n = at /\ ~large
        <5>1. X1 = X \cup {new} /\ Y1 = Y \cup {new} /\ Z1 = Z
          BY <4>3, <4>5, <4>6, <4>8
        <5> QED
          BY <3>2, <4>3, <4>4, <4>6, <5>1
      <4>9. CASE n # at /\ at \in Y
        <5>1. X1 = X \cup {new} /\ Y1 = Y \cup {new} /\ Z1 = Z
          BY <4>3, <4>5, <4>6, <4>9
        <5> QED
          BY <3>2, <4>3, <4>4, <4>6, <5>1
      <4>10. CASE n # at /\ at \in Z
        <5>1. X1 = X \cup {new} /\ Y1 = Y /\ Z1 = Z \cup {new}
          BY <4>3, <4>5, <4>6, <4>10
        <5> QED
          BY <3>2, <4>3, <4>4, <4>6, <5>1
      <4>11. CASE n # at /\ at \notin Y /\ at \notin Z
        <5>1. X1 = X /\ Y1 = Y /\ Z1 = Z
          BY <4>3, <4>5, <4>6, <4>11
        <5> QED
          BY <4>3, <4>6, <5>1
      <4> QED
        BY <4>7, <4>8, <4>9, <4>10, <4>11
    <3> QED
      BY <3>1, <3>2
  <2>3. ASSUME NEW n \in Rooted(u), NEW x \in Live(u) \ {n}
        PROVE  x \in C[n] <=> u[x].parent \in C[n]
    <3>1. CASE n = new
      <4>1. x \in Live(t) /\ t[x].parent \in Rooted(t)
        BY <3>1, <1>4 DEF Shaped
      <4> QED
        BY <3>1, <4>1, <1>1, <1>7, <1>10
    <3>2. CASE n # new /\ x = new
      <4>1. n \in Rooted(t) /\ new \notin B[n]
        BY <3>2, <1>5, <1>9
      <4>2. C[n] = IF at \in B[n] THEN B[n] \cup {new} ELSE B[n]
        BY <4>1, <1>10
      <4> QED
        BY <3>2, <4>1, <4>2, <1>1, <1>2
    <3>3. CASE n # new /\ x # new
      <4>1. n \in Rooted(t) /\ x \in Live(t) \ {n}
        BY <3>3, <1>4, <1>5
      <4>2. x \in B[n] <=> t[x].parent \in B[n]
        BY <4>1 DEF Shaped
      <4>3. t[x].parent # new
        BY <4>1, <1>1 DEF Shaped
      <4>4. C[n] \ {new} = B[n] \ {new}
        <5>1. C[n] = IF at \in B[n] THEN B[n] \cup {new} ELSE B[n]
          BY <4>1, <1>10
        <5>2. \A X : (X \cup {new}) \ {new} = X \ {new}
          OBVIOUS
        <5> QED
          BY <5>1, <5>2
      <4> QED
        BY <3>3, <4>1, <4>2, <4>3, <4>4, <1>7
    <3> QED
      BY <3>1, <3>2, <3>3
  <2>4. C[TreeRoot] = Rooted(u)
    <3>1. TreeRoot \in Rooted(t) /\ B[TreeRoot] = Rooted(t)
      BY LiveNodes DEF Shaped
    <3> QED
      BY <3>1, <1>1, <1>5, <1>10
  <2> QED
    BY <1>10, <2>1, <2>2, <2>3, <2>4 DEF Shaped
<1> QED
  BY <1>2, <1>4, <1>8, <1>10, <1>13, <1>14, LiveNodes DEF GrowsLeaf


-----------------------------------------------------------------------------
(* What the three operations do to the order of the strings.               *)

LEMMA ContractOrder ==
  ASSUME NEW t, NEW B, NEW S, Ordered(t, B, S),
         NEW u, NEW C, Live(u) \subseteq Live(t),
         \A n \in Live(u) : /\ C[u[n].smallerChild] \subseteq B[t[n].smallerChild]
                            /\ C[u[n].largerChild] \subseteq B[t[n].largerChild]
  PROVE  Ordered(u, C, S)
BY DEF Ordered

LEMMA ReplaceOrder ==
  ASSUME NEW t, NEW B, NEW S, Ordered(t, B, S),
         NEW old \in Live(t), NEW new,
         NEW u, NEW C, TakesPlace(t, B, old, new, u, C),
         \A m \in B[t[old].smallerChild] : Less(S[m], S[new]),
         \A m \in B[t[old].largerChild] : Less(S[new], S[m]),
         \A n \in Live(t) \ {old} :
           /\ old \in B[t[n].smallerChild] => Less(S[new], S[n])
           /\ old \in B[t[n].largerChild] => Less(S[n], S[new])
  PROVE  Ordered(u, C, S)
<1> SUFFICES ASSUME NEW n \in Live(u)
             PROVE  /\ \A m \in C[u[n].smallerChild] : Less(S[m], S[n])
                    /\ \A m \in C[u[n].largerChild] : Less(S[n], S[m])
  BY DEF Ordered
<1>1. CASE n = new
  BY <1>1 DEF TakesPlace
<1>2. CASE n # new
  <2>1. n \in Live(t) \ {old}
    BY <1>2 DEF TakesPlace
  <2>2. ASSUME NEW m \in C[u[n].smallerChild] PROVE Less(S[m], S[n])
    <3>1. C[u[n].smallerChild] = Swap(B[t[n].smallerChild], old, new)
      BY <1>2 DEF TakesPlace
    <3>2. m \in B[t[n].smallerChild] \/ (m = new /\ old \in B[t[n].smallerChild])
      BY <2>2, <3>1 DEF Swap
    <3> QED
      BY <2>1, <3>2 DEF Ordered
  <2>3. ASSUME NEW m \in C[u[n].largerChild] PROVE Less(S[n], S[m])
    <3>1. C[u[n].largerChild] = Swap(B[t[n].largerChild], old, new)
      BY <1>2 DEF TakesPlace
    <3>2. m \in B[t[n].largerChild] \/ (m = new /\ old \in B[t[n].largerChild])
      BY <2>3, <3>1 DEF Swap
    <3> QED
      BY <2>1, <3>2 DEF Ordered
  <2> QED
    BY <2>2, <2>3
<1> QED
  BY <1>1, <1>2

LEMMA LeafOrder ==
  ASSUME NEW t, NEW B, NEW S, Ordered(t, B, S),
         NEW at \in Live(t), NEW new, NEW large \in BOOLEAN,
         NEW u, NEW C, new \notin Live(t), GrowsLeaf(t, B, at, new, large, u, C),
         large => Less(S[at], S[new]),
         ~large => Less(S[new], S[at]),
         \A n \in Live(t) :
           /\ at \in B[t[n].smallerChild] => Less(S[new], S[n])
           /\ at \in B[t[n].largerChild] => Less(S[n], S[new])
  PROVE  Ordered(u, C, S)
<1> SUFFICES ASSUME NEW n \in Live(u)
             PROVE  /\ \A m \in C[u[n].smallerChild] : Less(S[m], S[n])
                    /\ \A m \in C[u[n].largerChild] : Less(S[n], S[m])
  BY DEF Ordered
<1>1. CASE n = new
  BY <1>1 DEF GrowsLeaf
<1>2. CASE n # new
  <2>1. n \in Live(t)
    BY <1>2 DEF GrowsLeaf
  <2>2. ASSUME NEW m \in C[u[n].smallerChild] PROVE Less(S[m], S[n])
    <3>1. \/ m \in B[t[n].smallerChild]
          \/ m = new /\ (at \in B[t[n].smallerChild] \/ (n = at /\ ~large))
      <4>1. C[u[n].smallerChild] = IF at \in B[t[n].smallerChild] \/ (n = at /\ ~large)
                                THEN B[t[n].smallerChild] \cup {new}
                                ELSE B[t[n].smallerChild]
        BY <2>1 DEF GrowsLeaf
      <4> QED
        BY <4>1, <2>2
    <3> QED
      BY <2>1, <3>1 DEF Ordered
  <2>3. ASSUME NEW m \in C[u[n].largerChild] PROVE Less(S[n], S[m])
    <3>1. \/ m \in B[t[n].largerChild]
          \/ m = new /\ (at \in B[t[n].largerChild] \/ (n = at /\ large))
      <4>1. C[u[n].largerChild] = IF at \in B[t[n].largerChild] \/ (n = at /\ large)
                                THEN B[t[n].largerChild] \cup {new}
                                ELSE B[t[n].largerChild]
        BY <2>1 DEF GrowsLeaf
      <4> QED
        BY <4>1, <2>3
    <3> QED
      BY <2>1, <3>1 DEF Ordered
  <2> QED
    BY <2>2, <2>3
<1> QED
  BY <1>1, <1>2


-----------------------------------------------------------------------------
(* findNextNode: the last node of the chain of larger children.            *)

(* One step of the recursion in FindNextNode.                              *)
Largest(f, t, n) == IF t[n].largerChild = Unused THEN n ELSE f[t[n].largerChild]

ClosedUnderLarger(t, X) ==
  \A m \in X : t[m].largerChild # Unused => t[m].largerChild \in X

(* The end of the chain that begins at n, if it has one.                   *)
Ends(t, n) ==
  {m \in Nodes : /\ t[m].largerChild = Unused
                 /\ \A X \in SUBSET Nodes : n \in X /\ ClosedUnderLarger(t, X) => m \in X}

LEMMA LargestExists ==
  ASSUME NEW t \in [Nodes -> Node]
  PROVE  \E f : f = [n \in Nodes |-> Largest(f, t, n)]
<1>1. ASSUME NEW n \in Nodes, t[n].largerChild = Unused PROVE Ends(t, n) = {n}
  <2>1. n \in Ends(t, n)
    BY <1>1 DEF Ends
  <2>2. {n} \in SUBSET Nodes /\ ClosedUnderLarger(t, {n})
    BY <1>1 DEF ClosedUnderLarger
  <2> QED
    BY <2>1, <2>2 DEF Ends
<1>2. ASSUME NEW n \in Nodes, t[n].largerChild # Unused
      PROVE  Ends(t, n) = Ends(t, t[n].largerChild)
  <2> DEFINE k == t[n].largerChild
  <2>1. k \in Nodes
    BY NodeNumbers DEF Node
  <2>2. ASSUME NEW m \in Ends(t, n) PROVE m \in Ends(t, k)
    <3>1. m \in Nodes /\ t[m].largerChild = Unused /\ m # n
      BY <1>2, <2>2 DEF Ends
    <3>2. ASSUME NEW X \in SUBSET Nodes, k \in X, ClosedUnderLarger(t, X) PROVE m \in X
      <4>1. X \cup {n} \in SUBSET Nodes /\ ClosedUnderLarger(t, X \cup {n})
        BY <3>2 DEF ClosedUnderLarger
      <4>2. m \in X \cup {n}
        BY <4>1, <2>2 DEF Ends
      <4> QED
        BY <3>1, <4>2
    <3> QED
      BY <3>1, <3>2 DEF Ends
  <2>3. ASSUME NEW m \in Ends(t, k) PROVE m \in Ends(t, n)
    <3>1. ASSUME NEW X \in SUBSET Nodes, n \in X, ClosedUnderLarger(t, X) PROVE m \in X
      <4>1. k \in X
        BY <1>2, <3>1 DEF ClosedUnderLarger
      <4> QED
        BY <4>1, <3>1, <2>3 DEF Ends
    <3> QED
      BY <3>1, <2>3 DEF Ends
  <2> QED
    BY <2>2, <2>3
<1>3. PICK f : f = [n \in Nodes |-> CHOOSE m : m \in Ends(t, n)]
  OBVIOUS
<1>4. ASSUME NEW n \in Nodes PROVE f[n] = Largest(f, t, n)
  <2>1. CASE t[n].largerChild = Unused
    BY <2>1, <1>1, <1>3 DEF Largest
  <2>2. CASE t[n].largerChild # Unused
    <3>1. t[n].largerChild \in Nodes
      BY NodeNumbers DEF Node
    <3> QED
      BY <2>2, <3>1, <1>2, <1>3 DEF Largest
  <2> QED
    BY <2>1, <2>2
<1>5. f = [n \in Nodes |-> Largest(f, t, n)]
  BY <1>3, <1>4
<1> QED
  BY <1>5

LEMMA NextNodeUnfolds ==
  ASSUME NEW t \in [Nodes -> Node], NEW node
  PROVE  \E f : /\ f = [n \in Nodes |-> Largest(f, t, n)]
                /\ FindNextNode(t, node) = f[t[node].smallerChild]
<1> DEFINE f == CHOOSE g : g = [n \in Nodes |-> Largest(g, t, n)]
<1>1. f = [n \in Nodes |-> Largest(f, t, n)]
  BY LargestExists, Zenon
<1>2. FindNextNode(t, node) = f[t[node].smallerChild]
  BY Zenon DEF FindNextNode, Largest
<1> HIDE DEF f
<1> QED
  BY <1>1, <1>2

LEMMA BelowIsSmaller ==
  ASSUME NEW t, NEW B, Linked(t), Shaped(t, B), NEW n \in Live(t), NEW k \in Live(t),
         t[k].parent = n
  PROVE  /\ Cardinality(B[n]) \in Nat
         /\ Cardinality(B[k]) \in Nat
         /\ Cardinality(B[k]) < Cardinality(B[n])
<1>1. IsFiniteSet(Nodes)
  BY FS_Interval, Sizes DEF Nodes
<1>2. B[n] \subseteq Nodes /\ B[k] \subseteq Nodes /\ n \in B[n] /\ n \notin B[k] /\ B[k] \subseteq B[n]
  <2>1. t[n].smallerChild = k \/ t[n].largerChild = k
    BY DEF Shaped
  <2> QED
    BY <2>1, LiveNodes DEF Shaped
<1>3. IsFiniteSet(B[n]) /\ IsFiniteSet(B[k])
  BY <1>1, <1>2, FS_Subset
<1>4. B[k] \subseteq B[n] \ {n}
  BY <1>2
<1>5. IsFiniteSet(B[n] \ {n}) /\ Cardinality(B[n] \ {n}) = Cardinality(B[n]) - 1
  <2>1. n \in B[n] /\ IsFiniteSet(B[n])
    BY <1>2, <1>3
  <2> QED
    BY ONLY <2>1, FS_RemoveElement
<1>6. Cardinality(B[k]) <= Cardinality(B[n] \ {n})
  BY <1>4, <1>5, FS_Subset
<1>7. Cardinality(B[n]) \in Nat /\ Cardinality(B[k]) \in Nat
  BY <1>3, FS_CardinalityType
<1> QED
  BY <1>5, <1>6, <1>7


(* The end of the chain from n is below n, has no larger child, and is     *)
(* larger than everything else below n.                                    *)
EndOfChain(t, B, S, n, r) ==
  /\ r \in B[n]
  /\ t[r].largerChild = Unused
  /\ \A m \in B[n] \ {r} : Less(S[m], S[r])

LEMMA ChainEnds ==
  ASSUME NEW t \in [Nodes -> Node], NEW B, Linked(t), Shaped(t, B),
         NEW S \in [Nodes -> String], Ordered(t, B, S),
         NEW f, f = [n \in Nodes |-> Largest(f, t, n)], NEW node \in Live(t)
  PROVE  EndOfChain(t, B, S, node, f[node])
<1> DEFINE H == {c \in Nat : \A n \in Live(t) :
                   Cardinality(B[n]) <= c => EndOfChain(t, B, S, n, f[n])}
<1>1. ASSUME NEW n \in Live(t), t[n].largerChild = Unused
      PROVE  EndOfChain(t, B, S, n, f[n])
  <2>1. n \in Nodes /\ n \in Rooted(t)
    BY LiveNodes
  <2>2. f[n] = Largest(f, t, n)
    BY <2>1
  <2>3. f[n] = n
    BY <2>2, <1>1 DEF Largest
  <2>4. B[n] = {n} \cup B[t[n].smallerChild] \cup B[Unused] /\ B[Unused] = {}
    BY <2>1, <1>1 DEF Shaped
  <2>5. \A m \in B[t[n].smallerChild] : Less(S[m], S[n])
    BY DEF Ordered
  <2> QED
    BY <2>3, <2>4, <2>5, <1>1 DEF EndOfChain
<1>2. ASSUME NEW n \in Live(t), NEW k \in Live(t), k = t[n].largerChild, k # Unused,
             EndOfChain(t, B, S, k, f[k])
      PROVE  EndOfChain(t, B, S, n, f[n])
  <2>1. n \in Nodes /\ n \in Rooted(t)
    BY LiveNodes
  <2>2. f[n] = Largest(f, t, n)
    BY <2>1
  <2>3. f[n] = f[k]
    BY <2>2, <1>2 DEF Largest
  <2>4. PICK r : r = f[k]
    OBVIOUS
  <2>5. B[n] = {n} \cup B[t[n].smallerChild] \cup B[k] /\ B[n] \subseteq Nodes
    BY <2>1, <1>2 DEF Shaped
  <2>6. /\ \A m \in B[t[n].smallerChild] : Less(S[m], S[n])
        /\ \A m \in B[k] : Less(S[n], S[m])
    BY <1>2 DEF Ordered
  <2>7. r \in B[k] /\ t[r].largerChild = Unused /\ \A m \in B[k] \ {r} : Less(S[m], S[r])
    BY <2>4, <1>2 DEF EndOfChain
  <2>8. ASSUME NEW m \in B[n] \ {r} PROVE Less(S[m], S[r])
    <3>1. Less(S[n], S[r]) /\ S[m] \in String /\ S[n] \in String /\ S[r] \in String
      BY <2>1, <2>5, <2>6, <2>7
    <3>2. CASE m = n
      BY <3>1, <3>2
    <3>3. CASE m \in B[t[n].smallerChild]
      BY <3>1, <3>3, <2>6, LessTransitive
    <3>4. CASE m \in B[k]
      BY <3>4, <2>7, <2>8
    <3> QED
      BY <3>2, <3>3, <3>4, <2>5
  <2> QED
    BY <2>3, <2>4, <2>5, <2>7, <2>8 DEF EndOfChain
<1>3. \A n \in Live(t) : Cardinality(B[n]) \in Nat /\ Cardinality(B[n]) # 0
  <2>1. IsFiniteSet(Nodes)
    BY FS_Interval, Sizes DEF Nodes
  <2>2. ASSUME NEW n \in Live(t) PROVE Cardinality(B[n]) \in Nat /\ Cardinality(B[n]) # 0
    <3>1. B[n] \subseteq Nodes /\ n \in B[n]
      BY LiveNodes DEF Shaped
    <3>2. IsFiniteSet(B[n])
      BY <2>1, <3>1, FS_Subset
    <3> QED
      BY <3>1, <3>2, FS_EmptySet, FS_CardinalityType
  <2> QED
    BY <2>2
<1>4. 0 \in H
  BY <1>3
<1>5. ASSUME NEW c \in Nat, c \in H PROVE c + 1 \in H
  <2> SUFFICES ASSUME NEW n \in Live(t), Cardinality(B[n]) <= c + 1
               PROVE  EndOfChain(t, B, S, n, f[n])
    OBVIOUS
  <2>1. CASE t[n].largerChild = Unused
    BY <2>1, <1>1
  <2>2. CASE t[n].largerChild # Unused
    <3>1. PICK k : k = t[n].largerChild
      OBVIOUS
    <3>2. k \in Live(t) /\ k # Unused /\ t[k].parent = n
      BY <2>2, <3>1, LiveNodes DEF Linked, ChildOf
    <3>3. Cardinality(B[k]) < Cardinality(B[n])
      BY <3>1, <3>2, BelowIsSmaller
    <3>4. Cardinality(B[k]) <= c
      BY <3>2, <3>3, <1>3
    <3>5. EndOfChain(t, B, S, k, f[k])
      BY <3>2, <3>4, <1>5
    <3> QED
      BY <3>1, <3>2, <3>5, <1>2
  <2> QED
    BY <2>1, <2>2
<1> HIDE DEF H
<1>6. Cardinality(B[node]) \in H
  BY <1>3, <1>4, <1>5, SetInduction
<1> QED
  BY <1>3, <1>6 DEF H

LEMMA NextNode ==
  ASSUME NEW t \in [Nodes -> Node], NEW B, Linked(t), Shaped(t, B),
         NEW S \in [Nodes -> String], Ordered(t, B, S),
         NEW p \in Live(t), t[p].smallerChild # Unused
  PROVE  EndOfChain(t, B, S, t[p].smallerChild, FindNextNode(t, p))
<1>1. PICK f : /\ f = [n \in Nodes |-> Largest(f, t, n)]
               /\ FindNextNode(t, p) = f[t[p].smallerChild]
  BY NextNodeUnfolds
<1>2. t[p].smallerChild \in Live(t)
  BY LiveNodes DEF Linked, ChildOf
<1> QED
  BY <1>1, <1>2, ChainEnds


-----------------------------------------------------------------------------
(* deleteString.                                                           *)

(* What is below x is below every node that x is below: of the nodes that  *)
(* were not, the one with the most below it would have a parent that is    *)
(* another.                                                                *)
LEMMA BelowTransitive ==
  ASSUME NEW t, NEW B, Linked(t), Shaped(t, B), NEW k \in Rooted(t), NEW x \in Live(t),
         x \in B[k]
  PROVE  B[x] \subseteq B[k]
<1> DEFINE X == B[x] \ B[k]
           Room(y) == WindowSize + 1 - Cardinality(B[y])
           D == {Room(y) : y \in X}
<1> SUFFICES ASSUME X # {} PROVE FALSE
  OBVIOUS
<1>1. X \subseteq Live(t)
  BY DEF Shaped
<1>2. ASSUME NEW y \in X PROVE t[y].parent \in X
  <2>1. x \in Rooted(t) /\ y \in Live(t) \ {x}
    BY <1>1, LiveNodes
  <2>2. t[y].parent \in B[x]
    BY <2>1 DEF Shaped
  <2>3. k \in B[k]
    BY DEF Shaped
  <2>4. y \in Live(t) \ {k}
    BY <2>1, <2>3
  <2>5. t[y].parent \notin B[k]
    BY <2>4 DEF Shaped
  <2> QED
    BY <2>2, <2>5
<1>3. IsFiniteSet(Nodes) /\ Cardinality(Nodes) = WindowSize + 1
  BY FS_Interval, Sizes DEF Nodes
<1>4. ASSUME NEW y \in Live(t)
      PROVE  Cardinality(B[y]) \in Nat /\ Cardinality(B[y]) <= WindowSize + 1
  <2>1. B[y] \subseteq Nodes
    BY LiveNodes DEF Shaped
  <2> QED
    BY <2>1, <1>3, FS_Subset, FS_CardinalityType
<1>5. D # {} /\ D \subseteq Nat
  BY <1>1, <1>4, Sizes
<1>6. PICK d \in D : \A e \in D : d <= e
  BY <1>5, Smallest
<1>7. PICK y \in X : d = Room(y)
  BY <1>6
<1>8. y \in Live(t) /\ t[y].parent \in Live(t) /\ t[y].parent \in X
  BY <1>1, <1>2
<1>9. Cardinality(B[y]) < Cardinality(B[t[y].parent])
  BY <1>8, BelowIsSmaller
<1>10. Room(t[y].parent) \in D
  BY <1>8
<1>11. d <= Room(t[y].parent)
  BY <1>6, <1>10
<1>12. PICK a, b : a = Cardinality(B[y]) /\ b = Cardinality(B[t[y].parent])
  OBVIOUS
<1>13. a \in Nat /\ b \in Nat /\ a < b /\ WindowSize + 1 - a <= WindowSize + 1 - b
  BY <1>4, <1>7, <1>8, <1>9, <1>11, <1>12
<1> QED
  BY <1>13, Sizes

LEMMA DeleteShape ==
  ASSUME NEW t \in [Nodes -> Node], NEW B, Linked(t), Shaped(t, B),
         NEW S \in [Nodes -> String], Ordered(t, B, S),
         NEW p \in Live(t), NEW u, u = DeleteString(t, p)
  PROVE  /\ u \in [Nodes -> Node]
         /\ Live(u) = Live(t) \ {p}
         /\ Linked(u)
         /\ \E C : Shaped(u, C) /\ Ordered(u, C, S)
<1>1. t[p].parent # Unused
  BY DEF Live
<1>2. CASE t[p].smallerChild = Unused \/ t[p].largerChild = Unused
  <2>1. u = Contract(t, p)
    BY <1>1, <1>2 DEF DeleteString
  <2>2. PICK C : C = Without(B, p)
    OBVIOUS
  <2>3. /\ u \in [Nodes -> Node]
        /\ Live(u) = Live(t) \ {p}
        /\ Linked(u)
        /\ Shaped(u, C)
        /\ \A n \in Live(u) : /\ C[u[n].smallerChild] \subseteq B[t[n].smallerChild]
                              /\ C[u[n].largerChild] \subseteq B[t[n].largerChild]
    BY <2>1, <2>2, <1>2, ContractShape
  <2>4. Ordered(u, C, S)
    BY <2>3, ContractOrder
  <2> QED
    BY <2>3, <2>4
<1>3. CASE t[p].smallerChild # Unused /\ t[p].largerChild # Unused
  <2>1. PICK r : r = FindNextNode(t, p)
    OBVIOUS
  <2>2. /\ r \in B[t[p].smallerChild]
        /\ t[r].largerChild = Unused
        /\ \A m \in B[t[p].smallerChild] \ {r} : Less(S[m], S[r])
    BY <2>1, <1>3, NextNode DEF EndOfChain
  <2>3. r \in Live(t) /\ r # p /\ r \in B[p] /\ t[r].parent # Unused
    <3>1. p \in Rooted(t)
      BY LiveNodes
    <3>2. r # p /\ r \in B[p]
      BY <3>1, <2>2 DEF Shaped
    <3>3. r \in Live(t)
      BY <3>2 DEF Shaped
    <3> QED
      BY <3>2, <3>3 DEF Live
  <2>4. PICK v, C : v = Contract(t, r) /\ C = Without(B, r)
    OBVIOUS
  <2>5. u = ReplaceNode(v, p, r)
    BY <1>1, <1>3, <2>1, <2>3, <2>4 DEF DeleteString
  <2>6. /\ v \in [Nodes -> Node]
        /\ Live(v) = Live(t) \ {r}
        /\ Linked(v)
        /\ Shaped(v, C)
        /\ \A n \in Live(v) : /\ C[v[n].smallerChild] \subseteq B[t[n].smallerChild]
                              /\ C[v[n].largerChild] \subseteq B[t[n].largerChild]
    BY <2>2, <2>3, <2>4, ContractShape
  <2>7. Ordered(v, C, S)
    BY <2>6, ContractOrder
  <2>8. p \in Live(v) /\ r \in Positions \ {Unused} /\ r \notin Live(v)
    BY <2>3, <2>6, LiveNodes
  <2>9. PICK E : E = Swapped(C, p, r)
    OBVIOUS
  <2>10. /\ u \in [Nodes -> Node]
         /\ Linked(u)
         /\ Shaped(u, E)
         /\ TakesPlace(v, C, p, r, u, E)
    BY <2>5, <2>6, <2>8, <2>9, ReplaceShape
  <2>11. Live(u) = Live(t) \ {p}
    BY <2>3, <2>6, <2>10 DEF TakesPlace
  <2>12. \A n \in Nodes : r \notin C[n]
    BY <2>4 DEF Without
  <2>13. \A m \in Live(t) : S[m] \in String
    BY LiveNodes
  <2>14. ASSUME NEW m \in C[v[p].smallerChild] PROVE Less(S[m], S[r])
    <3>1. v[p].smallerChild \in Nodes
      BY <2>6, <2>8, LiveNodes, NodeNumbers DEF Node
    <3>2. m # r /\ m \in B[t[p].smallerChild]
      BY <3>1, <2>6, <2>8, <2>12, <2>14
    <3> QED
      BY <3>2, <2>2
  <2>15. ASSUME NEW m \in C[v[p].largerChild] PROVE Less(S[r], S[m])
    <3>1. m \in B[t[p].largerChild]
      BY <2>6, <2>8, <2>15
    <3>2. Less(S[p], S[m]) /\ Less(S[r], S[p])
      BY <3>1, <2>2 DEF Ordered
    <3>3. p \in Rooted(t)
      BY LiveNodes
    <3>4. m \in B[p]
      BY <3>1, <3>3 DEF Shaped
    <3>5. m \in Live(t)
      BY <3>4 DEF Shaped
    <3> QED
      BY <3>2, <3>5, <2>3, <2>13, LessTransitive
  <2>16. ASSUME NEW n \in Live(v) \ {p}
         PROVE  /\ p \in C[v[n].smallerChild] => Less(S[r], S[n])
                /\ p \in C[v[n].largerChild] => Less(S[n], S[r])
    <3>1. n \in Live(t) /\ n \in Rooted(t)
      BY <2>6, LiveNodes
    <3>2. ASSUME NEW k \in {t[n].smallerChild, t[n].largerChild}, p \in B[k] PROVE r \in B[k]
      <4>1. k # Unused
        BY <3>2 DEF Shaped
      <4>2. k \in Rooted(t)
        BY <4>1, <3>1, LiveNodes DEF Linked, ChildOf
      <4> QED
        BY <4>2, <3>2, <2>3, BelowTransitive
    <3>3. p \in C[v[n].smallerChild] => r \in B[t[n].smallerChild]
      BY <3>2, <2>6
    <3>4. p \in C[v[n].largerChild] => r \in B[t[n].largerChild]
      BY <3>2, <2>6
    <3> QED
      BY <3>1, <3>3, <3>4 DEF Ordered
  <2>17. Ordered(u, E, S)
    <3>1. \A m \in C[v[p].smallerChild] : Less(S[m], S[r])
      BY <2>14
    <3>2. \A m \in C[v[p].largerChild] : Less(S[r], S[m])
      BY <2>15
    <3>3. \A n \in Live(v) \ {p} :
            /\ p \in C[v[n].smallerChild] => Less(S[r], S[n])
            /\ p \in C[v[n].largerChild] => Less(S[n], S[r])
      BY <2>16
    <3> QED
      BY <3>1, <3>2, <3>3, <2>7, <2>8, <2>10, ReplaceOrder
  <2> QED
    BY <2>10, <2>11, <2>17
<1> QED
  BY <1>2, <1>3

(* Deleting position 0, which is not in the tree, takes at most smaller    *)
(* children away.                                                          *)
LEMMA DeleteUnused ==
  ASSUME NEW t \in [Nodes -> Node], Linked(t), NEW u, u = DeleteString(t, Unused)
  PROVE  /\ u \in [Nodes -> Node]
         /\ Live(u) = Live(t)
         /\ Linked(u)
         /\ u[TreeRoot] = t[TreeRoot]
<1>1. t[Unused].smallerChild = Unused /\ t[Unused].largerChild = Unused /\ Unused \in Nodes
  BY NodeNumbers DEF Linked
<1>2. CASE t[Unused].parent = Unused
  BY <1>2 DEF DeleteString
<1>3. CASE t[Unused].parent # Unused
  <2>1. PICK q : q = t[Unused].parent
    OBVIOUS
  <2>2. q \in Nodes /\ q # Unused
    BY <1>1, <1>3, <2>1 DEF Node
  <2>3. u = ContractNode(t, Unused, Unused)
    BY <1>1, <1>3 DEF DeleteString, Contract
  <2>4. [t EXCEPT ![Unused].parent = t[Unused].parent] = t
    <3>1. t[Unused] \in Node
      BY <1>1
    <3>2. [t[Unused] EXCEPT !.parent = t[Unused].parent] = t[Unused]
      BY <3>1 DEF Node
    <3> QED
      BY <3>2
  <2>5. PICK v : v = IF t[q].largerChild = Unused THEN [t EXCEPT ![q].largerChild = Unused]
                     ELSE [t EXCEPT ![q].smallerChild = Unused]
    OBVIOUS
  <2>6. u = [v EXCEPT ![Unused].parent = Unused]
    BY <2>1, <2>3, <2>4, <2>5, Zenon DEF ContractNode
  <2>7. /\ v \in [Nodes -> Node]
        /\ \A n \in Nodes : /\ v[n].parent = t[n].parent
                            /\ v[n].largerChild = t[n].largerChild
                            /\ v[n].smallerChild \in {t[n].smallerChild, Unused}
    BY <1>1, <2>2, <2>5 DEF Node
  <2>8. /\ u \in [Nodes -> Node]
        /\ u[Unused].parent = Unused
        /\ \A n \in Nodes \ {Unused} : u[n].parent = t[n].parent
        /\ \A n \in Nodes : /\ u[n].largerChild = t[n].largerChild
                            /\ u[n].smallerChild \in {t[n].smallerChild, Unused}
    <3>1. \A n \in Nodes : v[n] \in Node
      BY <2>7
    <3>2. /\ u[Unused] = [v[Unused] EXCEPT !.parent = Unused]
          /\ \A n \in Nodes \ {Unused} : u[n] = v[n]
          /\ u \in [Nodes -> Node]
      <4>1. v[Unused] \in Node /\ [v[Unused] EXCEPT !.parent = Unused] \in Node
        BY <1>1, <3>1 DEF Node
      <4> QED
        BY <4>1, <1>1, <2>6, <2>7
    <3>3. /\ u[Unused].parent = Unused
          /\ u[Unused].smallerChild = v[Unused].smallerChild
          /\ u[Unused].largerChild = v[Unused].largerChild
      BY <1>1, <3>1, <3>2 DEF Node
    <3> QED
      BY <3>2, <3>3, <2>7
  <2>9. Live(u) = Live(t)
    BY <2>8, NodeNumbers DEF Live
  <2>10. Linked(u)
    <3>1. \A n \in Rooted(u) : n \in Rooted(t) /\ n \in Nodes
      BY <2>9, LiveNodes DEF Rooted
    <3>2. ASSUME NEW x, NEW m, ChildOf(t, x, m) PROVE ChildOf(u, x, m)
      BY <3>2, <2>8, <2>9, LiveNodes DEF ChildOf
    <3> QED
      BY <3>1, <3>2, <1>1, <2>8, NodeNumbers DEF Linked
  <2>11. u[TreeRoot] = t[TreeRoot]
    <3>1. /\ u[TreeRoot].parent = t[TreeRoot].parent
          /\ u[TreeRoot].largerChild = t[TreeRoot].largerChild
          /\ u[TreeRoot].smallerChild = t[TreeRoot].smallerChild
      BY <2>8, NodeNumbers DEF Linked
    <3>2. u[TreeRoot] \in Node /\ t[TreeRoot] \in Node
      BY <2>8, NodeNumbers
    <3> QED
      BY <3>1, <3>2 DEF Node
  <2> QED
    BY <2>8, <2>9, <2>10, <2>11
<1> QED
  BY <1>2, <1>3

(* Whatever has become of the tree, its children are positions, and the    *)
(* node that findNextNode comes to is one of them.                         *)
LEMMA ContractedType ==
  ASSUME NEW t \in [Nodes -> Node], NEW old \in Nodes, NEW new \in Positions
  PROVE  ContractNode(t, old, new) \in [Nodes -> Node]
<1>1. Unused \in Nodes /\ new \in Nodes
  BY NodeNumbers
<1>2. PICK t1 : t1 = [t EXCEPT ![new].parent = t[old].parent]
  OBVIOUS
<1>3. t1 \in [Nodes -> Node]
  BY <1>1, <1>2 DEF Node
<1>4. PICK t2 : t2 = IF t1[t1[old].parent].largerChild = old
                     THEN [t1 EXCEPT ![t1[old].parent].largerChild = new]
                     ELSE [t1 EXCEPT ![t1[old].parent].smallerChild = new]
  OBVIOUS
<1>5. t2 \in [Nodes -> Node]
  BY <1>3, <1>4 DEF Node
<1>6. ContractNode(t, old, new) = [t2 EXCEPT ![old].parent = Unused]
  BY <1>2, <1>4 DEF ContractNode
<1> QED
  BY <1>1, <1>5, <1>6 DEF Node

LEMMA NextNodeType ==
  ASSUME NEW t \in [Nodes -> Node], NEW p \in Nodes, FindNextEnds(t, p)
  PROVE  FindNextNode(t, p) \in Positions
<1>1. PICK f : /\ f = [n \in Nodes |-> Largest(f, t, n)]
               /\ FindNextNode(t, p) = f[t[p].smallerChild]
  BY NextNodeUnfolds
<1>2. PICK m \in Nodes :
        /\ t[m].largerChild = Unused
        /\ \A X \in SUBSET Nodes :
             /\ t[p].smallerChild \in X
             /\ \A x \in X : t[x].largerChild # Unused => t[x].largerChild \in X
             => m \in X
  BY DEF FindNextEnds
<1>3. /\ t[p].smallerChild \in Positions /\ t[p].smallerChild \in Nodes
      /\ \A n \in Nodes : t[n].largerChild \in Positions
  BY NodeNumbers DEF Node
<1>4. f[m] = m
  BY <1>1, <1>2 DEF Largest
<1>5. m \in Positions
  BY <1>2, <1>3, NodeNumbers
<1>6. f[m] = f[t[p].smallerChild]
  <2>1. PICK X : X = {n \in Nodes : f[n] = f[t[p].smallerChild]}
    OBVIOUS
  <2>2. \A x \in X : t[x].largerChild # Unused => t[x].largerChild \in X
    BY <2>1, <1>1, <1>3, NodeNumbers DEF Largest
  <2>3. m \in X
    BY <2>1, <2>2, <1>2, <1>3
  <2> QED
    BY <2>1, <2>3
<1> QED
  BY <1>1, <1>4, <1>5, <1>6

LEMMA DeletedType ==
  ASSUME NEW t \in [Nodes -> Node], NEW p \in Nodes, DeleteReturns(t, p)
  PROVE  DeleteString(t, p) \in [Nodes -> Node]
<1>1. ASSUME NEW n \in Nodes PROVE Contract(t, n) \in [Nodes -> Node]
  <2>1. t[n].smallerChild \in Positions /\ t[n].largerChild \in Positions
    BY DEF Node
  <2> QED
    BY <2>1, ContractedType DEF Contract
<1>2. CASE t[p].parent = Unused
  BY <1>2 DEF DeleteString
<1>3. CASE t[p].parent # Unused /\ Unused \in {t[p].smallerChild, t[p].largerChild}
  BY <1>1, <1>3 DEF DeleteString
<1>4. CASE t[p].parent # Unused /\ Unused \notin {t[p].smallerChild, t[p].largerChild}
  <2>1. PICK r : r = FindNextNode(t, p)
    OBVIOUS
  <2>2. r \in Positions /\ r \in Nodes
    BY <2>1, <1>4, NextNodeType, NodeNumbers DEF DeleteReturns
  <2>3. PICK v : v = IF t[r].parent = Unused THEN t ELSE Contract(t, r)
    OBVIOUS
  <2>4. v \in [Nodes -> Node]
    BY <2>2, <2>3, <1>1
  <2>5. DeleteString(t, p) = ReplaceNode(v, p, r)
    BY <2>1, <2>3, <1>4 DEF DeleteString
  <2> QED
    BY <2>2, <2>4, <2>5, ReplacedType
<1> QED
  BY <1>2, <1>3, <1>4

(* The shape and the order depend only on the nodes in the tree.           *)
LEMMA SameTree ==
  ASSUME NEW t, NEW B, NEW S, Shaped(t, B), Ordered(t, B, S),
         NEW u, Live(u) = Live(t), \A n \in Rooted(t) : u[n] = t[n]
  PROVE  Shaped(u, B) /\ Ordered(u, B, S)
<1>1. Rooted(u) = Rooted(t) /\ \A n \in Live(t) : n \in Rooted(t)
  BY DEF Rooted
<1>2. Shaped(u, B)
  BY <1>1 DEF Shaped
<1>3. Ordered(u, B, S)
  BY <1>1 DEF Ordered
<1> QED
  BY <1>2, <1>3


LEMMA SameStrings ==
  ASSUME NEW t, NEW B, Linked(t), Shaped(t, B), NEW S, NEW T, Ordered(t, B, S),
         \A n \in Live(t) : T[n] = S[n]
  PROVE  Ordered(t, B, T)
<1> SUFFICES ASSUME NEW n \in Live(t)
             PROVE  /\ \A m \in B[t[n].smallerChild] : Less(T[m], T[n])
                    /\ \A m \in B[t[n].largerChild] : Less(T[n], T[m])
  BY DEF Ordered
<1>1. \A m \in B[t[n].smallerChild] \cup B[t[n].largerChild] : m \in Live(t)
  <2>1. n \in Rooted(t)
    BY LiveNodes
  <2>2. B[n] \subseteq Live(t) /\ B[n] = {n} \cup B[t[n].smallerChild] \cup B[t[n].largerChild]
    BY <2>1 DEF Shaped
  <2> QED
    BY <2>2
<1> QED
  BY <1>1 DEF Ordered

(* A tree that holds anything is below the root's larger child.            *)
LEMMA RootsChild ==
  ASSUME NEW t, NEW B, Linked(t), Shaped(t, B), Live(t) # {}
  PROVE  /\ t[TreeRoot].largerChild \in Live(t)
         /\ B[t[TreeRoot].largerChild] = Live(t)
         /\ \A n \in Live(t) : /\ t[TreeRoot].largerChild \notin B[t[n].smallerChild]
                               /\ t[TreeRoot].largerChild \notin B[t[n].largerChild]
<1> DEFINE k == t[TreeRoot].largerChild
<1>1. /\ TreeRoot \in Rooted(t)
      /\ Rooted(t) = {TreeRoot} \cup B[t[TreeRoot].smallerChild] \cup B[k]
      /\ B[t[TreeRoot].smallerChild] = {}
      /\ TreeRoot \notin B[k]
  BY LiveNodes DEF Shaped, Linked
<1>2. B[k] = Live(t)
  BY <1>1, NodeNumbers, LiveNodes DEF Rooted
<1>3. k # Unused
  BY <1>2 DEF Shaped
<1>4. k \in Live(t) /\ t[k].parent = TreeRoot
  BY <1>1, <1>3 DEF Linked, ChildOf
<1>5. ASSUME NEW n \in Live(t), NEW x \in {t[n].smallerChild, t[n].largerChild}, k \in B[x]
      PROVE  FALSE
  <2>1. x # Unused
    BY <1>5 DEF Shaped
  <2>2. x \in Live(t) /\ t[x].parent = n /\ n # TreeRoot /\ x \in Rooted(t)
    BY <2>1, LiveNodes DEF Linked, ChildOf
  <2>3. x # k
    BY <2>2, <1>4
  <2>4. t[k].parent \in B[x]
    BY <2>2, <2>3, <1>4, <1>5 DEF Shaped
  <2>5. B[x] \subseteq Live(t)
    BY <2>2 DEF Shaped
  <2> QED
    BY <2>4, <2>5, <1>4, LiveNodes
<1> QED
  BY <1>2, <1>4, <1>5

-----------------------------------------------------------------------------
(* Ages and offsets.                                                       *)

LEMMA Places ==
  ASSUME currentPosition \in Positions
  PROVE  /\ \A p \in Positions :
              /\ Age(p) = 0 <=> p = currentPosition
              /\ Offset(p) = 0 <=> p = currentPosition
              /\ p = ModWindow(currentPosition - Age(p))
              /\ p = ModWindow(currentPosition + Offset(p))
         /\ \A k \in 0 .. WindowSize - 1 :
              /\ Age(ModWindow(currentPosition - k)) = k
              /\ Offset(ModWindow(currentPosition + k)) = k
<1>1. ASSUME NEW p \in Positions
      PROVE  /\ Age(p) = 0 <=> p = currentPosition
             /\ Offset(p) = 0 <=> p = currentPosition
             /\ p = ModWindow(currentPosition - Age(p))
             /\ p = ModWindow(currentPosition + Offset(p))
  <2>1. /\ Offset(p) = IF p >= currentPosition THEN p - currentPosition
                       ELSE p - currentPosition + WindowSize
        /\ Age(p) = IF currentPosition >= p THEN currentPosition - p
                    ELSE currentPosition - p + WindowSize
    BY Distances
  <2>2. PICK a, o : a = Age(p) /\ o = Offset(p)
    OBVIOUS
  <2>3. /\ a \in Nat /\ o \in Nat
        /\ currentPosition - a = IF currentPosition >= p THEN p ELSE p - WindowSize
        /\ currentPosition + o = IF p >= currentPosition THEN p ELSE p + WindowSize
    BY <2>1, <2>2, Sizes DEF Positions
  <2>4. p = ModWindow(currentPosition - a)
    BY <2>3, Wrapped, Sizes DEF Positions
  <2>5. p = ModWindow(currentPosition + o)
    BY <2>3, Wrapped, Sizes DEF Positions
  <2>6. (a = 0 <=> p = currentPosition) /\ (o = 0 <=> p = currentPosition)
    BY <2>1, <2>2, Sizes DEF Positions
  <2> QED
    BY <2>2, <2>4, <2>5, <2>6
<1>2. ASSUME NEW k \in 0 .. WindowSize - 1
      PROVE  /\ Age(ModWindow(currentPosition - k)) = k
             /\ Offset(ModWindow(currentPosition + k)) = k
  <2>1. PICK p, q : p = ModWindow(currentPosition - k) /\ q = ModWindow(currentPosition + k)
    OBVIOUS
  <2>2. /\ p = IF currentPosition >= k THEN currentPosition - k ELSE currentPosition - k + WindowSize
        /\ q = IF currentPosition + k < WindowSize THEN currentPosition + k
               ELSE currentPosition + k - WindowSize
    BY <2>1, Wrapped, Sizes DEF Positions
  <2>3. p \in Positions /\ q \in Positions
    BY <2>2, Sizes DEF Positions
  <2>4. /\ Age(p) = IF currentPosition >= p THEN currentPosition - p
                    ELSE currentPosition - p + WindowSize
        /\ Offset(q) = IF q >= currentPosition THEN q - currentPosition
                       ELSE q - currentPosition + WindowSize
    BY <2>3, Distances
  <2>5. Age(p) = k
    BY <2>2, <2>3, <2>4, Sizes DEF Positions
  <2>6. Offset(q) = k
    BY <2>2, <2>3, <2>4, Sizes DEF Positions
  <2> QED
    BY <2>1, <2>5, <2>6
<1> QED
  BY <1>1, <1>2

(* The string of a position that is not the oldest one yet does not reach  *)
(* the oldest one.                                                         *)
LEMMA Unwritten ==
  ASSUME currentPosition \in Positions, NEW p \in Positions, Age(p) < WindowSize - LookAheadSize,
         NEW i \in Index
  PROVE  ModWindow(p + i) # DeletedPosition
<1>1. Age(p) = IF currentPosition >= p THEN currentPosition - p
               ELSE currentPosition - p + WindowSize
  BY Distances
<1>2. ModWindow(p + i) = IF p + i < WindowSize THEN p + i ELSE p + i - WindowSize
  BY Wrapped, Sizes DEF Positions, Index
<1>3. DeletedPosition = IF currentPosition + LookAheadSize < WindowSize
                        THEN currentPosition + LookAheadSize
                        ELSE currentPosition + LookAheadSize - WindowSize
  BY Wrapped, Sizes DEF Positions, DeletedPosition
<1> QED
  BY <1>1, <1>2, <1>3, Sizes DEF Positions, Index


-----------------------------------------------------------------------------
(* The invariant holds at the start.                                       *)

LEMMA InitInv ==
  ASSUME Init
  PROVE  IInv
<1>1. PICK n \in 0 .. LookAheadSize : \E head \in [1 .. n -> Symbols] :
        /\ window = [p \in Positions |-> IF p \in 1 .. n THEN head[p] ELSE 0]
        /\ lookAheadBytes = n
        /\ endOfInput = (n < LookAheadSize)
  BY DEF Init
<1>2. PICK head \in [1 .. n -> Symbols] :
        /\ window = [p \in Positions |-> IF p \in 1 .. n THEN head[p] ELSE 0]
        /\ lookAheadBytes = n
        /\ endOfInput = (n < LookAheadSize)
  BY <1>1
<1>3. /\ tree = InitTree(1) /\ currentPosition = 1 /\ matchLength = 0 /\ matchPosition = 0
      /\ replaceCount = 0 /\ pc = "output" /\ testNode = 0 /\ added = 0 /\ damaged = FALSE
      /\ sinceDamage = 0 /\ strayed = FALSE
      /\ expanded = [p \in Positions |-> 0]
  BY DEF Init
<1>4. 1 \in Positions \ {Unused} /\ 0 \in Positions /\ 1 # TreeRoot /\ 1 \in Nodes
  BY Sizes DEF Positions, Unused, TreeRoot, Nodes
<1>5. /\ tree \in [Nodes -> Node]
      /\ tree[1].parent = TreeRoot
      /\ tree[1].smallerChild = Unused /\ tree[1].largerChild = Unused
      /\ tree[TreeRoot].smallerChild = Unused /\ tree[TreeRoot].largerChild = 1
      /\ tree[Unused].smallerChild = Unused /\ tree[Unused].largerChild = Unused
      /\ \A m \in Nodes \ {1} : tree[m].parent = Unused
  BY <1>3, <1>4, NodeNumbers, Sizes DEF InitTree, FreshNode, Node, Unused
<1>6. Live(tree) = {1} /\ Rooted(tree) = {1, TreeRoot}
  <2>1. Live(tree) = {1}
    BY <1>4, <1>5, NodeNumbers DEF Live
  <2> QED
    BY <2>1 DEF Rooted
<1>7. TypeOK
  <2>1. window \in [Positions -> Symbols] /\ expanded \in [Positions -> Symbols]
    BY <1>2, <1>3, SymbolsAssumption
  <2>2. /\ currentPosition \in Positions /\ matchPosition \in Positions
        /\ testNode \in Positions
    BY <1>3, <1>4
  <2>3. /\ lookAheadBytes \in 0 .. LookAheadSize /\ matchLength \in 0 .. LookAheadSize
        /\ replaceCount \in 0 .. LookAheadSize /\ added \in 0 .. WindowSize - LookAheadSize
    BY <1>2, <1>3, Sizes
  <2>4. endOfInput \in BOOLEAN
    <3>1. (n < LookAheadSize) \in BOOLEAN
      OBVIOUS
    <3> QED
      BY <3>1, <1>2, Zenon
  <2>5. /\ damaged \in BOOLEAN /\ pc \in {"output", "replace", "add", "done"}
        /\ strayed \in BOOLEAN
    BY <1>3
  <2>6. sinceDamage \in 0 .. MaxSinceDamage
    BY <1>3, BoundsAssumption
  <2> QED
    BY <2>1, <2>2, <2>3, <2>4, <2>5, <2>6, <1>5 DEF TypeOK
<1>8. Counted
  <2>1. 0 <= lookAheadBytes /\ (n # LookAheadSize => n < LookAheadSize)
    BY <1>2, Sizes
  <2> QED
    BY <2>1, <1>2, <1>3 DEF Counted
<1>9. Agree
  <2> SUFFICES ASSUME NEW p \in Positions, Offset(p) \notin 0 .. n - 1
               PROVE  expanded[p] = window[p]
    BY <1>2, <1>3 DEF Agree
  <2>1. Offset(p) = IF p >= 1 THEN p - 1 ELSE p - 1 + WindowSize
    BY <1>3, <1>4, Distances
  <2>2. p \notin 1 .. n
    BY <2>1, Sizes DEF Positions
  <2> QED
    BY <2>2, <1>2, <1>3
<1>10. Matched /\ Located /\ Searching
  BY <1>3 DEF Matched, Located, Remembers, Searching
<1>11. Linked(tree)
  BY <1>4, <1>5, <1>6, NodeNumbers DEF Linked, ChildOf
<1>12. Recent
  <2>1. Age(1) = 0
    BY <1>3, <1>4, Places
  <2> QED
    BY <2>1, <1>3, <1>6 DEF Recent
<1>13. Represented
  <2> SUFFICES ASSUME NEW p \in Positions \ {Unused}, Stored(p)
               PROVE  \E q \in Live(tree) : /\ Age(q) <= Age(p)
                                            /\ Strings(window)[q] = Strings(window)[p]
    BY DEF Represented
  <2>1. p = 1
    BY <1>3 DEF Stored
  <2>2. Age(p) \in Nat
    BY <1>3, <1>4, Distances
  <2> QED
    BY <2>1, <2>2, <1>6
<1>14. FoundLongest
  BY <1>3 DEF FoundLongest
<1>15. \E B : TreeInv(B)
  <2>1. PICK B : B = [m \in Nodes |-> IF m = 1 THEN {1}
                                      ELSE IF m = TreeRoot THEN {1, TreeRoot} ELSE {}]
    OBVIOUS
  <2>2. /\ B \in [Nodes -> SUBSET Nodes]
        /\ B[1] = {1} /\ B[TreeRoot] = {1, TreeRoot} /\ B[Unused] = {}
    BY <2>1, <1>4, NodeNumbers
  <2>3. Shaped(tree, B)
    BY <2>2, <1>4, <1>5, <1>6 DEF Shaped
  <2>4. Ordered(tree, B, Strings(window))
    BY <2>2, <1>5, <1>6 DEF Ordered
  <2>5. OnPath(B)
    BY <1>3 DEF OnPath
  <2> QED
    BY <2>3, <2>4, <2>5 DEF TreeInv
<1> QED
  BY <1>3, <1>7, <1>8, <1>9, <1>10, <1>11, <1>12, <1>13, <1>14, <1>15 DEF IInv, SoundTree

-----------------------------------------------------------------------------
(* What Expand makes of a pair.                                            *)

(* One step of the recursion in Copied.                                    *)
Copies(c, from, i) ==
  IF Offset(ModWindow(from + i)) < i THEN c[Offset(ModWindow(from + i))]
  ELSE expanded[ModWindow(from + i)]

LEMMA CopyExists ==
  ASSUME currentPosition \in Positions, NEW from \in Positions, NEW m \in Nat
  PROVE  \E c : c = [i \in 0 .. m - 1 |-> Copies(c, from, i)]
<1> DEFINE H == {k \in Nat : \E c : c = [i \in 0 .. k - 1 |-> Copies(c, from, i)]}
<1>1. 0 \in H
  <2> DEFINE c == [i \in 0 .. -1 |-> 0]
  <2>1. c = [i \in 0 .. 0 - 1 |-> Copies(c, from, i)]
    OBVIOUS
  <2> QED
    BY <2>1
<1>2. ASSUME NEW k \in Nat, k \in H PROVE k + 1 \in H
  <2>1. PICK c : c = [i \in 0 .. k - 1 |-> Copies(c, from, i)]
    BY <1>2
  <2> DEFINE d == [i \in 0 .. k |-> Copies(c, from, i)]
  <2>2. \A i \in 0 .. k - 1 : d[i] = c[i]
    <3> SUFFICES ASSUME NEW i \in 0 .. k - 1 PROVE d[i] = c[i]
      OBVIOUS
    <3>1. c[i] = Copies(c, from, i)
      BY <2>1
    <3> QED
      BY <3>1
  <2>3. ASSUME NEW i \in 0 .. k PROVE Copies(d, from, i) = Copies(c, from, i)
    <3>1. PICK o : o = Offset(ModWindow(from + i))
      OBVIOUS
    <3>2. ModWindow(from + i) \in Positions
      BY Wrapped DEF Positions
    <3>3. o \in Nat
      BY <3>1, <3>2, Distances
    <3>4. o < i => d[o] = c[o]
      BY <3>3, <2>2
    <3> HIDE DEF d
    <3> QED
      BY <3>1, <3>4 DEF Copies
  <2>4. d = [i \in 0 .. (k + 1) - 1 |-> Copies(d, from, i)]
    BY <2>3
  <2> HIDE DEF d
  <2> QED
    BY <2>4
<1> HIDE DEF H
<1>3. m \in H
  BY <1>1, <1>2, SetInduction
<1> QED
  BY <1>3 DEF H

LEMMA CopyUnfolds ==
  ASSUME currentPosition \in Positions, NEW from \in Positions
  PROVE  \A i \in Index : Copied(from)[i] = Copies(Copied(from), from, i)
<1> DEFINE c == CHOOSE d : d = [i \in 0 .. LookAheadSize - 1 |-> Copies(d, from, i)]
<1>1. c = [i \in 0 .. LookAheadSize - 1 |-> Copies(c, from, i)]
  <2>1. LookAheadSize \in Nat
    BY Sizes
  <2>2. \E d : d = [i \in 0 .. LookAheadSize - 1 |-> Copies(d, from, i)]
    BY <2>1, CopyExists
  <2> QED
    BY <2>2, Zenon
<1>2. Copied(from) = c
  BY Zenon DEF Copied, Copies
<1> HIDE DEF c
<1> QED
  BY <1>1, <1>2 DEF Index

(* Whatever a pair refers to, what is copied are symbols.                  *)
LEMMA CopyTyped ==
  ASSUME currentPosition \in Positions, NEW from \in Positions,
         expanded \in [Positions -> Symbols]
  PROVE  \A i \in Index : Copied(from)[i] \in Symbols
<1> DEFINE H == {k \in Nat : \A j \in Index : j < k => Copied(from)[j] \in Symbols}
<1>1. 0 \in H
  BY DEF Index
<1>2. ASSUME NEW k \in Nat, k \in H PROVE k + 1 \in H
  <2> SUFFICES ASSUME k \in Index PROVE Copied(from)[k] \in Symbols
    BY <1>2 DEF Index
  <2>1. PICK p, o : p = ModWindow(from + k) /\ o = Offset(p)
    OBVIOUS
  <2>2. p \in Positions
    BY <2>1, Wrapped DEF Positions
  <2>3. o \in Nat
    BY <2>1, <2>2, Distances
  <2>4. Copied(from)[k] = IF o < k THEN Copied(from)[o] ELSE expanded[p]
    BY <2>1, CopyUnfolds DEF Copies
  <2>5. o < k => Copied(from)[o] \in Symbols
    BY <2>3, <1>2, Sizes DEF Index
  <2> QED
    BY <2>2, <2>4, <2>5
<1> HIDE DEF H
<1>3. \A m \in Nat : m \in H
  BY <1>1, <1>2, SetInduction
<1>4. LookAheadSize \in H /\ LookAheadSize \in Nat
  BY <1>3, Sizes
<1> QED
  BY <1>4 DEF H, Index

(* The positions ahead of the current one are those at a small offset.     *)
LEMMA AheadIs ==
  ASSUME currentPosition \in Positions, NEW n \in 0 .. LookAheadSize, NEW p \in Positions
  PROVE  p \in Ahead(n) <=> Offset(p) < n
<1>1. Offset(p) \in 0 .. WindowSize - 1 /\ p = ModWindow(currentPosition + Offset(p))
  BY Distances, Places
<1>2. ASSUME p \in Ahead(n) PROVE Offset(p) < n
  <2>1. PICK i \in 0 .. n - 1 : p = ModWindow(currentPosition + i)
    BY <1>2 DEF Ahead
  <2>2. i \in 0 .. WindowSize - 1
    BY Sizes
  <2>3. Offset(ModWindow(currentPosition + i)) = i
    BY <2>2, Places
  <2> QED
    BY <2>1, <2>3
<1>3. ASSUME Offset(p) < n PROVE p \in Ahead(n)
  <2>1. Offset(p) \in 0 .. n - 1
    BY <1>1, <1>3
  <2> QED
    BY <2>1, <1>1 DEF Ahead
<1> QED
  BY <1>2, <1>3

(* Symbol by symbol, a pair that does not begin in the look-ahead gives    *)
(* what the compressor has in its window: a symbol of the pair itself was  *)
(* copied before, and every other one is outside the look-ahead.           *)
LEMMA CopyIsMatch ==
  ASSUME TypeOK, Agree, Matched, pc = "output", replaceCount = 0, lookAheadBytes > 0,
         NEW n \in Nat, n <= matchLength, matchPosition \notin Ahead(lookAheadBytes)
  PROVE  \A i \in 0 .. n - 1 :
           Copied(matchPosition)[i] = window[ModWindow(currentPosition + i)]
<1> DEFINE H == {k \in Nat : \A i \in 0 .. n - 1 : i < k =>
                   Copied(matchPosition)[i] = window[ModWindow(currentPosition + i)]}
<1>1. /\ currentPosition \in Positions /\ matchPosition \in Positions
      /\ matchLength \in 0 .. LookAheadSize /\ lookAheadBytes \in 0 .. LookAheadSize
  BY DEF TypeOK
<1>2. ~ (Offset(matchPosition) < lookAheadBytes)
  BY <1>1, AheadIs
<1>3. 0 \in H
  OBVIOUS
<1>4. ASSUME NEW k \in Nat, k \in H PROVE k + 1 \in H
  <2> SUFFICES ASSUME k \in 0 .. n - 1
               PROVE  Copied(matchPosition)[k] = window[ModWindow(currentPosition + k)]
    BY <1>4
  <2>1. k \in Index /\ k \in 0 .. matchLength - 1 /\ matchLength > 0
    BY <1>1, Sizes DEF Index
  <2>2. window[ModWindow(matchPosition + k)] = window[ModWindow(currentPosition + k)]
    BY <2>1 DEF Matched, Remembers
  <2>3. PICK p, o : p = ModWindow(matchPosition + k) /\ o = Offset(p)
    OBVIOUS
  <2>4. p = IF matchPosition + k < WindowSize THEN matchPosition + k
            ELSE matchPosition + k - WindowSize
    BY <2>1, <2>3, <1>1, Wrapped, Sizes DEF Positions, Index
  <2>5. p \in Positions
    BY <2>1, <2>4, <1>1, Sizes DEF Positions, Index
  <2>6. o = IF p >= currentPosition THEN p - currentPosition ELSE p - currentPosition + WindowSize
    BY <2>3, <2>5, <1>1, Distances
  <2>7. Offset(matchPosition) = IF matchPosition >= currentPosition
                                THEN matchPosition - currentPosition
                                ELSE matchPosition - currentPosition + WindowSize
    BY <1>1, Distances
  <2>8. Copied(matchPosition)[k] = IF o < k THEN Copied(matchPosition)[o] ELSE expanded[p]
    BY <2>1, <2>3, <1>1, CopyUnfolds DEF Copies
  <2>9. CASE o < k
    <3>1. o \in 0 .. n - 1
      BY <2>5, <2>6, <2>9, <1>1, Sizes DEF Positions
    <3>2. Copied(matchPosition)[o] = window[ModWindow(currentPosition + o)]
      BY <3>1, <2>9, <1>4
    <3>3. ModWindow(currentPosition + o) = p
      BY <2>3, <2>5, <1>1, Places
    <3> QED
      BY <3>2, <3>3, <2>2, <2>3, <2>8, <2>9
  <2>10. CASE ~ (o < k)
    <3>1. o \in Nat /\ o >= lookAheadBytes
      BY <2>1, <2>4, <2>5, <2>6, <2>7, <2>10, <1>1, <1>2, Sizes DEF Positions, Index
    <3>2. Offset(p) \notin replaceCount .. lookAheadBytes - 1
      <4>1. o > lookAheadBytes - 1
        BY <3>1, <1>1, Sizes
      <4> QED
        BY <4>1, <3>1, <2>3, <1>1
    <3>3. expanded[p] = window[p]
      BY <3>2, <2>5 DEF Agree
    <3> QED
      BY <3>3, <2>2, <2>3, <2>8, <2>10
  <2> QED
    BY <2>9, <2>10
<1> HIDE DEF H
<1>5. n \in H
  BY <1>3, <1>4, SetInduction
<1> QED
  BY <1>5 DEF H

-----------------------------------------------------------------------------
(* The steps that leave the window and the tree as they are.               *)

LEMMA TreeUnchanged ==
  ASSUME IInv, pc # "add", pc' # "add", ~damaged', Located', FoundLongest',
         UNCHANGED <<window, tree, currentPosition, lookAheadBytes, added, damaged>>
  PROVE  SoundTree'
<1>1. Linked(tree) /\ Recent /\ Represented
  BY DEF IInv, SoundTree
<1>2. PICK B : TreeInv(B)
  BY DEF IInv, SoundTree
<1>3. Linked(tree)' /\ Searching'
  BY <1>1 DEF Searching
<1>4. Recent'
  BY <1>1 DEF Recent, Age
<1>5. Represented'
  BY <1>1 DEF Represented, Stored, Age
<1>6. TreeInv(B)'
  BY <1>2 DEF TreeInv, OnPath
<1> QED
  BY <1>3, <1>4, <1>5, <1>6 DEF SoundTree

(* A literal, or a pair that does not stray, is what the compressor has at *)
(* these positions.  A pair that strays repeats what Expand has.           *)
LEMMA OutputExpands ==
  ASSUME IInv, Output
  PROVE  /\ matchLength' \in 0 .. LookAheadSize
         /\ replaceCount' \in 1 .. lookAheadBytes
         /\ expanded' \in [Positions -> Symbols]
         /\ ~strayed' => \A p \in Positions :
              expanded'[p] = IF Offset(p) < replaceCount' THEN window[p] ELSE expanded[p]
<1>1. /\ currentPosition \in Positions /\ matchPosition \in Positions
      /\ matchLength \in 0 .. LookAheadSize /\ lookAheadBytes \in 0 .. LookAheadSize
      /\ window \in [Positions -> Symbols] /\ expanded \in [Positions -> Symbols]
      /\ replaceCount = 0 /\ lookAheadBytes > 0 /\ pc = "output"
  BY DEF IInv, TypeOK, Counted, Output
<1>2. /\ matchLength' = MatchLength
      /\ MatchLength \in 0 .. LookAheadSize /\ MatchLength <= lookAheadBytes
      /\ MatchLength <= matchLength
  BY <1>1, Sizes DEF Output, MatchLength
<1>3. /\ BreakEven \in Nat
      /\ \A p \in Positions : Offset(p) \in Nat
      /\ \A p \in Positions : Offset(p) = 0 <=> p = currentPosition
  <2>1. \A p \in Positions : Offset(p) \in 0 .. WindowSize - 1
    BY <1>1, Distances
  <2> QED
    BY <2>1, <1>1, Places, LookAheadAssumption
<1>4. CASE OutputChar
  <2>1. replaceCount' \in 1 .. lookAheadBytes
    BY <1>1, <1>4 DEF OutputChar
  <2>2. expanded' = [expanded EXCEPT ![currentPosition] = window[currentPosition]]
    BY <1>4 DEF OutputChar
  <2>3. expanded' \in [Positions -> Symbols]
    BY <2>2, <1>1
  <2>4. \A p \in Positions : Offset(p) < replaceCount' <=> p = currentPosition
    <3>1. \A p \in Positions : Offset(p) < 1 <=> Offset(p) = 0
      BY <1>3
    <3> QED
      BY <3>1, <1>3, <1>4 DEF OutputChar
  <2>5. \A p \in Positions :
          expanded'[p] = IF Offset(p) < replaceCount' THEN window[p] ELSE expanded[p]
    BY <2>2, <2>4, <1>1
  <2> QED
    BY <2>1, <2>3, <2>5, <1>2
<1>5. CASE OutputPair
  <2>1. PICK m : m = MatchLength
    OBVIOUS
  <2>2. /\ replaceCount' = m /\ m > BreakEven
        /\ expanded' = [p \in Positions |-> IF p \in Ahead(m) THEN Copied(matchPosition)[Offset(p)]
                                            ELSE expanded[p]]
    BY <2>1, <1>5 DEF OutputPair
  <2>3. m \in 1 .. lookAheadBytes /\ m \in 0 .. LookAheadSize /\ m <= matchLength
    BY <2>1, <2>2, <1>1, <1>2, <1>3
  <2>4. ASSUME ~strayed'
        PROVE  \A i \in 0 .. m - 1 :
                 Copied(matchPosition)[i] = window[ModWindow(currentPosition + i)]
    <3>1. ~strayed /\ matchPosition \notin Ahead(lookAheadBytes)
      BY <2>1, <2>2, <2>4 DEF Output
    <3>2. Agree /\ Matched /\ TypeOK
      BY <3>1 DEF IInv
    <3> QED
      BY <2>3, <3>1, <3>2, <1>1, CopyIsMatch
  <2>5. ASSUME ~strayed', NEW p \in Positions
        PROVE  expanded'[p] = IF Offset(p) < m THEN window[p] ELSE expanded[p]
    <3>1. p \in Ahead(m) <=> Offset(p) < m
      BY <2>3, <1>1, AheadIs
    <3>2. Offset(p) < m => Copied(matchPosition)[Offset(p)] = window[p]
      <4>1. p = ModWindow(currentPosition + Offset(p))
        BY <1>1, Places
      <4>2. Offset(p) < m => Offset(p) \in 0 .. m - 1
        BY <1>3, <2>3
      <4> QED
        BY <4>1, <4>2, <2>4, <2>5
    <3> QED
      BY <3>1, <3>2, <2>2
  <2>6. expanded' \in [Positions -> Symbols]
    <3>1. ASSUME NEW p \in Ahead(m) PROVE Copied(matchPosition)[Offset(p)] \in Symbols
      <4>1. PICK i \in 0 .. m - 1 : p = ModWindow(currentPosition + i)
        BY <3>1 DEF Ahead
      <4>2. i \in 0 .. WindowSize - 1 /\ i \in Index
        BY <2>3, Sizes DEF Index
      <4> QED
        BY <4>1, <4>2, <1>1, Places, CopyTyped
    <3> QED
      BY <3>1, <2>2, <1>1
  <2> QED
    BY <2>2, <2>3, <2>5, <2>6, <1>2
<1> QED
  BY <1>4, <1>5 DEF Output

LEMMA OutputInv ==
  ASSUME IInv, Output
  PROVE  IInv'
<1>1. /\ pc' = "replace" /\ pc = "output"
      /\ UNCHANGED <<window, tree, currentPosition, lookAheadBytes, matchPosition,
                     endOfInput, testNode, added, damaged, sinceDamage>>
      /\ strayed' \in BOOLEAN /\ (strayed => strayed')
  BY DEF IInv, TypeOK, Output
<1>2. TypeOK /\ Counted /\ lookAheadBytes > 0
  BY DEF IInv, Output
<1>3. lookAheadBytes \in 0 .. LookAheadSize /\ replaceCount' \in 1 .. lookAheadBytes
      /\ replaceCount = 0
  BY <1>1, <1>2, OutputExpands DEF TypeOK, Counted
<1>4. /\ replaceCount' \in 0 .. LookAheadSize /\ replaceCount' <= lookAheadBytes
      /\ replaceCount' > 0
  BY <1>3, Sizes
<1>5. TypeOK'
  BY <1>1, <1>2, <1>4, OutputExpands DEF TypeOK
<1>6. Counted'
  BY <1>1, <1>2, <1>4 DEF Counted
<1>7. ASSUME ~strayed' PROVE Agree'
  <2> SUFFICES ASSUME NEW p \in Positions, Offset(p) \notin replaceCount' .. lookAheadBytes - 1
               PROVE  expanded'[p] = window[p]
    BY <1>1 DEF Agree, Offset
  <2>1. expanded'[p] = IF Offset(p) < replaceCount' THEN window[p] ELSE expanded[p]
    BY <1>7, OutputExpands
  <2>2. Offset(p) \in 0 .. WindowSize - 1
    BY <1>2, Distances DEF TypeOK
  <2>3. ~ (Offset(p) < replaceCount') => Offset(p) \notin 0 .. lookAheadBytes - 1
    BY <2>2, <1>3, Sizes
  <2> QED
    BY <2>1, <2>3, <1>1, <1>3, <1>7 DEF Agree, IInv
<1>8. Matched' /\ Located' /\ FoundLongest'
  BY <1>1, <1>4 DEF Matched, Located, Remembers, FoundLongest
<1>9. ~damaged' => SoundTree'
  BY <1>1, <1>8, TreeUnchanged
<1>10. strayed' => damaged'
  <2> SUFFICES ASSUME ~damaged, ~strayed, matchPosition \in Ahead(lookAheadBytes),
                      MatchLength > BreakEven
               PROVE  FALSE
    <3>1. (strayed => damaged) /\ damaged' = damaged
      BY <1>1 DEF IInv
    <3>2. strayed' =
            (strayed \/ (MatchLength > BreakEven /\ matchPosition \in Ahead(lookAheadBytes)))
      BY DEF Output
    <3> QED
      BY <3>1, <3>2, Zenon
  <2>1. /\ matchLength \in 0 .. LookAheadSize /\ lookAheadBytes \in 0 .. LookAheadSize
        /\ currentPosition \in Positions /\ matchPosition \in Positions
    BY <1>2 DEF TypeOK
  <2>2. MatchLength \in Nat /\ MatchLength <= matchLength /\ BreakEven \in Nat
    BY <2>1, LookAheadAssumption, Sizes DEF MatchLength
  <2>3. Remembers
    BY <2>1, <2>2, <1>2, <1>3 DEF Remembers
  <2>4. Age(matchPosition) \in 1 .. WindowSize - LookAheadSize
    BY <2>3 DEF IInv, SoundTree, Located
  <2>5. Offset(matchPosition) < lookAheadBytes
    BY <2>1, AheadIs
  <2>6. /\ Offset(matchPosition) = IF matchPosition >= currentPosition
                                   THEN matchPosition - currentPosition
                                   ELSE matchPosition - currentPosition + WindowSize
        /\ Age(matchPosition) = IF currentPosition >= matchPosition
                                THEN currentPosition - matchPosition
                                ELSE currentPosition - matchPosition + WindowSize
    BY <2>1, Distances
  <2> QED
    BY <2>1, <2>4, <2>5, <2>6, Sizes DEF Positions
<1> QED
  BY <1>1, <1>5, <1>6, <1>7, <1>8, <1>9, <1>10 DEF IInv

LEMMA ReplacedInv ==
  ASSUME IInv, Replaced
  PROVE  IInv'
<1>1. /\ pc = "replace" /\ pc' = "output" /\ replaceCount = 0
      /\ UNCHANGED <<window, tree, currentPosition, lookAheadBytes, matchLength, matchPosition,
                     replaceCount, endOfInput, testNode, expanded, added, damaged, sinceDamage,
                     strayed>>
  BY DEF Replaced
<1>2. TypeOK' /\ Counted' /\ (~strayed' => Agree') /\ (strayed' => damaged')
  BY <1>1 DEF IInv, TypeOK, Counted, Agree, Offset
<1>3. Matched'
  BY <1>1 DEF IInv, Matched, Remembers
<1>4. ~damaged' => Located' /\ FoundLongest'
  BY <1>1 DEF IInv, SoundTree, Located, Remembers, FoundLongest, Age
<1>5. ~damaged' => SoundTree'
  BY <1>1, <1>4, TreeUnchanged
<1> QED
  BY <1>1, <1>2, <1>3, <1>5 DEF IInv

LEMMA FinishInv ==
  ASSUME IInv, Finish
  PROVE  IInv'
<1>1. /\ pc = "output" /\ pc' = "done" /\ lookAheadBytes = 0
      /\ UNCHANGED <<window, tree, currentPosition, lookAheadBytes, matchLength, matchPosition,
                     replaceCount, endOfInput, testNode, expanded, added, damaged, sinceDamage,
                     strayed>>
  BY DEF Finish
<1>2. TypeOK' /\ Counted' /\ (~strayed' => Agree') /\ (strayed' => damaged')
  BY <1>1 DEF IInv, TypeOK, Counted, Agree, Offset
<1>3. Matched' /\ Located' /\ FoundLongest'
  BY <1>1 DEF Matched, Located, Remembers, FoundLongest
<1>4. ~damaged' => SoundTree'
  BY <1>1, <1>3, TreeUnchanged
<1> QED
  BY <1>1, <1>2, <1>3, <1>4 DEF IInv

-----------------------------------------------------------------------------
(* A string leaves the window, and a symbol enters it.                     *)

LEMMA BeforeReplacing ==
  ASSUME IInv, ReplaceSymbol
  PROVE  /\ currentPosition \in Positions /\ currentPosition' = ModWindow(currentPosition + 1)
         /\ window \in [Positions -> Symbols]
         /\ tree \in [Nodes -> Node]
         /\ lookAheadBytes \in 1 .. LookAheadSize
         /\ replaceCount \in 1 .. lookAheadBytes
         /\ added \in 0 .. WindowSize - LookAheadSize
         /\ added' \in 1 .. WindowSize - LookAheadSize
         /\ added' = IF added < WindowSize - LookAheadSize THEN added + 1 ELSE added
         /\ pc = "replace"
         /\ ~damaged' => /\ ~damaged
                         /\ Linked(tree) /\ Recent /\ Represented
                         /\ \E B : TreeInv(B)
<1>1. TypeOK /\ Counted /\ replaceCount > 0 /\ pc = "replace"
  BY DEF IInv, ReplaceSymbol
<1>2. /\ lookAheadBytes \in 1 .. LookAheadSize /\ replaceCount \in 1 .. lookAheadBytes
  BY <1>1, Sizes DEF TypeOK, Counted
<1>3. added' = IF added < WindowSize - LookAheadSize THEN added + 1 ELSE added
  BY DEF ReplaceSymbol
<1>4. added \in 0 .. WindowSize - LookAheadSize
  BY <1>1 DEF TypeOK
<1>5. added' \in 1 .. WindowSize - LookAheadSize
  BY <1>3, <1>4, Sizes
<1>6. ~damaged' => /\ ~damaged
                   /\ Linked(tree) /\ Recent /\ Represented
                   /\ \E B : TreeInv(B)
  BY DEF IInv, SoundTree, ReplaceSymbol
<1> QED
  BY <1>1, <1>2, <1>3, <1>4, <1>5, <1>6 DEF TypeOK, ReplaceSymbol

(* Deleting the oldest string leaves a tree of the same kind, unless it is *)
(* that of position 0 and damages one of the nodes.                        *)
LEMMA DeletedTree ==
  ASSUME IInv, ReplaceSymbol, ~damaged'
  PROVE  /\ tree' \in [Nodes -> Node]
         /\ Linked(tree')
         /\ Live(tree') = Live(tree) \ {DeletedPosition}
         /\ \E C : Shaped(tree', C) /\ Ordered(tree', C, Strings(window))
<1>1. /\ tree \in [Nodes -> Node] /\ Linked(tree) /\ window \in [Positions -> Symbols]
      /\ currentPosition \in Positions
  BY BeforeReplacing
<1>2. PICK B : Shaped(tree, B) /\ Ordered(tree, B, Strings(window))
  BY BeforeReplacing DEF TreeInv
<1>3. PICK p : p = DeletedPosition
  OBVIOUS
<1>4. /\ tree' = DeleteString(tree, p)
      /\ ~ (p = 0 /\ \E n \in InTree : tree'[n] # tree[n])
  BY <1>3 DEF ReplaceSymbol
<1>5. p \in Positions
  BY <1>1, <1>3, Oldest
<1>6. CASE p = Unused
  <2>1. /\ tree' \in [Nodes -> Node] /\ Live(tree') = Live(tree) /\ Linked(tree')
        /\ tree'[TreeRoot] = tree[TreeRoot]
    BY <1>1, <1>4, <1>6, DeleteUnused
  <2>2. \A n \in Rooted(tree) : tree'[n] = tree[n]
    <3>1. \A n \in Live(tree) : tree'[n] = tree[n]
      BY <1>4, <1>6 DEF InTree, Live, Unused
    <3> QED
      BY <3>1, <2>1 DEF Rooted
  <2>3. Shaped(tree', B) /\ Ordered(tree', B, Strings(window))
    BY <2>1, <2>2, <1>2, SameTree
  <2>4. p \notin Live(tree)
    BY <1>6 DEF Live
  <2> QED
    BY <2>1, <2>3, <2>4, <1>3, <1>6
<1>7. CASE p \in Live(tree)
  <2>1. Strings(window) \in [Nodes -> String]
    BY <1>1, StringsTyped
  <2>2. /\ tree' \in [Nodes -> Node] /\ Live(tree') = Live(tree) \ {p} /\ Linked(tree')
        /\ \E C : Shaped(tree', C) /\ Ordered(tree', C, Strings(window))
    BY <2>1, <1>1, <1>2, <1>4, <1>7, DeleteShape
  <2> QED
    BY <2>2, <1>3
<1>8. CASE p # Unused /\ p \notin Live(tree)
  <2>1. tree[p].parent = Unused
    BY <1>5, <1>8 DEF Live
  <2>2. tree' = tree
    BY <2>1, <1>4 DEF DeleteString
  <2> QED
    BY <2>2, <1>1, <1>2, <1>3, <1>8
<1> QED
  BY <1>6, <1>7, <1>8

(* The strings that stay keep their contents.                              *)
LEMMA StringsKept ==
  ASSUME IInv, ReplaceSymbol, NEW p \in Positions, Age(p) < WindowSize - LookAheadSize
  PROVE  Strings(window')[p] = Strings(window)[p]
<1>1. currentPosition \in Positions /\ window \in [Positions -> Symbols]
  BY BeforeReplacing
<1>2. \/ window' = window
      \/ \E s \in Symbols : window' = [window EXCEPT ![DeletedPosition] = s]
  BY DEF ReplaceSymbol, ReadSymbol
<1>3. ASSUME NEW i \in Index PROVE window'[ModWindow(p + i)] = window[ModWindow(p + i)]
  <2>1. ModWindow(p + i) # DeletedPosition
    BY <1>1, Unwritten
  <2>2. ModWindow(p + i) \in Positions
    BY Wrapped DEF Positions, Index
  <2> QED
    BY <2>1, <2>2, <1>1, <1>2
<1>4. p \in Nodes
  BY NodeNumbers
<1> QED
  BY <1>3, <1>4 DEF Strings

(* What stays in the tree.                                                 *)
LEMMA StaysInTree ==
  ASSUME IInv, ReplaceSymbol, ~damaged', NEW n \in Live(tree')
  PROVE  /\ n \in Live(tree) /\ n \in Positions
         /\ Age(n) <= added
         /\ Age(n) < WindowSize - LookAheadSize
         /\ Age(n)' = Age(n) + 1
         /\ Age(n)' <= added'
<1>1. n \in Live(tree) /\ n # DeletedPosition /\ n \in Positions
  BY DeletedTree DEF Live
<1>2. /\ currentPosition \in Positions /\ currentPosition' = ModWindow(currentPosition + 1)
      /\ added \in 0 .. WindowSize - LookAheadSize
      /\ added' = IF added < WindowSize - LookAheadSize THEN added + 1 ELSE added
  BY BeforeReplacing
<1>3. Age(n) <= added
  BY <1>1, BeforeReplacing DEF Recent
<1>4. Age(n) \in 0 .. WindowSize - 1 /\ Age(n) # WindowSize - LookAheadSize
  BY <1>1, <1>2, Oldest, Distances
<1>5. Age(n)' = IF Age(n) = WindowSize - 1 THEN 0 ELSE Age(n) + 1
  BY <1>1, <1>2, Turned
<1>6. Age(n) < WindowSize - LookAheadSize
  BY <1>2, <1>3, <1>4, Sizes
<1>7. Age(n)' = Age(n) + 1
  BY <1>4, <1>5, <1>6, Sizes
<1>8. Age(n)' <= added'
  BY <1>2, <1>3, <1>4, <1>6, <1>7, Sizes
<1> QED
  BY <1>1, <1>3, <1>6, <1>7, <1>8

(* What was represented by a string that is young enough still is.         *)
LEMMA StaysRepresented ==
  ASSUME IInv, ReplaceSymbol, ~damaged', NEW p \in Positions \ {Unused}, Stored(p),
         Age(p) < WindowSize - LookAheadSize
  PROVE  \E q \in Live(tree') :
           Age(q)' <= Age(p)' /\ Strings(window')[q] = Strings(window')[p]
<1>1. PICK q \in Live(tree) : Age(q) <= Age(p) /\ Strings(window)[q] = Strings(window)[p]
  BY BeforeReplacing DEF Represented
<1>2. /\ currentPosition \in Positions /\ currentPosition' = ModWindow(currentPosition + 1)
      /\ q \in Positions
  BY BeforeReplacing DEF Live
<1>3. Age(q) \in 0 .. WindowSize - 1 /\ Age(p) \in 0 .. WindowSize - 1
  BY <1>2, Distances
<1>4. Age(q) < WindowSize - LookAheadSize
  BY <1>1, <1>3, Sizes
<1>5. q # DeletedPosition
  BY <1>2, <1>3, <1>4, Oldest, Sizes
<1>6. q \in Live(tree')
  BY <1>1, <1>5, DeletedTree
<1>7. Strings(window')[q] = Strings(window')[p]
  BY <1>1, <1>2, <1>4, StringsKept
<1>8. /\ Age(p)' = IF Age(p) = WindowSize - 1 THEN 0 ELSE Age(p) + 1
      /\ Age(q)' = IF Age(q) = WindowSize - 1 THEN 0 ELSE Age(q) + 1
  BY <1>2, Turned
<1>9. Age(q)' <= Age(p)'
  BY <1>1, <1>3, <1>4, <1>8, Sizes
<1> QED
  BY <1>6, <1>7, <1>9

(* When a string is about to be added, there is a tree to add it to.       *)
LEMMA TreeIsNotEmpty ==
  ASSUME IInv, ReplaceSymbol, ~damaged'
  PROVE  Live(tree') # {}
<1>1. /\ currentPosition \in Positions /\ currentPosition' = ModWindow(currentPosition + 1)
      /\ lookAheadBytes > 0 /\ pc = "replace" /\ Counted /\ added \in Nat
  BY BeforeReplacing DEF IInv
<1>2. CASE currentPosition # Unused
  <2>1. Age(currentPosition) = 0
    BY <1>1, Places
  <2>2. Age(currentPosition) < WindowSize - LookAheadSize
    BY <2>1, Sizes
  <2>3. Stored(currentPosition)
    BY <1>1 DEF Stored
  <2> QED
    BY <2>2, <2>3, <1>1, <1>2, StaysRepresented
<1>3. CASE currentPosition = Unused
  <2>1. WindowSize - 1 \in Positions \ {Unused}
    BY Sizes DEF Positions, Unused
  <2>2. Age(WindowSize - 1) = 1
    <3>1. Age(WindowSize - 1) = IF currentPosition >= WindowSize - 1
                                THEN currentPosition - (WindowSize - 1)
                                ELSE currentPosition - (WindowSize - 1) + WindowSize
      BY <2>1, <1>1, Distances
    <3> QED
      BY <3>1, <1>3, Sizes DEF Unused
  <2>3. added > 0
    BY <1>1, <1>3 DEF Counted, Unused
  <2>4. Stored(WindowSize - 1)
    BY <2>2, <2>3, <1>1 DEF Stored
  <2>5. Age(WindowSize - 1) < WindowSize - LookAheadSize
    BY <2>2, Sizes
  <2> QED
    BY <2>1, <2>4, <2>5, StaysRepresented
<1> QED
  BY <1>2, <1>3

(* The search for the place of the new string begins in the tree, at the   *)
(* node everything else is below.                                          *)
LEMMA SearchBegins ==
  ASSUME IInv, ReplaceSymbol, ~damaged', NEW r, r = tree'[TreeRoot].largerChild
  PROVE  /\ r \in Live(tree')
         /\ \A C : Shaped(tree', C) =>
              /\ C[r] = Live(tree')
              /\ \A n \in Live(tree') : /\ r \notin C[tree'[n].smallerChild]
                                        /\ r \notin C[tree'[n].largerChild]
<1>1. Linked(tree') /\ Live(tree') # {}
  BY DeletedTree, TreeIsNotEmpty
<1>2. ASSUME NEW C, Shaped(tree', C)
      PROVE  /\ r \in Live(tree')
             /\ C[r] = Live(tree')
             /\ \A n \in Live(tree') : /\ r \notin C[tree'[n].smallerChild]
                                       /\ r \notin C[tree'[n].largerChild]
  BY <1>1, <1>2, RootsChild
<1> QED
  BY <1>2, DeletedTree

(* The scalars of the step, which the window and the tree do not matter to.*)
LEMMA ReplaceCounts ==
  ASSUME IInv, ReplaceSymbol
  PROVE  /\ TypeOK' /\ Counted'
         /\ pc' = "add" => testNode' = tree'[TreeRoot].largerChild
         /\ pc' # "add" => lookAheadBytes' = 0 \/ currentPosition' = EndOfStream
         /\ lookAheadBytes' # 0 => matchLength' = 0
<1>1. /\ currentPosition \in Positions /\ currentPosition' = ModWindow(currentPosition + 1)
      /\ window \in [Positions -> Symbols] /\ lookAheadBytes \in 1 .. LookAheadSize
      /\ replaceCount \in 1 .. lookAheadBytes /\ added' \in 1 .. WindowSize - LookAheadSize
      /\ pc = "replace"
  BY BeforeReplacing
<1>2. TypeOK /\ Counted
  BY DEF IInv
<1>3. currentPosition' \in Positions
  BY <1>1, Turned
<1>4. /\ window' \in [Positions -> Symbols]
      /\ endOfInput' \in BOOLEAN
      /\ lookAheadBytes' = lookAheadBytes \/ lookAheadBytes' = lookAheadBytes - 1
      /\ ~endOfInput' => lookAheadBytes' = LookAheadSize
  <2>1. DeletedPosition \in Positions
    BY <1>1, Oldest
  <2>2. CASE /\ ~endOfInput
             /\ \E s \in Symbols : window' = [window EXCEPT ![DeletedPosition] = s]
             /\ UNCHANGED <<lookAheadBytes, endOfInput>>
    BY <2>1, <2>2, <1>1, <1>2 DEF TypeOK, Counted
  <2>3. CASE endOfInput' = TRUE /\ lookAheadBytes' = lookAheadBytes - 1 /\ UNCHANGED window
    BY <2>3, <1>1
  <2> QED
    BY <2>2, <2>3 DEF ReplaceSymbol, ReadSymbol
<1>5. replaceCount' = replaceCount - 1
  BY DEF ReplaceSymbol
<1>6. /\ lookAheadBytes' \in 0 .. LookAheadSize /\ replaceCount' \in 0 .. LookAheadSize
      /\ replaceCount' <= lookAheadBytes'
  BY <1>1, <1>4, <1>5, Sizes
<1>7. \/ /\ lookAheadBytes' = 0
         /\ UNCHANGED <<pc, matchLength, testNode>>
      \/ /\ lookAheadBytes' # 0
         /\ currentPosition' = EndOfStream
         /\ matchLength' = 0
         /\ UNCHANGED <<pc, testNode>>
      \/ /\ lookAheadBytes' # 0
         /\ currentPosition' # EndOfStream
         /\ matchLength' = 0
         /\ testNode' = tree'[TreeRoot].largerChild
         /\ pc' = "add"
  BY DEF ReplaceSymbol
<1>8. tree' \in [Nodes -> Node] /\ tree'[TreeRoot].largerChild \in Positions
  <2>1. DeletedPosition \in Nodes
    BY <1>1, Oldest, NodeNumbers
  <2>2. tree' \in [Nodes -> Node]
    BY <2>1, <1>2, DeletedType DEF ReplaceSymbol, TypeOK
  <2> QED
    BY <2>2, NodeNumbers DEF Node
<1>9. matchLength' \in 0 .. LookAheadSize /\ pc' \in {"replace", "add"} /\ testNode' \in Positions
  <2>1. 0 \in 0 .. LookAheadSize
    BY Sizes
  <2> QED
    BY <2>1, <1>1, <1>2, <1>7, <1>8 DEF TypeOK
<1>10. added' \in 0 .. WindowSize - LookAheadSize /\ added' > 0
  BY <1>1, Sizes
<1>11. /\ damaged' \in BOOLEAN /\ strayed' \in BOOLEAN
       /\ matchPosition' \in Positions /\ expanded' \in [Positions -> Symbols]
       /\ sinceDamage' \in 0 .. MaxSinceDamage
  <2>1. /\ damaged' \in BOOLEAN /\ strayed' \in BOOLEAN
        /\ matchPosition' \in Positions /\ expanded' \in [Positions -> Symbols]
    BY <1>2 DEF ReplaceSymbol, TypeOK
  <2>2. sinceDamage' \in 0 .. MaxSinceDamage
    BY <1>2, BoundsAssumption DEF ReplaceSymbol, TypeOK
  <2> QED
    BY <2>1, <2>2
<1>12. TypeOK'
  BY <1>3, <1>4, <1>6, <1>8, <1>9, <1>10, <1>11 DEF TypeOK
<1>13. pc' = "add" => /\ lookAheadBytes' # 0 /\ currentPosition' # EndOfStream
                      /\ testNode' = tree'[TreeRoot].largerChild
  BY <1>1, <1>7
<1>14. Counted'
  <2>1. lookAheadBytes' # 0 => lookAheadBytes' > 0
    BY <1>6
  <2> QED
    BY <2>1, <1>4, <1>6, <1>9, <1>10, <1>13 DEF Counted
<1> QED
  BY <1>7, <1>12, <1>13, <1>14

(* The symbol that is overwritten is either put in the look-ahead, or was  *)
(* put out long ago.                                                       *)
LEMMA ReplaceAgrees ==
  ASSUME IInv, ReplaceSymbol, ~strayed'
  PROVE  Agree'
<1>1. /\ currentPosition \in Positions /\ currentPosition' = ModWindow(currentPosition + 1)
      /\ window \in [Positions -> Symbols] /\ lookAheadBytes \in 1 .. LookAheadSize
      /\ replaceCount \in 1 .. lookAheadBytes
  BY BeforeReplacing
<1>2. Agree /\ Counted
  BY DEF IInv, ReplaceSymbol
<1>3. replaceCount' = replaceCount - 1 /\ expanded' = expanded
  BY DEF ReplaceSymbol
<1> SUFFICES ASSUME NEW p \in Positions, Offset(p)' \notin replaceCount' .. lookAheadBytes' - 1
             PROVE  expanded[p] = window'[p]
  BY <1>3 DEF Agree
<1>4. PICK o : o = Offset(p)
  OBVIOUS
<1>5. /\ o \in 0 .. WindowSize - 1
      /\ Offset(p)' = IF o = 0 THEN WindowSize - 1 ELSE o - 1
      /\ p = DeletedPosition <=> o = LookAheadSize
  BY <1>1, <1>4, Distances, Turned, Oldest
<1>6. o \notin replaceCount .. lookAheadBytes - 1 => expanded[p] = window[p]
  BY <1>2, <1>4 DEF Agree
<1>7. CASE /\ ~endOfInput
           /\ \E s \in Symbols : window' = [window EXCEPT ![DeletedPosition] = s]
           /\ lookAheadBytes' = lookAheadBytes
  <2>1. lookAheadBytes = LookAheadSize
    BY <1>2, <1>7 DEF Counted
  <2>2. o # LookAheadSize
    BY <2>1, <1>1, <1>3, <1>5, <1>7, Sizes
  <2>3. o \notin replaceCount .. lookAheadBytes - 1
    BY <1>1, <1>3, <1>5, <1>7, Sizes
  <2>4. window'[p] = window[p]
    BY <2>2, <1>1, <1>5, <1>7
  <2> QED
    BY <2>3, <2>4, <1>6
<1>8. CASE lookAheadBytes' = lookAheadBytes - 1 /\ window' = window
  <2>1. o \notin replaceCount .. lookAheadBytes - 1
    BY <1>1, <1>3, <1>5, <1>8, Sizes
  <2> QED
    BY <2>1, <1>6, <1>8
<1> QED
  BY <1>7, <1>8 DEF ReplaceSymbol, ReadSymbol

LEMMA ReplaceInv ==
  ASSUME IInv, ReplaceSymbol
  PROVE  IInv'
<1>1. /\ currentPosition \in Positions /\ currentPosition' = ModWindow(currentPosition + 1)
      /\ added \in 0 .. WindowSize - LookAheadSize
      /\ added' \in 1 .. WindowSize - LookAheadSize
      /\ added' = IF added < WindowSize - LookAheadSize THEN added + 1 ELSE added
      /\ lookAheadBytes > 0 /\ pc = "replace"
  BY BeforeReplacing
<1>2. /\ TypeOK' /\ Counted'
      /\ ~strayed' => Agree'
      /\ strayed' => damaged'
  BY ReplaceCounts, ReplaceAgrees DEF IInv, ReplaceSymbol
<1>3. lookAheadBytes' \in Nat
  BY <1>2 DEF TypeOK
<1>4. Matched' /\ Located' /\ FoundLongest'
  <2>1. /\ lookAheadBytes' > 0 => lookAheadBytes' # 0
        /\ ~ (0 > 0)
    BY <1>3
  <2>2. Matched' /\ Located'
    BY <2>1, ReplaceCounts DEF Matched, Located, Remembers
  <2>3. FoundLongest'
    BY <2>1, ReplaceCounts DEF FoundLongest
  <2> QED
    BY <2>2, <2>3
<1>5. ASSUME ~damaged' PROVE Linked(tree)' /\ Searching'
  BY <1>5, DeletedTree, ReplaceCounts, SearchBegins DEF Searching
<1>6. ASSUME ~damaged' PROVE Recent'
  <2> SUFFICES ASSUME NEW n \in Live(tree') PROVE Age(n)' <= added' /\ n # currentPosition'
    BY DEF Recent
  <2>1. /\ n \in Positions /\ Age(n)' = Age(n) + 1 /\ Age(n)' <= added'
    BY <1>6, StaysInTree
  <2>2. Age(n) \in 0 .. WindowSize - 1
    BY <2>1, <1>1, Distances
  <2>3. n = currentPosition' => Age(n)' = 0
    BY <2>1, <1>1, Turned
  <2> QED
    BY <2>1, <2>2, <2>3
<1>7. ASSUME ~damaged' PROVE Represented'
  <2> SUFFICES ASSUME NEW p \in Positions \ {Unused}, Stored(p)'
               PROVE  \E q \in Live(tree') : /\ Age(q)' <= Age(p)'
                                             /\ Strings(window')[q] = Strings(window')[p]
    BY DEF Represented
  <2>1. Age(p)' \in 1 .. added'
    <3>1. lookAheadBytes' > 0 => lookAheadBytes' # 0
      BY <1>3
    <3> QED
      BY <3>1, ReplaceCounts DEF Stored, Unused, EndOfStream
  <2>2. /\ Age(p)' = IF Age(p) = WindowSize - 1 THEN 0 ELSE Age(p) + 1
        /\ Age(p) \in 0 .. WindowSize - 1
    BY <1>1, Turned, Distances
  <2>3. Age(p) < WindowSize - LookAheadSize /\ Age(p) <= added
    BY <2>1, <2>2, <1>1, Sizes
  <2>4. Age(p) = 0 \/ Age(p) \in 1 .. added
    BY <2>2, <2>3, <1>1
  <2>5. Stored(p)
    <3>1. Age(p) = 0 => p = currentPosition
      BY <1>1, Places
    <3> QED
      BY <3>1, <2>4, <1>1 DEF Stored
  <2> QED
    BY <2>3, <2>5, <1>7, StaysRepresented
<1>8. ASSUME ~damaged' PROVE \E C : TreeInv(C)'
  <2>1. PICK C : Shaped(tree', C) /\ Ordered(tree', C, Strings(window))
    BY <1>8, DeletedTree
  <2>2. \A n \in Live(tree') : Strings(window')[n] = Strings(window)[n]
    BY <1>8, StaysInTree, StringsKept
  <2>3. Ordered(tree', C, Strings(window'))
    BY <2>1, <2>2, <1>8, DeletedTree, SameStrings
  <2>4. OnPath(C)'
    <3> SUFFICES ASSUME pc' = "add", NEW n \in Live(tree')
                 PROVE  /\ testNode' \notin C[tree'[n].smallerChild]
                        /\ testNode' \notin C[tree'[n].largerChild]
                        /\ n \in C[testNode']
      BY DEF OnPath
    <3>1. testNode' = tree'[TreeRoot].largerChild
      BY ReplaceCounts
    <3> QED
      BY <3>1, <2>1, <1>8, SearchBegins
  <2> QED
    BY <2>1, <2>3, <2>4 DEF TreeInv
<1> QED
  BY <1>2, <1>4, <1>5, <1>6, <1>7, <1>8 DEF IInv, SoundTree

-----------------------------------------------------------------------------
(* A string is compared with the one at testNode, and put in its place.    *)

AddedChild ==
  IF Larger(currentPosition, testNode) THEN tree[testNode].largerChild
                                       ELSE tree[testNode].smallerChild

(* An equal string is replaced.                                            *)
AddEqual ==
  /\ Common(currentPosition, testNode) = LookAheadSize
  /\ tree' = ReplaceNode(tree, testNode, currentPosition)
  /\ pc' = "replace"
  /\ testNode' = testNode

(* The string becomes a leaf.                                              *)
AddLeaf ==
  /\ Common(currentPosition, testNode) < LookAheadSize
  /\ AddedChild = Unused
  /\ tree' = WithLeaf(tree, testNode, currentPosition, Larger(currentPosition, testNode))
  /\ pc' = "replace"
  /\ testNode' = testNode

(* The search goes on below.                                               *)
AddBelow ==
  /\ Common(currentPosition, testNode) < LookAheadSize
  /\ AddedChild # Unused
  /\ testNode' = AddedChild
  /\ tree' = tree /\ pc' = pc

LEMMA AddCases ==
  ASSUME AddString
  PROVE  AddEqual \/ AddLeaf \/ AddBelow
BY DEF AddString, AddEqual, AddLeaf, AddBelow, AddedChild, WithLeaf

LEMMA BeforeAdding ==
  ASSUME IInv, AddString
  PROVE  /\ TypeOK /\ Counted /\ Matched
         /\ currentPosition \in Positions \ {Unused}
         /\ testNode \in Positions
         /\ lookAheadBytes > 0 /\ pc = "add"
         /\ tree \in [Nodes -> Node]
         /\ window \in [Positions -> Symbols]
         /\ Strings(window) \in [Nodes -> String]
         /\ UNCHANGED <<window, currentPosition, lookAheadBytes, replaceCount, endOfInput,
                        expanded, added, damaged, sinceDamage, strayed>>
<1>1. /\ TypeOK /\ Counted /\ Matched /\ pc = "add"
      /\ UNCHANGED <<window, currentPosition, lookAheadBytes, replaceCount, endOfInput,
                     expanded, added, damaged, sinceDamage, strayed>>
  BY DEF IInv, AddString
<1>2. /\ currentPosition \in Positions \ {Unused} /\ lookAheadBytes > 0
  BY <1>1 DEF TypeOK, Counted, EndOfStream, Unused
<1>3. testNode \in Positions /\ tree \in [Nodes -> Node] /\ window \in [Positions -> Symbols]
  BY <1>1 DEF TypeOK
<1> QED
  BY <1>1, <1>2, <1>3, StringsTyped

(* The search is in the tree, and the new string is not in it yet.         *)
LEMMA InTheTree ==
  ASSUME IInv, AddString, ~damaged
  PROVE  /\ Linked(tree) /\ Recent /\ Located /\ Represented
         /\ \E B : TreeInv(B)
         /\ currentPosition \notin Live(tree)
         /\ testNode \in Live(tree) /\ testNode # currentPosition
<1>1. Linked(tree) /\ Recent /\ Located /\ Searching /\ Represented /\ \E B : TreeInv(B)
  BY DEF IInv, SoundTree
<1> QED
  BY <1>1, BeforeAdding DEF Recent, Searching

(* What is remembered is at least as long as both matches.                 *)
LEMMA Remembered ==
  ASSUME IInv, AddString
  PROVE  /\ matchLength' \in 0 .. LookAheadSize
         /\ matchPosition' \in Positions
         /\ matchLength <= matchLength'
         /\ Common(currentPosition, testNode) <= matchLength'
         /\ Matched'
         /\ ~damaged => Located'
<1>1. PICK c : c = Common(currentPosition, testNode)
  OBVIOUS
<1>2. c \in 0 .. LookAheadSize
  BY <1>1, BeforeAdding, Comparison
<1>3. matchLength \in 0 .. LookAheadSize /\ matchPosition \in Positions
  BY BeforeAdding DEF TypeOK
<1>4. \/ c >= matchLength /\ matchLength' = c /\ matchPosition' = testNode
      \/ c < matchLength /\ UNCHANGED <<matchLength, matchPosition>>
  BY <1>1 DEF AddString
<1>5. /\ matchLength' \in 0 .. LookAheadSize /\ matchPosition' \in Positions
      /\ matchLength <= matchLength' /\ c <= matchLength'
  BY <1>2, <1>3, <1>4, BeforeAdding
<1>6. ~damaged => Age(testNode) \in 1 .. WindowSize - LookAheadSize
  <2> SUFFICES ASSUME ~damaged PROVE Age(testNode) \in 1 .. WindowSize - LookAheadSize
    OBVIOUS
  <2>1. Age(testNode) <= added /\ added \in 0 .. WindowSize - LookAheadSize
    BY BeforeAdding, InTheTree DEF Recent, TypeOK
  <2>2. Age(testNode) \in 0 .. WindowSize - 1 /\ Age(testNode) # 0
    BY BeforeAdding, InTheTree, Distances, Places
  <2> QED
    BY <2>1, <2>2, Sizes
<1>7. \A i \in 0 .. c - 1 :
        window[ModWindow(testNode + i)] = window[ModWindow(currentPosition + i)]
  BY <1>1, BeforeAdding, Comparison
<1>8. Matched'
  <2>1. matchLength > 0 =>
          \A i \in 0 .. matchLength - 1 :
            window[ModWindow(matchPosition + i)] = window[ModWindow(currentPosition + i)]
    BY BeforeAdding DEF Matched, Remembers
  <2>2. CASE c >= matchLength /\ matchLength' = c /\ matchPosition' = testNode
    BY <2>2, <1>7, BeforeAdding DEF Matched
  <2>3. CASE c < matchLength /\ UNCHANGED <<matchLength, matchPosition>>
    BY <2>1, <2>3, BeforeAdding DEF Matched, Remembers
  <2> QED
    BY <2>2, <2>3, <1>4
<1>9. ASSUME ~damaged PROVE Located'
  <2>1. matchLength > 0 => Age(matchPosition) \in 1 .. WindowSize - LookAheadSize
    BY <1>9, BeforeAdding, InTheTree DEF Located, Remembers
  <2>2. CASE c >= matchLength /\ matchLength' = c /\ matchPosition' = testNode
    BY <2>2, <1>6, <1>9, BeforeAdding DEF Located, Age
  <2>3. CASE c < matchLength /\ UNCHANGED <<matchLength, matchPosition>>
    BY <2>1, <2>3, BeforeAdding DEF Located, Remembers, Age
  <2> QED
    BY <2>2, <2>3, <1>4
<1> QED
  BY <1>1, <1>5, <1>8, <1>9

(* The order of the new string and the one it was compared with.           *)
LEMMA Compared ==
  ASSUME IInv, AddString, NEW S, S = Strings(window)
  PROVE  /\ NoLonger(matchLength', S[currentPosition], S[testNode])
         /\ Common(currentPosition, testNode) = LookAheadSize =>
              S[currentPosition] = S[testNode]
         /\ Common(currentPosition, testNode) < LookAheadSize =>
              /\ Larger(currentPosition, testNode) => Less(S[testNode], S[currentPosition])
              /\ ~Larger(currentPosition, testNode) => Less(S[currentPosition], S[testNode])
<1>1. PICK c : c = Common(currentPosition, testNode)
  OBVIOUS
<1>2. /\ c \in 0 .. LookAheadSize
      /\ c = LookAheadSize <=> S[currentPosition] = S[testNode]
      /\ NoLonger(c, S[currentPosition], S[testNode])
      /\ Larger(currentPosition, testNode) =>
           S[currentPosition] = S[testNode] \/ Less(S[testNode], S[currentPosition])
      /\ ~Larger(currentPosition, testNode) => Less(S[currentPosition], S[testNode])
  BY <1>1, BeforeAdding, Comparison
<1>3. c <= matchLength' /\ matchLength' \in Nat
  BY <1>1, Remembered
<1>4. NoLonger(matchLength', S[currentPosition], S[testNode])
  BY <1>2, <1>3, Sizes DEF NoLonger
<1>5. c < LookAheadSize => c # LookAheadSize
  BY <1>2, Sizes
<1> QED
  BY <1>1, <1>2, <1>4, <1>5

(* What is not below the child that the search goes on with is no longer   *)
(* match: the search has gone past it.                                     *)
LEMMA PassedIsNoBetter ==
  ASSUME IInv, AddString, ~damaged, NEW B, TreeInv(B), NEW n \in Live(tree),
         Common(currentPosition, testNode) < LookAheadSize
  PROVE  \/ n \in B[AddedChild]
         \/ NoLonger(matchLength', Strings(window)[currentPosition], Strings(window)[n])
<1>1. PICK S : S = Strings(window)
  OBVIOUS
<1>2. /\ S \in [Nodes -> String] /\ testNode \in Live(tree)
      /\ S[currentPosition] \in String /\ S[testNode] \in String /\ S[n] \in String
  <2>1. currentPosition \in Nodes /\ testNode \in Nodes /\ n \in Nodes
    BY BeforeAdding, NodeNumbers, LiveNodes
  <2> QED
    BY <2>1, <1>1, BeforeAdding, InTheTree
<1>3. Shaped(tree, B) /\ Ordered(tree, B, S)
  BY <1>1 DEF TreeInv
<1>4. /\ matchLength \in Nat /\ matchLength' \in Nat /\ matchLength <= matchLength'
  BY BeforeAdding, Remembered DEF TypeOK
<1>5. CASE n \notin B[testNode]
  <2>1. NoLonger(matchLength, S[currentPosition], S[n])
    BY <1>1, <1>5, BeforeAdding DEF TreeInv, OnPath
  <2> QED
    BY <2>1, <1>1, <1>4, Sizes DEF NoLonger
<1>6. CASE n = testNode
  BY <1>1, <1>6, Compared
<1>7. CASE n \in B[tree[testNode].smallerChild]
  <2>1. Less(S[n], S[testNode])
    BY <1>2, <1>3, <1>7 DEF Ordered
  <2>2. CASE Larger(currentPosition, testNode)
    <3>1. Less(S[testNode], S[currentPosition])
      BY <2>2, <1>1, Compared
    <3>2. NoLonger(matchLength', S[currentPosition], S[n])
      BY <3>1, <2>1, <1>1, <1>2, <1>4, Compared, NoLongerBeyond
    <3> QED
      BY <3>2, <1>1
  <2>3. CASE ~Larger(currentPosition, testNode)
    BY <2>3, <1>7 DEF AddedChild
  <2> QED
    BY <2>2, <2>3
<1>8. CASE n \in B[tree[testNode].largerChild]
  <2>1. Less(S[testNode], S[n])
    BY <1>2, <1>3, <1>8 DEF Ordered
  <2>2. CASE ~Larger(currentPosition, testNode)
    <3>1. Less(S[currentPosition], S[testNode])
      BY <2>2, <1>1, Compared
    <3>2. NoLonger(matchLength', S[currentPosition], S[n])
      BY <3>1, <2>1, <1>1, <1>2, <1>4, Compared, NoLongerBeyond
    <3> QED
      BY <3>2, <1>1
  <2>3. CASE Larger(currentPosition, testNode)
    BY <2>3, <1>8 DEF AddedChild
  <2> QED
    BY <2>2, <2>3
<1>9. B[testNode] = {testNode} \cup B[tree[testNode].smallerChild]
                               \cup B[tree[testNode].largerChild]
  BY <1>2, <1>3, LiveNodes DEF Shaped
<1> QED
  BY <1>5, <1>6, <1>7, <1>8, <1>9

(* The counts do not depend on where the string goes.                      *)
LEMMA AddCounts ==
  ASSUME IInv, AddString, tree' \in [Nodes -> Node],
         \/ pc' = "replace" /\ testNode' = testNode
         \/ pc' = "add" /\ testNode' \in Positions
  PROVE  TypeOK' /\ Counted' /\ Matched' /\ (~strayed' => Agree') /\ (strayed' => damaged')
<1>1. testNode' \in Positions /\ pc' \in {"replace", "add"}
  BY BeforeAdding
<1>2. TypeOK'
  BY <1>1, BeforeAdding, Remembered DEF TypeOK
<1>3. Counted'
  BY <1>1, BeforeAdding DEF Counted
<1>4. (~strayed' => Agree') /\ (strayed' => damaged')
  BY BeforeAdding DEF IInv, Agree, Offset
<1> QED
  BY <1>2, <1>3, <1>4, Remembered

(* The new string stands for all that the one it replaces stood for.       *)
LEMMA AddEqualInv ==
  ASSUME IInv, AddString, AddEqual
  PROVE  IInv'
<1>1. PICK S : S = Strings(window)
  OBVIOUS
<1>2. /\ tree' = ReplaceNode(tree, testNode, currentPosition)
      /\ pc' = "replace" /\ testNode' = testNode
      /\ S[currentPosition] = S[testNode]
  BY <1>1, Compared DEF AddEqual
<1>3. tree' \in [Nodes -> Node]
  BY <1>2, BeforeAdding, NodeNumbers, ReplacedType
<1>4. TypeOK' /\ Counted' /\ Matched' /\ (~strayed' => Agree') /\ (strayed' => damaged')
  BY <1>2, <1>3, AddCounts
<1>5. ASSUME ~damaged
      PROVE  SoundTree'
  <2>1. Represented /\ \E B : TreeInv(B)
    BY <1>5, InTheTree
  <2>2. PICK B : TreeInv(B)
    BY <2>1
  <2>3. Shaped(tree, B) /\ Ordered(tree, B, S)
    BY <2>2, <1>1 DEF TreeInv
  <2>4. PICK C : C = Swapped(B, testNode, currentPosition)
    OBVIOUS
  <2>5. /\ Linked(tree') /\ Shaped(tree', C)
        /\ TakesPlace(tree, B, testNode, currentPosition, tree', C)
    BY <2>3, <2>4, <1>2, <1>5, BeforeAdding, InTheTree, ReplaceShape
  <2>6. Live(tree') = (Live(tree) \ {testNode}) \cup {currentPosition}
    BY <2>5 DEF TakesPlace
  <2>7. Ordered(tree', C, S)
    <3>1. /\ \A m \in B[tree[testNode].smallerChild] : Less(S[m], S[currentPosition])
          /\ \A m \in B[tree[testNode].largerChild] : Less(S[currentPosition], S[m])
      BY <2>3, <1>2, <1>5, InTheTree DEF Ordered
    <3>2. \A n \in Live(tree) \ {testNode} :
            /\ testNode \in B[tree[n].smallerChild] => Less(S[currentPosition], S[n])
            /\ testNode \in B[tree[n].largerChild] => Less(S[n], S[currentPosition])
      BY <2>3, <1>2 DEF Ordered
    <3> QED
      BY <3>1, <3>2, <2>3, <2>5, <1>5, BeforeAdding, InTheTree, ReplaceOrder
  <2>8. Age(currentPosition) = 0
    BY BeforeAdding, Places
  <2>9. Recent'
    <3> SUFFICES ASSUME NEW n \in Live(tree') PROVE Age(n) <= added
      BY <1>2, BeforeAdding DEF Recent, Age
    <3>1. added \in Nat
      BY BeforeAdding DEF TypeOK
    <3> QED
      BY <1>5, <3>1, <2>6, <2>8, BeforeAdding, InTheTree DEF Recent
  <2>10. Represented'
    <3> SUFFICES ASSUME NEW p \in Positions \ {Unused},
                        p = currentPosition \/ Age(p) \in 1 .. added
                 PROVE  \E q \in Live(tree') : Age(q) <= Age(p) /\ S[q] = S[p]
      BY <1>1, BeforeAdding DEF Represented, Stored, Age
    <3>1. Age(p) \in Nat
      BY BeforeAdding, Distances
    <3>2. CASE p = currentPosition
      BY <3>1, <3>2, <2>6
    <3>3. CASE Age(p) \in 1 .. added
      <4>1. PICK q \in Live(tree) : Age(q) <= Age(p) /\ S[q] = S[p]
        BY <3>3, <2>1, <1>1 DEF Represented, Stored
      <4>2. CASE q = testNode
        BY <4>1, <4>2, <3>1, <2>6, <2>8, <1>2
      <4>3. CASE q # testNode
        BY <4>1, <4>3, <2>6
      <4> QED
        BY <4>2, <4>3
    <3> QED
      BY <3>2, <3>3
  <2>11. FoundLongest'
    <3>1. matchLength' = LookAheadSize
      BY Remembered, Sizes DEF AddEqual
    <3>2. \A u, v : NoLonger(matchLength', u, v)
      BY <3>1, Sizes DEF NoLonger
    <3> QED
      BY <3>2 DEF FoundLongest
  <2>12. TreeInv(C)'
    BY <2>5, <2>7, <1>1, <1>2, BeforeAdding DEF TreeInv, OnPath
  <2>13. Located' /\ Searching'
    BY <1>2, <1>5, Remembered DEF Searching
  <2> QED
    BY <2>5, <2>9, <2>10, <2>11, <2>12, <2>13 DEF SoundTree
<1> QED
  BY <1>4, <1>5, BeforeAdding DEF IInv

(* Where the search has come to the end, the new string is in order.       *)
LEMMA AddLeafInv ==
  ASSUME IInv, AddString, AddLeaf
  PROVE  IInv'
<1>1. PICK S : S = Strings(window)
  OBVIOUS
<1>2. PICK large \in BOOLEAN : large <=> Larger(currentPosition, testNode)
  OBVIOUS
<1>3. /\ tree' = WithLeaf(tree, testNode, currentPosition, large)
      /\ pc' = "replace" /\ testNode' = testNode
      /\ Common(currentPosition, testNode) < LookAheadSize
      /\ AddedChild = Unused
  BY <1>2 DEF AddLeaf, WithLeaf
<1>4. /\ large => tree[testNode].largerChild = Unused
      /\ ~large => tree[testNode].smallerChild = Unused
  BY <1>2, <1>3 DEF AddedChild
<1>5. /\ large => Less(S[testNode], S[currentPosition])
      /\ ~large => Less(S[currentPosition], S[testNode])
  BY <1>1, <1>2, <1>3, Compared
<1>6. tree' \in [Nodes -> Node]
  BY <1>3, BeforeAdding, NodeNumbers, LeafFields
<1>7. TypeOK' /\ Counted' /\ Matched' /\ (~strayed' => Agree') /\ (strayed' => damaged')
  BY <1>3, <1>6, AddCounts
<1>8. ASSUME ~damaged
      PROVE  SoundTree'
  <2>1. Represented /\ \E B : TreeInv(B)
    BY <1>8, InTheTree
  <2>2. PICK B : TreeInv(B)
    BY <2>1
  <2>3. Shaped(tree, B) /\ Ordered(tree, B, S) /\ OnPath(B)
    BY <2>2, <1>1 DEF TreeInv
  <2>4. PICK C : C = WithLeafBelow(B, testNode, currentPosition)
    OBVIOUS
  <2>5. /\ Linked(tree') /\ Shaped(tree', C)
        /\ GrowsLeaf(tree, B, testNode, currentPosition, large, tree', C)
    BY <2>3, <2>4, <1>3, <1>4, <1>8, BeforeAdding, InTheTree, LeafShape
  <2>6. Live(tree') = Live(tree) \cup {currentPosition}
    BY <2>5 DEF GrowsLeaf
  <2>7. Ordered(tree', C, S)
    <3>1. \A n \in Live(tree) :
            /\ testNode \in B[tree[n].smallerChild] => Less(S[currentPosition], S[n])
            /\ testNode \in B[tree[n].largerChild] => Less(S[n], S[currentPosition])
      BY <2>3, <1>1, BeforeAdding DEF OnPath
    <3> QED
      BY <3>1, <2>3, <2>5, <1>5, <1>8, BeforeAdding, InTheTree, LeafOrder
  <2>8. Age(currentPosition) = 0
    BY BeforeAdding, Places
  <2>9. Recent'
    <3> SUFFICES ASSUME NEW n \in Live(tree') PROVE Age(n) <= added
      BY <1>3, BeforeAdding DEF Recent, Age
    <3>1. added \in Nat
      BY BeforeAdding DEF TypeOK
    <3> QED
      BY <1>8, <3>1, <2>6, <2>8, BeforeAdding, InTheTree DEF Recent
  <2>10. ASSUME NEW p \in Positions \ {Unused}, Age(p) \in 1 .. added
         PROVE  \E q \in Live(tree) : Age(q) <= Age(p) /\ S[q] = S[p]
    BY <2>10, <2>1, <1>1 DEF Represented, Stored
  <2>11. Represented'
    <3> SUFFICES ASSUME NEW p \in Positions \ {Unused},
                        p = currentPosition \/ Age(p) \in 1 .. added
                 PROVE  \E q \in Live(tree') : Age(q) <= Age(p) /\ S[q] = S[p]
      BY <1>1, BeforeAdding DEF Represented, Stored, Age
    <3>1. Age(p) \in Nat
      BY BeforeAdding, Distances
    <3> QED
      BY <3>1, <2>6, <2>10
  <2>12. FoundLongest'
    <3> SUFFICES ASSUME NEW p \in Positions \ {Unused}, Age(p) \in 1 .. added
                 PROVE  NoLonger(matchLength', S[currentPosition], S[p])
      BY <1>1, BeforeAdding DEF FoundLongest, Age
    <3>1. PICK q \in Live(tree) : S[q] = S[p]
      BY <2>10
    <3>2. B[AddedChild] = {}
      BY <2>3, <1>3 DEF Shaped
    <3>3. NoLonger(matchLength', S[currentPosition], S[q])
      BY <3>2, <2>2, <1>1, <1>3, <1>8, PassedIsNoBetter
    <3> QED
      BY <3>1, <3>3
  <2>13. TreeInv(C)'
    BY <2>5, <2>7, <1>1, <1>3, BeforeAdding DEF TreeInv, OnPath
  <2>14. Located' /\ Searching'
    BY <1>3, <1>8, Remembered DEF Searching
  <2> QED
    BY <2>5, <2>9, <2>11, <2>12, <2>13, <2>14 DEF SoundTree
<1> QED
  BY <1>7, <1>8, BeforeAdding DEF IInv

(* The search keeps to the side of every node that the new string is on.   *)
LEMMA AddBelowInv ==
  ASSUME IInv, AddString, AddBelow
  PROVE  IInv'
<1>1. PICK S : S = Strings(window)
  OBVIOUS
<1>2. PICK c : c = AddedChild
  OBVIOUS
<1>3. /\ Common(currentPosition, testNode) < LookAheadSize
      /\ c # Unused /\ testNode' = c /\ tree' = tree /\ pc' = "add"
      /\ c = IF Larger(currentPosition, testNode) THEN tree[testNode].largerChild
                                                  ELSE tree[testNode].smallerChild
  BY <1>2, BeforeAdding DEF AddBelow, AddedChild
<1>4. c \in Positions
  BY <1>3, BeforeAdding, NodeNumbers DEF Node
<1>5. TypeOK' /\ Counted' /\ Matched' /\ (~strayed' => Agree') /\ (strayed' => damaged')
  BY <1>3, <1>4, BeforeAdding, AddCounts
<1>6. ASSUME ~damaged
      PROVE  c \in Live(tree) /\ tree[c].parent = testNode
  <2>1. ChildOf(tree, c, testNode)
    BY <1>3, <1>6, InTheTree, LiveNodes DEF Linked
  <2> QED
    BY <2>1 DEF ChildOf
<1>7. ASSUME ~damaged
      PROVE  Linked(tree)' /\ Recent' /\ Located' /\ Searching'
  BY <1>3, <1>6, <1>7, BeforeAdding, InTheTree, Remembered DEF Recent, Age, Searching
<1>8. ASSUME ~damaged
      PROVE  Represented' /\ FoundLongest' /\ \E B : TreeInv(B)'
  <2>1. Represented /\ \E B : TreeInv(B)
    BY <1>8, InTheTree
  <2>2. PICK B : TreeInv(B)
    BY <2>1
  <2>3. Shaped(tree, B) /\ Ordered(tree, B, S) /\ OnPath(B)
    BY <2>2, <1>1 DEF TreeInv
  <2>4. Represented'
    BY <2>1, <1>3, BeforeAdding DEF Represented, Stored, Age
  <2>5. FoundLongest'
    BY <1>3 DEF FoundLongest
  <2>6. c \in B[c]
    BY <2>3, <1>6, <1>8, LiveNodes DEF Shaped
  <2>7. ASSUME NEW n \in Live(tree), n # testNode, NEW m \in Nodes, c \in B[m],
               m = tree[n].smallerChild \/ m = tree[n].largerChild
        PROVE  testNode \in B[m]
    <3>1. m # Unused
      BY <2>3, <2>7 DEF Shaped
    <3>2. ChildOf(tree, m, n)
      BY <3>1, <2>7, <1>8, InTheTree, LiveNodes DEF Linked
    <3>3. m \in Live(tree) /\ tree[m].parent = n
      BY <3>2 DEF ChildOf
    <3>4. c # m
      BY <3>3, <2>7, <1>6, <1>8
    <3>5. c \in B[m] <=> tree[c].parent \in B[m]
      BY <3>3, <3>4, <2>3, <1>6, <1>8, LiveNodes DEF Shaped
    <3> QED
      BY <3>5, <2>7, <1>6, <1>8
  <2>8. ASSUME NEW n \in Live(tree)
        PROVE  /\ c \in B[tree[n].smallerChild] => Less(S[currentPosition], S[n])
               /\ c \in B[tree[n].largerChild] => Less(S[n], S[currentPosition])
    <3>1. tree[n].smallerChild \in Nodes /\ tree[n].largerChild \in Nodes
      BY BeforeAdding, LiveNodes, NodeNumbers DEF Node
    <3>2. CASE n = testNode
      <4>1. B[tree[n].smallerChild] \cap B[tree[n].largerChild] = {}
        BY <2>3, LiveNodes DEF Shaped
      <4>2. /\ Larger(currentPosition, testNode) =>
                 c = tree[n].largerChild /\ Less(S[n], S[currentPosition])
            /\ ~Larger(currentPosition, testNode) =>
                 c = tree[n].smallerChild /\ Less(S[currentPosition], S[n])
        BY <3>2, <1>1, <1>3, Compared
      <4> QED
        BY <4>1, <4>2, <2>6
    <3>3. CASE n # testNode
      <4>1. /\ c \in B[tree[n].smallerChild] => testNode \in B[tree[n].smallerChild]
            /\ c \in B[tree[n].largerChild] => testNode \in B[tree[n].largerChild]
        BY <3>1, <3>3, <2>7
      <4> QED
        BY <4>1, <2>3, <1>1, BeforeAdding DEF OnPath
    <3> QED
      BY <3>2, <3>3
  <2>9. \A n \in Live(tree) :
          n \in B[c] \/ NoLonger(matchLength', S[currentPosition], S[n])
    BY <2>2, <1>1, <1>2, <1>3, <1>8, PassedIsNoBetter
  <2>10. TreeInv(B)'
    BY <2>3, <2>8, <2>9, <1>1, <1>3, BeforeAdding DEF TreeInv, OnPath
  <2> QED
    BY <2>4, <2>5, <2>10
<1> QED
  BY <1>5, <1>7, <1>8, BeforeAdding DEF IInv, SoundTree

LEMMA AddInv ==
  ASSUME IInv, AddString
  PROVE  IInv'
BY AddCases, AddEqualInv, AddLeafInv, AddBelowInv

LEMMA StutterInv ==
  ASSUME IInv, UNCHANGED vars
  PROVE  IInv'
<1>1. UNCHANGED <<window, tree, currentPosition, lookAheadBytes, matchLength, matchPosition,
                  replaceCount, endOfInput, pc, testNode, expanded, added, damaged,
                  sinceDamage, strayed>>
  BY DEF vars
<1>2. TypeOK' /\ Counted' /\ Matched' /\ (~strayed' => Agree') /\ (strayed' => damaged')
  BY <1>1 DEF IInv, TypeOK, Counted, Agree, Matched, Remembers, Offset
<1>3. ASSUME ~damaged' PROVE SoundTree'
  <2>1. SoundTree
    BY <1>1, <1>3 DEF IInv
  <2>2. Linked(tree)' /\ Recent' /\ Located' /\ Searching'
    BY <2>1, <1>1 DEF SoundTree, Recent, Located, Remembers, Searching, Age
  <2>3. Represented' /\ FoundLongest'
    BY <2>1, <1>1 DEF SoundTree, Represented, Stored, FoundLongest, Age
  <2>4. PICK B : TreeInv(B)
    BY <2>1 DEF SoundTree
  <2>5. TreeInv(B)'
    BY <2>4, <1>1 DEF TreeInv, OnPath
  <2> QED
    BY <2>2, <2>3, <2>5 DEF SoundTree
<1> QED
  BY <1>2, <1>3 DEF IInv

LEMMA Invariance == Spec => []IInv
<1>1. Init => IInv
  BY InitInv
<1>2. IInv /\ [Next]_vars => IInv'
  BY OutputInv, ReplaceInv, AddInv, ReplacedInv, FinishInv, StutterInv DEF Next
<1> QED
  BY <1>1, <1>2, PTL DEF Spec

-----------------------------------------------------------------------------
(* What follows from the invariant.                                        *)

(* The number of symbols in the look-ahead never leaves its range, nor do  *)
(* the positions, the lengths and the nodes of the tree (Compress).        *)
THEOREM TypeCorrect == Spec => []TypeOK
<1>1. IInv => TypeOK
  BY DEF IInv
<1> QED
  BY <1>1, Invariance, PTL

LEMMA InvRoundTrip ==
  ASSUME IInv
  PROVE  RoundTrip
<1> SUFFICES ASSUME pc \in {"output", "done"}, ~strayed,
                    NEW p \in Positions \ Ahead(lookAheadBytes)
             PROVE  expanded[p] = window[p]
  BY DEF IInv, RoundTrip
<1>1. /\ currentPosition \in Positions /\ lookAheadBytes \in 0 .. LookAheadSize
      /\ replaceCount = 0 /\ Agree
  BY DEF IInv, TypeOK, Counted
<1>2. ~ (Offset(p) < lookAheadBytes) /\ Offset(p) \in 0 .. WindowSize - 1
  BY <1>1, AheadIs, Distances
<1>3. Offset(p) \notin 0 .. lookAheadBytes - 1
  BY <1>1, <1>2
<1> QED
  BY <1>1, <1>3 DEF Agree

(* Expand's window is the compressor's, after every literal and every pair,*)
(* in a damaged tree as well, until a pair is put out for a string of the  *)
(* look-ahead; and that a tree that is not damaged never offers (Compress, *)
(* Expand).                                                                *)
THEOREM WindowsAgree == Spec => []RoundTrip
BY InvRoundTrip, Invariance, PTL

(* The strings that Past names are those of an age.                        *)
LEMMA PastIs ==
  ASSUME TypeOK
  PROVE  Past = {p \in Positions \ {Unused} : Age(p) \in 1 .. added}
<1>1. /\ currentPosition \in Positions /\ added \in 0 .. WindowSize - LookAheadSize
  BY DEF TypeOK
<1>2. ASSUME NEW p \in Past PROVE p \in Positions \ {Unused} /\ Age(p) \in 1 .. added
  <2>1. PICK k \in 1 .. added : p = ModWindow(currentPosition - k)
    BY DEF Past
  <2>2. k \in 0 .. WindowSize - 1 /\ currentPosition - k \in Int
    BY <1>1, Sizes DEF Positions
  <2>3. p \in Positions /\ Age(p) = k
    BY <2>1, <2>2, <1>1, Places, Wrapped
  <2>4. p # Unused
    BY DEF Past, EndOfStream, Unused
  <2> QED
    BY <2>3, <2>4
<1>3. ASSUME NEW p \in Positions \ {Unused}, Age(p) \in 1 .. added PROVE p \in Past
  <2>1. p = ModWindow(currentPosition - Age(p))
    BY <1>1, Places
  <2> QED
    BY <2>1, <1>3 DEF Past, EndOfStream, Unused
<1> QED
  BY <1>2, <1>3

LEMMA InvLongestMatch ==
  ASSUME IInv
  PROVE  LongestMatch
<1> SUFFICES ASSUME pc = "output", lookAheadBytes > 0, currentPosition # EndOfStream, ~damaged,
                    NEW p \in Past
             PROVE  Common(currentPosition, p) <= matchLength
  BY DEF LongestMatch
<1>1. PICK S : S = Strings(window)
  OBVIOUS
<1>2. /\ TypeOK /\ FoundLongest /\ replaceCount = 0
      /\ currentPosition \in Positions /\ window \in [Positions -> Symbols]
  BY DEF IInv, SoundTree, Counted, TypeOK
<1>3. p \in Positions \ {Unused} /\ Age(p) \in 1 .. added
  BY <1>2, PastIs
<1>4. NoLonger(matchLength, S[currentPosition], S[p])
  BY <1>1, <1>2, <1>3 DEF FoundLongest
<1>5. PICK c : c = Common(currentPosition, p)
  OBVIOUS
<1>6. /\ c \in 0 .. LookAheadSize
      /\ \A i \in 0 .. c - 1 : window[ModWindow(currentPosition + i)] = window[ModWindow(p + i)]
  BY <1>2, <1>3, <1>5, Comparison
<1>7. Shares(S[currentPosition], S[p], c)
  <2> SUFFICES ASSUME NEW i \in 0 .. c - 1 PROVE S[currentPosition][i] = S[p][i]
    BY DEF Shares
  <2>1. i \in Index
    BY <1>6, Sizes DEF Index
  <2>2. currentPosition \in Nodes /\ p \in Nodes
    BY <1>2, <1>3, NodeNumbers
  <2>3. /\ S[currentPosition][i] = window[ModWindow(currentPosition + i)]
        /\ S[p][i] = window[ModWindow(p + i)]
    BY <2>1, <2>2, <1>1 DEF Strings
  <2> QED
    BY <2>3, <1>6
<1> QED
  BY <1>4, <1>5, <1>6, <1>7 DEF NoLonger

(* No string that still is in the window would have been a longer match:   *)
(* neither a deletion nor a replacement ever loses one (addString,         *)
(* deleteString).                                                          *)
THEOREM MatchesAreLongest == Spec => []LongestMatch
BY InvLongestMatch, Invariance, PTL

-----------------------------------------------------------------------------
(* What is reached from a node by its children is below it.                *)

(* One step of the recursion in SubTree.                                   *)
Reach(f, n, k) ==
  IF k = 0 THEN {n} \ {Unused}
  ELSE f[k - 1] \cup (({tree[m].smallerChild : m \in f[k - 1]}
                       \cup {tree[m].largerChild : m \in f[k - 1]}) \ {Unused})

LEMMA ReachExists ==
  ASSUME NEW n, NEW m \in Nat
  PROVE  \E f : f = [k \in 0 .. m |-> Reach(f, n, k)]
<1> DEFINE H == {j \in Nat : \E f : f = [k \in 0 .. j |-> Reach(f, n, k)]}
<1>1. 0 \in H
  <2> DEFINE f == [k \in 0 .. 0 |-> {n} \ {Unused}]
  <2>1. ASSUME NEW k \in 0 .. 0 PROVE Reach(f, n, k) = {n} \ {Unused}
    BY DEF Reach
  <2>2. f = [k \in 0 .. 0 |-> Reach(f, n, k)]
    BY <2>1
  <2> HIDE DEF f
  <2> QED
    BY <2>2
<1>2. ASSUME NEW j \in Nat, j \in H PROVE j + 1 \in H
  <2>1. PICK f : f = [k \in 0 .. j |-> Reach(f, n, k)]
    BY <1>2
  <2> DEFINE g == [k \in 0 .. j + 1 |-> Reach(f, n, k)]
  <2>2. \A k \in 0 .. j : g[k] = f[k]
    <3> SUFFICES ASSUME NEW k \in 0 .. j PROVE g[k] = f[k]
      OBVIOUS
    <3>1. f[k] = Reach(f, n, k)
      BY <2>1
    <3> QED
      BY <3>1
  <2>3. ASSUME NEW k \in 0 .. j + 1 PROVE Reach(g, n, k) = Reach(f, n, k)
    <3> HIDE DEF g
    <3>1. k # 0 => k - 1 \in 0 .. j
      OBVIOUS
    <3>2. k # 0 => g[k - 1] = f[k - 1]
      BY ONLY <2>2, <3>1
    <3> QED
      BY ONLY <3>2 DEF Reach
  <2>4. g = [k \in 0 .. j + 1 |-> Reach(g, n, k)]
    BY <2>3
  <2> HIDE DEF g
  <2> QED
    BY <2>4
<1> HIDE DEF H
<1>3. m \in H
  BY <1>1, <1>2, SetInduction
<1> QED
  BY <1>3 DEF H

LEMMA ReachUnfolds ==
  ASSUME NEW n
  PROVE  \E f : /\ f = [k \in 0 .. WindowSize |-> Reach(f, n, k)]
                /\ SubTree(n) = f[WindowSize - LookAheadSize]
<1> DEFINE c == CHOOSE f : f = [k \in 0 .. WindowSize |-> Reach(f, n, k)]
<1>1. c = [k \in 0 .. WindowSize |-> Reach(c, n, k)]
  <2>1. \E f : f = [k \in 0 .. WindowSize |-> Reach(f, n, k)]
    BY Sizes, ReachExists
  <2> QED
    BY <2>1, Zenon
<1>2. SubTree(n) = c[WindowSize - LookAheadSize]
  BY Zenon DEF SubTree, Reach
<1> HIDE DEF c
<1> QED
  BY <1>1, <1>2

LEMMA ReachedIsBelow ==
  ASSUME NEW B, Linked(tree), Shaped(tree, B), NEW n \in Nodes,
         n = Unused \/ n \in Live(tree)
  PROVE  SubTree(n) \subseteq B[n]
<1>1. PICK f : /\ f = [k \in 0 .. WindowSize |-> Reach(f, n, k)]
               /\ SubTree(n) = f[WindowSize - LookAheadSize]
  BY ReachUnfolds
<1> DEFINE H == {k \in Nat : k <= WindowSize => f[k] \subseteq B[n]}
<1>2. n # Unused => n \in B[n] /\ B[n] \subseteq Live(tree)
  BY LiveNodes DEF Shaped
<1>3. B[Unused] = {}
  BY DEF Shaped
<1>4. \A k \in 0 .. WindowSize : f[k] = Reach(f, n, k)
  BY <1>1
<1>5. 0 \in H
  <2>1. f[0] = {n} \ {Unused}
    <3>1. 0 \in 0 .. WindowSize
      BY Sizes
    <3>2. f[0] = Reach(f, n, 0)
      BY <3>1, <1>4
    <3> QED
      BY <3>2 DEF Reach
  <2> QED
    BY <2>1, <1>2
<1>6. ASSUME NEW k \in Nat, k \in H PROVE k + 1 \in H
  <2> SUFFICES ASSUME k + 1 <= WindowSize PROVE f[k + 1] \subseteq B[n]
    OBVIOUS
  <2>1. PICK A : A = f[k]
    OBVIOUS
  <2>2. A \subseteq B[n]
    BY <2>1, <1>6, Sizes
  <2>3. f[k + 1] = A \cup (({tree[m].smallerChild : m \in A}
                            \cup {tree[m].largerChild : m \in A}) \ {Unused})
    <3>1. k + 1 \in 0 .. WindowSize /\ k + 1 # 0 /\ (k + 1) - 1 = k
      BY Sizes
    <3>2. f[k + 1] = Reach(f, n, k + 1)
      BY <3>1, <1>4
    <3> QED
      BY <3>1, <3>2, <2>1 DEF Reach
  <2>4. ASSUME NEW m \in A, NEW c, c # Unused,
               c = tree[m].smallerChild \/ c = tree[m].largerChild
        PROVE  c \in B[n]
    <3>1. m \in Live(tree) /\ m \in B[n] /\ n # Unused
      BY <2>2, <1>2, <1>3
    <3>2. ChildOf(tree, c, m)
      BY <3>1, <2>4, LiveNodes DEF Linked
    <3>3. c \in Live(tree) /\ tree[c].parent = m
      BY <3>2 DEF ChildOf
    <3>4. c # n => (c \in B[n] <=> tree[c].parent \in B[n])
      BY <3>1, <3>3, LiveNodes DEF Shaped
    <3> QED
      BY <3>1, <3>3, <3>4, <1>2
  <2> QED
    BY <2>2, <2>3, <2>4
<1> HIDE DEF H
<1>7. WindowSize - LookAheadSize \in Nat /\ WindowSize - LookAheadSize <= WindowSize
  BY Sizes
<1>8. WindowSize - LookAheadSize \in H
  BY <1>5, <1>6, <1>7, SetInduction
<1> QED
  BY <1>1, <1>7, <1>8 DEF H

LEMMA InvSearchTree ==
  ASSUME IInv
  PROVE  TreeIsSearchTree
<1> SUFFICES ASSUME pc # "add", ~damaged, NEW n \in InTree
             PROVE  /\ n \in Past \cup {currentPosition}
                    /\ n \in {tree[tree[n].parent].smallerChild, tree[tree[n].parent].largerChild}
                    /\ \A m \in SubTree(tree[n].smallerChild) : ~Larger(m, n)
                    /\ \A m \in SubTree(tree[n].largerChild) :
                         Larger(m, n) /\ Differ(m, n) # {}
  BY DEF TreeIsSearchTree
<1>1. PICK S : S = Strings(window)
  OBVIOUS
<1>2. /\ TypeOK /\ Linked(tree) /\ Recent
      /\ currentPosition \in Positions /\ window \in [Positions -> Symbols]
      /\ tree \in [Nodes -> Node] /\ added \in Nat
  BY DEF IInv, SoundTree, TypeOK
<1>3. PICK B : Shaped(tree, B) /\ Ordered(tree, B, S)
  BY <1>1 DEF IInv, SoundTree, TreeInv
<1>4. n \in Live(tree) /\ n \in Positions \ {Unused} /\ n \in Nodes
  BY NodeNumbers DEF InTree, Live
<1>5. n \in Past \cup {currentPosition}
  <2>1. Age(n) \in 0 .. WindowSize - 1 /\ (Age(n) = 0 <=> n = currentPosition)
    BY <1>2, <1>4, Distances, Places
  <2>2. Age(n) <= added
    BY <1>2, <1>4 DEF Recent
  <2>3. n # currentPosition => Age(n) \in 1 .. added
    BY <2>1, <2>2, <1>2
  <2> QED
    BY <2>3, <1>2, <1>4, PastIs
<1>6. n \in {tree[tree[n].parent].smallerChild, tree[tree[n].parent].largerChild}
  BY <1>3, <1>4 DEF Shaped
<1>7. /\ SubTree(tree[n].smallerChild) \subseteq B[tree[n].smallerChild]
      /\ SubTree(tree[n].largerChild) \subseteq B[tree[n].largerChild]
  <2>1. /\ tree[n].smallerChild \in Nodes /\ tree[n].largerChild \in Nodes
        /\ tree[n].smallerChild = Unused \/ tree[n].smallerChild \in Live(tree)
        /\ tree[n].largerChild = Unused \/ tree[n].largerChild \in Live(tree)
    BY <1>2, <1>4, LiveNodes, NodeNumbers DEF Node, Linked, ChildOf
  <2> QED
    BY <2>1, <1>2, <1>3, ReachedIsBelow
<1>8. \A c \in {tree[n].smallerChild, tree[n].largerChild} : B[c] \subseteq Live(tree)
  <2>1. \A c \in {tree[n].smallerChild, tree[n].largerChild} : c = Unused \/ c \in Live(tree)
    BY <1>2, <1>4, LiveNodes DEF Linked, ChildOf
  <2> QED
    BY <2>1, <1>3 DEF Shaped
<1>9. ASSUME NEW m \in Live(tree)
      PROVE  /\ S[m] \in String /\ S[n] \in String
             /\ Differ(m, n) = {} <=> S[m] = S[n]
             /\ Larger(m, n) => S[m] = S[n] \/ Less(S[n], S[m])
             /\ ~Larger(m, n) => Less(S[m], S[n])
  <2>1. m \in Positions /\ m \in Nodes
    BY LiveNodes
  <2>2. S \in [Nodes -> String]
    BY <1>1, <1>2, StringsTyped
  <2> QED
    BY <2>1, <2>2, <1>1, <1>2, <1>4, Comparison
<1>10. ASSUME NEW m \in SubTree(tree[n].smallerChild) PROVE ~Larger(m, n)
  <2>1. m \in Live(tree) /\ Less(S[m], S[n])
    BY <1>3, <1>4, <1>7, <1>8, <1>10 DEF Ordered
  <2>2. ~Less(S[n], S[m]) /\ S[m] # S[n]
    BY <2>1, <1>9, LessAsymmetric
  <2> QED
    BY <2>1, <2>2, <1>9
<1>11. ASSUME NEW m \in SubTree(tree[n].largerChild) PROVE Larger(m, n) /\ Differ(m, n) # {}
  <2>1. m \in Live(tree) /\ Less(S[n], S[m])
    BY <1>3, <1>4, <1>7, <1>8, <1>11 DEF Ordered
  <2>2. ~Less(S[m], S[n]) /\ S[n] # S[m]
    BY <2>1, <1>9, LessAsymmetric
  <2> QED
    BY <2>1, <2>2, <1>9
<1> QED
  BY <1>5, <1>6, <1>10, <1>11

(* The tree never loses its order, and holds only strings that are in the  *)
(* window and outside the look-ahead, through every deletion, replacement  *)
(* and addition (deleteString, contractNode, replaceNode, addString).      *)
THEOREM TreeStaysInOrder == Spec => []TreeIsSearchTree
BY InvSearchTree, Invariance, PTL

=============================================================================
