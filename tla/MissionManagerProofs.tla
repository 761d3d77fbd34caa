------------------------ MODULE MissionManagerProofs ------------------------
(***************************************************************************)
(* Proofs about the mission manager, for any directory and mission file.   *)
(*                                                                         *)
(* MissionFiles: a listing has every file that was whole all the while,    *)
(* once, with a date that is not older than what was read of it; and a late*)
(* request cannot end the agent.                                           *)
(*                                                                         *)
(* ReadMission: every objective carries the values of the last delta of its*)
(* id; the exported tree is a forest that misses only objectives whose     *)
(* parents go round in a circle; and parts of which no byte is missing are *)
(* read from record to record, whatever counts and flags the records have. *)
(***************************************************************************)
EXTENDS MissionFiles, ReadMission, Folds, FiniteSetTheorems, WellFoundedInduction, TLAPS

(* A set of natural numbers has a smallest one.                            *)
LEMMA LeastOfNats ==
  ASSUME NEW T, T \subseteq Nat, T # {}
  PROVE  \E x \in T : \A y \in T : x <= y
<1> DEFINE R == OpToRel(<, Nat)
<1>1. IsWellFoundedOn(R, Nat)
  BY NatLessThanWellFounded
<1>2. \A m, n \in Nat : m < n => <<m, n>> \in R
  BY DEF OpToRel
<1> HIDE DEF R
<1>3. PICK x \in T : \A y \in T : ~ (<<y, x>> \in R)
  BY <1>1, WFMin
<1>4. ASSUME NEW y \in T PROVE x <= y
  <2>1. x \in Nat /\ y \in Nat
    OBVIOUS
  <2>2. ~ (y < x)
    BY <1>2, <1>3, <2>1
  <2> QED
    BY ONLY <2>1, <2>2
<1> QED
  BY <1>4

(* Induction over the natural numbers, for a set: the numbers that are not *)
(* in it would have a smallest one.                                        *)
LEMMA SetInduction ==
  ASSUME NEW S, 0 \in S, \A n \in Nat : n \in S => n + 1 \in S
  PROVE  \A n \in Nat : n \in S
<1> DEFINE T == Nat \ S
<1> SUFFICES ASSUME T # {} PROVE FALSE
  OBVIOUS
<1>1. PICK x \in T : \A y \in T : x <= y
  <2>1. T \subseteq Nat
    OBVIOUS
  <2> HIDE DEF T
  <2> QED BY <2>1, LeastOfNats
<1>2. x \in Nat /\ x \notin S /\ x # 0
  OBVIOUS
<1>3. x - 1 \in Nat /\ x - 1 < x /\ (x - 1) + 1 = x
  BY <1>2
<1>4. x - 1 \notin S
  BY <1>2, <1>3
<1> QED
  BY <1>1, <1>2, <1>3, <1>4

-----------------------------------------------------------------------------
(* MissionFiles: the listing of a directory.                               *)
Distinct(s) == \A k, j \in 1 .. Len(s) : s[k] = s[j] => k = j
Holds(s, f) == \E k \in 1 .. Len(s) : s[k] = f

(* One step of the recursion in Listing. *)
Presents(p, n) ==
  IF n = 0 THEN <<>>
  ELSE IF there[Names[n]] THEN Append(p[n - 1], Names[n])
  ELSE p[n - 1]

LEMMA PresentExists ==
  ASSUME NEW m \in Nat
  PROVE  \E p : p = [n \in 0 .. m |-> Presents(p, n)]
<1> DEFINE S == {k \in Nat : \E p : p = [n \in 0 .. k |-> Presents(p, n)]}
<1>1. 0 \in S
  <2> DEFINE p == [n \in 0 .. 0 |-> <<>>]
  <2>1. p = [n \in 0 .. 0 |-> Presents(p, n)]
    BY DEF Presents
  <2> QED
    BY <2>1
<1>2. ASSUME NEW k \in Nat, k \in S PROVE k + 1 \in S
  <2>1. PICK p : p = [n \in 0 .. k |-> Presents(p, n)]
    BY <1>2
  <2> DEFINE q == [n \in 0 .. k + 1 |-> Presents(p, n)]
  <2>2. \A n \in 0 .. k : q[n] = p[n]
    <3> SUFFICES ASSUME NEW n \in 0 .. k PROVE q[n] = p[n]
      OBVIOUS
    <3>1. p[n] = Presents(p, n)
      BY <2>1
    <3> QED
      BY <3>1
  <2>3. ASSUME NEW n \in 0 .. k + 1 PROVE Presents(q, n) = Presents(p, n)
    <3>1. n = 0 \/ n - 1 \in 0 .. k
      OBVIOUS
    <3>2. n = 0 \/ q[n - 1] = p[n - 1]
      BY <3>1, <2>2
    <3> HIDE DEF q
    <3> QED
      BY <3>2 DEF Presents
  <2>4. q = [n \in 0 .. k + 1 |-> Presents(q, n)]
    BY <2>3
  <2> HIDE DEF q
  <2> QED
    BY <2>4
<1> HIDE DEF S
<1>3. m \in S
  BY <1>1, <1>2, SetInduction
<1> QED
  BY <1>3 DEF S

LEMMA ListingUnfolds ==
  \E p : /\ p = [n \in 0 .. Len(Names) |-> Presents(p, n)]
         /\ Listing = p[Len(Names)]
<1> DEFINE p == CHOOSE q : q = [n \in 0 .. Len(Names) |-> Presents(q, n)]
<1>1. p = [n \in 0 .. Len(Names) |-> Presents(p, n)]
  <2>1. Len(Names) \in Nat
    BY NamesAssumption
  <2> QED
    BY <2>1, PresentExists, Zenon
<1>2. Listing = p[Len(Names)]
  BY Zenon DEF Listing, Presents
<1> HIDE DEF p
<1> QED
  BY <1>1, <1>2

(* What the recursion has after n of the names.                            *)
Presented(s, n) ==
  /\ s \in Seq(Files)
  /\ Distinct(s)
  /\ \A f \in Files : Holds(s, f) => \E k \in 1 .. n : Names[k] = f
  /\ \A k \in 1 .. n : there[Names[k]] => Holds(s, Names[k])

LEMMA AppendHolds ==
  ASSUME NEW S, NEW s \in Seq(S), NEW e \in S
  PROVE  /\ Append(s, e) \in Seq(S)
         /\ Holds(Append(s, e), e)
         /\ \A f : Holds(Append(s, e), f) <=> Holds(s, f) \/ f = e
         /\ Distinct(s) /\ ~Holds(s, e) => Distinct(Append(s, e))
<1>1. /\ Len(s) \in Nat /\ Append(s, e) \in Seq(S)
      /\ Len(Append(s, e)) = Len(s) + 1
      /\ Append(s, e)[Len(s) + 1] = e
      /\ \A k \in 1 .. Len(s) : Append(s, e)[k] = s[k]
  OBVIOUS
<1> DEFINE t == Append(s, e)
           n == Len(s)
<1> HIDE DEF t, n
<1>2. /\ n \in Nat /\ Len(t) = n + 1 /\ t[n + 1] = e
      /\ \A k \in 1 .. n : t[k] = s[k]
  BY <1>1 DEF t, n
<1>3. 1 .. n + 1 = (1 .. n) \cup {n + 1}
  BY <1>2
<1>4. \A f : Holds(t, f) <=> Holds(s, f) \/ f = e
  BY <1>2, <1>3, Len(s) = n DEF Holds, n
<1>5. Distinct(s) /\ ~Holds(s, e) => Distinct(t)
  BY <1>2, <1>3, Len(s) = n DEF Holds, Distinct, n
<1> QED
  BY <1>1, <1>4, <1>5 DEF t

LEMMA ListingHasAll ==
  ASSUME there \in [Files -> BOOLEAN]
  PROVE  /\ Listing \in Seq(Files)
         /\ Distinct(Listing)
         /\ \A f \in Files : there[f] => Holds(Listing, f)
<1> DEFINE N == Len(Names)
<1>1. N \in Nat /\ \A k \in 1 .. N : Names[k] \in Files
  BY NamesAssumption
<1>2. PICK p : p = [n \in 0 .. N |-> Presents(p, n)] /\ Listing = p[N]
  BY ListingUnfolds
<1> HIDE DEF N
<1> DEFINE S == {n \in Nat : n <= N => Presented(p[n], n)}
<1>3. 0 \in S
  <2>1. p[0] = <<>>
    <3>1. p[0] = Presents(p, 0)
      BY <1>1, <1>2
    <3> QED
      BY <3>1 DEF Presents
  <2>2. <<>> \in Seq(Files) /\ Len(<<>>) = 0 /\ 1 .. 0 = {}
    OBVIOUS
  <2>3. Presented(<<>>, 0)
    BY <2>2 DEF Presented, Distinct, Holds
  <2> QED
    BY <2>1, <2>3
<1>4. ASSUME NEW n \in Nat, n \in S PROVE n + 1 \in S
  <2> SUFFICES ASSUME n + 1 <= N PROVE Presented(p[n + 1], n + 1)
    OBVIOUS
  <2>1. Presented(p[n], n)
    BY <1>1, <1>4
  <2>2. p[n + 1] = IF there[Names[n + 1]] THEN Append(p[n], Names[n + 1]) ELSE p[n]
    <3>1. p[n + 1] = Presents(p, n + 1)
      BY <1>1, <1>2
    <3>2. n + 1 # 0 /\ (n + 1) - 1 = n
      OBVIOUS
    <3> QED
      BY <3>1, <3>2 DEF Presents
  <2>3. Names[n + 1] \in Files /\ \A k \in 1 .. n : Names[k] # Names[n + 1]
    <3>1. n + 1 \in 1 .. N /\ \A k \in 1 .. n : k \in 1 .. N /\ k # n + 1
      BY <1>1
    <3>2. DOMAIN Names = 1 .. N
      BY NamesAssumption DEF N
    <3> QED
      BY <1>1, <3>1, <3>2, NamesAssumption
  <2>4. 1 .. n + 1 = (1 .. n) \cup {n + 1}
    OBVIOUS
  <2>5. CASE there[Names[n + 1]]
    <3>1. p[n + 1] = Append(p[n], Names[n + 1])
      BY <2>2, <2>5
    <3>2. ~Holds(p[n], Names[n + 1])
      BY <2>1, <2>3 DEF Presented
    <3>3. /\ p[n + 1] \in Seq(Files) /\ Distinct(p[n + 1])
          /\ \A f : Holds(p[n + 1], f) <=> Holds(p[n], f) \/ f = Names[n + 1]
      BY <2>1, <2>3, <3>1, <3>2, AppendHolds DEF Presented
    <3> QED
      BY <2>1, <2>3, <2>4, <3>3 DEF Presented
  <2>6. CASE ~there[Names[n + 1]]
    <3>1. p[n + 1] = p[n]
      BY <2>2, <2>6
    <3> QED
      BY <2>1, <2>4, <2>6, <3>1 DEF Presented
  <2> QED
    BY <2>5, <2>6
<1> HIDE DEF S
<1>5. N \in S
  BY <1>1, <1>3, <1>4, SetInduction
<1>6. Presented(Listing, N)
  BY <1>1, <1>2, <1>5 DEF S
<1>7. \A f \in Files : \E k \in 1 .. N : Names[k] = f
  BY NamesAssumption DEF Files, N
<1> QED
  BY <1>6, <1>7 DEF Presented

-----------------------------------------------------------------------------
(* Types.                                                                  *)

(* No request runs before the agent serves, and what a Stat is taken of is *)
(* still to be handled.                                                    *)
NotStarted == process = "starting" => \A r \in Requests : pc[r] = "idle"
StatOfEntry == \A c \in Callers : pc[c] = "stat" => todo[c] # <<>>

FilesTypeInv == FilesTypeOK /\ NotStarted /\ StatOfEntry

CallSteps == {"idle", "readDir", "checkTable", "loadTable", "files", "stat",
          "mission", "base", "done", "failed"}

LEMMA FilesTypeInit == FilesInit => FilesTypeInv
<1> SUFFICES ASSUME FilesInit PROVE FilesTypeInv
  OBVIOUS
<1>1. /\ Main \in Callers /\ Requests \subseteq Callers
      /\ \A r \in Requests : r # Main
  BY MainAssumption DEF Callers
<1>2. /\ 0 \in 0 .. MaxChanges /\ <<>> \in Seq(Files) /\ <<>> \in Seq(Entry)
  BY BoundsAssumption
<1>3. pc \in [Callers -> {"idle", "readDir"}] /\ pc[Main] = "readDir"
      /\ \A r \in Requests : pc[r] = "idle"
  BY <1>1 DEF FilesInit
<1>4. /\ todo \in [Callers -> Seq(Files)] /\ content \in [Callers -> 0 .. MaxChanges]
      /\ mizFiles \in [Callers -> Seq(Entry)] /\ untouched \in [Callers -> SUBSET Files]
      /\ save \in [Files -> 0 .. MaxChanges] /\ form \in [Files -> Forms]
      /\ early \in SUBSET Requests /\ killer \in SUBSET Callers
      /\ changes \in 0 .. MaxChanges
  BY <1>2 DEF FilesInit, Forms
<1>5. FilesTypeOK
  BY <1>3, <1>4 DEF FilesInit, FilesTypeOK
<1> QED
  BY <1>3, <1>5 DEF FilesInit, FilesTypeInv, NotStarted, StatOfEntry

(* A caller that goes on leaves the rest of the types to what else changes.*)
LEMMA GotoTypes ==
  ASSUME FilesTypeInv, NEW c \in Callers, NEW next \in CallSteps, Goto(c, next),
         next \in {"mission", "base"} => c = Main /\ process # "serving",
         next = "failed" => process # "starting",
         c \in Requests => process # "starting"
  PROVE  /\ process' \in {"starting", "serving", "dead"}
         /\ pc' \in [Callers -> CallSteps] /\ killer' \in SUBSET Callers
         /\ \A r \in Requests : pc'[r] = "failed" => process' # "starting"
         /\ pc'[Main] \in {"mission", "base"} => process' # "serving"
         /\ NotStarted'
         /\ pc'[c] = next /\ \A d \in Callers \ {c} : pc'[d] = pc[d]
<1>1. /\ pc' = [pc EXCEPT ![c] = next] /\ process' = process /\ killer' = killer
  BY DEF Goto
<1>2. pc \in [Callers -> CallSteps] /\ Main \in Callers /\ Requests \subseteq Callers
  BY DEF FilesTypeInv, FilesTypeOK, CallSteps, Callers
<1>3. /\ pc' \in [Callers -> CallSteps] /\ pc'[c] = next
      /\ \A d \in Callers \ {c} : pc'[d] = pc[d]
  BY <1>1, <1>2
<1>4. /\ \A r \in Requests : pc'[r] = "failed" => process' # "starting"
      /\ pc'[Main] \in {"mission", "base"} => process' # "serving"
      /\ NotStarted'
  BY <1>1, <1>2, <1>3 DEF FilesTypeInv, FilesTypeOK, NotStarted
<1> QED
  BY <1>1, <1>3, <1>4 DEF FilesTypeInv, FilesTypeOK

(* A request that runs does so after the start.                            *)
LEMMA RunsStarted ==
  ASSUME FilesTypeInv, NEW c \in Callers, NEW next \in CallSteps \ {"idle"}, Runs(c, next)
  PROVE  c \in Requests => process # "starting"
  BY DEF FilesTypeInv, NotStarted, Runs

(* Ending the agent, or the call, keeps the types.                         *)
LEMMA FatalTypes ==
  ASSUME FilesTypeInv, NEW c \in Callers, Fatal(c),
         UNCHANGED <<loadsMission, diskVars, untouched, early>>, classTable' \in BOOLEAN
  PROVE  FilesTypeInv'
  BY DEF FilesTypeInv, FilesTypeOK, NotStarted, StatOfEntry, Fatal, diskVars

LEMMA PanicTypes ==
  ASSUME FilesTypeInv, NEW c \in Callers, NEW next \in CallSteps \ {"idle"}, Runs(c, next), Panic(c),
         UNCHANGED <<loadsMission, diskVars, classTable, untouched, early>>
  PROVE  FilesTypeInv'
<1>1. CASE c = Main /\ Fatal(c)
  BY <1>1, FatalTypes DEF FilesTypeInv, FilesTypeOK
<1>2. CASE c # Main /\ Goto(c, "failed") /\ UNCHANGED <<todo, content, mizFiles>>
  <2>1. c \in Requests
    BY <1>2 DEF Callers
  <2>2. process # "starting" /\ "failed" \in CallSteps
    BY <2>1, RunsStarted DEF CallSteps
  <2>3. /\ process' \in {"starting", "serving", "dead"}
        /\ pc' \in [Callers -> CallSteps] /\ killer' \in SUBSET Callers
        /\ \A r \in Requests : pc'[r] = "failed" => process' # "starting"
        /\ pc'[Main] \in {"mission", "base"} => process' # "serving"
        /\ NotStarted'
        /\ pc'[c] = "failed" /\ \A d \in Callers \ {c} : pc'[d] = pc[d]
    BY <1>2, <2>2, GotoTypes
  <2>4. StatOfEntry'
    BY <1>2, <2>3 DEF FilesTypeInv, StatOfEntry
  <2>5. FilesTypeOK'
    BY <1>2, <2>3 DEF FilesTypeInv, FilesTypeOK, CallSteps, diskVars
  <2> QED
    BY <2>3, <2>4, <2>5 DEF FilesTypeInv
<1> QED
  BY <1>1, <1>2 DEF Panic, Goto

(* A step of a call that goes on, with what it changes of the right types. *)
LEMMA MoveTypes ==
  ASSUME FilesTypeInv, NEW c \in Callers, NEW next \in CallSteps, Goto(c, next),
         next \in {"mission", "base"} => c = Main /\ process # "serving",
         next = "failed" => process # "starting",
         c \in Requests => process # "starting",
         todo' \in [Callers -> Seq(Files)], content' \in [Callers -> 0 .. MaxChanges],
         mizFiles' \in [Callers -> Seq(Entry)], untouched' \in [Callers -> SUBSET Files],
         early' \in SUBSET Requests, classTable' \in BOOLEAN,
         UNCHANGED <<loadsMission, diskVars>>,
         next = "stat" => todo'[c] # <<>>,
         \A d \in Callers \ {c} : todo'[d] = todo[d]
  PROVE  FilesTypeInv'
<1>1. /\ process' \in {"starting", "serving", "dead"}
      /\ pc' \in [Callers -> CallSteps] /\ killer' \in SUBSET Callers
      /\ \A r \in Requests : pc'[r] = "failed" => process' # "starting"
      /\ pc'[Main] \in {"mission", "base"} => process' # "serving"
      /\ NotStarted'
      /\ pc'[c] = next /\ \A d \in Callers \ {c} : pc'[d] = pc[d]
  BY GotoTypes
<1>2. StatOfEntry'
  BY <1>1 DEF FilesTypeInv, StatOfEntry
<1>3. FilesTypeOK'
  BY <1>1 DEF FilesTypeInv, FilesTypeOK, CallSteps, diskVars
<1> QED
  BY <1>1, <1>2, <1>3 DEF FilesTypeInv

(* The call that goes on without touching what it has found.               *)
LEMMA MoveOnTypes ==
  ASSUME FilesTypeInv, NEW c \in Callers, NEW next \in CallSteps \ {"stat"}, Goto(c, next),
         next \in {"mission", "base"} => c = Main /\ process # "serving",
         next = "failed" => process # "starting",
         c \in Requests => process # "starting",
         UNCHANGED <<todo, content, mizFiles, untouched, early, loadsMission, diskVars>>,
         classTable' \in BOOLEAN
  PROVE  FilesTypeInv'
<1>1. /\ todo' \in [Callers -> Seq(Files)] /\ content' \in [Callers -> 0 .. MaxChanges]
      /\ mizFiles' \in [Callers -> Seq(Entry)] /\ untouched' \in [Callers -> SUBSET Files]
      /\ early' \in SUBSET Requests /\ UNCHANGED <<loadsMission, diskVars>>
      /\ \A d \in Callers \ {c} : todo'[d] = todo[d]
  BY DEF FilesTypeInv, FilesTypeOK
<1> QED
  BY <1>1, MoveTypes

LEMMA RequestTypes ==
  ASSUME FilesTypeInv, NEW r \in Requests, Request(r)
  PROVE  FilesTypeInv'
<1>1. /\ r \in Callers /\ "readDir" \in CallSteps /\ process = "serving"
      /\ Goto(r, "readDir")
  BY DEF Callers, CallSteps, Request
<1>2. /\ todo' \in [Callers -> Seq(Files)] /\ content' \in [Callers -> 0 .. MaxChanges]
      /\ untouched' \in [Callers -> SUBSET Files]
      /\ early' \in SUBSET Requests /\ classTable' \in BOOLEAN
      /\ UNCHANGED <<loadsMission, diskVars>>
      /\ \A d \in Callers \ {r} : todo'[d] = todo[d]
  BY DEF FilesTypeInv, FilesTypeOK, Request
<1>3. mizFiles' \in [Callers -> Seq(Entry)]
  <2>1. <<>> \in Seq(Entry)
    OBVIOUS
  <2> QED
    BY <2>1 DEF FilesTypeInv, FilesTypeOK, Request
<1> QED
  BY <1>1, <1>2, <1>3, MoveTypes

LEMMA ReadDirTypes ==
  ASSUME FilesTypeInv, NEW c \in Callers, ReadDir(c)
  PROVE  FilesTypeInv'
<1>1. c \in Requests => process # "starting"
  BY RunsStarted DEF ReadDir, CallSteps
<1>2. CASE Goto(c, "done") /\ UNCHANGED <<todo, untouched>>
  BY <1>1, <1>2, MoveOnTypes DEF ReadDir, FilesTypeInv, FilesTypeOK, CallSteps
<1>3. CASE /\ Goto(c, "checkTable") /\ todo' = [todo EXCEPT ![c] = Listing]
           /\ untouched' = [untouched EXCEPT ![c] = {f \in Files : there[f] /\ form[f] = "whole"}]
  <2>1. Listing \in Seq(Files)
    BY ListingHasAll DEF FilesTypeInv, FilesTypeOK
  <2>2. /\ todo' \in [Callers -> Seq(Files)] /\ \A d \in Callers \ {c} : todo'[d] = todo[d]
    BY <1>3, <2>1 DEF FilesTypeInv, FilesTypeOK
  <2>3. untouched' \in [Callers -> SUBSET Files]
    BY <1>3 DEF FilesTypeInv, FilesTypeOK
  <2>4. /\ content' \in [Callers -> 0 .. MaxChanges] /\ mizFiles' \in [Callers -> Seq(Entry)]
        /\ early' \in SUBSET Requests /\ classTable' \in BOOLEAN
        /\ UNCHANGED <<loadsMission, diskVars>>
    BY DEF ReadDir, FilesTypeInv, FilesTypeOK
  <2>5. "checkTable" \in CallSteps
    BY DEF CallSteps
  <2> QED
    BY <1>1, <1>3, <2>2, <2>3, <2>4, <2>5, MoveTypes
<1> QED
  BY <1>2, <1>3 DEF ReadDir

LEMMA TableTypes ==
  ASSUME FilesTypeInv, NEW c \in Callers, CheckTable(c) \/ LoadTable(c)
  PROVE  FilesTypeInv'
<1>1. c \in Requests => process # "starting"
  BY RunsStarted DEF CheckTable, LoadTable, CallSteps
<1>2. CASE CheckTable(c)
  <2>1. AfterCheck("files") \in {"files", "loadTable"}
    BY DEF AfterCheck
  <2> QED
    BY <1>1, <1>2, <2>1, MoveOnTypes DEF CheckTable, FilesTypeInv, FilesTypeOK, CallSteps
<1>3. CASE LoadTable(c)
  <2>1. CASE Fatal(c) /\ UNCHANGED classTable
    BY <1>3, <2>1, FatalTypes DEF LoadTable, FilesTypeInv, FilesTypeOK
  <2>2. CASE Goto(c, "files") /\ classTable' = TRUE /\ UNCHANGED <<todo, content, mizFiles>>
    BY <1>1, <1>3, <2>2, MoveOnTypes DEF LoadTable, CallSteps
  <2> QED
    BY <1>3, <2>1, <2>2 DEF LoadTable
<1> QED
  BY <1>2, <1>3

(* The next entry.                                                         *)
LEMMA TailTypes ==
  ASSUME FilesTypeInv, NEW c \in Callers, todo[c] # <<>>, todo' = [todo EXCEPT ![c] = Tail(@)]
  PROVE  /\ todo' \in [Callers -> Seq(Files)]
         /\ \A d \in Callers \ {c} : todo'[d] = todo[d]
<1>1. Tail(todo[c]) \in Seq(Files)
  BY DEF FilesTypeInv, FilesTypeOK
<1> QED
  BY <1>1 DEF FilesTypeInv, FilesTypeOK

LEMMA SkipTypes ==
  ASSUME FilesTypeInv, NEW c \in Callers, Skip(c), todo[c] # <<>>,
         c \in Requests => process # "starting",
         UNCHANGED <<loadsMission, diskVars, classTable, untouched, early>>
  PROVE  FilesTypeInv'
<1>1. /\ todo' \in [Callers -> Seq(Files)]
      /\ \A d \in Callers \ {c} : todo'[d] = todo[d]
  BY TailTypes DEF Skip
<1>2. /\ content' \in [Callers -> 0 .. MaxChanges] /\ mizFiles' \in [Callers -> Seq(Entry)]
      /\ untouched' \in [Callers -> SUBSET Files] /\ early' \in SUBSET Requests
      /\ classTable' \in BOOLEAN
  BY DEF Skip, FilesTypeInv, FilesTypeOK
<1> QED
  BY <1>1, <1>2, MoveTypes DEF Skip, CallSteps

LEMMA ReadBundleTypes ==
  ASSUME FilesTypeInv, NEW c \in Callers, ReadBundle(c)
  PROVE  FilesTypeInv'
<1> DEFINE f == Head(todo[c])
<1>1. c \in Requests => process # "starting"
  BY RunsStarted DEF ReadBundle, CallSteps
<1>2. /\ Runs(c, "files") /\ todo[c] # <<>>
      /\ UNCHANGED <<loadsMission, diskVars, classTable, untouched, early>>
  BY DEF ReadBundle
<1>3. CASE Skip(c)
  BY <1>1, <1>2, <1>3, SkipTypes
<1>4. CASE Panic(c)
  BY <1>2, <1>4, PanicTypes DEF CallSteps
<1>5. CASE /\ content' = [content EXCEPT ![c] = save[f]] /\ Goto(c, "stat")
           /\ UNCHANGED <<todo, mizFiles>>
  <2>1. f \in Files
    BY <1>2 DEF FilesTypeInv, FilesTypeOK
  <2>2. content' \in [Callers -> 0 .. MaxChanges]
    BY <1>5, <2>1 DEF FilesTypeInv, FilesTypeOK
  <2>3. /\ todo' \in [Callers -> Seq(Files)] /\ mizFiles' \in [Callers -> Seq(Entry)]
        /\ untouched' \in [Callers -> SUBSET Files] /\ early' \in SUBSET Requests
        /\ classTable' \in BOOLEAN /\ \A d \in Callers \ {c} : todo'[d] = todo[d]
    BY <1>2, <1>5 DEF FilesTypeInv, FilesTypeOK
  <2> QED
    BY <1>1, <1>2, <1>5, <2>2, <2>3, MoveTypes DEF CallSteps
<1>6. CASE Fatal(c)
  BY <1>2, <1>6, FatalTypes DEF FilesTypeInv, FilesTypeOK
<1> QED
  BY <1>3, <1>4, <1>5, <1>6 DEF ReadBundle

LEMMA StatTypes ==
  ASSUME FilesTypeInv, NEW c \in Callers, Stat(c)
  PROVE  FilesTypeInv'
<1> DEFINE f == Head(todo[c])
<1>1. c \in Requests => process # "starting"
  BY RunsStarted DEF Stat, CallSteps
<1>2. /\ Runs(c, "stat") /\ todo[c] # <<>>
      /\ UNCHANGED <<loadsMission, diskVars, classTable, untouched, early>>
  BY DEF Stat, Runs, FilesTypeInv, StatOfEntry
<1>3. CASE Panic(c)
  BY <1>2, <1>3, PanicTypes DEF CallSteps
<1>4. CASE /\ mizFiles' = [mizFiles EXCEPT ![c] = Append(@, Found(c, f, save[f]))]
           /\ todo' = [todo EXCEPT ![c] = Tail(@)]
           /\ Goto(c, "files") /\ UNCHANGED content
  <2>1. f \in Files
    BY <1>2 DEF FilesTypeInv, FilesTypeOK
  <2>2. Found(c, f, save[f]) \in Entry
    BY <2>1 DEF Found, Entry, FilesTypeInv, FilesTypeOK
  <2> HIDE DEF f
  <2>3. mizFiles' \in [Callers -> Seq(Entry)]
    BY <1>4, <2>2 DEF FilesTypeInv, FilesTypeOK
  <2>4. /\ todo' \in [Callers -> Seq(Files)]
        /\ \A d \in Callers \ {c} : todo'[d] = todo[d]
    BY <1>2, <1>4, TailTypes
  <2>5. /\ content' \in [Callers -> 0 .. MaxChanges]
        /\ untouched' \in [Callers -> SUBSET Files] /\ early' \in SUBSET Requests
        /\ classTable' \in BOOLEAN
    BY <1>2, <1>4 DEF FilesTypeInv, FilesTypeOK
  <2> QED
    BY <1>1, <1>2, <1>4, <2>3, <2>4, <2>5, MoveTypes DEF CallSteps
<1> QED
  BY <1>3, <1>4 DEF Stat

LEMMA ListingEndsTypes ==
  ASSUME FilesTypeInv, NEW c \in Callers, ListingEnds(c)
  PROVE  FilesTypeInv'
<1>1. c \in Requests => process # "starting"
  BY RunsStarted DEF ListingEnds, CallSteps
<1> QED
  BY <1>1, MoveOnTypes DEF ListingEnds, FilesTypeInv, FilesTypeOK, CallSteps

LEMMA GameTypes ==
  ASSUME FilesTypeInv, NEW f \in Files, NEW as \in Forms, Save(f, as) \/ Remove(f)
  PROVE  FilesTypeInv'
<1>1. /\ Change(f) /\ changes' = changes + 1 /\ changes < MaxChanges
      /\ changes \in 0 .. MaxChanges
  BY DEF Save, Remove, Change, FilesTypeInv, FilesTypeOK
<1>4. changes' \in 0 .. MaxChanges
  BY <1>1, BoundsAssumption
<1>5. there' \in [Files -> BOOLEAN] /\ form' \in [Files -> Forms]
  BY DEF Save, Remove, FilesTypeInv, FilesTypeOK
<1>2. save' \in [Files -> 0 .. MaxChanges]
  BY <1>1, <1>4, BoundsAssumption DEF Save, Remove, FilesTypeInv, FilesTypeOK
<1>3. untouched' \in [Callers -> SUBSET Files]
  BY <1>1 DEF Change, FilesTypeInv, FilesTypeOK
<1> QED
  BY <1>1, <1>2, <1>3, <1>4, <1>5 DEF Change, callVars, FilesTypeInv, FilesTypeOK, NotStarted, StatOfEntry

LEMMA MainTypes ==
  ASSUME FilesTypeInv, ReadMission \/ LoadBundle \/ LoadBase \/ Start
  PROVE  FilesTypeInv'
<1>1. Main \in Callers /\ Main \notin Requests
  BY MainAssumption DEF Callers
<1>2. CASE ReadMission
  <2>1. CASE Fatal(Main) /\ UNCHANGED classTable
    BY <1>1, <1>2, <2>1, FatalTypes DEF ReadMission, FilesTypeInv, FilesTypeOK
  <2>2. CASE classTable' = TRUE /\ Goto(Main, "mission") /\ UNCHANGED <<todo, content, mizFiles>>
    BY <1>1, <1>2, <2>2, MoveOnTypes DEF ReadMission, CallSteps
  <2> QED
    BY <1>2, <2>1, <2>2 DEF ReadMission
<1>3. ASSUME NEW f, NEW from, NEW to \in {"base", "idle"}, ReadsAtStart(f, from, to)
      PROVE  FilesTypeInv'
  <2>1. CASE Fatal(Main)
    BY <1>1, <1>3, <2>1, FatalTypes DEF ReadsAtStart, FilesTypeInv, FilesTypeOK
  <2>2. CASE Goto(Main, to) /\ UNCHANGED <<todo, content, mizFiles>>
    BY <1>1, <1>3, <2>2, MoveOnTypes DEF ReadsAtStart, CallSteps, FilesTypeInv, FilesTypeOK
  <2> QED
    BY <1>3, <2>1, <2>2 DEF ReadsAtStart
<1>4. CASE Start
  BY <1>4 DEF Start, callVars, diskVars, FilesTypeInv, FilesTypeOK, NotStarted, StatOfEntry
<1> QED
  BY <1>2, <1>3, <1>4 DEF LoadBundle, LoadBase

LEMMA FilesTypeStep == FilesTypeInv /\ [FilesNext]_filesVars => FilesTypeInv'
<1> SUFFICES ASSUME FilesTypeInv, [FilesNext]_filesVars PROVE FilesTypeInv'
  OBVIOUS
<1>1. ASSUME NEW c \in Callers, GetMissionFiles(c) PROVE FilesTypeInv'
  BY <1>1, ReadDirTypes, TableTypes, ReadBundleTypes, StatTypes, ListingEndsTypes
     DEF GetMissionFiles
<1>2. ASSUME NEW f \in Files, Remove(f) PROVE FilesTypeInv'
  <2>1. "whole" \in Forms
    BY DEF Forms
  <2> QED
    BY <1>2, <2>1, GameTypes
<1>3. CASE UNCHANGED filesVars
  BY <1>3 DEF filesVars, callVars, diskVars, FilesTypeInv, FilesTypeOK, NotStarted, StatOfEntry
<1> QED
  BY <1>1, <1>2, <1>3, GameTypes, RequestTypes, MainTypes DEF FilesNext

(* What is left of a directory is a sequence of its files and what is      *)
(* listed one of entries for them, and the agent serves only once main is  *)
(* past its own listing and loading (GetMissionFiles, main).               *)
THEOREM FilesTypeCorrect == FilesSpec => []FilesTypeOK
<1>1. FilesSpec => []FilesTypeInv
  BY FilesTypeInit, FilesTypeStep, PTL DEF FilesSpec
<1>2. FilesTypeInv => FilesTypeOK
  BY DEF FilesTypeInv
<1> QED
  BY <1>1, <1>2, PTL

-----------------------------------------------------------------------------
(* What a listing has, and what it still has to find.                      *)
Reading == {"checkTable", "loadTable", "files", "stat"}

Listed(c, f) ==
  \E k \in 1 .. Len(mizFiles[c]) :
    /\ mizFiles[c][k] = [file |-> f, content |-> save[f], date |-> save[f]]
    /\ \A j \in 1 .. Len(mizFiles[c]) : mizFiles[c][j].file = f => j = k
Unlisted(c, f) == \A j \in 1 .. Len(mizFiles[c]) : mizFiles[c][j].file # f

(* Every file that was whole all the while is either still to be read, once*)
(* and not in the result yet, or is in it once and is not read again.      *)
Accounted(c) ==
  pc[c] \in Reading =>
    /\ Distinct(todo[c])
    /\ \A f \in untouched[c] \ Excluded :
         \/ Holds(todo[c], f) /\ Unlisted(c, f)
         \/ ~Holds(todo[c], f) /\ Listed(c, f)

(* What was read is the file's current save unless the game changed it     *)
(* since, and never a later one.                                           *)
ReadIsCurrent(c) ==
  pc[c] = "stat" =>
    /\ content[c] <= save[Head(todo[c])]
    /\ Head(todo[c]) \in untouched[c] => content[c] = save[Head(todo[c])]

UntouchedIsWhole(c) == \A f \in untouched[c] : there[f] /\ form[f] = "whole"
BeginsEmpty(c) == pc[c] = "readDir" => mizFiles[c] = <<>> /\ untouched[c] = {}
EntriesDated(c) ==
  \A k \in 1 .. Len(mizFiles[c]) : mizFiles[c][k].content <= mizFiles[c][k].date
ResultComplete(c) == pc[c] = "done" => \A f \in untouched[c] \ Excluded : Listed(c, f)

CallerInv(c) ==
  /\ Accounted(c) /\ ReadIsCurrent(c) /\ UntouchedIsWhole(c)
  /\ BeginsEmpty(c) /\ EntriesDated(c) /\ ResultComplete(c)

(* The saves are numbered upwards.                                         *)
SavesCounted == \A f \in Files : save[f] <= changes

ListingInv == SavesCounted /\ \A c \in Callers : CallerInv(c)

LEMMA ListingInit == FilesInit => ListingInv
<1> SUFFICES ASSUME FilesInit PROVE SavesCounted /\ \A c \in Callers : CallerInv(c)
  BY DEF ListingInv
<1>2. SavesCounted
  BY DEF SavesCounted, FilesInit
<1> SUFFICES ASSUME NEW c \in Callers PROVE CallerInv(c)
  BY <1>2
<1>1. /\ pc[c] \in {"readDir", "idle"} /\ mizFiles[c] = <<>> /\ untouched[c] = {}
  BY DEF FilesInit
<1> QED
  BY <1>1 DEF CallerInv, Accounted, ReadIsCurrent, UntouchedIsWhole, BeginsEmpty,
              EntriesDated, ResultComplete, Reading

(* A caller that does not move keeps its part while the directory stays.   *)
LEMMA CallerRests ==
  ASSUME NEW d \in Callers, CallerInv(d), UNCHANGED diskVars,
         pc'[d] = pc[d], todo'[d] = todo[d], content'[d] = content[d],
         mizFiles'[d] = mizFiles[d], untouched'[d] = untouched[d]
  PROVE  CallerInv(d)'
  BY DEF CallerInv, Accounted, ReadIsCurrent, UntouchedIsWhole, BeginsEmpty, EntriesDated,
         ResultComplete, Listed, Unlisted, diskVars

(* A caller that moves on without reading keeps it too, as long as it stays*)
(* among the steps of the listing, or leaves it, or dies.                  *)
LEMMA CallerMoves ==
  ASSUME NEW c \in Callers, CallerInv(c), UNCHANGED diskVars,
         todo'[c] = todo[c], mizFiles'[c] = mizFiles[c], untouched'[c] = untouched[c],
         \/ pc[c] \in Reading /\ pc'[c] \in Reading \ {"stat"}
         \/ pc'[c] \in {"idle", "mission", "base", "failed"}
  PROVE  CallerInv(c)'
  BY DEF CallerInv, Accounted, ReadIsCurrent, UntouchedIsWhole, BeginsEmpty, EntriesDated,
         ResultComplete, Listed, Unlisted, diskVars, Reading

(* A step of one caller leaves the others where they are.                  *)
LEMMA OneMoves ==
  ASSUME ListingInv, NEW c \in Callers, CallerInv(c)', UNCHANGED diskVars,
         \A d \in Callers \ {c} :
           /\ pc'[d] = pc[d] /\ todo'[d] = todo[d] /\ content'[d] = content[d]
           /\ mizFiles'[d] = mizFiles[d] /\ untouched'[d] = untouched[d]
  PROVE  ListingInv'
<1> SUFFICES ASSUME NEW d \in Callers PROVE CallerInv(d)'
  BY DEF ListingInv, SavesCounted, diskVars
<1>1. CASE d = c
  BY <1>1
<1>2. CASE d # c
  BY <1>2, CallerRests DEF ListingInv
<1> QED
  BY <1>1, <1>2

(* Ending the agent changes nothing a caller has found.                    *)
LEMMA FatalListing ==
  ASSUME ListingInv, NEW c \in Callers, Fatal(c), UNCHANGED <<diskVars, untouched>>
  PROVE  ListingInv'
  BY CallerRests DEF ListingInv, SavesCounted, Fatal, diskVars

LEMMA PanicListing ==
  ASSUME FilesTypeInv, ListingInv, NEW c \in Callers, Panic(c), UNCHANGED <<diskVars, untouched>>
  PROVE  ListingInv'
<1>1. CASE Fatal(c)
  BY <1>1, FatalListing
<1>2. CASE pc' = [pc EXCEPT ![c] = "failed"] /\ UNCHANGED <<todo, content, mizFiles>>
  <2>1. pc'[c] = "failed" /\ \A d \in Callers \ {c} : pc'[d] = pc[d]
    BY <1>2 DEF FilesTypeInv, FilesTypeOK
  <2>2. CallerInv(c)'
    BY <1>2, <2>1, CallerMoves DEF ListingInv
  <2> QED
    BY <1>2, <2>1, <2>2, OneMoves
<1> QED
  BY <1>1, <1>2 DEF Panic

(* A caller that goes on without reading.                                  *)
LEMMA GotoListing ==
  ASSUME FilesTypeInv, ListingInv, NEW c \in Callers, NEW next, Goto(c, next),
         UNCHANGED <<todo, content, mizFiles, untouched, diskVars>>,
         \/ pc[c] \in Reading /\ next \in Reading \ {"stat"}
         \/ next \in {"idle", "mission", "base", "failed"}
  PROVE  ListingInv'
<1>1. pc'[c] = next /\ \A d \in Callers \ {c} : pc'[d] = pc[d]
  BY DEF FilesTypeInv, FilesTypeOK, Goto
<1>2. CallerInv(c)'
  BY <1>1, CallerMoves DEF ListingInv
<1> QED
  BY <1>1, <1>2, OneMoves

(* The game: a file it changes is no caller's untouched file any more, and *)
(* its new save is later than what was read of it.                         *)
LEMMA GameListing ==
  ASSUME FilesTypeInv, ListingInv, NEW f \in Files, NEW as \in Forms, Save(f, as) \/ Remove(f)
  PROVE  ListingInv'
<1>1. /\ pc' = pc /\ todo' = todo /\ content' = content /\ mizFiles' = mizFiles
      /\ untouched' = [c \in Callers |-> untouched[c] \ {f}]
      /\ changes' = changes + 1
  BY DEF Save, Remove, Change, callVars
<1>2. /\ save \in [Files -> 0 .. MaxChanges] /\ changes \in 0 .. MaxChanges
      /\ there \in [Files -> BOOLEAN] /\ form \in [Files -> Forms]
  BY DEF FilesTypeInv, FilesTypeOK
<1>3. \A g \in Files \ {f} : there'[g] = there[g] /\ form'[g] = form[g] /\ save'[g] = save[g]
  BY <1>2 DEF Save, Remove
<1>4. save'[f] = save[f] \/ save'[f] = changes + 1
  BY <1>2 DEF Save, Remove
<1>5. SavesCounted' /\ \A g \in Files : save[g] \in Nat /\ save'[g] \in Nat /\ save'[g] >= save[g]
  <2> SUFFICES ASSUME NEW g \in Files
               PROVE  /\ save'[g] <= changes'
                      /\ save[g] \in Nat /\ save'[g] \in Nat /\ save'[g] >= save[g]
    BY DEF SavesCounted
  <2>1. save[g] \in Nat /\ changes \in Nat /\ save[g] <= changes
    BY <1>2 DEF ListingInv, SavesCounted
  <2>2. save'[g] = save[g] \/ save'[g] = changes + 1
    BY <1>3, <1>4
  <2> QED
    BY <1>1, <2>1, <2>2
<1>6. ASSUME NEW c \in Callers PROVE CallerInv(c)'
  <2>1. /\ CallerInv(c) /\ untouched'[c] = untouched[c] \ {f} /\ untouched[c] \subseteq Files
        /\ todo[c] \in Seq(Files) /\ content[c] \in Nat
    BY <1>1 DEF ListingInv, FilesTypeInv, FilesTypeOK
  <2>2. \A g \in untouched'[c] : Listed(c, g) => Listed(c, g)'
    BY <1>1, <1>3, <2>1 DEF Listed
  <2>3. \A g : Unlisted(c, g) => Unlisted(c, g)'
    BY <1>1 DEF Unlisted
  <2>4. Accounted(c)' /\ ResultComplete(c)'
    BY <1>1, <2>1, <2>2, <2>3 DEF CallerInv, Accounted, ResultComplete
  <2>5. UntouchedIsWhole(c)'
    BY <1>3, <2>1 DEF CallerInv, UntouchedIsWhole
  <2>6. BeginsEmpty(c)' /\ EntriesDated(c)'
    BY <1>1, <2>1 DEF CallerInv, BeginsEmpty, EntriesDated
  <2>7. ReadIsCurrent(c)'
    <3> SUFFICES ASSUME pc[c] = "stat"
                 PROVE  /\ content[c] <= save'[Head(todo[c])]
                        /\ Head(todo[c]) \in untouched'[c] => content[c] = save'[Head(todo[c])]
      BY <1>1 DEF ReadIsCurrent
    <3> DEFINE g == Head(todo[c])
    <3>1. g \in Files
      BY <2>1 DEF FilesTypeInv, StatOfEntry
    <3>2. /\ content[c] <= save[g]
          /\ g \in untouched[c] => content[c] = save[g]
      BY <2>1 DEF CallerInv, ReadIsCurrent
    <3> HIDE DEF g
    <3>3. content[c] <= save'[g]
      <4>1. save[g] \in Nat /\ save'[g] \in Nat /\ save'[g] >= save[g]
        BY <1>5, <3>1
      <4>2. content[c] \in Nat /\ content[c] <= save[g]
        BY <2>1, <3>2
      <4> QED
        BY <4>1, <4>2
    <3>4. g \in untouched'[c] => content[c] = save'[g]
      BY <1>3, <2>1, <3>1, <3>2
    <3> QED
      BY <3>3, <3>4 DEF g
  <2> QED
    BY <2>4, <2>5, <2>6, <2>7 DEF CallerInv
<1> QED
  BY <1>5, <1>6 DEF ListingInv

LEMMA RequestListing ==
  ASSUME FilesTypeInv, ListingInv, NEW r \in Requests, Request(r)
  PROVE  ListingInv'
<1>1. /\ r \in Callers /\ pc'[r] = "readDir" /\ mizFiles'[r] = <<>> /\ untouched'[r] = {}
      /\ todo' = todo /\ content' = content
      /\ UNCHANGED diskVars
      /\ \A d \in Callers \ {r} :
           pc'[d] = pc[d] /\ mizFiles'[d] = mizFiles[d] /\ untouched'[d] = untouched[d]
  BY DEF FilesTypeInv, FilesTypeOK, Request, Goto, Callers
<1>2. Len(mizFiles'[r]) = 0 /\ 1 .. 0 = {}
  BY <1>1
<1>3. CallerInv(r)'
  BY <1>1, <1>2 DEF CallerInv, Accounted, ReadIsCurrent, UntouchedIsWhole, BeginsEmpty,
                    EntriesDated, ResultComplete, Reading
<1> QED
  BY <1>1, <1>3, OneMoves

LEMMA ReadDirListing ==
  ASSUME FilesTypeInv, ListingInv, NEW c \in Callers, ReadDir(c)
  PROVE  ListingInv'
<1>1. /\ pc[c] = "readDir" /\ UNCHANGED <<diskVars, content, mizFiles>>
      /\ CallerInv(c) /\ mizFiles[c] = <<>> /\ untouched[c] = {}
  BY DEF ReadDir, Runs, ListingInv, CallerInv, BeginsEmpty
<1>2. Len(mizFiles'[c]) = 0 /\ 1 .. 0 = {}
  BY <1>1
<1>3. CASE Goto(c, "done") /\ UNCHANGED <<todo, untouched>>
  <2>1. pc'[c] = "done" /\ \A d \in Callers \ {c} : pc'[d] = pc[d]
    BY <1>3 DEF Goto, FilesTypeInv, FilesTypeOK
  <2>2. CallerInv(c)'
    BY <1>1, <1>2, <1>3, <2>1
       DEF CallerInv, Accounted, ReadIsCurrent, UntouchedIsWhole, BeginsEmpty,
           EntriesDated, ResultComplete, Reading
  <2> QED
    BY <1>1, <1>3, <2>1, <2>2, OneMoves
<1>4. CASE /\ Goto(c, "checkTable") /\ todo' = [todo EXCEPT ![c] = Listing]
           /\ untouched' = [untouched EXCEPT ![c] = {f \in Files : there[f] /\ form[f] = "whole"}]
  <2>1. /\ pc'[c] = "checkTable" /\ todo'[c] = Listing
        /\ untouched'[c] = {f \in Files : there[f] /\ form[f] = "whole"}
        /\ \A d \in Callers \ {c} :
             pc'[d] = pc[d] /\ todo'[d] = todo[d] /\ untouched'[d] = untouched[d]
    BY <1>4 DEF Goto, FilesTypeInv, FilesTypeOK
  <2>2. Distinct(Listing) /\ \A f \in untouched'[c] : Holds(Listing, f)
    BY <2>1, ListingHasAll DEF FilesTypeInv, FilesTypeOK
  <2>3. \A f : Unlisted(c, f)'
    BY <1>2 DEF Unlisted
  <2>4. Accounted(c)'
    BY <2>1, <2>2, <2>3 DEF Accounted
  <2>5. UntouchedIsWhole(c)'
    BY <1>1, <2>1 DEF UntouchedIsWhole, diskVars
  <2>6. CallerInv(c)'
    BY <1>1, <1>2, <2>1, <2>4, <2>5
       DEF CallerInv, ReadIsCurrent, BeginsEmpty, EntriesDated, ResultComplete
  <2> QED
    BY <1>1, <2>1, <2>6, OneMoves
<1> QED
  BY <1>3, <1>4 DEF ReadDir

LEMMA TableListing ==
  ASSUME FilesTypeInv, ListingInv, NEW c \in Callers, CheckTable(c) \/ LoadTable(c)
  PROVE  ListingInv'
<1>1. CASE CheckTable(c)
  <2>1. AfterCheck("files") \in Reading \ {"stat"} /\ pc[c] \in Reading
    BY <1>1 DEF AfterCheck, CheckTable, Runs, Reading
  <2> QED
    BY <1>1, <2>1, GotoListing DEF CheckTable
<1>2. CASE LoadTable(c)
  <2>1. pc[c] \in Reading /\ "files" \in Reading \ {"stat"} /\ UNCHANGED <<diskVars, untouched>>
    BY <1>2 DEF LoadTable, Runs, Reading
  <2>2. Fatal(c) \/ (Goto(c, "files") /\ UNCHANGED <<todo, content, mizFiles>>)
    BY <1>2 DEF LoadTable
  <2> QED
    BY <2>1, <2>2, GotoListing, FatalListing
<1> QED
  BY <1>1, <1>2

(* What the rest of a listing holds, when its first entry is handled.      *)
LEMMA TailHolds ==
  ASSUME NEW S, NEW s \in Seq(S), s # <<>>, Distinct(s)
  PROVE  /\ Distinct(Tail(s)) /\ ~Holds(Tail(s), Head(s))
         /\ \A f : f # Head(s) => (Holds(Tail(s), f) <=> Holds(s, f))
         /\ Holds(s, Head(s))
<1> DEFINE t == Tail(s)
           n == Len(s)
<1>1. /\ n \in Nat \ {0} /\ Len(t) = n - 1 /\ Head(s) = s[1]
      /\ \A k \in 1 .. n - 1 : t[k] = s[k + 1]
  OBVIOUS
<1>2. \A k, j \in 1 .. n : s[k] = s[j] => k = j
  BY DEF Distinct
<1> HIDE DEF t, n
<1>3. \A k \in 1 .. n - 1 : k + 1 \in 1 .. n /\ k + 1 # 1
  BY <1>1
<1>4. \A k \in 1 .. n : k = 1 \/ (k - 1 \in 1 .. n - 1 /\ (k - 1) + 1 = k)
  BY <1>1
<1>5. 1 \in 1 .. n
  BY <1>1
<1>6. Distinct(t)
  <2> SUFFICES ASSUME NEW k \in 1 .. n - 1, NEW j \in 1 .. n - 1, t[k] = t[j] PROVE k = j
    BY <1>1 DEF Distinct
  <2>1. k + 1 = j + 1
    BY <1>1, <1>2, <1>3
  <2> QED
    BY <2>1
<1>7. ~Holds(t, Head(s)) /\ Holds(s, Head(s))
  BY <1>1, <1>2, <1>3, <1>5 DEF Holds, n
<1>8. ASSUME NEW f, f # Head(s) PROVE Holds(t, f) <=> Holds(s, f)
  <2>1. Holds(t, f) => Holds(s, f)
    BY <1>1, <1>3 DEF Holds, n
  <2>2. ASSUME Holds(s, f) PROVE Holds(t, f)
    <3>1. PICK k \in 1 .. n : s[k] = f
      BY <2>2 DEF Holds, n
    <3>2. k - 1 \in 1 .. n - 1 /\ (k - 1) + 1 = k
      BY <1>1, <1>4, <1>8, <3>1
    <3>3. t[k - 1] = f
      BY <1>1, <3>1, <3>2
    <3> QED
      BY <1>1, <3>2, <3>3 DEF Holds
  <2> QED
    BY <2>1, <2>2
<1> QED
  BY <1>6, <1>7, <1>8 DEF t

(* An entry that is passed over is not one of a file that was whole all    *)
(* the while, or is excluded.                                              *)
LEMMA SkipListing ==
  ASSUME FilesTypeInv, ListingInv, NEW c \in Callers, Skip(c), pc[c] = "files", todo[c] # <<>>,
         Head(todo[c]) \in Excluded \/ Head(todo[c]) \notin untouched[c],
         UNCHANGED <<diskVars, untouched>>
  PROVE  ListingInv'
<1>1. /\ pc'[c] = "files" /\ todo'[c] = Tail(todo[c])
      /\ UNCHANGED <<content, mizFiles>>
      /\ \A d \in Callers \ {c} : pc'[d] = pc[d] /\ todo'[d] = todo[d]
  BY DEF Skip, Goto, FilesTypeInv, FilesTypeOK
<1>2. CallerInv(c) /\ Accounted(c)
  BY DEF ListingInv, CallerInv
<1>3. todo[c] \in Seq(Files) /\ Distinct(todo[c])
  BY <1>2 DEF FilesTypeInv, FilesTypeOK, Accounted, Reading
<1>4. /\ Distinct(Tail(todo[c]))
      /\ \A f : f # Head(todo[c]) => (Holds(Tail(todo[c]), f) <=> Holds(todo[c], f))
  BY <1>3, TailHolds
<1>5. \A f : /\ Listed(c, f) => Listed(c, f)'
             /\ Unlisted(c, f) => Unlisted(c, f)'
  BY <1>1 DEF Listed, Unlisted, diskVars
<1>6. Accounted(c)'
  BY <1>1, <1>2, <1>4, <1>5 DEF Accounted, Reading
<1>7. CallerInv(c)'
  BY <1>1, <1>2, <1>6 DEF CallerInv, ReadIsCurrent, UntouchedIsWhole, BeginsEmpty,
                          EntriesDated, ResultComplete, diskVars
<1> QED
  BY <1>1, <1>7, OneMoves

LEMMA ReadBundleListing ==
  ASSUME FilesTypeInv, ListingInv, NEW c \in Callers, ReadBundle(c)
  PROVE  ListingInv'
<1> DEFINE f == Head(todo[c])
<1>1. /\ pc[c] = "files" /\ todo[c] # <<>> /\ UNCHANGED <<diskVars, untouched>>
      /\ CallerInv(c) /\ UntouchedIsWhole(c)
  BY DEF ReadBundle, Runs, ListingInv, CallerInv
<1>2. f \in Files
  BY <1>1 DEF FilesTypeInv, FilesTypeOK
<1>3. CASE Skip(c) /\ (f \in Excluded \/ ~there[f] \/ form[f] = "broken")
  <2>1. f \in Excluded \/ f \notin untouched[c]
    BY <1>1, <1>3 DEF UntouchedIsWhole
  <2> QED
    BY <1>1, <1>3, <2>1, SkipListing
<1>4. CASE Panic(c)
  BY <1>1, <1>4, PanicListing
<1>5. CASE /\ content' = [content EXCEPT ![c] = save[f]] /\ Goto(c, "stat")
           /\ UNCHANGED <<todo, mizFiles>>
  <2>1. /\ pc'[c] = "stat" /\ content'[c] = save[f] /\ todo' = todo /\ mizFiles' = mizFiles
        /\ \A d \in Callers \ {c} : pc'[d] = pc[d] /\ content'[d] = content[d]
    BY <1>5 DEF Goto, FilesTypeInv, FilesTypeOK
  <2>2. save[f] \in Nat
    BY <1>2 DEF FilesTypeInv, FilesTypeOK
  <2>3. ReadIsCurrent(c)'
    BY <1>1, <2>1, <2>2 DEF ReadIsCurrent, diskVars
  <2>4. \A g : /\ Listed(c, g) => Listed(c, g)'
               /\ Unlisted(c, g) => Unlisted(c, g)'
    BY <1>1, <2>1 DEF Listed, Unlisted, diskVars
  <2>5. Accounted(c)'
    BY <1>1, <2>1, <2>4 DEF CallerInv, Accounted, Reading
  <2>6. CallerInv(c)'
    BY <1>1, <2>1, <2>3, <2>5 DEF CallerInv, UntouchedIsWhole, BeginsEmpty,
                                  EntriesDated, ResultComplete, diskVars
  <2> QED
    BY <1>1, <2>1, <2>6, OneMoves
<1>6. CASE Fatal(c)
  BY <1>1, <1>6, FatalListing
<1> QED
  BY <1>3, <1>4, <1>5, <1>6 DEF ReadBundle

(* The entry that is added is the file's only one, and its date is not     *)
(* older than what was read.                                               *)
LEMMA StatListing ==
  ASSUME FilesTypeInv, ListingInv, NEW c \in Callers, Stat(c)
  PROVE  ListingInv'
<1>1. /\ pc[c] = "stat" /\ todo[c] # <<>> /\ UNCHANGED <<diskVars, untouched>>
      /\ CallerInv(c) /\ Accounted(c) /\ ReadIsCurrent(c) /\ EntriesDated(c)
  BY DEF Stat, Runs, FilesTypeInv, StatOfEntry, ListingInv, CallerInv
<1>4. Head(todo[c]) \in Files
  BY <1>1 DEF FilesTypeInv, FilesTypeOK
<1>5. PICK f \in Files : f = Head(todo[c])
  BY <1>4
<1> DEFINE entry == Found(c, f, save[f])
<1>2. CASE Panic(c)
  BY <1>1, <1>2, PanicListing
<1>3. CASE /\ mizFiles' = [mizFiles EXCEPT ![c] = Append(@, entry)]
           /\ todo' = [todo EXCEPT ![c] = Tail(@)]
           /\ Goto(c, "files") /\ UNCHANGED content
  <2>1. /\ todo[c] \in Seq(Files) /\ Distinct(todo[c])
        /\ mizFiles[c] \in Seq(Entry)
    BY <1>1 DEF FilesTypeInv, FilesTypeOK, Accounted, Reading
  <2>2. /\ Distinct(Tail(todo[c])) /\ ~Holds(Tail(todo[c]), f) /\ Holds(todo[c], f)
        /\ \A g : g # f => (Holds(Tail(todo[c]), g) <=> Holds(todo[c], g))
    BY <1>1, <1>5, <2>1, TailHolds
  <2>3. /\ entry.file = f /\ entry.content = content[c] /\ entry.date = save[f]
        /\ entry = [file |-> f, content |-> content[c], date |-> save[f]]
        /\ entry \in Entry
    BY <2>1 DEF Found, Entry, FilesTypeInv, FilesTypeOK
  <2>4. /\ pc'[c] = "files" /\ todo'[c] = Tail(todo[c])
        /\ mizFiles'[c] = Append(mizFiles[c], entry)
        /\ \A d \in Callers \ {c} :
             pc'[d] = pc[d] /\ todo'[d] = todo[d] /\ mizFiles'[d] = mizFiles[d]
    BY <1>3 DEF Goto, FilesTypeInv, FilesTypeOK
  <2> DEFINE n == Len(mizFiles[c])
  <2>5. /\ n \in Nat /\ Len(mizFiles'[c]) = n + 1 /\ mizFiles'[c][n + 1] = entry
        /\ \A k \in 1 .. n : mizFiles'[c][k] = mizFiles[c][k]
        /\ 1 .. n + 1 = (1 .. n) \cup {n + 1} /\ n + 1 \notin 1 .. n
    BY <2>1, <2>3, <2>4
  <2> HIDE DEF n, entry
  <2>6. ASSUME NEW g, g # f
        PROVE  /\ Listed(c, g) => Listed(c, g)'
               /\ Unlisted(c, g) => Unlisted(c, g)'
    <3>1. Unlisted(c, g) => Unlisted(c, g)'
      BY <2>3, <2>5, <2>6 DEF Unlisted, n
    <3>2. ASSUME Listed(c, g) PROVE Listed(c, g)'
      <4>1. PICK k \in 1 .. n :
              /\ mizFiles[c][k] = [file |-> g, content |-> save[g], date |-> save[g]]
              /\ \A j \in 1 .. n : mizFiles[c][j].file = g => j = k
        BY <3>2 DEF Listed, n
      <4>2. k \in 1 .. n + 1 /\ mizFiles'[c][k] = mizFiles[c][k] /\ save' = save
        BY <1>1, <2>5 DEF diskVars
      <4>3. \A j \in 1 .. n + 1 : mizFiles'[c][j].file = g => j = k
        BY <2>3, <2>5, <2>6, <4>1
      <4> QED
        BY <2>5, <4>1, <4>2, <4>3 DEF Listed
    <3> QED
      BY <3>1, <3>2
  <2>7. Unlisted(c, f) /\ content[c] = save[f] => Listed(c, f)'
    <3> SUFFICES ASSUME Unlisted(c, f), content[c] = save[f] PROVE Listed(c, f)'
      OBVIOUS
    <3>1. mizFiles'[c][n + 1] = [file |-> f, content |-> save'[f], date |-> save'[f]]
      BY <1>1, <2>3, <2>5 DEF diskVars
    <3>2. \A j \in 1 .. n + 1 : mizFiles'[c][j].file = f => j = n + 1
      BY <2>5 DEF Unlisted, n
    <3>3. n + 1 \in 1 .. n + 1
      BY <2>5
    <3> QED
      BY <2>5, <3>1, <3>2, <3>3 DEF Listed
  <2>8. Accounted(c)'
    <3> SUFFICES ASSUME NEW g \in untouched[c] \ Excluded
                 PROVE  \/ Holds(Tail(todo[c]), g) /\ Unlisted(c, g)'
                        \/ ~Holds(Tail(todo[c]), g) /\ Listed(c, g)'
      BY <1>1, <2>2, <2>4 DEF Accounted
    <3>1. \/ Holds(todo[c], g) /\ Unlisted(c, g)
          \/ ~Holds(todo[c], g) /\ Listed(c, g)
      BY <1>1 DEF Accounted, Reading
    <3>2. CASE g = f
      BY <1>1, <1>5, <2>2, <2>7, <3>1, <3>2 DEF ReadIsCurrent
    <3>3. CASE g # f
      BY <2>2, <2>6, <3>1, <3>3
    <3> QED
      BY <3>2, <3>3
  <2>9. EntriesDated(c)'
    <3>1. content[c] <= save[f]
      BY <1>1, <1>5 DEF ReadIsCurrent
    <3> QED
      BY <1>1, <2>3, <2>5, <3>1 DEF EntriesDated, n
  <2>10. CallerInv(c)'
    BY <1>1, <2>4, <2>8, <2>9 DEF CallerInv, ReadIsCurrent, UntouchedIsWhole, BeginsEmpty,
                                  ResultComplete, diskVars
  <2> QED
    BY <1>1, <1>3, <2>4, <2>10, OneMoves
<1> QED
  BY <1>2, <1>3, <1>5 DEF Stat

LEMMA ListingEndsListing ==
  ASSUME FilesTypeInv, ListingInv, NEW c \in Callers, ListingEnds(c)
  PROVE  ListingInv'
<1>1. /\ pc[c] = "files" /\ todo[c] = <<>> /\ CallerInv(c)
      /\ pc'[c] = "done" /\ \A d \in Callers \ {c} : pc'[d] = pc[d]
      /\ UNCHANGED <<diskVars, todo, content, mizFiles, untouched>>
  BY DEF ListingEnds, Runs, Goto, FilesTypeInv, FilesTypeOK, ListingInv
<1>2. \A f : ~Holds(todo[c], f)
  BY <1>1 DEF Holds
<1>3. \A f \in untouched[c] \ Excluded : Listed(c, f)
  BY <1>1, <1>2 DEF CallerInv, Accounted, Reading
<1>4. ResultComplete(c)'
  BY <1>1, <1>3 DEF ResultComplete, Listed, diskVars
<1>5. CallerInv(c)'
  BY <1>1, <1>4 DEF CallerInv, Accounted, ReadIsCurrent, UntouchedIsWhole, BeginsEmpty,
                    EntriesDated, Reading, diskVars
<1> QED
  BY <1>1, <1>5, OneMoves

LEMMA MainListing ==
  ASSUME FilesTypeInv, ListingInv, ReadMission \/ LoadBundle \/ LoadBase \/ Start
  PROVE  ListingInv'
<1>1. Main \in Callers
  BY DEF Callers
<1>2. CASE ReadMission
  <2>1. UNCHANGED <<diskVars, untouched>>
    BY <1>2 DEF ReadMission
  <2>2. Fatal(Main) \/ (Goto(Main, "mission") /\ UNCHANGED <<todo, content, mizFiles>>)
    BY <1>2 DEF ReadMission
  <2> QED
    BY <1>1, <2>1, <2>2, FatalListing, GotoListing
<1>3. ASSUME NEW f, NEW from, NEW to \in {"base", "idle"}, ReadsAtStart(f, from, to)
      PROVE  ListingInv'
  <2>1. UNCHANGED <<diskVars, untouched>>
    BY <1>3 DEF ReadsAtStart
  <2>2. Fatal(Main) \/ (Goto(Main, to) /\ UNCHANGED <<todo, content, mizFiles>>)
    BY <1>3 DEF ReadsAtStart
  <2> QED
    BY <1>1, <2>1, <2>2, FatalListing, GotoListing
<1>4. CASE Start
  BY <1>4, CallerRests DEF Start, callVars, ListingInv, SavesCounted, diskVars
<1> QED
  BY <1>2, <1>3, <1>4 DEF LoadBundle, LoadBase

LEMMA ListingStep == FilesTypeInv /\ ListingInv /\ [FilesNext]_filesVars => ListingInv'
<1> SUFFICES ASSUME FilesTypeInv, ListingInv, [FilesNext]_filesVars PROVE ListingInv'
  OBVIOUS
<1>1. ASSUME NEW c \in Callers, GetMissionFiles(c) PROVE ListingInv'
  BY <1>1, ReadDirListing, TableListing, ReadBundleListing, StatListing, ListingEndsListing
     DEF GetMissionFiles
<1>2. ASSUME NEW f \in Files, Remove(f) PROVE ListingInv'
  <2>1. "whole" \in Forms
    BY DEF Forms
  <2> QED
    BY <1>2, <2>1, GameListing
<1>3. CASE UNCHANGED filesVars
  BY <1>3, CallerRests DEF filesVars, callVars, ListingInv, SavesCounted, diskVars
<1> QED
  BY <1>1, <1>2, <1>3, GameListing, RequestListing, MainListing DEF FilesNext

LEMMA ListingInvariant == FilesSpec => [](FilesTypeInv /\ ListingInv)
  BY FilesTypeInit, FilesTypeStep, ListingInit, ListingStep, PTL DEF FilesSpec

(* An entry's date is never older than the mission in it                   *)
(* (GetMissionFiles stats the file after it has read it).                  *)
THEOREM DatesAreNotOlder == FilesSpec => []DateNotOlder
<1>1. ListingInv => DateNotOlder
  BY DEF ListingInv, CallerInv, EntriesDated, DateNotOlder
<1> QED
  BY <1>1, ListingInvariant, PTL

(* A listing that ends has every file that was whole all the while, once.  *)
THEOREM NothingIsHidden == FilesSpec => []NothingHidden
<1>1. ListingInv => NothingHidden
  BY DEF ListingInv, CallerInv, ResultComplete, Listed, NothingHidden
<1> QED
  BY <1>1, ListingInvariant, PTL

-----------------------------------------------------------------------------
(* Who can end the agent.                                                  *)
Resting == {"idle", "done", "failed"}

(* The callers that are going to load the class table, or have to find out *)
(* whether it is loaded, began before it was.                              *)
LoadersAreEarly ==
  /\ \A r \in Requests : pc[r] = "loadTable" => r \in early
  /\ ~classTable => \A r \in Requests : pc[r] \notin Resting => r \in early

ControlType ==
  /\ DOMAIN pc = Callers
  /\ classTable \in BOOLEAN
  /\ early \subseteq Requests

(* Requests begin while the agent is alive only.                           *)
KillerKilled == killer # {} => process = "dead"

TableInv == ControlType /\ LoadersAreEarly /\ KillerKilled /\ LateKillsAreVast

LEMMA TableInit == FilesInit => TableInv
BY MainAssumption DEF FilesInit, TableInv, ControlType, LoadersAreEarly,
                      KillerKilled, LateKillsAreVast,
                      Resting, Callers

(* A caller that goes on at a step other than loading the table, and       *)
(* leaves the table as it is.                                              *)
LEMMA GoesOn ==
  ASSUME TableInv, NEW c \in Callers, NEW next, Goto(c, next),
         next # "loadTable" \/ ~classTable,
         process # "dead", pc[c] \notin Resting, UNCHANGED <<classTable, early>>
  PROVE  TableInv'
<1>1. ControlType'
  BY DEF TableInv, ControlType, Goto
<1>2. LoadersAreEarly'
  BY DEF TableInv, ControlType, LoadersAreEarly, Goto, Resting, Callers
<1>3. KillerKilled' /\ LateKillsAreVast'
  BY DEF TableInv, KillerKilled, LateKillsAreVast, Goto
<1> QED
  BY <1>1, <1>2, <1>3 DEF TableInv

(* Main may end the agent, and so may a request over a vast file.          *)
VastFile(c) ==
  /\ pc[c] = "files" /\ todo[c] # <<>>
  /\ LET f == Head(todo[c]) IN f \notin Excluded /\ there[f] /\ form[f] = "vast"

LEMMA Dies ==
  ASSUME TableInv, NEW c, Fatal(c), c = Main \/ VastFile(c),
         UNCHANGED <<classTable, early, diskVars>>
  PROVE  TableInv'
<1>1. killer' = {c} /\ process' = "dead" /\ UNCHANGED <<pc, todo, there, form>>
  BY DEF Fatal, diskVars
<1>2. LateKillsAreVast'
  BY <1>1 DEF LateKillsAreVast, VastFile
<1> QED
  BY <1>1, <1>2 DEF TableInv, ControlType, LoadersAreEarly, KillerKilled

LEMMA PanicKeepsInv ==
  ASSUME TableInv, NEW c \in Callers, Panic(c), process # "dead", pc[c] \notin Resting,
         UNCHANGED <<classTable, early, diskVars>>
  PROVE  TableInv'
<1>1. CASE c = Main /\ Fatal(c)
  BY <1>1, Dies
<1>2. CASE c # Main /\ Goto(c, "failed")
  BY <1>2, GoesOn
<1> QED
  BY <1>1, <1>2 DEF Panic, Goto

LEMMA ListingKeepsInv ==
  ASSUME TableInv, NEW c \in Callers, GetMissionFiles(c)
  PROVE  TableInv'
<1>1. CASE ReadDir(c)
  BY <1>1, GoesOn DEF ReadDir, Runs, Resting
<1>2. CASE CheckTable(c)
  <2>1. AfterCheck("files") # "loadTable" \/ ~classTable
    BY DEF AfterCheck
  <2> QED
    BY <1>2, <2>1, GoesOn DEF CheckTable, Runs, Resting
<1>3. CASE LoadTable(c)
  <2>1. c = Main \/ c \in early
    BY <1>3 DEF LoadTable, Runs, TableInv, LoadersAreEarly, Callers
  <2>2. CASE Fatal(c) /\ UNCHANGED classTable
    BY <1>3, <2>1, <2>2
       DEF LoadTable, Fatal, TableInv, ControlType, LoadersAreEarly,
           KillerKilled, LateKillsAreVast
  <2>3. CASE Goto(c, "files") /\ classTable' = TRUE
    <3>1. process # "dead" /\ UNCHANGED early
      BY <1>3 DEF LoadTable, Runs
    <3>2. KillerKilled' /\ LateKillsAreVast'
      BY <2>3, <3>1 DEF Goto, TableInv, KillerKilled, LateKillsAreVast
    <3>3. ControlType' /\ LoadersAreEarly'
      BY <2>3, <3>1 DEF Goto, TableInv, ControlType, LoadersAreEarly, Resting
    <3> QED
      BY <3>2, <3>3 DEF TableInv
  <2> QED
    BY <1>3, <2>2, <2>3 DEF LoadTable
<1>4. CASE ReadBundle(c)
  <2>1. /\ UNCHANGED <<classTable, early, diskVars>>
        /\ process # "dead" /\ pc[c] \notin Resting
    BY <1>4 DEF ReadBundle, Runs, Resting
  <2>2. Goto(c, "files") \/ Goto(c, "stat") \/ Panic(c) \/ (Fatal(c) /\ VastFile(c))
    BY <1>4 DEF ReadBundle, Runs, Skip, VastFile
  <2> QED
    BY <2>1, <2>2, GoesOn, PanicKeepsInv, Dies
<1>5. CASE Stat(c)
  <2>1. /\ UNCHANGED <<classTable, early, diskVars>>
        /\ process # "dead" /\ pc[c] \notin Resting
    BY <1>5 DEF Stat, Runs, Resting
  <2>2. Goto(c, "files") \/ Panic(c)
    BY <1>5 DEF Stat
  <2> QED
    BY <2>1, <2>2, GoesOn, PanicKeepsInv
<1>6. CASE ListingEnds(c)
  BY <1>6, GoesOn DEF ListingEnds, Runs, Resting
<1> QED
  BY <1>1, <1>2, <1>3, <1>4, <1>5, <1>6 DEF GetMissionFiles

(* Main alone reads a mission, and it is not a request.                    *)
LEMMA MainKeepsInv ==
  ASSUME TableInv, ReadMission \/ LoadBundle \/ LoadBase \/ Start
  PROVE  TableInv'
<1> USE MainAssumption
<1>1. CASE ReadMission
  BY <1>1 DEF ReadMission, Fatal, Goto, TableInv, ControlType, LoadersAreEarly,
              KillerKilled,
              LateKillsAreVast, Callers
<1>2. ASSUME NEW f, NEW from, NEW to, ReadsAtStart(f, from, to), to \in {"base", "idle"}
      PROVE  TableInv'
  BY <1>2 DEF ReadsAtStart, Fatal, Goto, TableInv, ControlType,
              LoadersAreEarly, KillerKilled,
              LateKillsAreVast, Callers
<1>3. CASE Start
  BY <1>3 DEF Start, callVars, TableInv, ControlType, LoadersAreEarly,
              KillerKilled, LateKillsAreVast
<1> QED
  BY <1>1, <1>2, <1>3 DEF LoadBundle, LoadBase

LEMMA TableStep == TableInv /\ [FilesNext]_filesVars => TableInv'
<1> SUFFICES ASSUME TableInv, [FilesNext]_filesVars PROVE TableInv'
  OBVIOUS
<1>1. ASSUME NEW f \in Files, Change(f) PROVE TableInv'
  BY <1>1 DEF Change, callVars, TableInv, ControlType, LoadersAreEarly,
              KillerKilled, LateKillsAreVast
<1>2. ASSUME NEW r \in Requests, Request(r) PROVE TableInv'
  BY <1>2 DEF Request, Goto, Resting, TableInv, ControlType, LoadersAreEarly,
              KillerKilled,
              LateKillsAreVast
<1>3. CASE UNCHANGED filesVars
  BY <1>3 DEF filesVars, diskVars, callVars, TableInv, ControlType, LoadersAreEarly,
              KillerKilled, LateKillsAreVast
<1> QED
  BY <1>1, <1>2, <1>3, ListingKeepsInv, MainKeepsInv DEF FilesNext, Save, Remove

(* A request that began when the class table was loaded ends the agent only*)
(* over a file that it reads and for which the memory does not suffice     *)
(* (bundle_reader.go, lzss.go), and never by log.Fatal in loadClassTable or*)
(* by a panic (gin's recovery).                                            *)
THEOREM LateKillsByMemoryOnly == FilesSpec => []LateKillsAreVast
<1>1. TableInv => LateKillsAreVast
  BY DEF TableInv
<1> QED
  BY <1>1, TableInit, TableStep, PTL DEF FilesSpec
-----------------------------------------------------------------------------
(* ReadMission: what is read, the deltas, and the tree.                    *)
LEMMA SeqOfLarger ==
  ASSUME NEW S, NEW T, S \subseteq T, NEW s \in Seq(S)
  PROVE  s \in Seq(T)
OBVIOUS

(* Reading adds to the lists and touches nothing that comes later.         *)
LEMMA ReadStep ==
  ASSUME TypeOK, Read
  PROVE  /\ TypeOK'
         /\ step = "read"
         /\ step' \in {"read", "index", "fatal", "panic"}
         /\ step' = "index" => i' = 1
         /\ UNCHANGED <<deltaByID, treeVars>>
         /\ \/ UNCHANGED objectives
            \/ \E o \in ObjectiveRecords :
                 objectives' = Append(objectives, [id |-> o.id, parent |-> o.parent, delta |-> 0])
<1> USE DEF TypeOK, treeVars
<1>1. CASE PartMissing \/ CampaignFails \/ HeaderShort \/ CutShort
  BY <1>1 DEF PartMissing, CampaignFails, HeaderShort, CutShort, Missing, End, Steps,
             ReadObjectives
<1>2. CASE ExpandFails \/ PartEnds
  <2>1. GoOn /\ step = "read"
    BY <1>2 DEF ExpandFails, PartEnds
  <2>2. part \in Parts => Following(part) \in Parts
    BY DEF Following, Parts
  <2> QED
    BY <2>1, <2>2 DEF GoOn, Steps, ReadObjectives
<1>3. CASE OpenPart
  <2>1. header' \in Nat
    <3>1. CASE part = "campaign"
      BY <1>3, <3>1 DEF OpenPart
    <3>2. CASE part # "campaign"
      <4>1. part \in {"deltas", "units", "objectives"}
        BY <3>2 DEF Parts
      <4>2. header' \in HeaderCounts[part]
        BY <1>3, <3>2 DEF OpenPart
      <4>3. HeaderCounts[part] \subseteq 0 .. 2^16 - 1
        BY <4>1, CountsAssumption
      <4>4. \A m : 0 .. m \subseteq Nat
        OBVIOUS
      <4> QED
        BY <4>2, <4>3, <4>4
    <3> QED
      BY <3>1, <3>2
  <2> QED
    BY <1>3, <2>1 DEF OpenPart, ReadObjectives
<1>4. ASSUME NEW d \in DeltaRecords, ReadDelta(d)
      PROVE  TypeOK' /\ step = "read" /\ UNCHANGED <<step, deltaByID, treeVars, objectives>>
  <2>1. /\ step = "read" /\ i' = i + 1 /\ listed' = listed + 1
        /\ deltas' = Append(deltas, d.id) /\ d.id \in Ids
        /\ aligned' = (aligned /\ readObjectiveDeltas(d) = ObjectiveDeltas(d))
        /\ UNCHANGED <<step, part, header, deltaByID, treeVars, objectives, counted, whole>>
    BY <1>4, RecordsAssumption DEF ReadDelta, AtRecord, Move
  <2>2. deltas' \in Seq(Ids) /\ Len(deltas') = Len(deltas) + 1
    BY <2>1
  <2>3. 0 .. Len(deltas) \subseteq 0 .. Len(deltas')
    BY <2>2
  <2>4. objectives' \in Seq(ReadObjectives')
    <3>1. ReadObjectives \subseteq ReadObjectives'
      BY <2>3 DEF ReadObjectives
    <3> QED
      BY <2>1, <3>1, SeqOfLarger
  <2>5. deltaByID' \in [Ids -> 0 .. Len(deltas')]
    BY <2>1, <2>3
  <2>6. counted' \in 0 .. listed'
    BY <2>1
  <2> QED
    BY <2>1, <2>2, <2>4, <2>5, <2>6
<1>5. ASSUME NEW c \in CampaignRecords, ReadCampaign(c)
      PROVE  TypeOK' /\ step = "read" /\ UNCHANGED <<step, deltaByID, treeVars, objectives>>
  BY <1>5 DEF ReadCampaign, AtRecord, Move, ReadObjectives
<1>6. ASSUME NEW u \in UnitRecords, SkipUnit(u) \/ ReadNothing(u) \/ ReadUnit(u)
      PROVE  TypeOK' /\ step = "read" /\ UNCHANGED <<step, deltaByID, treeVars, objectives>>
  <2>1. CASE SkipUnit(u)
    <3>1. /\ step = "read" /\ i' = i + 1 /\ aligned' \in BOOLEAN /\ whole' \in BOOLEAN
          /\ UNCHANGED <<step, part, header, deltaByID, treeVars, deltas, objectives, listed,
                         counted>>
      BY <2>1 DEF SkipUnit, AtRecord, Class
    <3>2. ReadObjectives' = ReadObjectives
      BY <3>1 DEF ReadObjectives
    <3> QED
      BY <3>1, <3>2
  <2>2. CASE ReadNothing(u)
    <3>1. /\ step = "read" /\ i' = i + 1 /\ aligned' \in BOOLEAN /\ whole' \in BOOLEAN
          /\ listed' = listed + 1
          /\ UNCHANGED <<step, part, header, deltaByID, treeVars, deltas, objectives, counted>>
      BY <2>2 DEF ReadNothing, AtRecord, Class
    <3>2. counted' \in 0 .. listed'
      BY <3>1
    <3>3. ReadObjectives' = ReadObjectives
      BY <3>1 DEF ReadObjectives
    <3> QED
      BY <3>1, <3>2, <3>3
  <2>3. CASE ReadUnit(u)
    <3>1. /\ step = "read" /\ i' = i + 1 /\ aligned' \in BOOLEAN /\ whole' \in BOOLEAN
          /\ listed' = listed + 1 /\ counted' = counted + 1
          /\ UNCHANGED <<step, part, header, deltaByID, treeVars, deltas, objectives>>
      BY <2>3 DEF ReadUnit, AtRecord, Class, Move
    <3> QED
      BY <3>1 DEF ReadObjectives
  <2> QED
    BY <1>6, <2>1, <2>2, <2>3
<1>7. ASSUME NEW u \in UnitRecords, UnitPanics(u)
      PROVE  /\ TypeOK' /\ step = "read" /\ step' = "panic"
             /\ UNCHANGED <<deltaByID, treeVars, objectives>>
  BY <1>7 DEF UnitPanics, AtRecord, Class, End, Steps, ReadObjectives
<1>8. ASSUME NEW o \in ObjectiveRecords, ObjectivePanics(o)
      PROVE  /\ TypeOK' /\ step = "read" /\ step' = "panic"
             /\ UNCHANGED <<deltaByID, treeVars, objectives>>
  BY <1>8 DEF ObjectivePanics, AtRecord, Class, End, Steps, ReadObjectives
<1>9. ASSUME NEW o \in ObjectiveRecords, ReadObjective(o)
      PROVE  /\ TypeOK' /\ step = "read" /\ UNCHANGED <<step, deltaByID, treeVars>>
             /\ objectives' = Append(objectives, [id |-> o.id, parent |-> o.parent, delta |-> 0])
  <2> DEFINE r == [id |-> o.id, parent |-> o.parent, delta |-> 0]
  <2>1. /\ step = "read" /\ i' = i + 1 /\ listed' = listed + 1
        /\ objectives' = Append(objectives, r)
        /\ aligned' = (aligned /\ U16 + readObjective(o) = 2 + Objective(o))
        /\ whole' \in BOOLEAN
        /\ UNCHANGED <<step, part, header, deltaByID, treeVars, deltas, counted>>
    BY <1>9 DEF ReadObjective, AtRecord, Class, Move
  <2>2. r \in ReadObjectives
    BY RecordsAssumption DEF ReadObjectives
  <2> HIDE DEF r
  <2>3. /\ objectives' \in Seq(ReadObjectives')
        /\ Len(objectives') = Len(objectives) + 1
    BY <2>1, <2>2 DEF ReadObjectives
  <2>4. nodes' \in [Ids -> 0 .. Len(objectives')]
    BY <2>1, <2>3
  <2>5. counted' \in 0 .. listed'
    BY <2>1
  <2> QED
    BY <2>1, <2>3, <2>4, <2>5 DEF r
<1> QED
  BY <1>1, <1>2, <1>3, <1>4, <1>5, <1>6, <1>7, <1>8, <1>9 DEF Read

-----------------------------------------------------------------------------
(* What holds of the types before a step holds after it.                   *)
LEMMA TypeStep == TypeOK /\ [Next]_vars => TypeOK'
<1> SUFFICES ASSUME TypeOK, [Next]_vars PROVE TypeOK'
  OBVIOUS
<1> USE DEF TypeOK, Steps
<1>1. CASE Read
  BY <1>1, ReadStep
<1>2. CASE IndexDelta
  BY <1>2 DEF IndexDelta, Turn, readVars, treeVars, ReadObjectives
<1>3. CASE ApplyDelta
  <2> DEFINE delta == deltaByID[objectives[i].id]
  <2>1. i \in 1 .. Len(objectives) /\ objectives[i] \in ReadObjectives
    BY <1>3 DEF ApplyDelta, Turn
  <2>2. objectives[i].id \in Ids
    BY <2>1 DEF ReadObjectives
  <2>3. delta \in 0 .. Len(deltas)
    BY <2>2
  <2>4. [objectives[i] EXCEPT !.delta = delta] \in ReadObjectives
    BY <2>1, <2>3 DEF ReadObjectives
  <2>5. objectives' \in Seq(ReadObjectives) /\ Len(objectives') = Len(objectives)
    <3>1. CASE UNCHANGED objectives
      BY <3>1
    <3>2. CASE objectives' = [objectives EXCEPT ![i].delta = delta]
      <4>1. objectives' = [objectives EXCEPT ![i] = [objectives[i] EXCEPT !.delta = delta]]
        BY <3>2
      <4> HIDE DEF delta
      <4> QED
        BY <2>1, <2>4, <4>1
    <3> QED
      BY <1>3, <3>1, <3>2 DEF ApplyDelta
  <2>6. /\ step' = step /\ i' = i + 1
        /\ UNCHANGED <<part, header, aligned, listed, counted, whole, deltas, deltaByID, nodes, tree>>
    BY <1>3 DEF ApplyDelta, Turn, readVars, treeVars
  <2> QED
    BY <2>5, <2>6 DEF ReadObjectives
<1>4. CASE AddNode
  <2>1. /\ i \in 1 .. Len(objectives) /\ i' = i + 1
        /\ nodes' = [nodes EXCEPT ![objectives[i].id] = i]
        /\ tree' = [tree EXCEPT ![objectives[i].id] = <<>>]
        /\ UNCHANGED <<step, part, header, aligned, listed, counted, whole, deltas, deltaByID,
                       objectives>>
    BY <1>4 DEF AddNode, Turn, readVars
  <2>2. objectives[i] \in ReadObjectives
    BY <2>1
  <2>3. objectives[i].id \in Ids
    BY <2>2 DEF ReadObjectives
  <2>4. nodes' \in [Ids -> 0 .. Len(objectives)] /\ tree' \in [Ids \cup {Top} -> Seq(Ids)]
    BY <2>1, <2>3
  <2>5. ReadObjectives' = ReadObjectives
    BY <2>1 DEF ReadObjectives
  <2> QED
    BY <2>1, <2>4, <2>5
<1>5. CASE PlaceNode
  <2> DEFINE o == objectives[i]
             list == IF IsRoot(o) THEN Top ELSE o.parent
  <2>1. /\ i \in 1 .. Len(objectives) /\ i' = i + 1
        /\ tree' = [tree EXCEPT ![list] = Append(@, o.id)]
        /\ UNCHANGED <<step, part, header, aligned, listed, counted, whole, deltas, deltaByID,
                       objectives, nodes>>
    BY <1>5 DEF PlaceNode, Turn, readVars
  <2>2. o.id \in Ids /\ list \in Ids \cup {Top}
    <3>1. objectives[i] \in ReadObjectives
      BY <2>1
    <3> QED
      BY <3>1 DEF ReadObjectives
  <2>3. tree' \in [Ids \cup {Top} -> Seq(Ids)]
    <3> HIDE DEF o, list
    <3>1. tree[list] \in Seq(Ids)
      BY <2>2
    <3>2. Append(tree[list], o.id) \in Seq(Ids)
      BY <2>2, <3>1
    <3> QED
      BY <2>1, <3>2
  <2>4. ReadObjectives' = ReadObjectives
    BY <2>1 DEF ReadObjectives
  <2> HIDE DEF o, list
  <2> QED
    BY <2>1, <2>3, <2>4
<1>6. ASSUME NEW s, NEW list, NEW next \in Steps, LoopEnds(s, list, next) PROVE TypeOK'
  <2>1. /\ step' \in Steps /\ i' = 1
        /\ UNCHANGED <<part, header, aligned, listed, counted, whole, deltas, deltaByID,
                       objectives, nodes, tree>>
    BY <1>6 DEF LoopEnds, readVars, treeVars
  <2> QED
    BY <2>1 DEF ReadObjectives
<1>7. CASE UNCHANGED vars
  BY <1>7 DEF vars, readVars, treeVars, ReadObjectives
<1> QED
  BY <1>1, <1>2, <1>3, <1>4, <1>5, <1>6, <1>7 DEF Next

(* Every list, map and counter of ReadMission and of OutputJson keeps its  *)
(* type: the places of deltas and objectives stay within their lists.      *)
THEOREM TypeCorrect == Spec => []TypeOK
<1>1. Init => TypeOK
  BY IdsAssumption DEF Init, TypeOK, Steps, Parts
<1> QED
  BY <1>1, TypeStep, PTL DEF Spec

-----------------------------------------------------------------------------
(* Deltas: at each turn the map holds the last delta so far of each id,    *)
(* and the objectives so far carry what the map holds in the end.          *)
IsLastOf(m, n, id) ==
  \/ n = 0 /\ \A k \in 1 .. m : deltas[k] # id
  \/ /\ n \in 1 .. m
     /\ deltas[n] = id
     /\ \A k \in n + 1 .. m : deltas[k] # id
DeltaInv ==
  /\ step = "read" => \A id \in Ids : deltaByID[id] = 0
  /\ step = "index" =>
       /\ i \in 1 .. Len(deltas) + 1
       /\ \A id \in Ids : IsLastOf(i - 1, deltaByID[id], id)
  /\ step = "apply" =>
       /\ i \in 1 .. Len(objectives) + 1
       /\ \A id \in Ids : IsLastDelta(deltaByID[id], id)
       /\ \A n \in 1 .. i - 1 : IsLastDelta(objectives[n].delta, objectives[n].id)
  /\ step \in {"read", "index", "apply"} =>
       \A n \in 1 .. Len(objectives) : (step = "apply" => n >= i) => objectives[n].delta = 0
  /\ LastDeltaApplied

LEMMA DeltaInvStep == TypeOK /\ DeltaInv /\ [Next]_vars => DeltaInv'
<1> SUFFICES ASSUME TypeOK, DeltaInv, [Next]_vars PROVE DeltaInv'
  OBVIOUS
<1>1. CASE Read
  <2>1. /\ step = "read" /\ UNCHANGED deltaByID
        /\ step' \in {"read", "index", "fatal", "panic"}
        /\ step' = "index" => i' = 1
    BY <1>1, ReadStep
  <2>2. \A n \in 1 .. Len(objectives') : objectives'[n].delta = 0
    <3>1. \A n \in 1 .. Len(objectives) : objectives[n].delta = 0
      BY <2>1 DEF DeltaInv
    <3>2. CASE UNCHANGED objectives
      BY <3>1, <3>2
    <3>3. ASSUME NEW o \in ObjectiveRecords,
                 objectives' = Append(objectives, [id |-> o.id, parent |-> o.parent, delta |-> 0])
          PROVE  \A n \in 1 .. Len(objectives') : objectives'[n].delta = 0
      <4> DEFINE r == [id |-> o.id, parent |-> o.parent, delta |-> 0]
      <4>1. r.delta = 0
        OBVIOUS
      <4>2. objectives \in Seq(ReadObjectives)
        BY DEF TypeOK
      <4> HIDE DEF r
      <4>3. \A n \in 1 .. Len(objectives') :
              objectives'[n] = IF n <= Len(objectives) THEN objectives[n] ELSE r
        BY <3>3, <4>2 DEF r
      <4> QED
        BY <3>1, <3>3, <4>1, <4>2, <4>3 DEF r
    <3> QED
      BY <1>1, <3>2, <3>3, ReadStep
  <2>3. step' = "index" =>
          /\ i' \in 1 .. Len(deltas') + 1
          /\ \A id \in Ids : IsLastOf(i - 1, deltaByID[id], id)'
    <3>1. deltas' \in Seq(Ids)
      BY <1>1, ReadStep DEF TypeOK
    <3>2. Len(deltas') \in Nat
      BY <3>1
    <3>3. \A id \in Ids : deltaByID'[id] = 0
      BY <2>1 DEF DeltaInv
    <3> QED
      BY <2>1, <3>2, <3>3 DEF IsLastOf
  <2> QED
    BY <2>1, <2>2, <2>3 DEF DeltaInv, LastDeltaApplied
<1>2. CASE IndexDelta
  <2>1. /\ step = "index" /\ step' = step /\ i \in 1 .. Len(deltas) /\ i' = i + 1
        /\ UNCHANGED <<deltas, objectives>>
        /\ deltaByID' = [deltaByID EXCEPT ![deltas[i]] = i]
    BY <1>2 DEF IndexDelta, Turn
  <2>2. /\ \A id \in Ids : IsLastOf(i - 1, deltaByID[id], id)
        /\ \A n \in 1 .. Len(objectives) : objectives[n].delta = 0
    BY <2>1 DEF DeltaInv
  <2>3. deltas[i] \in Ids /\ deltaByID \in [Ids -> 0 .. Len(deltas)]
    BY <2>1 DEF TypeOK
  <2>4. \A id \in Ids : IsLastOf(i - 1, deltaByID[id], id)'
    <3> TAKE id \in Ids
    <3>1. CASE id = deltas[i]
      <4>1. deltaByID'[id] = i
        BY <2>1, <2>3, <3>1
      <4> QED
        BY <2>1, <3>1, <4>1 DEF IsLastOf
    <3>2. CASE id # deltas[i]
      <4>1. deltaByID'[id] = deltaByID[id]
        BY <2>1, <2>3, <3>2
      <4>2. IsLastOf(i - 1, deltaByID[id], id)
        BY <2>2
      <4> QED
        BY <2>1, <3>2, <4>1, <4>2 DEF IsLastOf
    <3> QED
      BY <3>1, <3>2
  <2>5. Len(deltas) \in Nat
    BY DEF TypeOK
  <2> QED
    BY <2>1, <2>2, <2>4, <2>5 DEF DeltaInv, LastDeltaApplied
<1>3. CASE ApplyDelta
  <2> DEFINE o == objectives[i]
             delta == deltaByID[o.id]
  <2>1. /\ step = "apply" /\ step' = step /\ i \in 1 .. Len(objectives) /\ i' = i + 1
        /\ UNCHANGED <<deltas, deltaByID>>
        /\ \/ delta # 0 /\ objectives' = [objectives EXCEPT ![i].delta = delta]
           \/ delta = 0 /\ UNCHANGED objectives
    BY <1>3 DEF ApplyDelta, Turn
  <2>2. /\ \A id \in Ids : IsLastDelta(deltaByID[id], id)
        /\ \A n \in 1 .. i - 1 : IsLastDelta(objectives[n].delta, objectives[n].id)
        /\ \A n \in i .. Len(objectives) : objectives[n].delta = 0
    BY <2>1 DEF DeltaInv
  <2>3. o \in ReadObjectives /\ Len(objectives) \in Nat /\ objectives \in Seq(ReadObjectives)
    BY <2>1 DEF TypeOK
  <2>4. o.id \in Ids /\ o = [id |-> o.id, parent |-> o.parent, delta |-> o.delta]
    BY <2>3 DEF ReadObjectives
  <2>5. /\ Len(objectives') = Len(objectives)
        /\ objectives'[i].delta = delta /\ objectives'[i].id = o.id
        /\ \A n \in 1 .. Len(objectives) : n # i => objectives'[n] = objectives[n]
    <3>1. CASE delta # 0
      <4>1. objectives' = [objectives EXCEPT ![i] = [o EXCEPT !.delta = delta]]
        BY <2>1, <3>1
      <4>2. [o EXCEPT !.delta = delta] = [id |-> o.id, parent |-> o.parent, delta |-> delta]
        BY <2>4
      <4> HIDE DEF o, delta
      <4> QED
        BY <2>1, <2>3, <4>1, <4>2
    <3>2. CASE delta = 0
      <4>1. o.delta = 0
        BY <2>1, <2>2
      <4> QED
        BY <2>1, <3>2, <4>1
    <3> QED
      BY <3>1, <3>2
  <2>6. IsLastDelta(delta, o.id)
    BY <2>2, <2>4
  <2> HIDE DEF o, delta
  <2>7. \A m, id : IsLastDelta(m, id) => (\/ m = 0 /\ \A k \in 1 .. Len(deltas') : deltas'[k] # id
                                         \/ /\ m \in 1 .. Len(deltas')
                                            /\ deltas'[m] = id
                                            /\ \A k \in m + 1 .. Len(deltas') : deltas'[k] # id)
    BY <2>1 DEF IsLastDelta
  <2>8. \A id \in Ids : IsLastDelta(deltaByID[id], id)'
    BY <2>1, <2>2, <2>7 DEF IsLastDelta
  <2>9. \A n \in 1 .. i' - 1 : IsLastDelta(objectives[n].delta, objectives[n].id)'
    <3> TAKE n \in 1 .. i' - 1
    <3>1. CASE n = i
      <4>1. objectives'[n].delta = delta /\ objectives'[n].id = o.id
        BY <2>5, <3>1
      <4>2. \/ delta = 0 /\ \A k \in 1 .. Len(deltas') : deltas'[k] # o.id
            \/ /\ delta \in 1 .. Len(deltas')
               /\ deltas'[delta] = o.id
               /\ \A k \in delta + 1 .. Len(deltas') : deltas'[k] # o.id
        BY <2>6, <2>7
      <4> QED
        BY <4>1, <4>2 DEF IsLastDelta
    <3>2. CASE n # i
      <4>1. n \in 1 .. i - 1 /\ n \in 1 .. Len(objectives)
        BY <2>1, <2>3, <3>2
      <4>2. objectives'[n] = objectives[n]
        BY <2>5, <3>2, <4>1
      <4>3. IsLastDelta(objectives[n].delta, objectives[n].id)
        BY <2>2, <4>1
      <4>4. LET m  == objectives[n].delta
                id == objectives[n].id
            IN  \/ m = 0 /\ \A k \in 1 .. Len(deltas') : deltas'[k] # id
                \/ /\ m \in 1 .. Len(deltas')
                   /\ deltas'[m] = id
                   /\ \A k \in m + 1 .. Len(deltas') : deltas'[k] # id
        BY <2>7, <4>3
      <4> QED
        BY <4>2, <4>4 DEF IsLastDelta
    <3> QED
      BY <3>1, <3>2
  <2>10. i' \in 1 .. Len(objectives') + 1
    BY <2>1, <2>3, <2>5
  <2>11. \A n \in 1 .. Len(objectives') : n >= i' => objectives'[n].delta = 0
    BY <2>1, <2>2, <2>3, <2>5
  <2> QED
    <3>1. step' = "apply"
      BY <2>1
    <3>2. LastDeltaApplied'
      BY <3>1 DEF LastDeltaApplied
    <3> QED
      BY ONLY <2>8, <2>9, <2>10, <2>11, <3>1, <3>2 DEF DeltaInv
<1>4. CASE AddNode \/ PlaceNode
  <2>1. step \in {"nodes", "place"} /\ UNCHANGED <<step, deltas, objectives>>
    BY <1>4 DEF AddNode, PlaceNode, Turn
  <2>2. LastDeltaApplied
    BY DEF DeltaInv
  <2>3. LastDeltaApplied'
    BY ONLY <2>1, <2>2 DEF LastDeltaApplied, IsLastDelta
  <2> QED
    BY ONLY <2>1, <2>3 DEF DeltaInv
<1>5. CASE LoopEnds("index", deltas, "apply")
  <2>1. /\ step = "index" /\ step' = "apply" /\ i > Len(deltas) /\ i' = 1
        /\ UNCHANGED <<deltas, objectives, deltaByID>>
    BY <1>5 DEF LoopEnds
  <2>2. Len(deltas) \in Nat /\ Len(objectives) \in Nat
    BY DEF TypeOK
  <2>3. i = Len(deltas) + 1
    BY <2>1, <2>2 DEF DeltaInv
  <2>4. \A id \in Ids : IsLastDelta(deltaByID[id], id)'
    BY <2>1, <2>2, <2>3 DEF DeltaInv, IsLastOf, IsLastDelta
  <2> QED
    BY <2>1, <2>2, <2>4 DEF DeltaInv, LastDeltaApplied
<1>6. CASE LoopEnds("apply", objectives, "nodes")
  <2>1. /\ step = "apply" /\ step' = "nodes" /\ i > Len(objectives)
        /\ UNCHANGED <<deltas, objectives>>
    BY <1>6 DEF LoopEnds
  <2>2. Len(objectives) \in Nat
    BY DEF TypeOK
  <2>3. i - 1 = Len(objectives)
    BY <2>1, <2>2 DEF DeltaInv
  <2>4. \A n \in 1 .. Len(objectives) : IsLastDelta(objectives[n].delta, objectives[n].id)
    BY <2>1, <2>3 DEF DeltaInv
  <2> QED
    BY <2>1, <2>4 DEF DeltaInv, LastDeltaApplied, IsLastDelta
<1>7. CASE LoopEnds("nodes", objectives, "place") \/ LoopEnds("place", objectives, "done")
  BY <1>7 DEF LoopEnds, DeltaInv, LastDeltaApplied, IsLastDelta
<1>8. CASE UNCHANGED vars
  BY <1>8 DEF vars, readVars, treeVars, DeltaInv, LastDeltaApplied, IsLastDelta, IsLastOf
<1> QED
  BY <1>1, <1>2, <1>3, <1>4, <1>5, <1>6, <1>7, <1>8 DEF Next

(* For any deltas and objectives, however often an id is in either list,   *)
(* every objective carries the values of the last delta of its id, and     *)
(* what was read if there is none (applyDeltas).                           *)
THEOREM LastDeltaIsApplied == Spec => []LastDeltaApplied
<1>1. Init => DeltaInv
  BY DEF Init, DeltaInv, LastDeltaApplied
<1>2. DeltaInv => LastDeltaApplied
  BY DEF DeltaInv
<1> QED
  BY <1>1, <1>2, DeltaInvStep, TypeCorrect, PTL DEF Spec

-----------------------------------------------------------------------------
(* The tree: each of the first m objectives is in the list it belongs to,  *)
(* nothing else is in a list, and nothing twice if no id is there twice.   *)
ListOf(o) == IF IsRoot(o) THEN Top ELSE o.parent
PlacedUpTo(m) ==
  /\ \A list \in Ids \cup {Top} : \A k \in 1 .. Len(tree[list]) :
       \E n \in 1 .. m : tree[list][k] = objectives[n].id /\ list = ListOf(objectives[n])
  /\ \A n \in 1 .. m : \E k \in 1 .. Len(tree[ListOf(objectives[n])]) :
       tree[ListOf(objectives[n])][k] = objectives[n].id
  /\ \A list \in Ids \cup {Top} : Len(tree[list]) <= m
  /\ DistinctIds =>
       \A list \in Ids \cup {Top} : \A j, k \in 1 .. Len(tree[list]) :
         tree[list][j] = tree[list][k] => j = k
Placed == IF step = "done" THEN Len(objectives) ELSE i - 1
TreeInv ==
  /\ step \in {"read", "index", "apply", "nodes"} =>
       \A list \in Ids \cup {Top} : tree[list] = <<>>
  /\ step \in {"read", "index", "apply"} => \A id \in Ids : nodes[id] = 0
  /\ step = "nodes" =>
       /\ i \in 1 .. Len(objectives) + 1
       /\ \A id \in Ids : nodes[id] # 0 <=> \E n \in 1 .. i - 1 : objectives[n].id = id
  /\ step \in {"place", "done"} =>
       /\ i \in 1 .. Len(objectives) + 1
       /\ \A id \in Ids : nodes[id] # 0 <=> \E n \in 1 .. Len(objectives) : objectives[n].id = id
       /\ PlacedUpTo(Placed)

LEMMA IdOfObjective ==
  ASSUME TypeOK, NEW n \in 1 .. Len(objectives)
  PROVE  /\ objectives[n].id \in Ids /\ objectives[n].parent \in Ids
         /\ ListOf(objectives[n]) \in Ids \cup {Top}
<1>1. objectives[n] \in ReadObjectives
  BY DEF TypeOK
<1> QED
  BY <1>1 DEF ReadObjectives, ListOf

(* One objective more is placed.                                           *)
LEMMA PlaceStep ==
  ASSUME TypeOK, PlacedUpTo(i - 1), PlaceNode, i \in 1 .. Len(objectives)
  PROVE  PlacedUpTo(i - 1)'
<1> DEFINE o == objectives[i]
           list == ListOf(o)
<1>1. /\ tree' = [tree EXCEPT ![list] = Append(@, o.id)]
      /\ i' = i + 1
      /\ UNCHANGED <<objectives, nodes>>
  BY DEF PlaceNode, Turn, ListOf
<1>2. o.id \in Ids /\ list \in Ids \cup {Top}
  BY IdOfObjective
<1>3. \A n \in 1 .. Len(objectives) : ListOf(objectives[n])' = ListOf(objectives[n])
  BY <1>1 DEF ListOf, IsRoot
<1>4. tree \in [Ids \cup {Top} -> Seq(Ids)] /\ i \in Nat /\ Len(objectives) \in Nat
  BY DEF TypeOK
<1> HIDE DEF o, list
<1>5. /\ tree[list] \in Seq(Ids)
      /\ tree'[list] = Append(tree[list], o.id)
      /\ Len(tree'[list]) = Len(tree[list]) + 1
      /\ tree'[list][Len(tree[list]) + 1] = o.id
      /\ \A k \in 1 .. Len(tree[list]) : tree'[list][k] = tree[list][k]
  BY <1>1, <1>2, <1>4
<1>6. \A l \in Ids \cup {Top} : l # list => tree'[l] = tree[l]
  BY <1>1, <1>2, <1>4
<1>7. \A l \in Ids \cup {Top} : Len(tree[l]) \in Nat
  BY <1>4
<1> DEFINE In(l, k, m) ==
             \E n \in 1 .. m : tree'[l][k] = objectives[n].id /\ l = ListOf(objectives[n])
           At(n) == \E k \in 1 .. Len(tree'[ListOf(objectives[n])]) :
                      tree'[ListOf(objectives[n])][k] = objectives[n].id
<1>8. ASSUME NEW l \in Ids \cup {Top}, NEW k \in 1 .. Len(tree'[l]) PROVE In(l, k, i)
  <2>1. CASE l = list /\ k = Len(tree[list]) + 1
    BY <1>5, <2>1 DEF o, list
  <2>2. CASE ~(l = list /\ k = Len(tree[list]) + 1)
    <3>1. k \in 1 .. Len(tree[l]) /\ tree'[l][k] = tree[l][k]
      <4>1. CASE l = list
        <5>1. k \in 1 .. Len(tree[list])
          <6>1. k # Len(tree[list]) + 1 /\ Len(tree[list]) \in Nat
            BY <1>2, <1>7, <2>2, <4>1
          <6>2. Len(tree'[l]) = Len(tree[list]) + 1
            BY <1>5, <4>1
          <6> HIDE DEF In, At
          <6> QED
            BY <6>1, <6>2
        <5> QED
          BY <1>5, <4>1, <5>1
      <4>2. CASE l # list
        BY <1>6, <4>2
      <4> QED
        BY <4>1, <4>2
    <3>2. PICK n \in 1 .. i - 1 : tree[l][k] = objectives[n].id /\ l = ListOf(objectives[n])
      BY <3>1 DEF PlacedUpTo
    <3>3. n \in 1 .. i
      BY <1>4
    <3> QED
      BY <3>1, <3>2, <3>3
  <2> QED
    BY <2>1, <2>2
<1>9. ASSUME NEW n \in 1 .. i PROVE At(n)
  <2>1. CASE n = i
    <3>1. ListOf(objectives[n]) = list /\ objectives[n].id = o.id
      BY <2>1 DEF o, list
    <3>2. Len(tree[list]) + 1 \in 1 .. Len(tree'[list])
      BY <1>2, <1>5, <1>7
    <3> QED
      BY <1>5, <3>1, <3>2
  <2>2. CASE n # i
    <3>1. n \in 1 .. i - 1 /\ n \in 1 .. Len(objectives)
      BY <1>4, <2>2
    <3> DEFINE l == ListOf(objectives[n])
    <3>2. PICK k \in 1 .. Len(tree[l]) : tree[l][k] = objectives[n].id
      BY <3>1 DEF PlacedUpTo
    <3>3. l \in Ids \cup {Top}
      BY <3>1, IdOfObjective
    <3> HIDE DEF l
    <3>4. k \in 1 .. Len(tree'[l]) /\ tree'[l][k] = tree[l][k]
      <4>1. Len(tree[l]) \in Nat /\ Len(tree[list]) \in Nat
        BY <1>2, <1>7, <3>3
      <4>2. CASE l = list
        <5>1. k \in 1 .. Len(tree[list]) /\ Len(tree'[l]) = Len(tree[list]) + 1
          BY <1>5, <3>2, <4>2
        <5>2. k \in 1 .. Len(tree'[l])
          BY <4>1, <5>1
        <5> QED
          BY <1>5, <4>2, <5>1, <5>2
      <4>3. CASE l # list
        BY <1>6, <3>2, <3>3, <4>3
      <4> QED
        BY <4>2, <4>3
    <3> QED
      BY <3>2, <3>4 DEF l
  <2> QED
    BY <2>1, <2>2
<1>10. ASSUME NEW l \in Ids \cup {Top} PROVE Len(tree'[l]) <= i
  <2>1. Len(tree[l]) <= i - 1
    BY DEF PlacedUpTo
  <2>2. Len(tree'[l]) = Len(tree[l]) \/ Len(tree'[l]) = Len(tree[l]) + 1
    <3>1. CASE l = list
      BY <1>5, <3>1
    <3>2. CASE l # list
      BY <1>6, <3>2
    <3> QED
      BY <3>1, <3>2
  <2> QED
    BY <1>4, <1>7, <2>1, <2>2
<1>11. ASSUME DistinctIds,
              NEW l \in Ids \cup {Top}, NEW j \in 1 .. Len(tree'[l]), NEW k \in 1 .. Len(tree'[l]),
              tree'[l][j] = tree'[l][k]
       PROVE  j = k
  <2>1. ASSUME NEW q \in 1 .. Len(tree[list]) PROVE tree[list][q] # o.id
    <3>1. PICK n \in 1 .. i - 1 : tree[list][q] = objectives[n].id
      BY <1>2, <2>1 DEF PlacedUpTo
    <3>2. n \in 1 .. Len(objectives) /\ n # i /\ i \in 1 .. Len(objectives)
      BY <1>4
    <3>3. objectives[n].id # objectives[i].id
      BY <1>11, <3>2 DEF DistinctIds
    <3> QED
      BY <3>1, <3>3 DEF o
  <2>2. \A p, q \in 1 .. Len(tree[l]) : tree[l][p] = tree[l][q] => p = q
    BY <1>11 DEF PlacedUpTo
  <2>3. CASE l # list
    BY <1>6, <1>11, <2>2, <2>3
  <2>4. CASE l = list
    <3>1. \A q \in 1 .. Len(tree'[l]) :
            \/ q \in 1 .. Len(tree[l]) /\ tree'[l][q] = tree[l][q] /\ tree'[l][q] # o.id
            \/ q = Len(tree[l]) + 1 /\ tree'[l][q] = o.id
      <4> TAKE q \in 1 .. Len(tree'[l])
      <4>1. Len(tree[l]) \in Nat /\ Len(tree'[l]) = Len(tree[l]) + 1
        BY <1>5, <1>7, <2>4
      <4>2. CASE q = Len(tree[l]) + 1
        BY <1>5, <2>4, <4>2
      <4>3. CASE q # Len(tree[l]) + 1
        <5>1. q \in 1 .. Len(tree[list])
          BY <2>4, <4>1, <4>3
        <5> QED
          BY <1>5, <2>1, <2>4, <5>1
      <4> QED
        BY <4>2, <4>3
    <3> QED
      BY <1>11, <2>2, <3>1
  <2> QED
    BY <2>3, <2>4
<1>12. DistinctIds' = DistinctIds
  BY <1>1 DEF DistinctIds
<1>13. i' - 1 = i
  BY <1>1, <1>4
<1>14. \A l \in Ids \cup {Top} : \A k \in 1 .. Len(tree'[l]) :
         \E n \in 1 .. i' - 1 : tree'[l][k] = objectives'[n].id /\ l = ListOf(objectives[n])'
  <2> TAKE l \in Ids \cup {Top}
  <2> TAKE k \in 1 .. Len(tree'[l])
  <2>1. PICK n \in 1 .. i : tree'[l][k] = objectives[n].id /\ l = ListOf(objectives[n])
    BY <1>8
  <2>2. n \in 1 .. Len(objectives)
    BY <1>4
  <2> QED
    BY <1>1, <1>3, <1>13, <2>1, <2>2
<1>15. \A n \in 1 .. i' - 1 : \E k \in 1 .. Len(tree[ListOf(objectives[n])])' :
         tree[ListOf(objectives[n])][k]' = objectives'[n].id
  <2> TAKE n \in 1 .. i' - 1
  <2>1. n \in 1 .. i /\ n \in 1 .. Len(objectives)
    BY <1>4, <1>13
  <2>2. At(n)
    BY <1>9, <2>1
  <2>3. ListOf(objectives[n])' = ListOf(objectives[n])
    BY <1>3, <2>1
  <2> QED
    BY <1>1, <2>2, <2>3
<1>16. \A l \in Ids \cup {Top} : Len(tree'[l]) <= i' - 1
  BY <1>10, <1>13
<1>17. DistinctIds' =>
         \A l \in Ids \cup {Top} : \A j, k \in 1 .. Len(tree'[l]) :
           tree'[l][j] = tree'[l][k] => j = k
  BY <1>11, <1>12
<1> QED
  BY <1>14, <1>15, <1>16, <1>17 DEF PlacedUpTo

LEMMA TreeInvStep == TypeOK /\ TreeInv /\ [Next]_vars => TreeInv'
<1> SUFFICES ASSUME TypeOK, TreeInv, [Next]_vars PROVE TreeInv'
  OBVIOUS
<1>1. Len(objectives) \in Nat /\ i \in Nat
  BY DEF TypeOK
<1>2. CASE Read
  <2>1. /\ step = "read" /\ step' \in {"read", "index", "fatal", "panic"}
        /\ UNCHANGED <<tree, nodes>>
    BY <1>2, ReadStep DEF treeVars
  <2> QED
    BY <2>1 DEF TreeInv
<1>3. CASE IndexDelta
  BY <1>3 DEF IndexDelta, Turn, treeVars, TreeInv
<1>4. CASE ApplyDelta
  <2>1. step = "apply" /\ step' = step /\ UNCHANGED <<tree, nodes>>
    BY <1>4 DEF ApplyDelta, Turn, treeVars
  <2> QED
    BY <2>1 DEF TreeInv
<1>5. CASE AddNode
  <2>1. /\ step = "nodes" /\ step' = step /\ i \in 1 .. Len(objectives) /\ i' = i + 1
        /\ nodes' = [nodes EXCEPT ![objectives[i].id] = i]
        /\ tree' = [tree EXCEPT ![objectives[i].id] = <<>>]
        /\ UNCHANGED objectives
    BY <1>5 DEF AddNode, Turn
  <2>2. nodes \in [Ids -> 0 .. Len(objectives)] /\ tree \in [Ids \cup {Top} -> Seq(Ids)]
    BY DEF TypeOK
  <2>3. \A list \in Ids \cup {Top} : tree'[list] = <<>>
    BY <2>1, <2>2 DEF TreeInv
  <2>4. \A id \in Ids : nodes'[id] # 0 <=> \E n \in 1 .. i : objectives[n].id = id
    <3> TAKE id \in Ids
    <3>1. nodes[id] # 0 <=> \E n \in 1 .. i - 1 : objectives[n].id = id
      BY <2>1 DEF TreeInv
    <3>2. CASE objectives[i].id = id
      <4>1. nodes'[id] = i
        BY <2>1, <2>2, <3>2
      <4> QED
        BY <1>1, <2>1, <3>2, <4>1
    <3>3. CASE objectives[i].id # id
      <4>1. nodes'[id] = nodes[id]
        BY <2>1, <2>2, <3>3
      <4>2. \A n \in 1 .. i : n # i => n \in 1 .. i - 1
        BY <1>1
      <4>3. \A n \in 1 .. i - 1 : n \in 1 .. i
        BY <1>1
      <4> QED
        BY <3>1, <3>3, <4>1, <4>2, <4>3
    <3> QED
      BY <3>2, <3>3
  <2>5. i' - 1 = i /\ i' \in 1 .. Len(objectives) + 1
    BY <1>1, <2>1
  <2> QED
    BY <2>1, <2>3, <2>4, <2>5 DEF TreeInv
<1>6. CASE PlaceNode
  <2>1. step = "place" /\ step' = step /\ i \in 1 .. Len(objectives) /\ i' = i + 1
        /\ UNCHANGED <<objectives, nodes>>
    BY <1>6 DEF PlaceNode, Turn
  <2>2. PlacedUpTo(i - 1)
    BY <2>1 DEF TreeInv, Placed
  <2>3. PlacedUpTo(i - 1)'
    BY <1>6, <2>1, <2>2, PlaceStep
  <2>4. i' \in 1 .. Len(objectives) + 1
    BY <1>1, <2>1
  <2>5. Placed' = (i - 1)'
    BY <2>1 DEF Placed
  <2>6. PlacedUpTo(Placed)'
    BY <2>3, <2>5 DEF PlacedUpTo
  <2> QED
    BY <2>1, <2>4, <2>6 DEF TreeInv
<1>7. CASE LoopEnds("index", deltas, "apply") \/ LoopEnds("apply", objectives, "nodes")
  <2>1. /\ step \in {"index", "apply"} /\ step' \in {"apply", "nodes"} /\ i' = 1
        /\ UNCHANGED <<objectives, tree, nodes>>
    BY <1>7 DEF LoopEnds, treeVars
  <2>2. i' \in 1 .. Len(objectives) + 1 /\ 1 .. i' - 1 = {}
    BY <1>1, <2>1
  <2> QED
    BY <2>1, <2>2 DEF TreeInv
<1>8. CASE LoopEnds("nodes", objectives, "place")
  <2>1. /\ step = "nodes" /\ step' = "place" /\ i > Len(objectives) /\ i' = 1
        /\ UNCHANGED <<objectives, tree, nodes>>
    BY <1>8 DEF LoopEnds, treeVars
  <2>2. i - 1 = Len(objectives) /\ i' \in 1 .. Len(objectives) + 1
    BY <1>1, <2>1 DEF TreeInv
  <2>3. \A list \in Ids \cup {Top} : tree'[list] = <<>>
    BY <2>1 DEF TreeInv
  <2>4. Placed' = 0
    BY <2>1 DEF Placed
  <2>5. \A list \in Ids \cup {Top} : Len(tree'[list]) = 0
    BY <2>3
  <2>6. PlacedUpTo(Placed)'
    BY <2>4, <2>5 DEF PlacedUpTo
  <2>7. \A id \in Ids : nodes[id] # 0 <=> \E n \in 1 .. i - 1 : objectives[n].id = id
    BY <2>1 DEF TreeInv
  <2> QED
    BY <2>1, <2>2, <2>6, <2>7 DEF TreeInv
<1>9. CASE LoopEnds("place", objectives, "done")
  <2>1. /\ step = "place" /\ step' = "done" /\ i > Len(objectives) /\ i' = 1
        /\ UNCHANGED <<objectives, tree, nodes>>
    BY <1>9 DEF LoopEnds, treeVars
  <2>2. i - 1 = Len(objectives) /\ i' \in 1 .. Len(objectives) + 1
    BY <1>1, <2>1 DEF TreeInv
  <2>3. PlacedUpTo(Len(objectives))
    <3>1. PlacedUpTo(Placed) /\ Placed = Len(objectives)
      BY <2>1, <2>2 DEF TreeInv, Placed
    <3> QED
      BY <3>1
  <2>4. PlacedUpTo(Len(objectives))'
    BY <2>1, <2>3 DEF PlacedUpTo, ListOf, IsRoot, DistinctIds
  <2>5. PlacedUpTo(Placed)'
    BY <2>1, <2>4 DEF Placed
  <2> QED
    BY <2>1, <2>2, <2>5 DEF TreeInv
<1>10. CASE UNCHANGED vars
  BY <1>10 DEF vars, readVars, treeVars, TreeInv, Placed, PlacedUpTo, ListOf, IsRoot, DistinctIds
<1> QED
  BY <1>2, <1>3, <1>4, <1>5, <1>6, <1>7, <1>8, <1>9, <1>10 DEF Next

(* What the invariant says of the finished tree.                           *)
LEMMA ForestOfPlaced ==
  ASSUME TypeOK, TreeInv, step = "done", DistinctIds, NEW n \in 1 .. Len(objectives)
  PROVE  /\ \E p \in Places(objectives[n].id) : Places(objectives[n].id) = {p}
         /\ Exported(objectives[n].id) <=> ~InCircle(objectives[n].id)
<1> DEFINE id == objectives[n].id
<1>1. PlacedUpTo(Len(objectives))
  BY DEF TreeInv, Placed
<1>2. \A m \in 1 .. Len(objectives) :
        /\ objectives[m].id \in Ids /\ objectives[m].parent \in Ids
        /\ ListOf(objectives[m]) \in Ids \cup {Top}
  BY IdOfObjective
<1>3. \A m \in 1 .. Len(objectives) : HasParent(objectives[m]) <=> ~IsRoot(objectives[m])
  <2> TAKE m \in 1 .. Len(objectives)
  <2>1. nodes[objectives[m].parent] # 0 <=>
          \E k \in 1 .. Len(objectives) : objectives[k].id = objectives[m].parent
    BY <1>2 DEF TreeInv
  <2> QED
    BY <2>1 DEF HasParent, IsRoot
<1>4. Len(objectives) \in Nat /\ \A l \in Ids \cup {Top} : Len(tree[l]) \in Nat
  BY DEF TypeOK
<1>5. \E p \in Places(id) : Places(id) = {p}
  <2> DEFINE list == ListOf(objectives[n])
  <2>1. PICK k \in 1 .. Len(tree[list]) : tree[list][k] = id
    BY <1>1 DEF PlacedUpTo
  <2>2. list \in Ids \cup {Top} /\ Len(tree[list]) <= Len(objectives)
    BY <1>1, <1>2 DEF PlacedUpTo
  <2>3. <<list, k>> \in Places(id)
    BY <1>4, <2>1, <2>2 DEF Places
  <2>4. ASSUME NEW p \in Places(id) PROVE p = <<list, k>>
    <3>1. PICK l \in Ids \cup {Top}, j \in 1 .. Len(objectives) :
            p = <<l, j>> /\ j <= Len(tree[l]) /\ tree[l][j] = id
      BY <2>4 DEF Places
    <3>2. j \in 1 .. Len(tree[l])
      BY <1>4, <3>1
    <3>3. PICK m \in 1 .. Len(objectives) : tree[l][j] = objectives[m].id /\ l = ListOf(objectives[m])
      BY <1>1, <3>2 DEF PlacedUpTo
    <3>4. m = n
      BY <3>1, <3>3 DEF DistinctIds
    <3>5. l = list
      BY <3>3, <3>4
    <3>6. j = k
      <4>1. \A q, r \in 1 .. Len(tree[list]) : tree[list][q] = tree[list][r] => q = r
        BY <1>1, <2>2 DEF PlacedUpTo
      <4>2. j \in 1 .. Len(tree[list]) /\ tree[list][j] = tree[list][k]
        BY <2>1, <3>1, <3>2, <3>5
      <4> HIDE DEF list
      <4> QED
        BY <4>1, <4>2
    <3> QED
      BY <3>1, <3>5, <3>6
  <2> QED
    BY <2>3, <2>4
<1>6. ASSUME InCircle(id), Exported(id) PROVE FALSE
  <2>1. PICK S \in SUBSET Ids :
          /\ id \in S
          /\ \A s \in S : \E m \in 1 .. Len(objectives) :
               objectives[m].id = s /\ HasParent(objectives[m]) /\ objectives[m].parent \in S
    BY <1>6 DEF InCircle
  <2>2. ASSUME NEW l \in (Ids \ S) \cup {Top}, NEW k \in 1 .. Len(tree[l])
        PROVE  tree[l][k] \in Ids \ S
    <3>1. PICK m \in 1 .. Len(objectives) : tree[l][k] = objectives[m].id /\ l = ListOf(objectives[m])
      BY <1>1 DEF PlacedUpTo
    <3>2. tree[l][k] \in Ids
      BY <1>2, <3>1
    <3>3. ASSUME tree[l][k] \in S PROVE FALSE
      <4>1. PICK q \in 1 .. Len(objectives) :
              /\ objectives[q].id = objectives[m].id
              /\ HasParent(objectives[q]) /\ objectives[q].parent \in S
        BY <2>1, <3>1, <3>3
      <4>2. q = m
        BY <4>1 DEF DistinctIds
      <4>3. l = objectives[m].parent
        BY <1>3, <3>1, <4>1, <4>2 DEF ListOf
      <4> QED
        BY <4>1, <4>2, <4>3, IdsAssumption
    <3> QED
      BY <3>2, <3>3
  <2>3. IsClosed(Ids \ S)
    BY <2>2 DEF IsClosed
  <2>4. id \in Ids \ S
    BY <1>6, <2>3 DEF Exported
  <2> QED
    BY <2>1, <2>4
<1>7. ASSUME ~Exported(id) PROVE InCircle(id)
  <2>1. PICK R \in SUBSET Ids : IsClosed(R) /\ id \notin R
    BY <1>7 DEF Exported
  <2> DEFINE S == {s \in Ids \ R : \E m \in 1 .. Len(objectives) : objectives[m].id = s}
  <2>2. id \in S /\ S \in SUBSET Ids
    BY <1>2, <2>1
  <2>3. ASSUME NEW s \in S
        PROVE  \E m \in 1 .. Len(objectives) :
                 objectives[m].id = s /\ HasParent(objectives[m]) /\ objectives[m].parent \in S
    <3>1. PICK m \in 1 .. Len(objectives) : objectives[m].id = s
      OBVIOUS
    <3> DEFINE l == ListOf(objectives[m])
    <3>2. PICK k \in 1 .. Len(tree[l]) : tree[l][k] = s
      BY <1>1, <3>1 DEF PlacedUpTo
    <3>3. l \notin R \cup {Top}
      <4>1. s \notin R
        OBVIOUS
      <4> HIDE DEF S, l
      <4> QED
        BY <2>1, <3>2, <4>1 DEF IsClosed
    <3>4. ~IsRoot(objectives[m]) /\ l = objectives[m].parent
      BY <3>3 DEF ListOf
    <3>5. HasParent(objectives[m])
      BY <1>3, <3>4
    <3>6. objectives[m].parent \in S
      BY <1>2, <3>3, <3>4, <3>5 DEF HasParent
    <3> QED
      BY <3>1, <3>5, <3>6
  <2> HIDE DEF S
  <2> QED
    BY <2>2, <2>3 DEF InCircle
<1> QED
  BY <1>5, <1>6, <1>7

(* For any objectives without a double id, the tree that OutputJson writes *)
(* is a forest that holds each of them once, and all of them but those     *)
(* whose parents go round in a circle (buildObjectiveTree).                *)
THEOREM ExportIsAForest == Spec => []ExportIsForest
<1>1. Init => TreeInv
  BY DEF Init, TreeInv
<1>2. TypeOK /\ TreeInv => ExportIsForest
  BY ForestOfPlaced DEF ExportIsForest
<1> QED
  BY <1>1, <1>2, TreeInvStep, TypeCorrect, PTL DEF Spec

-----------------------------------------------------------------------------
(* Sums: one function holds the sums of f over all subsets of its domain,  *)
(* and it does not matter which element of a subset is added last.         *)
IsSum(f, D, sum) ==
  /\ sum[{}] = 0
  /\ \A T \in SUBSET D : sum[T] \in Int /\ \A x \in T : sum[T] = f[x] + sum[T \ {x}]

Chosen(T) == CHOOSE x \in T : TRUE
SumStep(f, sum, T) == IF T = {} THEN 0 ELSE f[Chosen(T)] + sum[T \ {Chosen(T)}]
UpTo(D, n) == {T \in SUBSET D : Cardinality(T) <= n}

LEMMA ChosenTaken ==
  ASSUME NEW D, IsFiniteSet(D), NEW n \in Nat, NEW T \in UpTo(D, n + 1), NEW x \in T
  PROVE  T \ {x} \in UpTo(D, n) /\ Chosen(T) \in T
<1>1. IsFiniteSet(T) /\ T \in SUBSET D /\ Cardinality(T) <= n + 1
  BY FS_Subset DEF UpTo
<1>2. Cardinality(T) \in Nat /\ Cardinality(T \ {x}) = Cardinality(T) - 1
  BY <1>1, FS_CardinalityType, FS_RemoveElement
<1>3. Cardinality(T \ {x}) <= n
  BY <1>1, <1>2
<1> QED
  BY <1>1, <1>3 DEF UpTo, Chosen

LEMMA UpToNone ==
  ASSUME NEW D, IsFiniteSet(D)
  PROVE  UpTo(D, 0) = {{}}
<1>1. \A T \in SUBSET D : Cardinality(T) <= 0 <=> T = {}
  <2> SUFFICES ASSUME NEW T \in SUBSET D PROVE Cardinality(T) <= 0 <=> T = {}
    OBVIOUS
  <2>1. IsFiniteSet(T) /\ Cardinality(T) \in Nat
    BY FS_Subset, FS_CardinalityType
  <2>2. Cardinality(T) = 0 <=> T = {}
    BY <2>1, FS_EmptySet
  <2> QED
    BY <2>1, <2>2
<1> QED
  BY <1>1 DEF UpTo

LEMMA UpToAll ==
  ASSUME NEW D, IsFiniteSet(D)
  PROVE  Cardinality(D) \in Nat /\ UpTo(D, Cardinality(D)) = SUBSET D
BY FS_Subset, FS_CardinalityType DEF UpTo

LEMMA SumExists ==
  ASSUME NEW f, IsFiniteSet(DOMAIN f)
  PROVE  \E sum : sum = [T \in SUBSET DOMAIN f |-> SumStep(f, sum, T)]
<1> DEFINE D == DOMAIN f
           Sums(n, g) == g = [T \in UpTo(D, n) |-> SumStep(f, g, T)]
           S == {n \in Nat : \E g : Sums(n, g)}
<1> HIDE DEF D
<1>1. 0 \in S
  <2> DEFINE g == [T \in UpTo(D, 0) |-> 0]
  <2>1. \A h : \A T \in UpTo(D, 0) : SumStep(f, h, T) = 0
    BY UpToNone DEF SumStep, D
  <2>2. Sums(0, g)
    BY <2>1
  <2> QED
    BY <2>2
<1>2. ASSUME NEW n \in Nat, n \in S PROVE n + 1 \in S
  <2>1. PICK g : Sums(n, g)
    BY <1>2
  <2> DEFINE h == [T \in UpTo(D, n + 1) |-> SumStep(f, g, T)]
  <2>2. ASSUME NEW T \in UpTo(D, n + 1) PROVE SumStep(f, g, T) = SumStep(f, h, T)
    <3>1. CASE T = {}
      BY <3>1 DEF SumStep
    <3>2. CASE T # {}
      <4> DEFINE U == T \ {Chosen(T)}
      <4>1. Chosen(T) \in T
        BY <3>2 DEF Chosen
      <4>2. U \in UpTo(D, n)
        BY <4>1, ChosenTaken DEF D
      <4>3. U \in UpTo(D, n + 1)
        <5>1. Cardinality(U) \in Nat
          BY <4>2, FS_Subset, FS_CardinalityType DEF UpTo, D
        <5> QED
          BY <4>2, <5>1 DEF UpTo
      <4> HIDE DEF U
      <4>4. g[U] = SumStep(f, g, U)
        BY <2>1, <4>2
      <4>5. h[U] = SumStep(f, g, U)
        BY <4>3
      <4>6. g[U] = h[U]
        BY <4>4, <4>5
      <4> HIDE DEF h
      <4> QED
        BY <3>2, <4>6 DEF SumStep, U
    <3> QED
      BY <3>1, <3>2
  <2>3. Sums(n + 1, h)
    BY <2>2
  <2> HIDE DEF Sums, h
  <2> QED
    BY <2>3
<1>3. \A n \in Nat : n \in S
  <2> HIDE DEF S
  <2> QED
    BY <1>1, <1>2, SetInduction
<1>4. Cardinality(D) \in Nat /\ UpTo(D, Cardinality(D)) = SUBSET D
  BY UpToAll DEF D
<1> QED
  BY <1>3, <1>4 DEF D

LEMMA SumIs ==
  ASSUME NEW D, IsFiniteSet(D), NEW f, DOMAIN f = D, \A x \in D : f[x] \in Int
  PROVE  \E sum : IsSum(f, D, sum) /\ SumFunction(f) = sum[D]
<1> DEFINE Step(sum) == [T \in SUBSET D |-> SumStep(f, sum, T)]
           sum == CHOOSE g : g = Step(g)
<1>1. SumFunction(f) = sum[D]
  BY Zenon DEF SumFunction, SumFunctionOnSet, FoldFunctionOnSet, MapThenFoldSet, SumStep, Chosen
<1>2. sum = Step(sum)
  <2>1. \E g : g = Step(g)
    BY SumExists
  <2> HIDE DEF Step
  <2> QED
    BY <2>1
<1> HIDE DEF sum
<1>3. \A T \in SUBSET D : sum[T] = SumStep(f, sum, T)
  BY <1>2
<1> DEFINE InAnyOrder(T) == sum[T] \in Int /\ \A x \in T : sum[T] = f[x] + sum[T \ {x}]
           S == {n \in Nat : \A T \in UpTo(D, n) : InAnyOrder(T)}
<1>4. sum[{}] = 0
  BY <1>3 DEF SumStep
<1>5. 0 \in S
  <2>1. \A T \in UpTo(D, 0) : T = {}
    BY UpToNone
  <2>2. InAnyOrder({})
    BY <1>4
  <2> HIDE DEF InAnyOrder
  <2> QED
    BY <2>1, <2>2
<1>6. ASSUME NEW n \in Nat, n \in S PROVE n + 1 \in S
  <2> SUFFICES ASSUME NEW T \in UpTo(D, n + 1) PROVE InAnyOrder(T)
    OBVIOUS
  <2>1. ASSUME NEW U \in UpTo(D, n) PROVE InAnyOrder(U)
    BY <1>6
  <2>2. CASE T = {}
    BY <1>4, <2>2
  <2>3. CASE T # {}
    <3>1. PICK c : c = Chosen(T)
      OBVIOUS
    <3>2. c \in T
      BY <2>3, <3>1 DEF Chosen
    <3>3. \A x \in T : T \ {x} \in UpTo(D, n) /\ f[x] \in Int
      BY ChosenTaken DEF UpTo
    <3>4. sum[T] = f[c] + sum[T \ {c}]
      BY <1>3, <2>3, <3>1 DEF SumStep, UpTo
    <3>5. sum[T \ {c}] \in Int
      BY <2>1, <3>2, <3>3
    <3>6. ASSUME NEW x \in T, x # c PROVE sum[T] = f[x] + sum[T \ {x}]
      <4>1. PICK rest : rest = (T \ {c}) \ {x}
        OBVIOUS
      <4>2. rest = (T \ {x}) \ {c}
        BY <4>1
      <4>3. sum[T \ {c}] = f[x] + sum[rest]
        BY <2>1, <3>2, <3>3, <3>6, <4>1
      <4>4. sum[T \ {x}] = f[c] + sum[rest] /\ sum[T \ {x}] \in Int
        BY <2>1, <3>2, <3>3, <3>6, <4>2
      <4>5. sum[rest] \in Int
        <5>1. c \in T \ {x} /\ T \ {x} \in UpTo(D, n)
          BY <3>2, <3>3, <3>6
        <5>2. rest \in UpTo(D, n)
          <6>1. IsFiniteSet(T \ {x}) /\ T \ {x} \in SUBSET D
            BY <5>1, FS_Subset DEF UpTo
          <6>2. IsFiniteSet(rest) /\ Cardinality(rest) <= Cardinality(T \ {x})
            BY <4>2, <6>1, FS_Subset
          <6>3. Cardinality(rest) \in Nat /\ Cardinality(T \ {x}) \in Nat
            BY <6>1, <6>2, FS_CardinalityType
          <6>4. Cardinality(T \ {x}) <= n
            BY <5>1 DEF UpTo
          <6> QED
            BY <4>2, <6>1, <6>2, <6>3, <6>4 DEF UpTo
        <5> QED
          BY <2>1, <5>2
      <4>6. f[x] \in Int /\ f[c] \in Int
        BY <3>2, <3>3
      <4>7. \A p, q, r \in Int : p + (q + r) = q + (p + r)
        OBVIOUS
      <4>8. f[c] + (f[x] + sum[rest]) = f[x] + (f[c] + sum[rest])
        BY <4>5, <4>6, <4>7
      <4> QED
        BY <3>4, <4>3, <4>4, <4>8
    <3>7. sum[T] \in Int
      <4>1. f[c] \in Int
        BY <3>2, <3>3
      <4>2. f[c] + sum[T \ {c}] \in Int
        BY <3>5, <4>1
      <4> QED
        BY <3>4, <4>2
    <3> QED
      BY <3>4, <3>6, <3>7
  <2> QED
    BY <2>2, <2>3
<1>7. \A n \in Nat : n \in S
  <2> HIDE DEF S
  <2> QED
    BY <1>5, <1>6, SetInduction
<1>8. \A T \in SUBSET D : InAnyOrder(T)
  BY <1>7, UpToAll
<1> QED
  BY <1>1, <1>4, <1>8 DEF IsSum

(* The fields of a struct lie end to end: names has them in their order,   *)
(* at has the place of each in that order, and ends where each one ends.   *)
IsPlaced(f, names, at, ends, N, x) ==
  /\ f[x] \in Int /\ at[x] \in 1 .. N /\ names[at[x]] = x
  /\ at[x] # 1 => names[at[x] - 1] \in DOMAIN f /\ at[names[at[x] - 1]] = at[x] - 1
  /\ ends[at[x]] = f[x] + (IF at[x] = 1 THEN 0 ELSE ends[at[x] - 1])

LEMMA EndToEnd ==
  ASSUME NEW f, NEW names, NEW at, NEW ends, NEW N \in Nat \ {0},
         \A x \in DOMAIN f : IsPlaced(f, names, at, ends, N, x),
         names[N] \in DOMAIN f /\ at[names[N]] = N
  PROVE  SumFunction(f) = ends[N]
<1> DEFINE D == DOMAIN f
           First(k) == {x \in D : at[x] <= k}
           Named(k) == names[k] \in D /\ at[names[k]] = k
<1>1. \A x \in D : at[x] \in 1 .. N /\ names[at[x]] = x /\ f[x] \in Int
  BY DEF IsPlaced
<1>2. IsFiniteSet(D)
  <2> DEFINE g == [x \in D |-> at[x]]
  <2>1. g \in [D -> 1 .. N] /\ \A x, y \in D : g[x] = g[y] => x = y
    BY <1>1
  <2>2. g \in Injection(D, 1 .. N)
    BY <2>1 DEF Injection, IsInjective
  <2>3. IsFiniteSet(1 .. N)
    BY FS_Interval
  <2> HIDE DEF g, D
  <2> QED
    BY <2>2, <2>3, FS_Injection
<1>3. PICK sum : IsSum(f, D, sum) /\ SumFunction(f) = sum[D]
  BY <1>1, <1>2, SumIs
<1>4. \A k \in 1 .. N : Named(k)
  <2> DEFINE S == {j \in Nat : j < N => Named(N - j)}
  <2>1. 0 \in S
    <3>1. N - 0 = N
      OBVIOUS
    <3> QED
      BY <3>1
  <2>2. ASSUME NEW j \in Nat, j \in S PROVE j + 1 \in S
    <3> SUFFICES ASSUME j + 1 < N PROVE Named(N - (j + 1))
      OBVIOUS
    <3>1. PICK k : k = N - j
      OBVIOUS
    <3>2. k \in Nat /\ k # 1 /\ N - (j + 1) = k - 1
      BY <3>1
    <3>3. Named(k)
      BY <2>2, <3>1
    <3>4. Named(k - 1)
      BY <3>2, <3>3 DEF IsPlaced
    <3> QED
      BY <3>2, <3>4
  <2>3. \A j \in Nat : j \in S
    <3> HIDE DEF S
    <3> QED
      BY <2>1, <2>2, SetInduction
  <2> SUFFICES ASSUME NEW k \in 1 .. N PROVE Named(k)
    OBVIOUS
  <2>4. N - k \in Nat /\ N - k < N /\ N - (N - k) = k
    OBVIOUS
  <2> HIDE DEF Named
  <2> QED
    BY <2>3, <2>4
<1>5. ASSUME NEW k \in 1 .. N
      PROVE  /\ names[k] \in First(k) /\ First(k) \ {names[k]} = First(k - 1)
             /\ First(k) \in SUBSET D /\ f[names[k]] \in Int
             /\ ends[k] = f[names[k]] + (IF k = 1 THEN 0 ELSE ends[k - 1])
  <2>1. Named(k)
    BY <1>4
  <2>2. names[k] \in First(k) /\ f[names[k]] \in Int
    BY <1>1, <2>1
  <2>3. ASSUME NEW x \in D PROVE (at[x] <= k /\ x # names[k]) <=> at[x] <= k - 1
    <3>1. at[x] = k => x = names[k]
      BY <1>1
    <3>2. at[x] \in Nat /\ k \in Nat
      BY <1>1
    <3>3. x = names[k] => at[x] = k
      BY <2>1
    <3> QED
      BY <3>1, <3>2, <3>3
  <2>4. ends[k] = f[names[k]] + (IF k = 1 THEN 0 ELSE ends[k - 1])
    BY <2>1 DEF IsPlaced
  <2>5. First(k) \ {names[k]} = First(k - 1)
    BY <2>3
  <2> QED
    BY <2>2, <2>4, <2>5
<1> DEFINE S == {k \in Nat : k \in 1 .. N => sum[First(k)] = ends[k] /\ sum[First(k)] \in Int}
<1>6. First(0) = {} /\ First(N) = D
  BY <1>1
<1>7. 0 \in S
  OBVIOUS
<1>8. ASSUME NEW k \in Nat, k \in S PROVE k + 1 \in S
  <2> SUFFICES ASSUME k + 1 \in 1 .. N
               PROVE  sum[First(k + 1)] = ends[k + 1] /\ sum[First(k + 1)] \in Int
    OBVIOUS
  <2> DEFINE x == names[k + 1]
  <2>1. (k + 1) - 1 = k
    OBVIOUS
  <2>2. /\ x \in First(k + 1) /\ First(k + 1) \ {x} = First(k)
        /\ First(k + 1) \in SUBSET D /\ f[x] \in Int
        /\ ends[k + 1] = f[x] + (IF k + 1 = 1 THEN 0 ELSE ends[k])
    BY <1>5, <2>1
  <2> HIDE DEF D, First, x
  <2>3. sum[First(k + 1)] = f[x] + sum[First(k)] /\ sum[First(k + 1)] \in Int
    BY <1>3, <2>2 DEF IsSum
  <2>4. CASE k = 0
    <3>1. sum[First(k)] = 0
      BY <1>3, <1>6, <2>4 DEF IsSum
    <3> QED
      BY <2>2, <2>3, <2>4, <3>1
  <2>5. CASE k # 0
    <3>1. k \in 1 .. N /\ k + 1 # 1
      BY <2>5
    <3>2. sum[First(k)] = ends[k]
      BY <1>8, <3>1
    <3> QED
      BY <2>2, <2>3, <3>1, <3>2
  <2> QED
    BY <2>4, <2>5
<1>9. N \in S
  <2> HIDE DEF S
  <2> QED
    BY <1>7, <1>8, SetInduction
<1>10. sum[First(N)] = ends[N]
  BY <1>9
<1> QED
  BY <1>3, <1>6, <1>10

-----------------------------------------------------------------------------
LEMMA TwoFields ==
  ASSUME NEW f, NEW a, NEW b, a # b, DOMAIN f = {a, b}, f[a] \in Int, f[b] \in Int
  PROVE  SumFunction(f) = f[a] + f[b]
<1> DEFINE names == <<a, b>>
           at == [x \in {a, b} |-> IF x = a THEN 1 ELSE 2]
           ends == <<f[a], f[a] + f[b]>>
<1>1. \A x \in DOMAIN f : IsPlaced(f, names, at, ends, 2, x)
  BY DEF IsPlaced
<1>2. names[2] \in DOMAIN f /\ at[names[2]] = 2 /\ ends[2] = f[a] + f[b]
  OBVIOUS
<1> HIDE DEF names, at, ends
<1>3. SumFunction(f) = ends[2]
  <2>1. names[2] \in DOMAIN f /\ at[names[2]] = 2
    BY <1>2
  <2> QED
    BY ONLY <1>1, <2>1, EndToEnd
<1> QED
  BY <1>2, <1>3

(* The sizes of the structs of a fixed size.                               *)
LEMMA VU_IDSize == Size(VU_ID) = 8
BY TwoFields DEF VU_ID, Size

LEMMA CampaignBaseSize == Size(CampaignBase) = 29
<1> DEFINE names == <<"ID", "EntityType", "X", "Y", "Z", "SpotTime",
                      "Spotted", "BaseFlags", "Owner", "CampID">>
           at == [ID |-> 1, EntityType |-> 2, X |-> 3, Y |-> 4, Z |-> 5,
                  SpotTime |-> 6, Spotted |-> 7, BaseFlags |-> 8, Owner |-> 9,
                  CampID |-> 10]
           ends == <<8, 10, 12, 14, 18, 22, 24, 26, 27, 29>>
<1>1. \A x \in DOMAIN CampaignBase : IsPlaced(CampaignBase, names, at, ends, 10, x)
  BY VU_IDSize DEF CampaignBase, IsPlaced
<1>2. names[10] \in DOMAIN CampaignBase /\ at[names[10]] = 10 /\ ends[10] = 29
  BY DEF CampaignBase
<1> HIDE DEF names, at, ends
<1> QED
  BY <1>1, <1>2, EndToEnd DEF Size

LEMMA CampObjectiveLinkDataTypeSize == Size(CampObjectiveLinkDataType) = 16
BY VU_IDSize, TwoFields DEF CampObjectiveLinkDataType, Size

LEMMA ObjectiveFieldsSize == Size(ObjectiveFields) = 160
<1> DEFINE names == <<"CampaignBase", "LastRepair", "ObjFlags", "Supply",
                      "Fuel", "Losses", "Priority", "NameID", "ParentID",
                      "FirstOwner", "PosX", "PosY", "PosZ", "Heading",
                      "CampName">>
           at == [CampaignBase |-> 1, LastRepair |-> 2, ObjFlags |-> 3,
                  Supply |-> 4, Fuel |-> 5, Losses |-> 6, Priority |-> 7,
                  NameID |-> 8, ParentID |-> 9, FirstOwner |-> 10,
                  PosX |-> 11, PosY |-> 12, PosZ |-> 13, Heading |-> 14,
                  CampName |-> 15]
           ends == <<29, 33, 37, 38, 39, 40, 41, 43, 51, 52, 60, 68, 76, 80,
                     160>>
<1>1. \A x \in DOMAIN ObjectiveFields : IsPlaced(ObjectiveFields, names, at, ends, 15, x)
  BY CampaignBaseSize, VU_IDSize DEF ObjectiveFields, IsPlaced
<1>2. names[15] \in DOMAIN ObjectiveFields /\ at[names[15]] = 15 /\ ends[15] = 160
  BY DEF ObjectiveFields
<1> HIDE DEF names, at, ends
<1> QED
  BY <1>1, <1>2, EndToEnd DEF Size

LEMMA ObjectiveDeltaFieldsSize == Size(ObjectiveDeltaFields) = 16
<1> DEFINE names == <<"ID", "LastRepair", "Owner", "Supply", "Fuel", "Losses">>
           at == [ID |-> 1, LastRepair |-> 2, Owner |-> 3, Supply |-> 4,
                  Fuel |-> 5, Losses |-> 6]
           ends == <<8, 12, 13, 14, 15, 16>>
<1>1. \A x \in DOMAIN ObjectiveDeltaFields : IsPlaced(ObjectiveDeltaFields, names, at, ends, 6, x)
  BY VU_IDSize DEF ObjectiveDeltaFields, IsPlaced
<1>2. names[6] \in DOMAIN ObjectiveDeltaFields /\ at[names[6]] = 6 /\ ends[6] = 16
  BY DEF ObjectiveDeltaFields
<1> HIDE DEF names, at, ends
<1> QED
  BY <1>1, <1>2, EndToEnd DEF Size

LEMMA TargetSize == Size(Target) = 9
BY VU_IDSize, TwoFields DEF Target, Size

LEMMA WaypointTargetDataSize == Size(WaypointTargetData) = 45
BY TargetSize, TwoFields DEF WaypointTargetData, Size

LEMMA WaypointFieldsSize == Size(WaypointFields) = 18
<1> DEFINE names == <<"Haves", "GridX", "GridY", "GridZ", "Arrive", "Action",
                      "RouteAction", "Formation", "Flags">>
           at == [Haves |-> 1, GridX |-> 2, GridY |-> 3, GridZ |-> 4,
                  Arrive |-> 5, Action |-> 6, RouteAction |-> 7,
                  Formation |-> 8, Flags |-> 9]
           ends == <<1, 3, 5, 7, 11, 12, 13, 14, 18>>
<1>1. \A x \in DOMAIN WaypointFields : IsPlaced(WaypointFields, names, at, ends, 9, x)
  BY DEF WaypointFields, IsPlaced
<1>2. names[9] \in DOMAIN WaypointFields /\ at[names[9]] = 9 /\ ends[9] = 18
  BY DEF WaypointFields
<1> HIDE DEF names, at, ends
<1> QED
  BY <1>1, <1>2, EndToEnd DEF Size

LEMMA UnitFieldsSize == Size(UnitFields) = 72
<1> DEFINE names == <<"CampaignBase", "LastCheck", "Roster", "UnitFlags",
                      "DestX", "DestY", "TargetID", "CargoID", "Moved",
                      "Losses", "Tactic", "CurrentWP", "NameID",
                      "Reinforcement", "NumWaypoints">>
           at == [CampaignBase |-> 1, LastCheck |-> 2, Roster |-> 3,
                  UnitFlags |-> 4, DestX |-> 5, DestY |-> 6, TargetID |-> 7,
                  CargoID |-> 8, Moved |-> 9, Losses |-> 10, Tactic |-> 11,
                  CurrentWP |-> 12, NameID |-> 13, Reinforcement |-> 14,
                  NumWaypoints |-> 15]
           ends == <<29, 33, 37, 41, 43, 45, 53, 61, 62, 63, 64, 66, 68, 70,
                     72>>
<1>1. \A x \in DOMAIN UnitFields : IsPlaced(UnitFields, names, at, ends, 15, x)
  BY CampaignBaseSize, VU_IDSize DEF UnitFields, IsPlaced
<1>2. names[15] \in DOMAIN UnitFields /\ at[names[15]] = 15 /\ ends[15] = 72
  BY DEF UnitFields
<1> HIDE DEF names, at, ends
<1> QED
  BY <1>1, <1>2, EndToEnd DEF Size

LEMMA BattalionFieldsSize == Size(BattalionFields) = 30
<1> DEFINE names == <<"LastMove", "LastCombat", "ParentID", "LastObj",
                      "Supply", "Fatigue", "Morale", "Heading",
                      "FinalHeading", "Position">>
           at == [LastMove |-> 1, LastCombat |-> 2, ParentID |-> 3,
                  LastObj |-> 4, Supply |-> 5, Fatigue |-> 6, Morale |-> 7,
                  Heading |-> 8, FinalHeading |-> 9, Position |-> 10]
           ends == <<4, 8, 16, 24, 25, 26, 27, 28, 29, 30>>
<1>1. \A x \in DOMAIN BattalionFields : IsPlaced(BattalionFields, names, at, ends, 10, x)
  BY VU_IDSize DEF BattalionFields, IsPlaced
<1>2. names[10] \in DOMAIN BattalionFields /\ at[names[10]] = 10 /\ ends[10] = 30
  BY DEF BattalionFields
<1> HIDE DEF names, at, ends
<1> QED
  BY <1>1, <1>2, EndToEnd DEF Size

LEMMA PilotSize == Size(Pilot) = 10
<1> DEFINE names == <<"PilotID", "Skill", "Status", "AAKills", "AGKills",
                      "ASKills", "ANKills", "MissionsFlown">>
           at == [PilotID |-> 1, Skill |-> 2, Status |-> 3, AAKills |-> 4,
                  AGKills |-> 5, ASKills |-> 6, ANKills |-> 7,
                  MissionsFlown |-> 8]
           ends == <<2, 3, 4, 5, 6, 7, 8, 10>>
<1>1. \A x \in DOMAIN Pilot : IsPlaced(Pilot, names, at, ends, 8, x)
  BY DEF Pilot, IsPlaced
<1>2. names[8] \in DOMAIN Pilot /\ at[names[8]] = 8 /\ ends[8] = 10
  BY DEF Pilot
<1> HIDE DEF names, at, ends
<1> QED
  BY <1>1, <1>2, EndToEnd DEF Size

LEMMA SquadronFieldsSize == Size(SquadronFields) = 1622
<1> DEFINE names == <<"Fuel", "Speciality", "CampSpecRoleRating", "Stores",
                      "Pilots", "Schedule", "AirbaseID", "Hotspot", "Rating",
                      "AAKills", "AGKills", "ASKills", "ANKills",
                      "MissionsFlown", "MissionScore", "TotalLosses",
                      "PilotLosses", "SquadronPatch", "SquadronRetaskAt",
                      "Relocate", "TexSet">>
           at == [Fuel |-> 1, Speciality |-> 2, CampSpecRoleRating |-> 3,
                  Stores |-> 4, Pilots |-> 5, Schedule |-> 6, AirbaseID |-> 7,
                  Hotspot |-> 8, Rating |-> 9, AAKills |-> 10, AGKills |-> 11,
                  ASKills |-> 12, ANKills |-> 13, MissionsFlown |-> 14,
                  MissionScore |-> 15, TotalLosses |-> 16, PilotLosses |-> 17,
                  SquadronPatch |-> 18, SquadronRetaskAt |-> 19,
                  Relocate |-> 20, TexSet |-> 21]
           ends == <<4, 5, 21, 1021, 1501, 1565, 1573, 1581, 1597, 1599,
                     1601, 1603, 1605, 1607, 1609, 1610, 1611, 1613, 1617,
                     1618, 1622>>
<1>1. \A x \in DOMAIN SquadronFields : IsPlaced(SquadronFields, names, at, ends, 21, x)
  <2>1. 48 * Size(Pilot) = 480
    BY PilotSize
  <2>2. \A x \in DOMAIN SquadronFields :
       at[x] \in 1 .. 21 /\ names[at[x]] = x
    BY DEF SquadronFields
  <2>3. \A x \in DOMAIN SquadronFields : SquadronFields[x] \in Int
    BY VU_IDSize, <2>1 DEF SquadronFields
  <2>4. \A x \in DOMAIN SquadronFields :
       at[x] # 1 => names[at[x] - 1] \in DOMAIN SquadronFields
    BY DEF SquadronFields
  <2>5. \A x \in DOMAIN SquadronFields :
       at[x] # 1 => at[names[at[x] - 1]] = at[x] - 1
    BY DEF SquadronFields
  <2>6. \A x \in DOMAIN SquadronFields :
       ends[at[x]] = SquadronFields[x] + (IF at[x] = 1 THEN 0 ELSE ends[at[x] - 1])
    BY VU_IDSize, <2>1 DEF SquadronFields
  <2> HIDE DEF names, at, ends
  <2> QED
    BY <2>2, <2>3, <2>4, <2>5, <2>6 DEF IsPlaced
<1>2. names[21] \in DOMAIN SquadronFields /\ at[names[21]] = 21 /\ ends[21] = 1622
  BY DEF SquadronFields
<1> HIDE DEF names, at, ends
<1> QED
  BY <1>1, <1>2, EndToEnd DEF Size

LEMMA LoadoutSize == Size(Loadout) = 48
BY TwoFields DEF Loadout, Size

LEMMA FlightFieldsSize == Size(FlightFields) = 133
<1> DEFINE names == <<"Z", "FuelBurnt", "FuelInitial", "LaserCode",
                      "LastMove", "LastCombat", "TimeOnTarget",
                      "MissionOverTime", "MissionTarget", "Loadouts",
                      "Mission", "OldMission", "LastDirection", "Priority",
                      "MissionID", "EvalFlags", "MissionContext", "Package",
                      "Squadron", "Requester", "Slots", "Pilots",
                      "PlaneStats", "PlayerSlots", "LastPlayerSlot",
                      "CallsignID", "CallsignNum", "RefuelQuantity",
                      "TexSet", "TacanChannel", "TacanBand", "LoadedCft">>
           at == [Z |-> 1, FuelBurnt |-> 2, FuelInitial |-> 3,
                  LaserCode |-> 4, LastMove |-> 5, LastCombat |-> 6,
                  TimeOnTarget |-> 7, MissionOverTime |-> 8,
                  MissionTarget |-> 9, Loadouts |-> 10, Mission |-> 11,
                  OldMission |-> 12, LastDirection |-> 13, Priority |-> 14,
                  MissionID |-> 15, EvalFlags |-> 16, MissionContext |-> 17,
                  Package |-> 18, Squadron |-> 19, Requester |-> 20,
                  Slots |-> 21, Pilots |-> 22, PlaneStats |-> 23,
                  PlayerSlots |-> 24, LastPlayerSlot |-> 25,
                  CallsignID |-> 26, CallsignNum |-> 27,
                  RefuelQuantity |-> 28, TexSet |-> 29, TacanChannel |-> 30,
                  TacanBand |-> 31, LoadedCft |-> 32]
           ends == <<4, 8, 24, 32, 36, 40, 44, 48, 50, 51, 52, 53, 54, 55,
                     56, 57, 58, 66, 74, 82, 86, 90, 94, 98, 99, 100, 101,
                     105, 121, 125, 129, 133>>
<1>1. \A x \in DOMAIN FlightFields : IsPlaced(FlightFields, names, at, ends, 32, x)
  <2>1. \A x \in DOMAIN FlightFields :
       at[x] \in 1 .. 32 /\ names[at[x]] = x
    BY DEF FlightFields
  <2>2. \A x \in DOMAIN FlightFields : FlightFields[x] \in Int
    BY VU_IDSize DEF FlightFields
  <2>3. \A x \in DOMAIN FlightFields :
       at[x] # 1 => names[at[x] - 1] \in DOMAIN FlightFields
    BY DEF FlightFields
  <2>4. \A x \in DOMAIN FlightFields :
       at[x] # 1 => at[names[at[x] - 1]] = at[x] - 1
    BY DEF FlightFields
  <2>5. \A x \in DOMAIN FlightFields :
       ends[at[x]] = FlightFields[x] + (IF at[x] = 1 THEN 0 ELSE ends[at[x] - 1])
    BY VU_IDSize DEF FlightFields
  <2> HIDE DEF names, at, ends
  <2> QED
    BY <2>1, <2>2, <2>3, <2>4, <2>5 DEF IsPlaced
<1>2. names[32] \in DOMAIN FlightFields /\ at[names[32]] = 32 /\ ends[32] = 133
  BY DEF FlightFields
<1> HIDE DEF names, at, ends
<1> QED
  BY <1>1, <1>2, EndToEnd DEF Size

LEMMA MissionRequestSize == Size(MissionRequest) = 31
<1> DEFINE names == <<"Requests", "Responses", "MRMission", "MRAircraft",
                      "MRContext", "MRRoeCheck", "Requester", "Target",
                      "MRTot", "MRActionType", "MRPriority">>
           at == [Requests |-> 1, Responses |-> 2, MRMission |-> 3,
                  MRAircraft |-> 4, MRContext |-> 5, MRRoeCheck |-> 6,
                  Requester |-> 7, Target |-> 8, MRTot |-> 9,
                  MRActionType |-> 10, MRPriority |-> 11]
           ends == <<2, 4, 5, 6, 7, 8, 16, 24, 28, 29, 31>>
<1>1. \A x \in DOMAIN MissionRequest : IsPlaced(MissionRequest, names, at, ends, 11, x)
  BY VU_IDSize DEF MissionRequest, IsPlaced
<1>2. names[11] \in DOMAIN MissionRequest /\ at[names[11]] = 11 /\ ends[11] = 31
  BY DEF MissionRequest
<1> HIDE DEF names, at, ends
<1> QED
  BY <1>1, <1>2, EndToEnd DEF Size

LEMMA PackageFieldsSize == Size(PackageFields) = 42
<1> DEFINE names == <<"NumElements", "Interceptor", "Awacs", "JStar", "ECM",
                      "Tanker", "WaitCycles">>
           at == [NumElements |-> 1, Interceptor |-> 2, Awacs |-> 3,
                  JStar |-> 4, ECM |-> 5, Tanker |-> 6, WaitCycles |-> 7]
           ends == <<1, 9, 17, 25, 33, 41, 42>>
<1>1. \A x \in DOMAIN PackageFields : IsPlaced(PackageFields, names, at, ends, 7, x)
  BY VU_IDSize DEF PackageFields, IsPlaced
<1>2. names[7] \in DOMAIN PackageFields /\ at[names[7]] = 7 /\ ends[7] = 42
  BY DEF PackageFields
<1> HIDE DEF names, at, ends
<1> QED
  BY <1>1, <1>2, EndToEnd DEF Size

LEMMA TeamBasicInfoSize == Size(TeamBasicInfo) = 222
<1> DEFINE names == <<"TeamFlag", "TeamColor", "TeamName", "TeamMottoBytes">>
           at == [TeamFlag |-> 1, TeamColor |-> 2, TeamName |-> 3,
                  TeamMottoBytes |-> 4]
           ends == <<1, 2, 22, 222>>
<1>1. \A x \in DOMAIN TeamBasicInfo : IsPlaced(TeamBasicInfo, names, at, ends, 4, x)
  BY DEF TeamBasicInfo, IsPlaced
<1>2. names[4] \in DOMAIN TeamBasicInfo /\ at[names[4]] = 4 /\ ends[4] = 222
  BY DEF TeamBasicInfo
<1> HIDE DEF names, at, ends
<1> QED
  BY <1>1, <1>2, EndToEnd DEF Size

LEMMA SquadInfoSize == Size(SquadInfo) = 196
<1> DEFINE names == <<"X", "Y", "ID", "DescriptionIndex", "NameID",
                      "AirbaseIcon", "SquadronPatch", "Speciality",
                      "CurrentStrength", "Country", "AirbaseName", "Flags",
                      "CampID", "TexSet", "Padd", "SquadronName">>
           at == [X |-> 1, Y |-> 2, ID |-> 3, DescriptionIndex |-> 4,
                  NameID |-> 5, AirbaseIcon |-> 6, SquadronPatch |-> 7,
                  Speciality |-> 8, CurrentStrength |-> 9, Country |-> 10,
                  AirbaseName |-> 11, Flags |-> 12, CampID |-> 13,
                  TexSet |-> 14, Padd |-> 15, SquadronName |-> 16]
           ends == <<4, 8, 16, 18, 20, 22, 24, 25, 26, 27, 107, 111, 113,
                     115, 116, 196>>
<1>1. \A x \in DOMAIN SquadInfo : IsPlaced(SquadInfo, names, at, ends, 16, x)
  BY VU_IDSize DEF SquadInfo, IsPlaced
<1>2. names[16] \in DOMAIN SquadInfo /\ at[names[16]] = 16 /\ ends[16] = 196
  BY DEF SquadInfo
<1> HIDE DEF names, at, ends
<1> QED
  BY <1>1, <1>2, EndToEnd DEF Size

LEMMA EventFieldsSize == Size(EventFields) = 22
<1> DEFINE names == <<"X", "Y", "Time", "Flags", "Team", "Padd", "TextLen">>
           at == [X |-> 1, Y |-> 2, Time |-> 3, Flags |-> 4, Team |-> 5,
                  Padd |-> 6, TextLen |-> 7]
           ends == <<2, 4, 8, 9, 10, 20, 22>>
<1>1. \A x \in DOMAIN EventFields : IsPlaced(EventFields, names, at, ends, 7, x)
  BY DEF EventFields, IsPlaced
<1>2. names[7] \in DOMAIN EventFields /\ at[names[7]] = 7 /\ ends[7] = 22
  BY DEF EventFields
<1> HIDE DEF names, at, ends
<1> QED
  BY <1>1, <1>2, EndToEnd DEF Size

LEMMA CampaignFieldsSize == Size(CampaignFields) = 2145
<1> DEFINE names == <<"CurrentTime", "TeStartTime", "TeTimeLimit",
                      "VictoryPoints", "TeType", "TeNumberTeams",
                      "TeNumberAircraft", "TeNumberF16", "TeTeam",
                      "TeTeamPts", "TeFlags", "Info", "LastMajorEvent",
                      "LastResupply", "LastRepair", "LastReinforcement",
                      "Timestamp", "Group", "GroundRatio", "AirRatio",
                      "AirDefenseRatio", "NavalRatio", "Brief",
                      "TheaterSizeX", "TheaterSizeY", "CurrentDay",
                      "ActiveTeams", "DayZero", "EndgameResult", "Situation",
                      "EnemyAirExp", "EnemyADExp", "BullseyeName",
                      "BullseyeX", "BullseyeY", "TheaterName", "Scenario",
                      "SaveFile", "UiName", "SquadronID", "NumRecentEvents",
                      "NumPriorityEvents", "CampMapSize", "LastIndexNo",
                      "NumAvailableSquadrons", "Tempo", "CreatorIP",
                      "CreationTime", "CreationRand", "CampPeriodStart",
                      "CampPeriodEnd">>
           at == [CurrentTime |-> 1, TeStartTime |-> 2, TeTimeLimit |-> 3,
                  VictoryPoints |-> 4, TeType |-> 5, TeNumberTeams |-> 6,
                  TeNumberAircraft |-> 7, TeNumberF16 |-> 8, TeTeam |-> 9,
                  TeTeamPts |-> 10, TeFlags |-> 11, Info |-> 12,
                  LastMajorEvent |-> 13, LastResupply |-> 14,
                  LastRepair |-> 15, LastReinforcement |-> 16,
                  Timestamp |-> 17, Group |-> 18, GroundRatio |-> 19,
                  AirRatio |-> 20, AirDefenseRatio |-> 21, NavalRatio |-> 22,
                  Brief |-> 23, TheaterSizeX |-> 24, TheaterSizeY |-> 25,
                  CurrentDay |-> 26, ActiveTeams |-> 27, DayZero |-> 28,
                  EndgameResult |-> 29, Situation |-> 30, EnemyAirExp |-> 31,
                  EnemyADExp |-> 32, BullseyeName |-> 33, BullseyeX |-> 34,
                  BullseyeY |-> 35, TheaterName |-> 36, Scenario |-> 37,
                  SaveFile |-> 38, UiName |-> 39, SquadronID |-> 40,
                  NumRecentEvents |-> 41, NumPriorityEvents |-> 42,
                  CampMapSize |-> 43, LastIndexNo |-> 44,
                  NumAvailableSquadrons |-> 45, Tempo |-> 46,
                  CreatorIP |-> 47, CreationTime |-> 48, CreationRand |-> 49,
                  CampPeriodStart |-> 50, CampPeriodEnd |-> 51]
           ends == <<4, 8, 12, 16, 20, 24, 56, 88, 92, 124, 128, 1904, 1908,
                     1912, 1916, 1920, 1922, 1924, 1926, 1928, 1930, 1932,
                     1934, 1936, 1938, 1939, 1940, 1941, 1942, 1943, 1944,
                     1945, 1946, 1948, 1950, 1990, 2030, 2070, 2110, 2118,
                     2120, 2122, 2124, 2126, 2128, 2129, 2133, 2137, 2141,
                     2143, 2145>>
<1>1. \A x \in DOMAIN CampaignFields : IsPlaced(CampaignFields, names, at, ends, 51, x)
  <2>1. 8 * Size(TeamBasicInfo) = 1776
    BY TeamBasicInfoSize
  <2>2. \A x \in DOMAIN CampaignFields :
       at[x] \in 1 .. 51 /\ names[at[x]] = x
    BY DEF CampaignFields
  <2>3. \A x \in DOMAIN CampaignFields : CampaignFields[x] \in Int
    BY VU_IDSize, <2>1 DEF CampaignFields
  <2>4. \A x \in DOMAIN CampaignFields :
       at[x] # 1 => names[at[x] - 1] \in DOMAIN CampaignFields
    BY DEF CampaignFields
  <2>5. \A x \in DOMAIN CampaignFields :
       at[x] # 1 => at[names[at[x] - 1]] = at[x] - 1
    BY DEF CampaignFields
  <2>6. \A x \in DOMAIN CampaignFields :
       ends[at[x]] = CampaignFields[x] + (IF at[x] = 1 THEN 0 ELSE ends[at[x] - 1])
    BY VU_IDSize, <2>1 DEF CampaignFields
  <2> HIDE DEF names, at, ends
  <2> QED
    BY <2>2, <2>3, <2>4, <2>5, <2>6 DEF IsPlaced
<1>2. names[51] \in DOMAIN CampaignFields /\ at[names[51]] = 51 /\ ends[51] = 2145
  BY DEF CampaignFields
<1> HIDE DEF names, at, ends
<1> QED
  BY <1>1, <1>2, EndToEnd DEF Size

-----------------------------------------------------------------------------
(* The readers move the cursor on by the size of what they read.           *)
LEMMA ListSum ==
  ASSUME NEW n \in Nat, NEW list, DOMAIN list = 1 .. n, \A k \in 1 .. n : list[k] \in Int
  PROVE  SumFunction(list) \in Int
<1>1. IsFiniteSet(1 .. n)
  BY FS_Interval
<1>2. PICK sum : IsSum(list, 1 .. n, sum) /\ SumFunction(list) = sum[1 .. n]
  BY <1>1, SumIs
<1> QED
  BY <1>2 DEF IsSum

(* Adding as much to each of a list's numbers adds up.                     *)
IsMore(n, list, more, d) ==
  /\ n \in Nat /\ d \in Int
  /\ DOMAIN list = 1 .. n /\ \A k \in 1 .. n : list[k] \in Int
  /\ DOMAIN more = 1 .. n /\ \A k \in 1 .. n : more[k] = d + list[k]

LEMMA ListSums ==
  ASSUME NEW n, NEW list, NEW more, NEW d, IsMore(n, list, more, d)
  PROVE  /\ SumFunction(list) \in Int
         /\ SumFunction(more) = n * d + SumFunction(list)
<1> USE DEF IsMore
<1>1. IsFiniteSet(1 .. n)
  BY FS_Interval
<1>2. PICK s : IsSum(list, 1 .. n, s) /\ SumFunction(list) = s[1 .. n]
  BY <1>1, SumIs
<1>3. PICK t : IsSum(more, 1 .. n, t) /\ SumFunction(more) = t[1 .. n]
  <2>1. \A k \in 1 .. n : more[k] \in Int
    OBVIOUS
  <2> QED
    BY <1>1, <2>1, SumIs
<1> DEFINE S == {m \in Nat : m <= n => /\ s[1 .. m] \in Int
                                       /\ t[1 .. m] = m * d + s[1 .. m]}
<1>4. 0 \in S
  <2>1. 1 .. 0 = {} /\ 0 * d = 0
    OBVIOUS
  <2>2. s[1 .. 0] = 0 /\ t[1 .. 0] = 0
    BY <1>2, <1>3, <2>1 DEF IsSum
  <2> QED
    BY <2>1, <2>2
<1>5. ASSUME NEW m \in Nat, m \in S PROVE m + 1 \in S
  <2> SUFFICES ASSUME m + 1 <= n
               PROVE  s[1 .. m + 1] \in Int /\ t[1 .. m + 1] = (m + 1) * d + s[1 .. m + 1]
    OBVIOUS
  <2>1. s[1 .. m] \in Int /\ t[1 .. m] = m * d + s[1 .. m]
    BY <1>5
  <2>2. /\ 1 .. m + 1 \in SUBSET (1 .. n) /\ m + 1 \in 1 .. m + 1
        /\ (1 .. m + 1) \ {m + 1} = 1 .. m
    OBVIOUS
  <2>3. s[1 .. m + 1] = list[m + 1] + s[1 .. m] /\ s[1 .. m + 1] \in Int
    <3>1. \A T \in SUBSET (1 .. n) : s[T] \in Int /\ \A x \in T : s[T] = list[x] + s[T \ {x}]
      BY ONLY <1>2 DEF IsSum
    <3> QED
      BY ONLY <2>2, <3>1
  <2>4. t[1 .. m + 1] = more[m + 1] + t[1 .. m]
    <3>1. \A T \in SUBSET (1 .. n) : t[T] \in Int /\ \A x \in T : t[T] = more[x] + t[T \ {x}]
      BY ONLY <1>3 DEF IsSum
    <3> QED
      BY ONLY <2>2, <3>1
  <2>5. more[m + 1] = d + list[m + 1] /\ list[m + 1] \in Int
    BY <2>2
  <2>6. (m + 1) * d = m * d + d /\ m * d \in Int
    OBVIOUS
  <2> QED
    BY <2>1, <2>3, <2>4, <2>5, <2>6
<1>6. n \in S
  <2> HIDE DEF S
  <2> QED
    BY <1>4, <1>5, SetInduction
<1> QED
  BY <1>2, <1>3, <1>6

LEMMA ObjectiveRead ==
  ASSUME NEW o, o.statuses \in Nat, o.links \in Nat
  PROVE  readObjective(o) = Objective(o)
BY VU_IDSize, CampObjectiveLinkDataTypeSize, ObjectiveFieldsSize
   DEF readObjective, Objective, readCampaignBase, readVU_ID, readCampObjectiveLinkDataType,
       U8, U16, U32, U64

LEMMA DeltaRead ==
  ASSUME NEW d, d.statuses \in Nat
  PROVE  readObjectiveDeltas(d) = ObjectiveDeltas(d)
BY ObjectiveDeltaFieldsSize DEF readObjectiveDeltas, ObjectiveDeltas, readVU_ID, U8, U32

LEMMA WaypointRead ==
  ASSUME NEW haves
  PROVE  readWaypoint(haves) = Waypoint(haves) /\ Waypoint(haves) \in Int
BY WaypointFieldsSize, WaypointTargetDataSize
   DEF readWaypoint, Waypoint, readTarget, readVU_ID, U8, U16, U32

LEMMA UnitRead ==
  ASSUME NEW u, u.waypoints \in Seq(SUBSET {"target", "depart"})
  PROVE  readUnit(u) = Unit(u) /\ Unit(u) \in Int
<1> DEFINE list == [n \in DOMAIN u.waypoints |-> Waypoint(u.waypoints[n])]
<1>1. list = [n \in DOMAIN u.waypoints |-> readWaypoint(u.waypoints[n])]
  BY WaypointRead
<1>2. PICK k \in Nat : DOMAIN u.waypoints = 1 .. k
  OBVIOUS
<1>3. SumFunction(list) \in Int
  <2>1. DOMAIN list = 1 .. k /\ \A n \in 1 .. k : list[n] \in Int
    BY <1>2, WaypointRead
  <2> HIDE DEF list
  <2> QED
    BY <2>1, ListSum
<1>4. EachOf([n \in DOMAIN u.waypoints |-> readWaypoint(u.waypoints[n])]) = SumFunction(list)
  BY <1>1 DEF EachOf
<1>5. SizeOfAll([n \in DOMAIN u.waypoints |-> Waypoint(u.waypoints[n])]) = SumFunction(list)
  BY DEF SizeOfAll
<1>6. readCampaignBase = 29 /\ readVU_ID = 8
  BY DEF readCampaignBase, readVU_ID, U8, U16, U32
<1> HIDE DEF list
<1>7. Unit(u) = 72 + SumFunction(list)
  BY <1>5, UnitFieldsSize DEF Unit
<1>8. readUnit(u) = 72 + SumFunction(list)
  BY <1>3, <1>4, <1>6 DEF readUnit, U8, U16, U32
<1> QED
  BY <1>3, <1>7, <1>8

LEMMA UnitKindsRead ==
  ASSUME NEW u, u.waypoints \in Seq(SUBSET {"target", "depart"}),
         u.loadouts \in Nat, u.elements \in Nat
  PROVE  /\ readFlight(u) = Flight(u) /\ readPackage(u) = Package(u)
         /\ readSquadron(u) = Squadron(u) /\ readBattalion(u) = Battalion(u)
         /\ readBrigade(u) = Brigade(u) /\ readTaskForce(u) = TaskForce(u)
<1>1. PICK n \in Int : readUnit(u) = n /\ Unit(u) = n
  BY UnitRead
<1>2. readVU_ID = 8
  BY DEF readVU_ID, U32
<1>3. readFlight(u) = Flight(u)
  <2>1. readLoadout = 48
    BY DEF readLoadout, U8, U16
  <2>2. PICK k \in Int : k = u.loadouts * 48
    OBVIOUS
  <2>3. Flight(u) = n + 133 + k
    BY <1>1, <2>2, FlightFieldsSize, LoadoutSize DEF Flight
  <2> DEFINE head == readUnit(u) + 2 * U32 + 4 * U32 + 4 * U16 + 4 * U32 + U16 + U8
  <2>4. readFlight(u) =
          head + u.loadouts * readLoadout + 7 * U8 + 3 * readVU_ID + 4 * (4 * U8) + 3 * U8 + U32
            + 4 * U32 + 3 * (4 * U8)
    BY DEF readFlight
  <2>5. head = n + 51
    BY <1>1 DEF U8, U16, U32
  <2>6. u.loadouts * readLoadout = k
    BY <2>1, <2>2
  <2> HIDE DEF head
  <2>7. readFlight(u) = head + k + 7 + 24 + 16 + 3 + 4 + 16 + 12
    BY <1>2, <2>4, <2>6 DEF U8, U32
  <2>8. \A a, b \in Int : (a + 51) + b + 7 + 24 + 16 + 3 + 4 + 16 + 12 = a + 133 + b
    OBVIOUS
  <2> QED
    BY ONLY n \in Int, k \in Int, <2>3, <2>5, <2>7, <2>8
<1>4. readPackage(u) = Package(u)
  <2>1. readMissionRequest = Size(MissionRequest) /\ Size(MissionRequest) \in Int
    BY <1>2, MissionRequestSize DEF readMissionRequest, U8, U16, U32
  <2>2. PICK request \in Int : /\ request = IF u.request /\ u.waitCycles = 0
                                            THEN Size(MissionRequest) ELSE 0
                               /\ request = IF u.request /\ u.waitCycles = 0
                                            THEN readMissionRequest ELSE 0
    BY <2>1
  <2>3. PICK k \in Int : k = u.elements * 8
    OBVIOUS
  <2>4. Package(u) = n + 42 + k + request
    BY <1>1, <2>2, <2>3, PackageFieldsSize, VU_IDSize DEF Package
  <2> DEFINE head == readUnit(u) + U8 + u.elements * readVU_ID + 5 * readVU_ID + U8
  <2>5. readPackage(u) = head + request
    BY <2>2 DEF readPackage
  <2>6. head = n + 42 + k
    <3>1. u.elements * readVU_ID = k /\ 5 * readVU_ID = 40
      BY <1>2, <2>3
    <3>2. head = n + 1 + k + 40 + 1
      BY <1>1, <3>1 DEF U8
    <3>3. \A a, b \in Int : a + 1 + b + 40 + 1 = a + 42 + b
      OBVIOUS
    <3> HIDE DEF head
    <3> QED
      BY ONLY n \in Int, k \in Int, <3>2, <3>3
  <2> HIDE DEF head
  <2> QED
    BY <2>4, <2>5, <2>6
<1>5. readSquadron(u) = Squadron(u)
  BY <1>1, <1>2, SquadronFieldsSize DEF readSquadron, Squadron, readPilot, U8, U16, U32
<1>6. readGroundUnit(u) = n + 11 /\ GroundUnit(u) = n + 11
  <2> DEFINE fields == [Orders |-> 1, Division |-> 2, AObj |-> Size(VU_ID)]
             names == <<"Orders", "Division", "AObj">>
             at == [Orders |-> 1, Division |-> 2, AObj |-> 3]
             ends == <<1, 3, 11>>
  <2>1. \A x \in DOMAIN fields : IsPlaced(fields, names, at, ends, 3, x)
    BY VU_IDSize DEF IsPlaced
  <2>2. names[3] \in DOMAIN fields /\ at[names[3]] = 3 /\ ends[3] = 11
    OBVIOUS
  <2> HIDE DEF fields, names, at, ends
  <2>3. Size(fields) = 11
    BY <2>1, <2>2, EndToEnd DEF Size
  <2> QED
    BY <1>1, <1>2, <2>3 DEF readGroundUnit, GroundUnit, fields, U8, U16
<1>7. readBattalion(u) = Battalion(u)
  BY <1>2, <1>6, BattalionFieldsSize DEF readBattalion, Battalion, U8, U32
<1>8. readBrigade(u) = Brigade(u)
  <2> DEFINE fields == [NumElements |-> 1, Elements |-> u.elements * Size(VU_ID)]
  <2>1. u.elements * Size(VU_ID) \in Int
    BY VU_IDSize
  <2>2. Size(fields) = 1 + u.elements * Size(VU_ID)
    BY <2>1, TwoFields DEF Size
  <2> HIDE DEF fields
  <2> QED
    BY <1>2, <1>6, <2>2, VU_IDSize DEF readBrigade, Brigade, fields, U8
<1>9. readTaskForce(u) = TaskForce(u)
  <2> DEFINE fields == [Orders |-> 1, Supply |-> 1]
  <2>1. Size(fields) = 2
    BY TwoFields DEF Size
  <2> HIDE DEF fields
  <2> QED
    BY <1>1, <2>1 DEF readTaskForce, TaskForce, fields, U8
<1> QED
  BY <1>3, <1>4, <1>5, <1>7, <1>8, <1>9

LEMMA EventsRead ==
  ASSUME NEW texts \in Seq(Nat)
  PROVE  readEvents(texts) = 2 + Events(texts) /\ Events(texts) \in Int
<1> DEFINE lengths == [k \in DOMAIN texts |-> readEvent(texts[k])]
           n == Len(texts)
<1>1. n \in Nat /\ DOMAIN texts = 1 .. n /\ \A k \in 1 .. n : texts[k] \in Int
  OBVIOUS
<1>2. DOMAIN lengths = 1 .. n /\ \A k \in 1 .. n : lengths[k] = 22 + texts[k]
  BY <1>1 DEF readEvent, readFixedString, U8, U16, U32
<1> HIDE DEF lengths, n
<1>3. SumFunction(texts) \in Int /\ SumFunction(lengths) = n * 22 + SumFunction(texts)
  <2>1. IsMore(n, texts, lengths, 22)
    BY <1>1, <1>2 DEF IsMore
  <2> QED
    BY ONLY <2>1, ListSums
<1>4. Events(texts) = n * 22 + SumFunction(texts)
  BY EventFieldsSize DEF Events, SizeOfAll, n
<1>5. readEvents(texts) = 2 + SumFunction(lengths)
  BY DEF readEvents, EachOf, lengths, U16
<1> QED
  BY <1>1, <1>3, <1>4, <1>5

LEMMA CampaignRead ==
  ASSUME NEW c, c.recentEvents \in Seq(Nat), c.priorityEvents \in Seq(Nat),
         c.campMap \in Nat, c.squadrons \in Nat
  PROVE  readCampaign(c) = Campaign(c)
<1>1. PICK p, q \in Int :
        /\ Events(c.recentEvents) = p /\ readEvents(c.recentEvents) = 2 + p
        /\ Events(c.priorityEvents) = q /\ readEvents(c.priorityEvents) = 2 + q
  BY EventsRead
<1>2. readVU_ID = 8
  BY DEF readVU_ID, U32
<1>3. readTeamBasicInfo = 222
  BY DEF readTeamBasicInfo, readFixedString, U8
<1>4. readSquadInfo = 196
  BY <1>2 DEF readSquadInfo, readFixedString, U8, U16, U32
<1>5. PICK m \in Int : m = c.campMap /\ m = c.campMap * 1
  OBVIOUS
<1>6. PICK s \in Int : s = c.squadrons * 196
  OBVIOUS
<1>7. Campaign(c) = 2145 + p + q + m + s
  BY <1>1, <1>5, <1>6, CampaignFieldsSize, SquadInfoSize DEF Campaign
<1> DEFINE head ==
             6 * U32 + 8 * U32 + 8 * U32 + U32 + 8 * U32 + U32 + 8 * readTeamBasicInfo
               + 4 * U32 + 9 * U16 + 8 * U8 + 2 * U16 + 4 * readFixedString(40) + readVU_ID
<1>8. readCampaign(c) =
        head + readEvents(c.recentEvents) + readEvents(c.priorityEvents)
          + U16 + c.campMap * U8 + U16 + U16 + c.squadrons * readSquadInfo
          + U8 + 3 * U32 + 2 * U16
  BY DEF readCampaign
<1>9. head = 2118
  BY <1>2, <1>3 DEF readFixedString, U8, U16, U32
<1> HIDE DEF head
<1>10. c.campMap * U8 = m /\ c.squadrons * readSquadInfo = s
  BY <1>4, <1>5, <1>6 DEF U8
<1>11. readCampaign(c) = 2118 + (2 + p) + (2 + q) + 2 + m + 2 + 2 + s + 1 + 12 + 4
  <2>1. U16 = 2 /\ U8 = 1 /\ 3 * U32 = 12 /\ 2 * U16 = 4
    BY DEF U8, U16, U32
  <2> QED
    BY ONLY <1>1, <1>8, <1>9, <1>10, <2>1
<1>12. \A a, b, x, y \in Int :
         2118 + (2 + a) + (2 + b) + 2 + x + 2 + 2 + y + 1 + 12 + 4 = 2145 + a + b + x + y
  OBVIOUS
<1> QED
  BY ONLY p \in Int, q \in Int, m \in Int, s \in Int, <1>7, <1>11, <1>12
-----------------------------------------------------------------------------
(* The parts of a mission file: as long as none is cut off, the reader is  *)
(* where a record begins and has listed one record a turn.                 *)
ReadInv ==
  /\ step = "read" /\ i > 0 => header < 2^16
  /\ step = "read" /\ i = 0 => listed = 0 /\ counted = 0
  /\ whole =>
       /\ step # "panic"
       /\ aligned
       /\ step = "read" /\ i > 0 =>
            /\ listed = i - 1
            /\ i = 1 \/ i <= NumRecords + 1
            /\ part = "units" => counted = listed

LEMMA NumRecordsIsInt == TypeOK => NumRecords \in Int
BY DEF TypeOK, NumRecords, Int16

LEMMA RecordListed ==
  ASSUME TypeOK, ReadInv, step = "read", i \in 1 .. NumRecords, i' = i + 1,
         whole' => whole,
         UNCHANGED <<step, part, header, aligned>>, listed' = listed + 1,
         part = "units" => counted' = counted + 1
  PROVE  ReadInv'
<1>1. NumRecords' = NumRecords /\ NumRecords \in Int
  BY NumRecordsIsInt DEF NumRecords
<1> HIDE DEF NumRecords
<1>2. step' = "read" /\ i' > 0 => header' < 2^16
  BY DEF ReadInv
<1>3. ASSUME whole'
      PROVE  /\ step' # "panic" /\ aligned'
             /\ listed' = i' - 1 /\ (part' = "units" => counted' = listed')
  BY <1>3 DEF ReadInv, TypeOK
<1>4. i' <= NumRecords' + 1 /\ i' # 0
  BY <1>1
<1> QED
  BY <1>2, <1>3, <1>4 DEF ReadInv

LEMMA PartLeft ==
  ASSUME GoOn, step = "read"
  PROVE  ReadInv'
BY DEF GoOn, ReadInv

LEMMA PartLost ==
  ASSUME TypeOK, ReadInv, whole' = FALSE,
         step' # "read" \/ (step = "read" /\ i > 0 /\ i' = i + 1 /\ header' = header)
  PROVE  ReadInv'
BY DEF ReadInv, TypeOK

LEMMA UnitOfKindRead ==
  ASSUME NEW u \in UnitRecords, NEW kind \in DOMAIN Kinds
  PROVE  readUnitOf(kind, u) = UnitOf(kind, u)
<1>1. kind \in {"flight", "package", "squadron", "battalion", "brigade", "taskForce"}
  BY DEF Kinds
<1>2. /\ readFlight(u) = Flight(u) /\ readPackage(u) = Package(u)
      /\ readSquadron(u) = Squadron(u) /\ readBattalion(u) = Battalion(u)
      /\ readBrigade(u) = Brigade(u) /\ readTaskForce(u) = TaskForce(u)
  BY RecordsAssumption, UnitKindsRead
<1> QED
  BY <1>1, <1>2 DEF readUnitOf, UnitOf

(* The class table reaches to the highest number in its file ...           *)
LEMMA MaxNumIsHighest ==
  /\ MaxNum \in Nat
  /\ \A n \in DOMAIN CTs : CTs[n].num \in 0 .. MaxNum
<1>1. /\ Len(CTs) \in Nat /\ DOMAIN CTs = 1 .. Len(CTs)
      /\ \A n \in DOMAIN CTs : CTs[n].num \in Nat
  <2> DEFINE Classes == [num : Nat, domain : Int, type : Int]
  <2>1. \A c \in Classes : c.num \in Nat
    OBVIOUS
  <2>2. CTs \in Seq(Classes)
    BY ClassesAssumption
  <2> HIDE DEF Classes
  <2>3. Len(CTs) \in Nat /\ DOMAIN CTs = 1 .. Len(CTs) /\ \A n \in DOMAIN CTs : CTs[n] \in Classes
    BY <2>2
  <2> QED
    BY <2>1, <2>3
<1> DEFINE Bounds(k, b) == b \in Nat /\ \A n \in DOMAIN CTs : n <= k => CTs[n].num <= b
           S == {k \in Nat : \E b \in Nat : Bounds(k, b)}
           AllBounds == {b \in Nat : Bounds(Len(CTs), b)}
<1>2. S = Nat
  <2>1. 0 \in S
    <3>1. Bounds(0, 0)
      BY <1>1
    <3> QED
      BY <3>1
  <2>2. ASSUME NEW k \in Nat, k \in S PROVE k + 1 \in S
    <3>1. PICK b \in Nat : Bounds(k, b)
      BY <2>2
    <3>2. CASE k + 1 \in DOMAIN CTs
      <4>1. PICK c \in Nat : c >= b /\ c >= CTs[k + 1].num
        BY <1>1, <3>2
      <4>2. Bounds(k + 1, c)
        BY <1>1, <3>1, <4>1
      <4> QED
        BY <4>2
    <3>3. CASE k + 1 \notin DOMAIN CTs
      <4>1. Bounds(k + 1, b)
        BY <1>1, <3>1, <3>3
      <4> QED
        BY <4>1
    <3> QED
      BY <3>2, <3>3
  <2> HIDE DEF S
  <2>3. S \subseteq Nat
    BY DEF S
  <2>4. \A k \in Nat : k \in S
    BY <2>1, <2>2, SetInduction
  <2> QED
    BY <2>3, <2>4
<1>3. PICK m \in AllBounds : \A b \in AllBounds : m <= b
  <2>1. AllBounds # {} /\ AllBounds \subseteq Nat
    <3>1. Len(CTs) \in S
      BY <1>1, <1>2
    <3> QED
      BY <3>1
  <2> HIDE DEF AllBounds
  <2> QED
    BY <2>1, LeastOfNats
<1>4. m \in Numbers \cup {0}
  <2> SUFFICES ASSUME m \notin Numbers, m # 0 PROVE FALSE
    OBVIOUS
  <2>1. \A n \in DOMAIN CTs : CTs[n].num <= m - 1
    BY <1>1, <1>3 DEF Numbers
  <2>2. m - 1 \in AllBounds
    BY <1>3, <2>1
  <2> QED
    BY <1>3, <2>2
<1>5. \A n \in Numbers \cup {0} : n <= m
  BY <1>1, <1>3 DEF Numbers
<1>6. MaxNum \in Numbers \cup {0} /\ \A n \in Numbers \cup {0} : n <= MaxNum
  BY <1>4, <1>5 DEF MaxNum
<1> QED
  BY <1>1, <1>6 DEF Numbers

(* ... and holds what the file says last of a number.                      *)
LEMMA LastCounts ==
  ASSUME NEW n \in DOMAIN CTs,
         \A k \in DOMAIN CTs : k > n => CTs[k].num # CTs[n].num
  PROVE  CTs[n].num \in 0 .. MaxNum /\ ClassTable[CTs[n].num] = CTs[n] /\ CTs[n] # Nil
<1>1. DOMAIN CTs \subseteq Int
  BY ClassesAssumption
<1>2. \A m \in DOMAIN CTs :
        (CTs[m].num = CTs[n].num /\ \A k \in DOMAIN CTs : CTs[k].num = CTs[n].num => k <= m)
          <=> m = n
  BY <1>1
<1>3. Last(CTs[n].num) = n
  BY <1>2 DEF Last
<1>4. CTs[n].num \in 0 .. MaxNum /\ CTs[n].num \in Numbers
  BY MaxNumIsHighest DEF Numbers
<1> QED
  BY <1>3, <1>4, ClassesAssumption DEF ClassTable

(* So a unit that is passed over, or not to be found, is of no known class *)
(* and an objective outside of the table is neither.                       *)
LEMMA OtherUnitIsUnknown ==
  ASSUME NEW u \in UnitRecords, SkipUnit(u) \/ UnitPanics(u) \/ ReadNothing(u)
  PROVE  ~KnownUnit(u)
<1> SUFFICES ASSUME KnownUnit(u) PROVE FALSE
  OBVIOUS
<1>1. PICK n \in DOMAIN CTs :
        /\ CTs[n].num = ClassOf(u)
        /\ \A k \in DOMAIN CTs : k > n => CTs[k].num # ClassOf(u)
        /\ \E kind \in DOMAIN Kinds : IsKind(CTs[n], kind)
  BY DEF KnownUnit
<1>2. ClassOf(u) \in 0 .. MaxNum /\ ClassTable[ClassOf(u)] = CTs[n] /\ CTs[n] # Nil
  BY <1>1, LastCounts
<1>3. MaxNum \in Nat
  BY MaxNumIsHighest
<1>4. ~SkipUnit(u)
  <2>1. ClassOf(u) \in Nat /\ ClassOf(u) <= MaxNum
    BY <1>2, <1>3
  <2>2. ~(ClassOf(u) < 0 \/ ClassOf(u) > MaxNum + 1)
    BY ONLY <1>3, <2>1
  <2> QED
    BY <2>2 DEF SkipUnit
<1>5. ~UnitPanics(u)
  <2>1. ClassOf(u) # MaxNum + 1
    BY ONLY <1>2, <1>3
  <2> QED
    BY <1>2, <2>1 DEF UnitPanics
<1>6. ~ReadNothing(u)
  BY <1>1, <1>2 DEF ReadNothing
<1> QED
  BY <1>4, <1>5, <1>6

LEMMA OutsideIsUnknown ==
  ASSUME NEW o \in ObjectiveRecords, ObjectivePanics(o)
  PROVE  ~KnownObjective(o)
<1> SUFFICES ASSUME KnownObjective(o) PROVE FALSE
  OBVIOUS
<1>1. PICK n \in DOMAIN CTs : 0 <= ClassOf(o) /\ ClassOf(o) <= CTs[n].num
  BY DEF KnownObjective
<1>2. ClassOf(o) \in Int
  BY ClassesAssumption DEF ClassOf
<1>3. MaxNum \in Nat /\ CTs[n].num \in 0 .. MaxNum
  BY MaxNumIsHighest
<1> QED
  BY <1>1, <1>2, <1>3 DEF ObjectivePanics

LEMMA ReadInvStep == TypeOK /\ ReadInv /\ [Next]_vars => ReadInv'
<1> SUFFICES ASSUME TypeOK, ReadInv, [Next]_vars PROVE ReadInv'
  OBVIOUS
<1>1. CASE PartMissing \/ CampaignFails \/ HeaderShort \/ CutShort
  <2>1. whole' = FALSE /\ step' # "read"
    BY <1>1 DEF PartMissing, CampaignFails, HeaderShort, CutShort, Missing, End
  <2> QED
    BY <2>1, PartLost
<1>2. CASE ExpandFails \/ PartEnds
  BY <1>2, PartLeft DEF ExpandFails, PartEnds
<1>3. CASE OpenPart
  <2>1. header' < 2^16
    <3>1. CASE part = "campaign"
      BY <1>3, <3>1 DEF OpenPart
    <3>2. CASE part # "campaign"
      <4>1. part \in {"deltas", "units", "objectives"}
        BY <3>2 DEF TypeOK, Parts
      <4>2. header' \in 0 .. 2^16 - 1
        BY <1>3, <3>2, <4>1, CountsAssumption DEF OpenPart
      <4> QED
        BY <4>2
    <3> QED
      BY <3>1, <3>2
  <2> QED
    BY <1>3, <2>1 DEF OpenPart, ReadInv
<1>4. ASSUME NEW d \in DeltaRecords, ReadDelta(d) PROVE ReadInv'
  <2>1. d.statuses \in Nat
    BY RecordsAssumption
  <2>2. readObjectiveDeltas(d) = ObjectiveDeltas(d)
    BY <2>1, DeltaRead
  <2> QED
    BY <1>4, <2>2, RecordListed DEF ReadDelta, AtRecord, Move, TypeOK
<1>5. ASSUME NEW c \in CampaignRecords, ReadCampaign(c) PROVE ReadInv'
  <2>1. readCampaign(c) = Campaign(c)
    BY RecordsAssumption, CampaignRead
  <2> QED
    BY <1>5, <2>1, RecordListed DEF ReadCampaign, AtRecord, Move, TypeOK
<1>6. ASSUME NEW u \in UnitRecords, SkipUnit(u) \/ ReadNothing(u) PROVE ReadInv'
  <2>1. whole' = FALSE /\ step = "read" /\ i \in 1 .. NumRecords /\ i' = i + 1 /\ header' = header
    BY <1>6, OtherUnitIsUnknown DEF SkipUnit, ReadNothing, AtRecord, Class
  <2>2. i > 0
    BY <2>1, NumRecordsIsInt
  <2> QED
    BY <2>1, <2>2, PartLost
<1>7. ASSUME NEW u \in UnitRecords, UnitPanics(u) PROVE ReadInv'
  <2>1. whole' = FALSE /\ step' # "read"
    BY <1>7, OtherUnitIsUnknown DEF UnitPanics, Class, End
  <2> QED
    BY <2>1, PartLost
<1>8. ASSUME NEW u \in UnitRecords, ReadUnit(u) PROVE ReadInv'
  <2>1. PICK kind \in DOMAIN Kinds : Move(U16 + readUnitOf(kind, u), 2 + UnitOf(kind, u))
    BY <1>8 DEF ReadUnit
  <2>2. U16 + readUnitOf(kind, u) = 2 + UnitOf(kind, u)
    BY UnitOfKindRead DEF U16
  <2>3. aligned' = aligned /\ i' = i + 1 /\ UNCHANGED <<step, part, header>>
    BY <2>1, <2>2 DEF Move, TypeOK
  <2> QED
    BY <1>8, <2>3, RecordListed DEF ReadUnit, AtRecord, Class
<1>9. ASSUME NEW o \in ObjectiveRecords, ObjectivePanics(o) PROVE ReadInv'
  <2>1. whole' = FALSE /\ step' # "read"
    BY <1>9, OutsideIsUnknown DEF ObjectivePanics, Class, End
  <2> QED
    BY <2>1, PartLost
<1>10. ASSUME NEW o \in ObjectiveRecords, ReadObjective(o) PROVE ReadInv'
  <2>1. U16 + readObjective(o) = 2 + Objective(o)
    BY RecordsAssumption, ObjectiveRead DEF U16
  <2> QED
    BY <1>10, <2>1, RecordListed DEF ReadObjective, AtRecord, Class, Move, TypeOK
<1>11. ASSUME NEW s, NEW list, Turn(s, list), s # "read" PROVE ReadInv'
  BY <1>11 DEF Turn, ReadInv, readVars
<1>12. CASE IndexDelta \/ ApplyDelta \/ AddNode \/ PlaceNode
  BY <1>11, <1>12 DEF IndexDelta, ApplyDelta, AddNode, PlaceNode
<1>13. ASSUME NEW s, NEW list, NEW next \in {"apply", "nodes", "place", "done"},
              LoopEnds(s, list, next), s # "read"
       PROVE  ReadInv'
  BY <1>13 DEF LoopEnds, ReadInv, readVars
<1>14. CASE UNCHANGED vars
  BY <1>14 DEF ReadInv, vars, readVars, NumRecords
<1> QED
  BY <1>1, <1>2, <1>3, <1>4, <1>5, <1>6, <1>7, <1>8, <1>9, <1>10, <1>12, <1>13, <1>14
     DEF Next, Read

(* In a part of a mission file from which no byte is missing, and all of   *)
(* whose classes the class table's file knows (any table, with numbers     *)
(* left out or given twice), every read function moves on by just the size *)
(* of the struct that it fills, whatever the counts and flags in the       *)
(* records; every class is found, so nothing panics, and every record that *)
(* a header counts is listed and counted, none if there are 32768 or more  *)
(* (readAllUnits, readAllObjectives, readAllObjectiveDeltas, readCampaign, *)
(* CreateStrippedClassTable).                                              *)
THEOREM WholePartsAreRead == Spec => []WholePartsRead
<1>1. Init => ReadInv
  BY DEF Init, ReadInv
<1>2. TypeOK /\ ReadInv => WholePartsRead
  <2> SUFFICES ASSUME TypeOK, ReadInv, whole, step = "read", i > 0, i > NumRecords,
                      part # "campaign"
               PROVE  listed = IF header < 2^15 THEN header ELSE 0
    BY DEF ReadInv, WholePartsRead
  <2>1. NumRecords = (IF header < 2^15 THEN header ELSE header - 2^16) /\ header < 2^16
    BY DEF ReadInv, NumRecords, Int16
  <2>2. listed = i - 1 /\ (i = 1 \/ i <= NumRecords + 1)
    BY DEF ReadInv
  <2>3. i \in Nat /\ header \in Nat
    BY DEF TypeOK
  <2> QED
    BY <2>1, <2>2, <2>3
<1> QED
  BY <1>1, <1>2, ReadInvStep, TypeCorrect, PTL DEF Spec
=============================================================================
