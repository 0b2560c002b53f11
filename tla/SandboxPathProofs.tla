-------------------------- MODULE SandboxPathProofs --------------------------
(***************************************************************************)
(* Theorems about SandboxPath, for every sandbox, tree, path and change,   *)
(* and any number of links.                                                *)
(*                                                                         *)
(* Path.resolve() leaves no link on its path but one that it gave up on,   *)
(* and from such a link no walk through the same tree ever arrives: the    *)
(* handler's calls retrace the path name by name, or fail.                 *)
(***************************************************************************)
EXTENDS SandboxPath, SequenceTheorems, TLAPS

-----------------------------------------------------------------------------
(* Sequences of names *)

LEMMA SeqFacts ==
  ASSUME NEW S, NEW s \in Seq(S), s # <<>>
  PROVE  /\ Len(s) \in Nat /\ Len(s) > 0
         /\ Head(s) = s[1] /\ Head(s) \in S
         /\ Tail(s) \in Seq(S) /\ Len(Tail(s)) = Len(s) - 1
         /\ \A i \in 1..(Len(s) - 1) : Tail(s)[i] = s[i + 1]
<1>1. Len(s) \in Nat /\ Len(s) > 0 /\ Head(s) = s[1]
  BY EmptySeq
<1>2. /\ Head(s) \in S /\ Tail(s) \in Seq(S) /\ Len(Tail(s)) = Len(s) - 1
      /\ \A i \in 1..Len(Tail(s)) : Tail(s)[i] = s[i + 1]
  BY HeadTailProperties
<1> QED BY <1>1, <1>2

\* The beginning of a location.
LEMMA Beginning ==
  ASSUME NEW S, NEW s \in Seq(S), NEW n \in 0..Len(s)
  PROVE  /\ SubSeq(s, 1, n) \in Seq(S) /\ Len(SubSeq(s, 1, n)) = n
         /\ \A i \in 1..n : SubSeq(s, 1, n)[i] = s[i]
<1>1. Len(s) \in Nat /\ n \in Int /\ n \in Nat /\ n <= Len(s)
  OBVIOUS
<1>2. \A i \in 1..n : s[i] \in S
  BY <1>1, ElementOfSeq
<1>3. /\ SubSeq(s, 1, n) \in Seq(S)
      /\ Len(SubSeq(s, 1, n)) = IF 1 <= n THEN n - 1 + 1 ELSE 0
      /\ \A i \in 1..(n - 1 + 1) : SubSeq(s, 1, n)[i] = s[1 + i - 1]
  BY <1>1, <1>2, SubSeqProperties
<1> QED BY <1>1, <1>3

\* Two locations that agree on their first n names begin alike.
LEMMA SameBeginning ==
  ASSUME NEW S, NEW s \in Seq(S), NEW t \in Seq(S), NEW n \in Nat,
         n <= Len(s), n <= Len(t), \A i \in 1..n : s[i] = t[i]
  PROVE  SubSeq(s, 1, n) = SubSeq(t, 1, n)
<1>1. n \in 0..Len(s) /\ n \in 0..Len(t)
  OBVIOUS
<1>2. /\ SubSeq(s, 1, n) \in Seq(S) /\ Len(SubSeq(s, 1, n)) = n
      /\ \A i \in 1..n : SubSeq(s, 1, n)[i] = s[i]
  BY <1>1, Beginning
<1>3. /\ SubSeq(t, 1, n) \in Seq(S) /\ Len(SubSeq(t, 1, n)) = n
      /\ \A i \in 1..n : SubSeq(t, 1, n)[i] = t[i]
  BY <1>1, Beginning
<1> QED BY <1>2, <1>3, SeqEqual

LEMMA AppendFacts ==
  ASSUME NEW S, NEW s \in Seq(S), NEW e \in S
  PROVE  /\ Append(s, e) \in Seq(S) /\ Len(Append(s, e)) = Len(s) + 1
         /\ \A i \in 1..Len(s) : Append(s, e)[i] = s[i]
         /\ Append(s, e)[Len(s) + 1] = e
OBVIOUS

LEMMA FrontFacts ==
  ASSUME NEW S, NEW s \in Seq(S), s # <<>>
  PROVE  /\ Front(s) \in Seq(S) /\ Len(Front(s)) = Len(s) - 1
         /\ \A i \in 1..(Len(s) - 1) : Front(s)[i] = s[i]
<1>1. Len(s) \in Nat /\ Len(s) > 0
  BY SeqFacts
<1>2. Len(s) - 1 \in 0..Len(s)
  BY <1>1
<1> QED BY <1>2, Beginning DEF Front

-----------------------------------------------------------------------------
(* Types *)

LEMMA SetFacts ==
  /\ Names \subseteq Names \cup {".."}
  /\ \A l \in Locations : l \in Paths
  /\ <<>> \in Locations /\ <<>> \in Paths
  /\ Dir \in Nodes /\ File \in Nodes
  /\ \A node \in Nodes : node.kind = "link" => node.top \in BOOLEAN /\ node.to \in Paths
  /\ Nothing.kind = "none" /\ Dir.kind = "dir" /\ File.kind = "file"
<1>1. \A l \in Locations : l \in Paths
  BY SeqMonotonic DEF Locations, Paths
<1> QED BY <1>1 DEF Locations, Paths, Dir, File, Nothing, Nodes, Links

\* A node is put somewhere: every other place stays as it is.
LEMMA PutFacts ==
  ASSUME TypeOK, NEW l \in Locations, NEW node \in Nodes, fs' = Put(l, node, fs)
  PROVE  /\ DOMAIN fs' \subseteq Locations /\ \A k \in DOMAIN fs' : fs'[k] \in Nodes
         /\ \A k : Lookup(k)' = IF k = l THEN node ELSE Lookup(k)
BY DEF TypeOK, Lookup, Put

\* A step of a walk keeps the types.
LEMMA WalkTypes ==
  ASSUME TypeOK, GoUp \/ FollowLink \/ GiveUp \/ Enter \/ MakeDir
  PROVE  /\ cur' \in Locations /\ rest' \in Paths /\ hops' \in 0..MaxHops
         /\ DOMAIN fs' \subseteq Locations /\ \A k \in DOMAIN fs' : fs'[k] \in Nodes
<1> DEFINE N == Names \cup {".."}
<1>0. /\ cur \in Seq(Names) /\ rest \in Seq(N) /\ hops \in 0..MaxHops /\ MaxHops \in Nat
      /\ DOMAIN fs \subseteq Locations /\ \A k \in DOMAIN fs : fs[k] \in Nodes
  BY MaxHopsAssumption DEF TypeOK, Locations, Paths
<1>1. ASSUME rest # <<>> PROVE Tail(rest) \in Seq(N) /\ Head(rest) \in N
  BY <1>0, <1>1, SeqFacts
<1>2. ASSUME Down PROVE Here \in Locations
  <2>1. Head(rest) \in Names
    BY <1>1, <1>2 DEF Down
  <2> QED BY <1>0, <2>1, AppendFacts DEF Here, Locations
<1>3. CASE GoUp
  <2>1. cur' \in Seq(Names)
    BY <1>0, <1>3, FrontFacts DEF GoUp
  <2> QED BY <1>0, <1>1, <1>3, <2>1 DEF GoUp, Locations, Paths
<1>4. CASE FollowLink
  <2>1. Lookup(Here) \in Nodes /\ Lookup(Here).to \in Seq(N)
    <3>1. Lookup(Here).kind = "link"
      BY <1>4 DEF FollowLink, LinkHere
    <3>2. Here \in DOMAIN fs
      BY <3>1, SetFacts DEF Lookup
    <3> QED BY <1>0, <3>1, <3>2, SetFacts DEF Lookup, Paths
  <2>2. rest' = Lookup(Here).to \o Tail(rest) /\ rest # <<>>
    BY <1>4 DEF FollowLink, Down
  <2>3. rest' \in Seq(N)
    BY <1>1, <2>1, <2>2, ConcatProperties
  <2>4. cur' \in Seq(Names) /\ (hops' = hops \/ (hops' = hops + 1 /\ hops < MaxHops)) /\ fs' = fs
    BY <1>0, <1>4 DEF FollowLink, CanFollow
  <2> QED BY <1>0, <2>3, <2>4 DEF Locations, Paths
<1>5. CASE Enter \/ GiveUp
  BY <1>0, <1>1, <1>2, <1>5 DEF Enter, GiveUp, Down, Paths
<1>6. CASE MakeDir
  <2>1. Here \in Locations /\ fs' = Put(Here, Dir, fs)
    BY <1>2, <1>6 DEF MakeDir
  <2>2. DOMAIN fs' \subseteq Locations /\ \A k \in DOMAIN fs' : fs'[k] \in Nodes
    BY <2>1, PutFacts, SetFacts
  <2> QED BY <1>0, <1>1, <1>6, <2>1, <2>2 DEF MakeDir, Down, Paths
<1> QED BY <1>3, <1>4, <1>5, <1>6

\* A link that is being followed is in the tree.
LEMMA FollowingTypes ==
  ASSUME TypeOK, GoUp \/ FollowLink \/ GiveUp \/ Enter \/ MakeDir
  PROVE  Unfinished \subseteq Locations \X Nat
<1>0. /\ cur \in Seq(Names) /\ rest \in Seq(Names \cup {".."}) /\ rest # <<>>
      /\ following \subseteq Locations \X Nat
  BY DEF TypeOK, Locations, Paths, GoUp, FollowLink, GiveUp, Enter, MakeDir, Down
<1>1. /\ Len(rest) \in Nat /\ Len(rest) - 1 \in Nat /\ Len(Tail(rest)) = Len(rest) - 1
      /\ Head(rest) \in Names \cup {".."}
  BY <1>0, SeqFacts
<1>2. CASE Down
  <2>1. Here \in Locations
    BY <1>0, <1>1, <1>2, AppendFacts DEF Here, Down, Locations
  <2> QED BY <1>0, <1>1, <2>1 DEF Unfinished
<1>3. CASE GoUp
  <2>1. ~(Len(rest) - 1 < Len(rest'))
    BY <1>1, <1>3 DEF GoUp
  <2> QED BY <1>0, <2>1 DEF Unfinished
<1> QED BY <1>2, <1>3 DEF FollowLink, GiveUp, Enter, MakeDir

\* A new walk starts at the top.
LEMMA CallTypes ==
  ASSUME NEW path \in Paths, NEW call \in Calls, Walk(call, path)
  PROVE  /\ stage' \in {"asked"} \cup Calls \cup Ends
         /\ cur' \in Locations /\ rest' \in Paths /\ hops' \in 0..MaxHops
         /\ following' \subseteq Locations \X Nat
BY SetFacts, MaxHopsAssumption DEF Walk

LEMMA PathTypes ==
  ASSUME TypeOK
  PROVE  /\ Candidate \in Locations /\ Candidate \in Paths /\ Root \o action.raw.parts \in Paths
         /\ Front(target) \in Paths /\ target \in Paths
<1> DEFINE N == Names \cup {".."}
<1>1. /\ cur \in Locations /\ cur \in Seq(N) /\ Root \in Seq(N) /\ target \in Seq(N)
      /\ action.raw.parts \in Seq(N)
  BY SetFacts, RootAssumption, RawsAssumption DEF TypeOK, Accepted, Paths
<1>2. Front(target) \in Seq(N)
  <2>1. CASE target = <<>>
    <3>1. Front(target) = <<>>
      BY <2>1, SubSeqEmpty DEF Front
    <3> QED BY <3>1
  <2>2. CASE target # <<>>
    BY <1>1, <2>2, FrontFacts
  <2> QED BY <2>1, <2>2
<1> QED BY <1>1, <1>2, ConcatProperties DEF Candidate, Paths

LEMMA NextTypes == TypeOK /\ [Next]_vars => TypeOK'
<1> SUFFICES ASSUME TypeOK, [Next]_vars PROVE TypeOK'
  OBVIOUS
<1> DEFINE Tree(f) == DOMAIN f \subseteq Locations /\ \A k \in DOMAIN f : f[k] \in Nodes
           Moved == /\ stage' \in {"asked"} \cup Calls \cup Ends
                    /\ cur' \in Locations /\ rest' \in Paths /\ hops' \in 0..MaxHops
                    /\ following' \subseteq Locations \X Nat
<1>0. /\ Tree(fs) /\ Candidate \in Locations /\ Candidate \in Paths /\ Root \o action.raw.parts \in Paths
      /\ Front(target) \in Paths /\ target \in Paths /\ cur \in Locations
  BY PathTypes DEF TypeOK
<1>1. ASSUME Moved, Tree(fs'), UNCHANGED <<action, disturbed>>, Accepted(judged'), Accepted(target'),
             did' \in [at: Locations, replaced: BOOLEAN]
      PROVE  TypeOK'
  BY <1>1 DEF TypeOK
<1>2. ASSUME NEW path \in Paths, NEW call \in Calls, Walk(call, path) PROVE Moved
  BY <1>2, CallTypes
<1>3. ASSUME NEW how \in Ends, End(how) PROVE Moved
  BY <1>3 DEF End, walk, TypeOK
<1> HIDE DEF Tree, Moved
<1>4. CASE Recheck /\ UNCHANGED <<action, disturbed>>
  <2>1. Moved
    BY <1>0, <1>2, <1>3, <1>4 DEF Recheck, Resolve, Calls, Ends
  <2> QED BY <1>0, <1>1, <1>4, <2>1 DEF Recheck, TypeOK
<1>5. CASE StepWalk /\ UNCHANGED <<action, disturbed>>
  <2>1. Moved /\ Tree(fs')
    BY <1>5, WalkTypes, FollowingTypes DEF StepWalk, Moved, Tree, TypeOK
  <2> QED BY <1>1, <1>5, <2>1 DEF StepWalk, TypeOK
<1>6. CASE Rechecked /\ UNCHANGED <<action, disturbed>>
  <2>1. Moved
    BY <1>0, <1>2, <1>3, <1>6 DEF Rechecked, Resolve, Calls, Handling, Ends
  <2>2. judged' = judged \/ (judged' = cur /\ IsPrefix(Root, cur))
    BY <1>6 DEF Rechecked, Inside, Candidate
  <2>3. Accepted(judged')
    BY <1>0, <2>2 DEF Accepted, TypeOK
  <2> QED BY <1>0, <1>1, <1>6, <2>1, <2>3 DEF Rechecked, TypeOK
<1>7. CASE Looked /\ UNCHANGED <<action, disturbed>>
  <2>1. Moved
    <3>1. End("denied") \/ Resolve("resolve")
      BY <1>7 DEF Looked
    <3> QED BY <1>0, <1>2, <1>3, <3>1 DEF Resolve, Calls, Handling, Ends
  <2> QED BY <1>0, <1>1, <1>7, <2>1 DEF Looked, TypeOK
<1>8. CASE Resolved /\ UNCHANGED <<action, disturbed>>
  <2>1. Moved
    BY <1>0, <1>2, <1>3, <1>8 DEF Resolved, Calls, Handling, Ends
  <2>2. target' = target \/ (target' = cur /\ IsPrefix(Root, cur))
    BY <1>8 DEF Resolved, Inside, Candidate
  <2>3. Accepted(target')
    BY <1>0, <2>2 DEF Accepted, TypeOK
  <2> QED BY <1>0, <1>1, <1>8, <2>1, <2>3 DEF Resolved, TypeOK
<1>9. CASE Tested /\ UNCHANGED <<action, disturbed>>
  <2>1. Moved
    BY <1>0, <1>2, <1>3, <1>9 DEF Tested, Calls, Handling, Ends
  <2> QED BY <1>0, <1>1, <1>9, <2>1 DEF Tested, TypeOK
<1>10. CASE ParentsMade /\ UNCHANGED <<action, disturbed>>
  <2>1. Moved
    BY <1>0, <1>2, <1>3, <1>10 DEF ParentsMade, Calls, Handling, Ends
  <2> QED BY <1>0, <1>1, <1>10, <2>1 DEF ParentsMade, TypeOK
<1>11. CASE Opened /\ UNCHANGED <<action, disturbed>>
  <2>1. Moved
    BY <1>3, <1>11 DEF Opened, Ends
  <2>2. Tree(fs')
    <3>1. fs' = fs \/ fs' = Put(cur, File, fs)
      BY <1>11 DEF Opened
    <3> QED BY <1>0, <3>1, PutFacts, SetFacts DEF Tree
  <2>3. did' \in [at: Locations, replaced: BOOLEAN]
    <3> DEFINE replaced == action.tool = "write_file" /\ Found = "file"
    <3>1. replaced \in BOOLEAN
      OBVIOUS
    <3>2. did' = did \/ did' = [at |-> cur, replaced |-> replaced]
      BY <1>11 DEF Opened
    <3> HIDE DEF replaced
    <3> QED BY <1>0, <3>1, <3>2 DEF TypeOK
  <2> QED BY <1>0, <1>1, <1>11, <2>1, <2>2, <2>3 DEF Opened, TypeOK
<1>12. CASE Disturb
  <2>1. PICK change \in Changes :
          LET l == change[1]
              kept == Restrict(fs, {k \in DOMAIN fs : ~IsPrefix(l, k)})
          IN fs' = IF change[2] = Nothing THEN kept ELSE Put(l, change[2], kept)
    BY <1>12 DEF Disturb
  <2>2. change[1] \in Locations /\ change[2] \in Nodes \cup {Nothing}
    BY ChangesAssumption
  <2>3. Tree(fs')
    BY <1>0, <2>1, <2>2 DEF Tree, Restrict, Put
  <2> QED BY <1>12, <2>3 DEF Disturb, TypeOK, Tree
<1>13. CASE UNCHANGED vars
  BY <1>13 DEF vars, TypeOK
<1> QED BY <1>4, <1>5, <1>6, <1>7, <1>8, <1>9, <1>10, <1>11, <1>12, <1>13 DEF Next, Act

LEMMA InitTypes == Init => TypeOK
BY TreesAssumption, MaxHopsAssumption, SetFacts DEF Init, TypeOK, Accepted

\* Type correctness: the tree, the walk and the action keep their types, and no
\* system call follows more links than it may.
THEOREM TypeCorrect == Spec => []TypeOK
BY InitTypes, NextTypes, PTL DEF Spec

-----------------------------------------------------------------------------
(* Walks without an end.  A walk that follows every link takes one step from   *)
(* each of its places, which are a location and the names still to look up.    *)

Pairs == Locations \X Paths

Sound(tree) == DOMAIN tree \subseteq Locations /\ \A l \in DOMAIN tree : tree[l] \in Nodes

At(tree, l) == IF l \in DOMAIN tree THEN tree[l] ELSE Nothing

Up(l) == IF l = <<>> THEN <<>> ELSE Front(l)

Onto(tree, l, names) ==
  LET ahead == Append(l, Head(names))
      node == At(tree, ahead)
  IN IF Head(names) = ".." THEN <<Up(l), Tail(names)>>
     ELSE IF node.kind = "link"
          THEN <<IF node.top THEN <<>> ELSE l, node.to \o Tail(names)>>
          ELSE <<ahead, Tail(names)>>

\* The walk from here never ends: its places lie in a set that no step leaves, and
\* in each of them a name is still to be looked up.
Lost(tree, l, names) ==
  \E S \in SUBSET Pairs :
    /\ <<l, names>> \in S
    /\ \A c \in Locations, x \in Paths : <<c, x>> \in S => x # <<>> /\ Onto(tree, c, x) \in S

LEMMA AtTypes ==
  ASSUME NEW tree, Sound(tree), NEW l, At(tree, l).kind = "link"
  PROVE  At(tree, l).top \in BOOLEAN /\ At(tree, l).to \in Paths
<1>1. l \in DOMAIN tree
  BY SetFacts DEF At
<1> QED BY <1>1, SetFacts DEF At, Sound

\* What follows a nonempty path does not change how it is walked.
LEMMA ExtendFacts ==
  ASSUME NEW S, NEW x \in Seq(S), x # <<>>, NEW z \in Seq(S)
  PROVE  /\ x \o z \in Seq(S) /\ x \o z # <<>>
         /\ Head(x \o z) = Head(x) /\ Tail(x \o z) = Tail(x) \o z
<1>1. /\ Len(x) \in Nat /\ Len(x) > 0 /\ Head(x) = x[1] /\ Len(z) \in Nat
      /\ Tail(x) \in Seq(S) /\ Len(Tail(x)) = Len(x) - 1
      /\ \A i \in 1..(Len(x) - 1) : Tail(x)[i] = x[i + 1]
  BY SeqFacts
<1>2. /\ x \o z \in Seq(S) /\ Len(x \o z) = Len(x) + Len(z)
      /\ \A i \in 1..(Len(x) + Len(z)) : (x \o z)[i] = IF i <= Len(x) THEN x[i] ELSE z[i - Len(x)]
  BY ConcatProperties
<1>3. x \o z # <<>>
  BY <1>1, <1>2
<1>4. /\ Head(x \o z) = (x \o z)[1]
      /\ Tail(x \o z) \in Seq(S) /\ Len(Tail(x \o z)) = Len(x \o z) - 1
      /\ \A i \in 1..(Len(x \o z) - 1) : Tail(x \o z)[i] = (x \o z)[i + 1]
  BY <1>2, <1>3, SeqFacts
<1>5. /\ Tail(x) \o z \in Seq(S) /\ Len(Tail(x) \o z) = Len(Tail(x)) + Len(z)
      /\ \A i \in 1..(Len(Tail(x)) + Len(z)) :
           (Tail(x) \o z)[i] = IF i <= Len(Tail(x)) THEN Tail(x)[i] ELSE z[i - Len(Tail(x))]
  BY <1>1, ConcatProperties
<1>6. Head(x \o z) = Head(x)
  BY <1>1, <1>2, <1>4
<1>7. Len(Tail(x \o z)) = Len(Tail(x) \o z)
  BY <1>1, <1>2, <1>4, <1>5
<1>8. \A i \in 1..Len(Tail(x \o z)) : Tail(x \o z)[i] = (Tail(x) \o z)[i]
  <2> TAKE i \in 1..Len(Tail(x \o z))
  <2>1. i \in Nat /\ i >= 1 /\ i <= Len(x) + Len(z) - 1
    BY <1>1, <1>2, <1>4
  <2>2. Tail(x \o z)[i] = IF i + 1 <= Len(x) THEN x[i + 1] ELSE z[i + 1 - Len(x)]
    <3>1. i + 1 \in 1..(Len(x) + Len(z)) /\ i \in 1..(Len(x \o z) - 1)
      BY <1>1, <1>2, <2>1
    <3> QED BY <1>2, <1>4, <3>1
  <2>3. (Tail(x) \o z)[i] = IF i <= Len(x) - 1 THEN Tail(x)[i] ELSE z[i - (Len(x) - 1)]
    BY <1>1, <1>5, <2>1
  <2>4. CASE i <= Len(x) - 1
    <3>1. i \in 1..(Len(x) - 1) /\ i + 1 <= Len(x)
      BY <1>1, <2>1, <2>4
    <3> QED BY <1>1, <2>2, <2>3, <2>4, <3>1
  <2>5. CASE ~(i <= Len(x) - 1)
    <3>1. ~(i + 1 <= Len(x)) /\ i + 1 - Len(x) = i - (Len(x) - 1)
      BY <1>1, <2>1, <2>5
    <3> QED BY <2>2, <2>3, <2>5, <3>1
  <2> QED BY <2>4, <2>5
<1> QED BY <1>2, <1>3, <1>4, <1>5, <1>6, <1>7, <1>8, SeqEqual

LEMMA PathFacts ==
  ASSUME NEW x \in Paths, x # <<>>, NEW z \in Paths
  PROVE  /\ Head(x) \in Names \cup {".."} /\ Tail(x) \in Paths /\ Len(Tail(x)) = Len(x) - 1
         /\ x \o z \in Paths /\ x \o z # <<>> /\ Len(x) \in Nat
         /\ Head(x \o z) = Head(x) /\ Tail(x \o z) = Tail(x) \o z
BY SeqFacts, ExtendFacts DEF Paths

LEMMA PathsJoin ==
  ASSUME NEW x \in Paths, NEW y \in Paths, NEW z \in Paths
  PROVE  (x \o y) \o z = x \o (y \o z)
BY ConcatAssociative DEF Paths

\* A step leads to a place, and what comes after the names takes no part in it.
LEMMA OntoFacts ==
  ASSUME NEW tree, Sound(tree), NEW l \in Locations, NEW x \in Paths, x # <<>>
  PROVE  \E c \in Locations, y \in Paths :
           /\ Onto(tree, l, x) = <<c, y>>
           /\ \A z \in Paths : Onto(tree, l, x \o z) = <<c, y \o z>>
<1> DEFINE node == At(tree, Append(l, Head(x)))
<1>1. Tail(x) \in Paths /\ Head(x) \in Names \cup {".."}
  BY SetFacts, PathFacts
<1>2. ASSUME NEW z \in Paths PROVE Head(x \o z) = Head(x) /\ Tail(x \o z) = Tail(x) \o z
  BY PathFacts
<1>3. CASE Head(x) = ".."
  <2>1. Onto(tree, l, x) = <<Up(l), Tail(x)>>
    BY <1>3 DEF Onto
  <2>2. ASSUME NEW z \in Paths PROVE Onto(tree, l, x \o z) = <<Up(l), Tail(x) \o z>>
    BY <1>2, <1>3 DEF Onto
  <2>3. Up(l) \in Locations
    BY FrontFacts DEF Up, Locations
  <2> QED BY <1>1, <2>1, <2>2, <2>3
<1>4. CASE Head(x) # ".." /\ node.kind = "link"
  <2> DEFINE c == IF node.top THEN <<>> ELSE l
             y == node.to \o Tail(x)
  <2>1. node.to \in Paths /\ c \in Locations
    BY <1>4, AtTypes, SetFacts
  <2>2. Onto(tree, l, x) = <<c, y>>
    BY <1>4 DEF Onto
  <2>3. ASSUME NEW z \in Paths PROVE Onto(tree, l, x \o z) = <<c, y \o z>>
    <3>1. Onto(tree, l, x \o z) = <<c, node.to \o (Tail(x) \o z)>>
      BY <1>2, <1>4 DEF Onto
    <3>2. y \o z = node.to \o (Tail(x) \o z)
      BY <1>1, <2>1, PathsJoin
    <3> QED BY <3>1, <3>2
  <2>4. y \in Paths
    BY <1>1, <2>1, ConcatProperties DEF Paths
  <2> HIDE DEF c, y
  <2> QED BY <2>1, <2>2, <2>3, <2>4
<1>5. CASE Head(x) # ".." /\ node.kind # "link"
  <2> DEFINE c == Append(l, Head(x))
  <2>1. c \in Locations
    BY <1>1, <1>5, AppendFacts DEF Locations
  <2>2. Onto(tree, l, x) = <<c, Tail(x)>>
    BY <1>5 DEF Onto
  <2>3. ASSUME NEW z \in Paths PROVE Onto(tree, l, x \o z) = <<c, Tail(x) \o z>>
    BY <1>2, <1>5 DEF Onto
  <2> HIDE DEF c
  <2> QED BY <1>1, <2>1, <2>2, <2>3
<1> QED BY <1>3, <1>4, <1>5

\* What is behind a link without an end is never reached.
LEMMA LostExtends ==
  ASSUME NEW tree, Sound(tree), NEW l \in Locations, NEW x \in Paths, NEW z \in Paths,
         Lost(tree, l, x)
  PROVE  Lost(tree, l, x \o z)
<1>1. PICK S \in SUBSET Pairs :
        /\ <<l, x>> \in S
        /\ \A c \in Locations, y \in Paths : <<c, y>> \in S => y # <<>> /\ Onto(tree, c, y) \in S
  BY DEF Lost
<1> DEFINE T == {w \in Pairs : \E c \in Locations, y \in Paths : <<c, y>> \in S /\ w = <<c, y \o z>>}
<1>2. x # <<>> /\ x \o z \in Paths
  BY <1>1, PathFacts
<1>3. <<l, x \o z>> \in T
  BY <1>1, <1>2 DEF Pairs
<1>4. ASSUME NEW c \in Locations, NEW w \in Paths, <<c, w>> \in T
      PROVE  w # <<>> /\ Onto(tree, c, w) \in T
  <2>1. PICK y \in Paths : <<c, y>> \in S /\ w = y \o z
    BY <1>4
  <2>2. y # <<>> /\ Onto(tree, c, y) \in S
    BY <1>1, <2>1
  <2>3. PICK d \in Locations, t \in Paths :
          Onto(tree, c, y) = <<d, t>> /\ Onto(tree, c, w) = <<d, t \o z>>
    BY <2>1, <2>2, OntoFacts
  <2>4. t # <<>>
    BY <1>1, <2>2, <2>3
  <2>5. t \o z \in Paths /\ w # <<>>
    BY <2>1, <2>2, <2>4, PathFacts
  <2>6. <<d, t \o z>> \in T
    <3>1. <<d, t>> \in S /\ <<d, t \o z>> \in Pairs
      BY <2>2, <2>3, <2>5 DEF Pairs
    <3> QED BY <3>1
  <2> QED BY <2>3, <2>5, <2>6
<1> HIDE DEF T
<1>5. T \in SUBSET Pairs
  BY DEF T
<1> QED BY <1>3, <1>4, <1>5 DEF Lost

LEMMA LostGoesOn ==
  ASSUME NEW tree, NEW l \in Locations, NEW x \in Paths, Lost(tree, l, x),
         NEW c, NEW y, Onto(tree, l, x) = <<c, y>>
  PROVE  x # <<>> /\ Lost(tree, c, y)
BY DEF Lost

\* The walks stay without an end while no link comes, goes or changes.
LEMMA LostKept ==
  ASSUME NEW tree, NEW after, NEW l, NEW x, Lost(tree, l, x),
         \A k : At(tree, k).kind = "link" \/ At(after, k).kind = "link" => At(after, k) = At(tree, k)
  PROVE  Lost(after, l, x)
<1>1. ASSUME NEW c, NEW y PROVE Onto(after, c, y) = Onto(tree, c, y)
  <2> DEFINE ahead == Append(c, Head(y))
  <2>1. CASE At(tree, ahead) = At(after, ahead)
    BY <2>1 DEF Onto
  <2>2. CASE At(tree, ahead).kind # "link" /\ At(after, ahead).kind # "link"
    BY <2>2 DEF Onto
  <2> QED BY <2>1, <2>2
<1> QED BY <1>1 DEF Lost

\* The path of one name.
Just(name) == <<name>>

LEMMA OneName ==
  ASSUME NEW x \in Paths, x # <<>>
  PROVE  Just(Head(x)) \in Paths /\ Just(Head(x)) # <<>> /\ x = Just(Head(x)) \o Tail(x)
<1> DEFINE N == Names \cup {".."}
           h == Just(Head(x))
<1>1. /\ x \in Seq(N) /\ Head(x) \in N /\ Tail(x) \in Seq(N) /\ Head(x) = x[1]
      /\ Len(x) \in Nat /\ Len(x) > 0 /\ Len(Tail(x)) = Len(x) - 1
      /\ \A i \in 1..(Len(x) - 1) : Tail(x)[i] = x[i + 1]
  BY SeqFacts DEF Paths
<1>2. h \in Seq(N) /\ Len(h) = 1 /\ h[1] = Head(x)
  BY <1>1 DEF Just
<1>3. /\ h \o Tail(x) \in Seq(N) /\ Len(h \o Tail(x)) = 1 + Len(Tail(x))
      /\ \A i \in 1..(1 + Len(Tail(x))) : (h \o Tail(x))[i] = IF i <= 1 THEN h[i] ELSE Tail(x)[i - 1]
  <2>1. h \in Seq(N) /\ Tail(x) \in Seq(N) /\ Len(h) = 1
    BY <1>1, <1>2
  <2> HIDE DEF h, N
  <2> QED BY <2>1, ConcatProperties
<1>4. \A i \in 1..Len(x) : x[i] = (h \o Tail(x))[i]
  <2> TAKE i \in 1..Len(x)
  <2>1. i \in 1..(1 + Len(Tail(x))) /\ (i = 1 \/ (i - 1 \in 1..(Len(x) - 1) /\ ~(i <= 1)))
    BY <1>1
  <2>2. i # 1 => Tail(x)[i - 1] = x[i]
    BY <1>1, <2>1
  <2> QED BY <1>1, <1>2, <1>3, <2>1, <2>2
<1>5. Len(x) = Len(h \o Tail(x))
  BY <1>1, <1>3
<1>6. x = h \o Tail(x)
  BY <1>1, <1>3, <1>4, <1>5, SeqEqual
<1> QED BY <1>1, <1>2, <1>6 DEF Paths

LEMMA FirstApart ==
  ASSUME NEW x \in Paths, x # <<>>
  PROVE  \A v \in Paths : Tail(x) \o v \in Paths /\ x \o v = Just(Head(x)) \o (Tail(x) \o v)
<1>1. /\ Tail(x) \in Paths /\ Just(Head(x)) \in Paths /\ x = Just(Head(x)) \o Tail(x)
  BY PathFacts, OneName
<1>2. SUFFICES ASSUME NEW v \in Paths
               PROVE  Tail(x) \o v \in Paths /\ x \o v = Just(Head(x)) \o (Tail(x) \o v)
  OBVIOUS
<1>3. Tail(x) \o v \in Paths
  BY <1>1, ConcatProperties DEF Paths
<1>4. (Just(Head(x)) \o Tail(x)) \o v = Just(Head(x)) \o (Tail(x) \o v)
  BY <1>1, PathsJoin
<1> QED BY <1>1, <1>3, <1>4

-----------------------------------------------------------------------------
(* Links that are being followed *)

\* The walk from e in d, on its own, comes through V to l with the names y still to
\* look up, which are all but the last, z; or it never leaves V.
Winds(tree, l, y, d, e, V) ==
  /\ V \subseteq Pairs /\ y # <<>>
  /\ <<d, Just(e)>> \in V /\ Onto(tree, d, Just(e)) \in V
  /\ \A c \in Locations, x \in Paths :
       <<c, x>> \in V => x # <<>> /\ (Onto(tree, c, x) \in V \/ (c = l /\ x = y))

Pursued(tree, l, names, link, left) ==
  \E d \in Locations, e \in Names, y \in Paths, z \in Paths :
    /\ link = Append(d, e) /\ names = y \o z /\ Len(z) = left
    /\ \E V : Winds(tree, l, y, d, e, V)

\* It is at first.
LEMMA PursuedNew ==
  ASSUME NEW tree, Sound(tree), NEW l \in Locations, NEW x \in Paths, x # <<>>, Head(x) \in Names,
         NEW c, NEW y, Onto(tree, l, x) = <<c, y>>, Len(x) - 1 < Len(y)
  PROVE  Pursued(tree, c, y, Append(l, Head(x)), Len(x) - 1)
<1>1. /\ Just(Head(x)) \in Paths /\ Just(Head(x)) # <<>> /\ x = Just(Head(x)) \o Tail(x)
      /\ Tail(x) \in Paths /\ Len(Tail(x)) = Len(x) - 1 /\ Len(x) \in Nat
  <2>1. Tail(x) \in Paths /\ Len(Tail(x)) = Len(x) - 1 /\ Len(x) \in Nat /\ Head(x) \in Names \cup {".."}
    BY SetFacts, PathFacts
  <2> QED BY <2>1, OneName
<1>2. PICK d \in Locations, t \in Paths :
        /\ Onto(tree, l, Just(Head(x))) = <<d, t>>
        /\ \A z \in Paths : Onto(tree, l, Just(Head(x)) \o z) = <<d, t \o z>>
  <2>1. Just(Head(x)) \in Paths /\ Just(Head(x)) # <<>>
    BY <1>1
  <2> QED BY <2>1, OntoFacts
<1>3. c = d /\ y = t \o Tail(x)
  <2>1. Onto(tree, l, Just(Head(x)) \o Tail(x)) = <<d, t \o Tail(x)>>
    BY <1>1, <1>2
  <2>2. Onto(tree, l, x) = <<d, t \o Tail(x)>>
    BY <1>1, <2>1
  <2> QED BY <2>2
<1>4. t # <<>>
  <2>1. CASE t = <<>>
    <3>1. t \o Tail(x) = Tail(x)
      BY <1>1, <2>1, ConcatEmptySeq DEF Paths
    <3>2. Len(y) = Len(x) - 1 /\ Len(x) \in Nat
      BY <1>1, <1>3, <3>1
    <3> QED BY <3>2
  <2> QED BY <2>1
<1> DEFINE V == {<<l, Just(Head(x))>>, <<d, t>>}
<1>5. V \subseteq Pairs
  BY <1>1, <1>2 DEF Pairs
<1>6. \A b \in Locations, w \in Paths :
        <<b, w>> \in V => w # <<>> /\ (Onto(tree, b, w) \in V \/ (b = c /\ w = t))
  BY <1>1, <1>2, <1>3, <1>4
<1>7. <<l, Just(Head(x))>> \in V /\ Onto(tree, l, Just(Head(x))) \in V
  BY <1>2
<1> HIDE DEF V
<1>8. Winds(tree, c, t, l, Head(x), V)
  BY <1>4, <1>5, <1>6, <1>7 DEF Winds
<1> QED BY <1>1, <1>3, <1>8 DEF Pursued

\* It is after a step, until its names are all looked up.
LEMMA PursuedOn ==
  ASSUME NEW tree, Sound(tree), NEW l \in Locations, NEW x \in Paths, x # <<>>,
         NEW c, NEW w, Onto(tree, l, x) = <<c, w>>,
         NEW link, NEW left, Pursued(tree, l, x, link, left), left < Len(w)
  PROVE  Pursued(tree, c, w, link, left)
<1>p. PICK d \in Locations, e \in Names, y \in Paths, z \in Paths :
        /\ link = Append(d, e) /\ x = y \o z /\ Len(z) = left
        /\ \E V : Winds(tree, l, y, d, e, V)
  BY DEF Pursued
<1>w. PICK V : Winds(tree, l, y, d, e, V)
  BY <1>p
<1>1. /\ link = Append(d, e) /\ x = y \o z /\ y # <<>> /\ Len(z) = left /\ V \subseteq Pairs
      /\ <<d, Just(e)>> \in V /\ Onto(tree, d, Just(e)) \in V
      /\ \A b \in Locations, u \in Paths :
           <<b, u>> \in V => u # <<>> /\ (Onto(tree, b, u) \in V \/ (b = l /\ u = y))
  BY <1>p, <1>w DEF Winds
<1>2. PICK f \in Locations, t \in Paths :
        /\ Onto(tree, l, y) = <<f, t>>
        /\ \A u \in Paths : Onto(tree, l, y \o u) = <<f, t \o u>>
  BY <1>1, OntoFacts
<1>3. c = f /\ w = t \o z
  <2>1. Onto(tree, l, x) = <<f, t \o z>>
    BY <1>1, <1>2
  <2>2. <<c, w>> = <<f, t \o z>>
    BY <2>1
  <2> QED BY <2>2
<1>4. t # <<>>
  <2>1. CASE t = <<>>
    <3>1. t \o z = z /\ Len(z) \in Nat
      BY <2>1, ConcatEmptySeq DEF Paths
    <3> QED BY <1>1, <1>3, <3>1
  <2> QED BY <2>1
<1> DEFINE W == V \cup {<<c, t>>}
<1>5. W \subseteq Pairs
  BY <1>1, <1>3 DEF Pairs
<1>6. \A b \in Locations, u \in Paths :
        <<b, u>> \in W => u # <<>> /\ (Onto(tree, b, u) \in W \/ (b = c /\ u = t))
  BY <1>1, <1>2, <1>3, <1>4
<1>7. <<d, Just(e)>> \in W /\ Onto(tree, d, Just(e)) \in W
  BY <1>1
<1> HIDE DEF W
<1>8. Winds(tree, c, t, d, e, W)
  BY <1>4, <1>5, <1>6, <1>7 DEF Winds
<1> QED BY <1>1, <1>3, <1>8 DEF Pursued

\* It is when the walk goes on behind a link without an end: then it never ends.
LEMMA PursuedPast ==
  ASSUME NEW tree, Sound(tree), NEW l \in Locations, NEW x \in Paths, x # <<>>,
         Lost(tree, l, Just(Head(x))), NEW link, NEW left, Pursued(tree, l, x, link, left),
         left < Len(Tail(x)), NEW c
  PROVE  Pursued(tree, c, Tail(x), link, left)
<1>p. PICK d \in Locations, e \in Names, y \in Paths, z \in Paths :
        /\ link = Append(d, e) /\ x = y \o z /\ Len(z) = left
        /\ \E V : Winds(tree, l, y, d, e, V)
  BY DEF Pursued
<1>w. PICK V : Winds(tree, l, y, d, e, V)
  BY <1>p
<1>1. /\ link = Append(d, e) /\ x = y \o z /\ y # <<>> /\ Len(z) = left /\ V \subseteq Pairs
      /\ <<d, Just(e)>> \in V /\ Onto(tree, d, Just(e)) \in V
      /\ \A b \in Locations, u \in Paths :
           <<b, u>> \in V => u # <<>> /\ (Onto(tree, b, u) \in V \/ (b = l /\ u = y))
  BY <1>p, <1>w DEF Winds
<1>2. /\ Head(x) = Head(y) /\ Tail(x) = Tail(y) \o z /\ Tail(y) \in Paths
      /\ Just(Head(y)) \in Paths /\ y = Just(Head(y)) \o Tail(y) /\ Len(z) \in Nat
  <2>1. Head(x) = Head(y) /\ Tail(x) = Tail(y) \o z /\ Tail(y) \in Paths /\ Head(y) \in Names \cup {".."}
    BY <1>1, PathFacts
  <2>2. Just(Head(y)) \in Paths /\ y = Just(Head(y)) \o Tail(y)
    BY <1>1, <2>1, OneName
  <2>3. Len(z) \in Nat
    BY LenProperties DEF Paths
  <2> QED BY <2>1, <2>2, <2>3
<1>3. Tail(y) # <<>>
  <2>1. CASE Tail(y) = <<>>
    <3>1. Tail(y) \o z = z
      BY <2>1, ConcatEmptySeq DEF Paths
    <3> QED BY <1>1, <1>2, <3>1
  <2> QED BY <2>1
<1>4. Lost(tree, l, y)
  BY <1>2, LostExtends
<1>5. PICK S \in SUBSET Pairs :
        /\ <<l, y>> \in S
        /\ \A b \in Locations, u \in Paths : <<b, u>> \in S => u # <<>> /\ Onto(tree, b, u) \in S
  BY <1>4 DEF Lost
<1> DEFINE W == V \cup S
<1>6. W \subseteq Pairs
  BY <1>1
<1>7. \A b \in Locations, u \in Paths : <<b, u>> \in W => u # <<>> /\ Onto(tree, b, u) \in W
  BY <1>1, <1>5
<1>8. <<d, Just(e)>> \in W /\ Onto(tree, d, Just(e)) \in W
  BY <1>1
<1> HIDE DEF W
<1>9. Winds(tree, c, Tail(y), d, e, W)
  BY <1>3, <1>6, <1>7, <1>8 DEF Winds
<1> QED BY <1>1, <1>2, <1>9 DEF Pursued

\* A walk that comes back to the link has no end.
LEMMA PursuedAround ==
  ASSUME NEW tree, Sound(tree), NEW l \in Locations, NEW x \in Paths, x # <<>>, Head(x) \in Names,
         NEW left, Pursued(tree, l, x, Append(l, Head(x)), left)
  PROVE  Lost(tree, l, Just(Head(x)))
<1>p. PICK d \in Locations, e \in Names, y \in Paths, z \in Paths :
        /\ Append(l, Head(x)) = Append(d, e) /\ x = y \o z /\ Len(z) = left
        /\ \E V : Winds(tree, l, y, d, e, V)
  BY DEF Pursued
<1>w. PICK V : Winds(tree, l, y, d, e, V)
  BY <1>p
<1>1. /\ Append(l, Head(x)) = Append(d, e) /\ x = y \o z /\ y # <<>> /\ Len(z) = left /\ V \subseteq Pairs
      /\ <<d, Just(e)>> \in V /\ Onto(tree, d, Just(e)) \in V
      /\ \A b \in Locations, u \in Paths :
           <<b, u>> \in V => u # <<>> /\ (Onto(tree, b, u) \in V \/ (b = l /\ u = y))
  BY <1>p, <1>w DEF Winds
<1>2. d = l /\ e = Head(x)
  BY <1>1, AppendInjective DEF Locations
<1>3. /\ Head(x) = Head(y) /\ Tail(y) \in Paths /\ Just(Head(y)) \in Paths /\ Just(Head(y)) # <<>>
      /\ y = Just(Head(y)) \o Tail(y)
  BY <1>1, PathFacts, OneName
<1>4. Just(e) \in Paths /\ Just(e) # <<>> /\ y = Just(e) \o Tail(y)
  BY <1>2, <1>3
<1>split. \A v \in Paths : Tail(y) \o v \in Paths /\ y \o v = Just(e) \o (Tail(y) \o v)
  <2>1. y # <<>> /\ Head(y) = e
    BY <1>1, <1>2, <1>3
  <2> QED BY <2>1, FirstApart
<1> DEFINE S == {w \in Pairs : \E c \in Locations, u \in Paths, v \in Paths : <<c, u>> \in V /\ w = <<c, u \o v>>}
<1>5. ASSUME NEW c \in Locations, NEW u \in Paths, <<c, u>> \in V, NEW v \in Paths
      PROVE  u \o v \in Paths /\ u \o v # <<>> /\ <<c, u \o v>> \in S
  <2>1. u # <<>>
    BY <1>1, <1>5
  <2>2. u \o v \in Paths /\ u \o v # <<>>
    BY <2>1, PathFacts
  <2>3. <<c, u \o v>> \in Pairs
    BY <2>2 DEF Pairs
  <2> QED BY <1>5, <2>2, <2>3
<1>6. <<l, Just(e)>> \in S
  <2>1. <<>> \in Paths /\ Just(e) \o <<>> = Just(e)
    BY <1>4, SetFacts, ConcatEmptySeq DEF Paths
  <2>2. <<l, Just(e)>> \in V
    BY <1>1, <1>2
  <2>3. <<l, Just(e) \o <<>>>> \in S
    BY <1>4, <1>5, <2>1, <2>2
  <2> QED BY <2>1, <2>3
<1>7. ASSUME NEW c \in Locations, NEW w \in Paths, <<c, w>> \in S
      PROVE  w # <<>> /\ Onto(tree, c, w) \in S
  <2>1. PICK u \in Paths, v \in Paths : <<c, u>> \in V /\ w = u \o v
    BY <1>7
  <2>2. u # <<>> /\ w # <<>>
    BY <1>1, <1>5, <2>1
  <2>3. CASE Onto(tree, c, u) \in V
    <3>1. PICK b \in Locations, t \in Paths :
            Onto(tree, c, u) = <<b, t>> /\ Onto(tree, c, w) = <<b, t \o v>>
      BY <2>1, <2>2, OntoFacts
    <3>2. <<b, t \o v>> \in S
      BY <1>5, <2>3, <3>1
    <3> QED BY <2>2, <3>1, <3>2
  <2>4. CASE c = l /\ u = y
    <3>1. Tail(y) \o v \in Paths /\ w = Just(e) \o (Tail(y) \o v)
      BY <1>split, <2>1, <2>4
    <3>2. PICK b \in Locations, t \in Paths :
            /\ Onto(tree, l, Just(e)) = <<b, t>>
            /\ \A z1 \in Paths : Onto(tree, l, Just(e) \o z1) = <<b, t \o z1>>
      BY <1>4, OntoFacts
    <3>3. <<b, t \o (Tail(y) \o v)>> \in S
      <4>1. <<b, t>> \in V
        BY <1>1, <1>2, <3>2
      <4> QED BY <1>5, <3>1, <3>2, <4>1
    <3>4. Onto(tree, c, w) = <<b, t \o (Tail(y) \o v)>>
      BY <2>4, <3>1, <3>2
    <3> QED BY <2>2, <3>3, <3>4
  <2> QED BY <1>1, <2>1, <2>3, <2>4
<1> HIDE DEF S
<1>8. S \in SUBSET Pairs
  BY DEF S
<1>9. Lost(tree, l, Just(e))
  BY <1>6, <1>7, <1>8 DEF Lost
<1> QED BY <1>2, <1>9
-----------------------------------------------------------------------------
(* The inductive invariant.  Where the walk of Path.resolve() has passed a     *)
(* link, it gave up on it, and no walk ever gets past it; so a call of the     *)
(* handler retraces the candidate name by name, or never arrives.              *)

\* What is a link on the way to l has no end.
Settled(tree, l) ==
  \A n \in 1..Len(l) :
    At(tree, SubSeq(l, 1, n)).kind = "link" => Lost(tree, SubSeq(l, 1, n - 1), Just(l[n]))

Careful ==
  /\ Settled(fs, cur)
  /\ \A x \in following : Pursued(fs, cur, rest, x[1], x[2])

\* The walk follows the path name by name.
Follows(l, names, path) ==
  /\ Len(l) + Len(names) = Len(path)
  /\ \A i \in 1..Len(l) : l[i] = path[i]
  /\ \A i \in 1..Len(names) : names[i] = path[Len(l) + i]

Retraces(l, names, path) == Follows(l, names, path) \/ Lost(fs, l, names)

CandidateHeld == target \in Locations /\ IsPrefix(Root, target) /\ Settled(fs, target)

Safe ==
  disturbed \notin Handling =>
    /\ stage = "resolve" => Careful
    /\ stage \in {"test", "open"} => CandidateHeld /\ Retraces(cur, rest, target)
    /\ stage = "parents" => CandidateHeld
    /\ stage = "done" => IsPrefix(Root, did.at)

IInv == TypeOK /\ Safe

-----------------------------------------------------------------------------
(* The walk of the handler *)

LEMMA TreeIsSound == TypeOK => Sound(fs) /\ \A l : At(fs, l) = Lookup(l)
BY DEF TypeOK, Sound, At, Lookup

\* Every step of a walk is the one that follows links, but where Path.resolve() gives up.
LEMMA StepIsOnto ==
  ASSUME TypeOK, GoUp \/ FollowLink \/ Enter \/ MakeDir
  PROVE  rest # <<>> /\ Onto(fs, cur, rest) = <<cur', rest'>>
<1>1. At(fs, Here) = Lookup(Here)
  BY TreeIsSound
<1>2. CASE GoUp
  BY <1>2 DEF GoUp, Onto, Up
<1>3. CASE FollowLink
  BY <1>1, <1>3 DEF FollowLink, Down, LinkHere, Onto, Here
<1>4. CASE Enter
  BY <1>1, <1>4 DEF Enter, Down, CanEnter, LinkHere, Onto, Here
<1>5. CASE MakeDir
  BY <1>1, <1>5, SetFacts DEF MakeDir, Down, Onto, Here
<1> QED BY <1>2, <1>3, <1>4, <1>5

LEMMA SettledTop == ASSUME NEW tree, NEW l, l = <<>> PROVE Settled(tree, l)
<1>1. Len(l) = 0
  OBVIOUS
<1> QED BY <1>1 DEF Settled

\* Going up leaves the way as it is.
LEMMA SettledUp ==
  ASSUME NEW tree, NEW l \in Locations, l # <<>>, Settled(tree, l)
  PROVE  Settled(tree, Front(l))
<1>1. /\ l \in Seq(Names) /\ Front(l) \in Seq(Names) /\ Len(Front(l)) = Len(l) - 1 /\ Len(l) \in Nat
      /\ \A i \in 1..(Len(l) - 1) : Front(l)[i] = l[i]
  BY FrontFacts DEF Locations
<1>2. ASSUME NEW n \in 0..(Len(l) - 1) PROVE SubSeq(Front(l), 1, n) = SubSeq(l, 1, n)
  <2>1. /\ n \in Nat /\ n <= Len(Front(l)) /\ n <= Len(l)
        /\ \A i \in 1..n : Front(l)[i] = l[i]
    BY <1>1
  <2> QED BY <1>1, <2>1, SameBeginning
<1> SUFFICES ASSUME NEW n \in 1..Len(Front(l)), At(tree, SubSeq(Front(l), 1, n)).kind = "link"
             PROVE  Lost(tree, SubSeq(Front(l), 1, n - 1), Just(Front(l)[n]))
  BY DEF Settled
<1>3. n \in 1..Len(l) /\ n \in 0..(Len(l) - 1) /\ n - 1 \in 0..(Len(l) - 1) /\ Front(l)[n] = l[n]
  BY <1>1
<1>4. SubSeq(Front(l), 1, n) = SubSeq(l, 1, n) /\ SubSeq(Front(l), 1, n - 1) = SubSeq(l, 1, n - 1)
  BY <1>2, <1>3
<1> QED BY <1>3, <1>4 DEF Settled

\* So does a name further, if it is no link or one without an end.
LEMMA SettledOn ==
  ASSUME NEW tree, NEW l \in Locations, NEW name \in Names, Settled(tree, l),
         At(tree, Append(l, name)).kind = "link" => Lost(tree, l, Just(name))
  PROVE  Settled(tree, Append(l, name))
<1> DEFINE k == Append(l, name)
<1>1. /\ l \in Seq(Names) /\ k \in Seq(Names) /\ Len(k) = Len(l) + 1 /\ Len(l) \in Nat
      /\ k[Len(l) + 1] = name
      /\ \A i \in 1..Len(l) : k[i] = l[i]
  BY AppendFacts DEF Locations
<1> HIDE DEF k
<1>2. ASSUME NEW n \in 0..Len(l) PROVE SubSeq(k, 1, n) = SubSeq(l, 1, n)
  <2>1. /\ n \in Nat /\ n <= Len(k) /\ n <= Len(l)
        /\ \A i \in 1..n : k[i] = l[i]
    BY <1>1
  <2> QED BY <1>1, <2>1, SameBeginning
<1>3. ASSUME NEW n \in 1..Len(k), At(tree, SubSeq(k, 1, n)).kind = "link"
      PROVE  Lost(tree, SubSeq(k, 1, n - 1), Just(k[n]))
  <2>1. CASE n = Len(l) + 1
    <3>1. SubSeq(k, 1, n) = k
      BY <1>1, <2>1, SubSeqFull
    <3>2. SubSeq(k, 1, n - 1) = l
      <4>1. n - 1 = Len(l) /\ Len(l) \in 0..Len(l)
        BY <1>1, <2>1
      <4>2. SubSeq(l, 1, Len(l)) = l
        BY <1>1, SubSeqFull
      <4> QED BY <1>2, <4>1, <4>2
    <3> QED BY <1>1, <1>3, <2>1, <3>1, <3>2 DEF k
  <2>2. CASE n # Len(l) + 1
    <3>1. n \in 1..Len(l) /\ n \in 0..Len(l) /\ n - 1 \in 0..Len(l) /\ k[n] = l[n]
      BY <1>1, <2>2
    <3>2. SubSeq(k, 1, n) = SubSeq(l, 1, n) /\ SubSeq(k, 1, n - 1) = SubSeq(l, 1, n - 1)
      BY <1>2, <3>1
    <3> QED BY <1>3, <3>1, <3>2 DEF Settled
  <2> QED BY <2>1, <2>2
<1>4. Settled(tree, k)
  BY <1>3 DEF Settled
<1> QED BY <1>4 DEF k

\* A step of Path.resolve() settles the name it passes.
LEMMA CarefulStep ==
  ASSUME TypeOK, stage \in Resolving, Careful, GoUp \/ FollowLink \/ GiveUp \/ Enter,
         following' = Unfinished
  PROVE  Careful' /\ UNCHANGED fs
<1>0. /\ fs' = fs /\ Sound(fs) /\ At(fs, Here) = Lookup(Here)
      /\ cur \in Locations /\ rest \in Paths /\ rest # <<>> /\ following \subseteq Locations \X Nat
  BY TreeIsSound DEF TypeOK, GoUp, FollowLink, GiveUp, Enter, Down
<1>1. /\ Head(rest) \in Names \cup {".."} /\ Tail(rest) \in Paths
      /\ Len(Tail(rest)) = Len(rest) - 1 /\ Len(rest) \in Nat
  BY <1>0, SetFacts, PathFacts
<1>2. Settled(fs, cur) /\ \A x \in following : Pursued(fs, cur, rest, x[1], x[2])
  BY DEF Careful
<1>3. ASSUME NEW c, NEW r, cur' = c, rest' = r, Settled(fs, c),
             \A x \in Unfinished : Pursued(fs, c, r, x[1], x[2])
      PROVE  Careful' /\ UNCHANGED fs
  BY <1>0, <1>3 DEF Careful
<1>4. CASE GiveUp
  <2>1. Here = Append(cur, Head(rest)) /\ Head(rest) \in Names
        /\ \E x \in following : x[1] = Here
    BY <1>1, <1>4 DEF GiveUp, Down, InLoop, Here
  <2>2. Lost(fs, cur, Just(Head(rest)))
    BY <1>0, <1>2, <2>1, PursuedAround
  <2>3. Settled(fs, Here)
    BY <1>0, <1>2, <2>1, <2>2, SettledOn
  <2>4. ASSUME NEW x \in Unfinished PROVE Pursued(fs, Here, Tail(rest), x[1], x[2])
    <3>1. x \in following /\ x[2] < Len(Tail(rest))
      BY <1>1, <1>4, <2>4 DEF Unfinished, GiveUp
    <3> QED BY <1>0, <1>2, <2>2, <3>1, PursuedPast
  <2> QED BY <1>3, <1>4, <2>3, <2>4 DEF GiveUp
<1>5. CASE GoUp \/ FollowLink \/ Enter
  <2>1. Onto(fs, cur, rest) = <<cur', rest'>>
    BY <1>5, StepIsOnto
  <2>2. PICK c \in Locations, r \in Paths : cur' = c /\ rest' = r /\ Onto(fs, cur, rest) = <<c, r>>
    <3>1. cur' \in Locations /\ rest' \in Paths
      BY WalkTypes
    <3> QED BY <2>1, <3>1
  <2>3. ASSUME NEW x \in Unfinished PROVE Pursued(fs, c, r, x[1], x[2])
    <3>1. x[2] < Len(r) /\ (x \in following \/ x = <<Here, Len(rest) - 1>>)
      BY <2>2, <2>3 DEF Unfinished
    <3>2. CASE x \in following
      BY <1>0, <1>2, <2>2, <3>1, <3>2, PursuedOn
    <3>3. CASE x = <<Here, Len(rest) - 1>>
      <4>1. ~GoUp
        BY <1>1, <2>2, <3>1, <3>3 DEF GoUp
      <4>2. Head(rest) \in Names /\ Here = Append(cur, Head(rest)) /\ x[1] = Here /\ x[2] = Len(rest) - 1
        BY <1>1, <1>5, <3>3, <4>1 DEF FollowLink, Enter, Down, Here
      <4> QED BY <1>0, <2>2, <3>1, <4>2, PursuedNew
    <3> QED BY <3>1, <3>2, <3>3
  <2>4. Settled(fs, c)
    <3>1. CASE c = <<>>
      BY <3>1, SettledTop
    <3>2. CASE c = cur
      BY <1>2, <3>2
    <3>3. CASE cur # <<>> /\ c = Front(cur)
      BY <1>0, <1>2, <3>3, SettledUp
    <3>4. CASE Enter
      <4>1. Head(rest) \in Names /\ Here = Append(cur, Head(rest)) /\ c = Here /\ Lookup(Here).kind # "link"
        BY <1>1, <2>2, <3>4 DEF Enter, CanEnter, LinkHere, Down, Here
      <4> QED BY <1>0, <1>2, <4>1, SettledOn
    <3> QED BY <1>5, <2>2, <3>1, <3>2, <3>3, <3>4 DEF GoUp, FollowLink
  <2> QED BY <1>3, <2>2, <2>3, <2>4
<1> QED BY <1>4, <1>5

\* Where a path is followed, the next name is the path's.
LEMMA FollowsHere ==
  ASSUME TypeOK, NEW path \in Locations, Follows(cur, rest, path), rest # <<>>
  PROVE  /\ Head(rest) \in Names /\ Head(rest) # ".." /\ Len(rest) \in Nat /\ Len(path) \in Nat
         /\ \E n \in 1..Len(path) :
              /\ Head(rest) = path[n] /\ cur = SubSeq(path, 1, n - 1) /\ Here = SubSeq(path, 1, n)
              /\ n = Len(path) => Len(rest) = 1
         /\ Follows(Here, Tail(rest), path)
<1>0. /\ cur \in Seq(Names) /\ rest \in Seq(Names \cup {".."}) /\ path \in Seq(Names)
      /\ Len(cur) \in Nat /\ Len(path) \in Nat
  <2>1. cur \in Seq(Names) /\ rest \in Seq(Names \cup {".."}) /\ path \in Seq(Names)
    BY DEF TypeOK, Locations, Paths
  <2> QED BY <2>1
<1>1. /\ Len(rest) \in Nat /\ Len(rest) > 0 /\ Head(rest) = rest[1]
      /\ Len(Tail(rest)) = Len(rest) - 1
      /\ \A i \in 1..(Len(rest) - 1) : Tail(rest)[i] = rest[i + 1]
  BY <1>0, SeqFacts
<1>2. Len(cur) + 1 \in 1..Len(path) /\ Head(rest) = path[Len(cur) + 1]
  BY <1>0, <1>1 DEF Follows
<1>3. Head(rest) \in Names /\ Head(rest) # ".."
  BY <1>0, <1>2, ElementOfSeq, ParentAssumption
<1>4. /\ Here \in Seq(Names) /\ Len(Here) = Len(cur) + 1
      /\ \A i \in 1..Len(cur) : Here[i] = cur[i]
      /\ Here[Len(cur) + 1] = Head(rest)
  BY <1>0, <1>3, AppendFacts DEF Here
<1>5. \A i \in 1..Len(Here) : Here[i] = path[i]
  <2> TAKE i \in 1..Len(Here)
  <2>1. i \in 1..Len(cur) \/ i = Len(cur) + 1
    BY <1>0, <1>4
  <2> QED BY <1>2, <1>4, <2>1 DEF Follows
<1>6. Here = SubSeq(path, 1, Len(cur) + 1)
  <2>1. SubSeq(Here, 1, Len(Here)) = SubSeq(path, 1, Len(Here)) /\ SubSeq(Here, 1, Len(Here)) = Here
    BY <1>0, <1>2, <1>4, <1>5, SameBeginning, SubSeqFull
  <2> QED BY <1>4, <2>1
<1>7. cur = SubSeq(path, 1, Len(cur))
  <2>1. \A i \in 1..Len(cur) : cur[i] = path[i]
    BY DEF Follows
  <2>2. SubSeq(cur, 1, Len(cur)) = SubSeq(path, 1, Len(cur)) /\ SubSeq(cur, 1, Len(cur)) = cur
    BY <1>0, <1>2, <2>1, SameBeginning, SubSeqFull
  <2> QED BY <2>2
<1>8. \A i \in 1..Len(Tail(rest)) : Tail(rest)[i] = path[Len(Here) + i]
  <2> TAKE i \in 1..Len(Tail(rest))
  <2>1. i + 1 \in 1..Len(rest) /\ Tail(rest)[i] = rest[i + 1] /\ Len(cur) + (i + 1) = Len(Here) + i
    BY <1>0, <1>1, <1>4
  <2> QED BY <2>1 DEF Follows
<1>9. Len(Here) + Len(Tail(rest)) = Len(path)
  BY <1>0, <1>1, <1>4 DEF Follows
<1>10. Follows(Here, Tail(rest), path)
  BY <1>5, <1>8, <1>9 DEF Follows
<1>11. \E n \in 1..Len(path) :
         /\ Head(rest) = path[n] /\ cur = SubSeq(path, 1, n - 1) /\ Here = SubSeq(path, 1, n)
         /\ n = Len(path) => Len(rest) = 1
  <2>1. Len(cur) + 1 - 1 = Len(cur) /\ Len(cur) + Len(rest) = Len(path)
    BY <1>0 DEF Follows
  <2>2. Len(cur) + 1 = Len(path) => Len(rest) = 1
    BY <1>0, <1>1, <2>1
  <2> QED BY <1>2, <1>6, <1>7, <2>1, <2>2
<1> QED BY <1>0, <1>1, <1>3, <1>10, <1>11

\* A settled candidate is retraced.
LEMMA RetracesStep ==
  ASSUME TypeOK, NEW path \in Locations, Settled(fs, path), Retraces(cur, rest, path),
         GoUp \/ FollowLink \/ Enter
  PROVE  Follows(cur', rest', path) \/ Lost(fs, cur', rest')
<1>0. /\ Sound(fs) /\ At(fs, Here) = Lookup(Here) /\ cur \in Locations /\ rest \in Paths /\ rest # <<>>
      /\ Onto(fs, cur, rest) = <<cur', rest'>>
  BY TreeIsSound, StepIsOnto DEF TypeOK
<1>1. CASE Lost(fs, cur, rest)
  BY <1>0, <1>1, LostGoesOn
<1>2. CASE Follows(cur, rest, path) /\ LinkHere
  <2>1. PICK n \in 1..Len(path) :
          Head(rest) = path[n] /\ cur = SubSeq(path, 1, n - 1) /\ Here = SubSeq(path, 1, n)
    BY <1>0, <1>2, FollowsHere
  <2>2. Lost(fs, cur, Just(Head(rest)))
    BY <1>0, <1>2, <2>1 DEF LinkHere, Settled
  <2>3. Just(Head(rest)) \in Paths /\ Tail(rest) \in Paths /\ rest = Just(Head(rest)) \o Tail(rest)
    BY <1>0, SetFacts, OneName, PathFacts
  <2>4. Lost(fs, cur, rest)
    BY <1>0, <2>2, <2>3, LostExtends
  <2> QED BY <1>0, <2>4, LostGoesOn
<1>3. CASE Follows(cur, rest, path) /\ ~LinkHere
  <2>1. Head(rest) # ".." /\ Follows(Here, Tail(rest), path)
    BY <1>0, <1>3, FollowsHere
  <2>2. cur' = Here /\ rest' = Tail(rest)
    BY <1>3, <2>1 DEF GoUp, FollowLink, Enter
  <2> QED BY <2>1, <2>2
<1> QED BY <1>1, <1>2, <1>3 DEF Retraces

\* It is where a walk arrives that retraced it.
LEMMA RetracesArrived ==
  ASSUME TypeOK, NEW path \in Locations, Retraces(cur, rest, path), Arrived
  PROVE  cur = path
<1>1. ~Lost(fs, cur, rest)
  <2>1. cur \in Locations /\ rest \in Paths /\ rest = <<>>
    BY DEF Arrived, TypeOK
  <2> QED BY <2>1 DEF Lost
<1>2. /\ cur \in Seq(Names) /\ path \in Seq(Names) /\ Len(rest) = 0
  BY DEF TypeOK, Locations, Arrived
<1>3. Len(cur) = Len(path) /\ \A i \in 1..Len(cur) : cur[i] = path[i]
  BY <1>1, <1>2 DEF Retraces, Follows
<1> QED BY <1>2, <1>3, SeqEqual

\* A new walk begins to follow its path.
LEMMA FollowsStart ==
  ASSUME NEW path \in Paths, NEW call, Walk(call, path)
  PROVE  Follows(cur', rest', path)
<1>1. cur' = <<>> /\ rest' = path /\ path \in Seq(Names \cup {".."})
  BY DEF Walk, Paths
<1>2. Len(<<>>) = 0 /\ Len(path) \in Nat
  BY <1>1
<1>3. \A i \in 1..Len(path) : 0 + i = i
  BY <1>2
<1> QED BY <1>1, <1>2, <1>3 DEF Follows

\* The candidate stays what it is while the tree does, or gains a directory.
LEMMA HeldKept ==
  ASSUME TypeOK, CandidateHeld, UNCHANGED target,
         UNCHANGED fs \/ \E l \in Locations : fs' = Put(l, Dir, fs) /\ Lookup(l) = Nothing
  PROVE  CandidateHeld'
<1>1. CASE UNCHANGED fs
  BY <1>1 DEF CandidateHeld
<1>2. ASSUME NEW l \in Locations, fs' = Put(l, Dir, fs), Lookup(l) = Nothing PROVE CandidateHeld'
  <2>1. \A k : At(fs', k) = IF k = l THEN Dir ELSE At(fs, k)
    BY <1>2 DEF Put, At
  <2>2. At(fs, l) = Nothing
    BY <1>2, TreeIsSound
  <2>3. \A k : At(fs, k).kind = "link" \/ At(fs', k).kind = "link" => At(fs', k) = At(fs, k)
    BY <2>1, <2>2, SetFacts
  <2>4. \A k, x : Lost(fs, k, x) => Lost(fs', k, x)
    BY <2>3, LostKept
  <2>5. ASSUME NEW t, Settled(fs, t) PROVE Settled(fs', t)
    BY <2>3, <2>4, <2>5 DEF Settled
  <2> QED BY <2>5 DEF CandidateHeld
<1> QED BY <1>1, <1>2

-----------------------------------------------------------------------------
LEMMA InitSafe == Init => Safe
BY DEF Init, Safe

LEMMA NextSafe ==
  ASSUME TypeOK, Safe, [Next]_vars
  PROVE  Safe'
<1>0. /\ \A k \in Locations : k \in Paths
      /\ Candidate \in Locations /\ Candidate \in Paths /\ target \in Paths
  BY SetFacts, PathTypes
<1>1. ASSUME UNCHANGED <<fs, target, disturbed>>, disturbed \notin Handling, CandidateHeld
      PROVE  CandidateHeld'
  BY <1>1, HeldKept
<1>2. CASE Recheck /\ UNCHANGED <<action, disturbed>>
  BY <1>2 DEF Recheck, Resolve, Walk, End, Safe
<1>3. CASE StepWalk /\ UNCHANGED <<action, disturbed>>
  <2> SUFFICES ASSUME disturbed \notin Handling PROVE Safe'
    BY <1>3 DEF Safe
  <2>0. UNCHANGED <<stage, target, did>> /\ stage \in Calls /\ following' = Unfinished
    BY <1>3 DEF StepWalk
  <2>1. CASE GoUp \/ FollowLink \/ GiveUp \/ Enter
    <3>0. UNCHANGED fs
      BY <2>1 DEF GoUp, FollowLink, GiveUp, Enter
    <3>1. CASE stage = "resolve"
      <4>1. Careful'
        BY <2>0, <2>1, <3>1, CarefulStep DEF Safe, Resolving
      <4> QED BY <2>0, <3>1, <4>1 DEF Safe
    <3>2. CASE stage \in {"test", "open"}
      <4>1. CandidateHeld /\ Retraces(cur, rest, target) /\ target \in Locations /\ Settled(fs, target)
        BY <3>2 DEF Safe, CandidateHeld
      <4>2. CandidateHeld'
        BY <1>1, <1>3, <2>0, <3>0, <4>1
      <4>3. GoUp \/ FollowLink \/ Enter
        BY <2>1, <3>2 DEF GiveUp, InLoop, Resolving
      <4>4. Follows(cur', rest', target) \/ Lost(fs, cur', rest')
        BY <4>1, <4>3, RetracesStep
      <4>5. Retraces(cur, rest, target)'
        BY <2>0, <3>0, <4>4 DEF Retraces
      <4> QED BY <2>0, <3>2, <4>2, <4>5 DEF Safe
    <3>3. CASE stage = "parents"
      BY <1>1, <1>3, <2>0, <3>0, <3>3 DEF Safe
    <3> QED BY <2>0, <3>1, <3>2, <3>3 DEF Safe, Calls, Handling
  <2>2. CASE MakeDir
    <3>1. stage = "parents" /\ fs' = Put(Here, Dir, fs) /\ Lookup(Here) = Nothing /\ CandidateHeld
      BY <2>2 DEF MakeDir, Safe
    <3>2. Here \in Locations
      <4>1. cur \in Seq(Names) /\ rest \in Seq(Names \cup {".."}) /\ rest # <<>> /\ Head(rest) # ".."
        BY <2>2 DEF TypeOK, Locations, Paths, MakeDir, Down
      <4>2. Head(rest) \in Names
        BY <4>1, SeqFacts
      <4> QED BY <4>1, <4>2, AppendFacts DEF Here, Locations
    <3>3. CandidateHeld'
      BY <2>0, <3>1, <3>2, HeldKept
    <3> QED BY <2>0, <3>1, <3>3 DEF Safe
  <2> QED BY <1>3, <2>1, <2>2 DEF StepWalk
<1>4. CASE Rechecked /\ UNCHANGED <<action, disturbed>>
  <2>1. stage' \in {"denied", "look"} \/ (stage' = "resolve" /\ cur' = <<>> /\ following' = {})
    BY <1>4 DEF Rechecked, Resolve, Walk, End
  <2> QED BY <2>1, SettledTop DEF Safe, Careful
<1>5. CASE Looked /\ UNCHANGED <<action, disturbed>>
  <2>1. stage' = "denied" \/ (stage' = "resolve" /\ cur' = <<>> /\ following' = {})
    BY <1>5 DEF Looked, Resolve, Walk, End
  <2> QED BY <2>1, SettledTop DEF Safe, Careful
<1>6. CASE Resolved /\ UNCHANGED <<action, disturbed>>
  <2> SUFFICES ASSUME disturbed \notin Handling PROVE Safe'
    BY <1>6 DEF Safe
  <2>1. CASE Inside(Candidate)
    <3>1. /\ IsPrefix(Root, Candidate) /\ stage' = "test" /\ Settled(fs, Candidate)
          /\ Walk("test", Candidate) /\ target' = Candidate /\ fs' = fs
      BY <1>6, <2>1 DEF Resolved, Inside, Walk, Safe, Careful, Candidate
    <3>2. CandidateHeld'
      BY <1>0, <3>1 DEF CandidateHeld
    <3>3. Retraces(cur, rest, target)'
      <4>1. Follows(cur', rest', Candidate)
        BY <1>0, <3>1, FollowsStart
      <4> QED BY <3>1, <4>1 DEF Retraces
    <3> QED BY <3>1, <3>2, <3>3 DEF Safe
  <2>2. CASE ~Inside(Candidate)
    BY <1>6, <2>2 DEF Resolved, End, Safe
  <2> QED BY <2>1, <2>2
<1>7. CASE Tested /\ UNCHANGED <<action, disturbed>>
  <2> SUFFICES ASSUME disturbed \notin Handling PROVE Safe'
    BY <1>7 DEF Safe
  <2>1. CandidateHeld'
    BY <1>1, <1>7 DEF Tested, Safe
  <2>2. stage' \in {"failed", "parents"} \/ Walk("open", target)
    BY <1>7 DEF Tested, Walk, End
  <2>3. CASE Walk("open", target)
    <3>1. Retraces(cur, rest, target)'
      <4>1. Follows(cur', rest', target) /\ target' = target
        BY <1>0, <1>7, <2>3, FollowsStart DEF Tested
      <4> QED BY <4>1 DEF Retraces
    <3> QED BY <2>1, <2>3, <3>1 DEF Safe, Walk
  <2> QED BY <2>1, <2>2, <2>3 DEF Safe
<1>8. CASE ParentsMade /\ UNCHANGED <<action, disturbed>>
  <2> SUFFICES ASSUME disturbed \notin Handling PROVE Safe'
    BY <1>8 DEF Safe
  <2>1. CandidateHeld'
    BY <1>1, <1>8 DEF ParentsMade, Safe
  <2>2. stage' = "failed" \/ Walk("open", target)
    BY <1>8 DEF ParentsMade, End
  <2>3. CASE Walk("open", target)
    <3>1. Retraces(cur, rest, target)'
      <4>1. Follows(cur', rest', target) /\ target' = target
        BY <1>0, <1>8, <2>3, FollowsStart DEF ParentsMade
      <4> QED BY <4>1 DEF Retraces
    <3> QED BY <2>1, <2>3, <3>1 DEF Safe, Walk
  <2> QED BY <2>1, <2>2, <2>3 DEF Safe
<1>9. CASE Opened /\ UNCHANGED <<action, disturbed>>
  <2> SUFFICES ASSUME disturbed \notin Handling PROVE Safe'
    BY <1>9 DEF Safe
  <2>1. CASE stage' = "done"
    <3>1. Arrived /\ did'.at = cur
      BY <1>9, <2>1 DEF Opened, End
    <3>2. CandidateHeld /\ Retraces(cur, rest, target) /\ target \in Locations
      BY <1>9 DEF Opened, Safe, CandidateHeld
    <3>3. cur = target
      BY <3>1, <3>2, RetracesArrived
    <3> QED BY <2>1, <3>1, <3>2, <3>3 DEF Safe, CandidateHeld
  <2>2. CASE stage' = "failed"
    BY <2>2 DEF Safe
  <2> QED BY <1>9, <2>1, <2>2 DEF Opened, End
<1>10. CASE Disturb
  <2>1. disturbed' = stage /\ stage \in Calls /\ stage' = stage
    BY <1>10 DEF Disturb
  <2> QED BY <2>1 DEF Safe, Calls
<1>11. CASE UNCHANGED vars
  BY <1>11 DEF vars, Safe, Careful, CandidateHeld, Retraces
<1> QED BY <1>2, <1>3, <1>4, <1>5, <1>6, <1>7, <1>8, <1>9, <1>10, <1>11 DEF Next, Act

\* What a tool lists, reads or writes lies in the sandbox, through whatever links,
\* if the tree does not change under its handler (policy.py:109-134,
\* executor.py:33-56).
THEOREM ToolsStayInside == Spec => []Confined
<1>1. Init => IInv
  BY InitTypes, InitSafe DEF IInv
<1>2. IInv /\ [Next]_vars => IInv'
  BY NextTypes, NextSafe DEF IInv
<1>3. IInv => Confined
  BY DEF IInv, Safe, Confined
<1> QED BY <1>1, <1>2, <1>3, PTL DEF Spec


-----------------------------------------------------------------------------
(* Path.resolve() twice.  It takes one step from each place of its walk, so    *)
(* that in the same tree two walks that start alike end alike.                 *)

Places == Locations \X Paths \X SUBSET (Locations \X Nat)

\* The place after a place: on a loop, if it does not raise, Path.resolve() goes on.
After(tree, l, names, links) ==
  LET ahead == Append(l, Head(names))
      loop == /\ Head(names) # ".." /\ At(tree, ahead).kind = "link"
              /\ \E x \in links : x[1] = ahead
      next == IF loop THEN <<ahead, Tail(names)>> ELSE Onto(tree, l, names)
  IN <<next[1], next[2], {x \in links \cup {<<ahead, Len(names) - 1>>} : x[2] < Len(next[2])}>>

Goes(w) == w[2] # <<>>

Then(tree, w) == After(tree, w[1], w[2], w[3])

\* A walk at v comes, or came, to w: w is in every set that holds v and the next
\* place of each of its places.
Leads(tree, v, w) ==
  \A S \in SUBSET Places :
    v \in S /\ (\A x \in S : Goes(x) => Then(tree, x) \in S) => w \in S

LEMMA LeadsOn ==
  ASSUME NEW tree, NEW v, NEW w, Leads(tree, v, w), Goes(w)
  PROVE  Leads(tree, v, Then(tree, w))
BY DEF Leads

LEMMA LeadsFrom ==
  ASSUME NEW tree, NEW v \in Places, NEW w, Leads(tree, v, w), v # w
  PROVE  Leads(tree, Then(tree, v), w)
<1> SUFFICES ASSUME NEW S \in SUBSET Places, Then(tree, v) \in S,
                    \A x \in S : Goes(x) => Then(tree, x) \in S
             PROVE  w \in S
  BY DEF Leads
<1>1. \A x \in S \cup {v} : Goes(x) => Then(tree, x) \in S \cup {v}
  OBVIOUS
<1>2. w \in S \cup {v}
  BY <1>1 DEF Leads
<1> QED BY <1>2

\* Where the walk stops is where it leads.
LEMMA LeadsEnd ==
  ASSUME NEW tree, NEW v \in Places, NEW w, Leads(tree, v, w), ~Goes(v)
  PROVE  w = v
<1>1. \A x \in {v} : Goes(x) => Then(tree, x) \in {v}
  OBVIOUS
<1>2. w \in {v}
  BY <1>1 DEF Leads
<1> QED BY <1>2

LEMMA LeadsStart ==
  ASSUME NEW tree, NEW v
  PROVE  Leads(tree, v, v)
BY DEF Leads

Place == <<cur, rest, following>>
Start == <<<<>>, Root \o action.raw.parts, {}>>
Judged(links) == <<judged, <<>>, links>>

\* A step of Path.resolve() is the only one from its place.
LEMMA ResolveStep ==
  ASSUME TypeOK, stage \in Resolving, GoUp \/ FollowLink \/ GiveUp \/ Enter, following' = Unfinished
  PROVE  Goes(Place) /\ Place' = Then(fs, Place) /\ fs' = fs
<1> DEFINE loop == /\ Head(rest) # ".." /\ At(fs, Here).kind = "link"
                   /\ \E x \in following : x[1] = Here
           after == <<cur', rest', {x \in following \cup {<<Here, Len(rest) - 1>>} : x[2] < Len(rest')}>>
<1>1. Place[1] = cur /\ Place[2] = rest /\ Place[3] = following
  BY DEF Place
<1>2. rest # <<>> /\ fs' = fs /\ At(fs, Here) = Lookup(Here)
  BY TreeIsSound DEF GoUp, FollowLink, GiveUp, Enter, Down
<1>3. Place' = after
  BY DEF Place, Unfinished
<1>4. After(fs, cur, rest, following) = after
  <2>1. CASE loop
    <3>1. cur' = Here /\ rest' = Tail(rest)
      BY <1>2, <2>1 DEF GoUp, FollowLink, GiveUp, Enter, CanFollow, CanEnter, InLoop, LinkHere
    <3> QED BY <2>1, <3>1 DEF After, Here
  <2>2. CASE ~loop
    <3>1. ~GiveUp
      BY <1>2, <2>2 DEF GiveUp, Down, InLoop, LinkHere
    <3>2. Onto(fs, cur, rest) = <<cur', rest'>>
      BY <3>1, StepIsOnto
    <3> QED BY <2>2, <3>2 DEF After, Here
  <2> QED BY <2>1, <2>2
<1> QED BY <1>1, <1>2, <1>3, <1>4 DEF Goes, Then

-----------------------------------------------------------------------------
(* The inductive invariant of an undisturbed action *)

\* Where a write was judged without approval there is no file.
Spares == action.tool = "write_file" /\ ~action.approved => Lookup(judged).kind # "file"

\* Path.resolve() will end at the judged location, if it ends.
Reached == \E links : Leads(fs, Place, Judged(links))

\* Path.resolve() ended at the judged location.
FoundOnce == judged \in Locations /\ \E links : Leads(fs, Start, Judged(links))

\* The file at a location.
FileAt(l) == l \in DOMAIN fs /\ fs[l] = File

Steady ==
  disturbed = "none" =>
    /\ stage \in {"asked", "recheck", "look"} => \A l \in DOMAIN fs : InDirectories(fs, l)
    /\ stage = "recheck" => Leads(fs, Start, Place)
    /\ stage = "look" => /\ FoundOnce /\ action.tool = "write_file"
                         /\ FileAt(judged) => Follows(cur, rest, judged)
    /\ stage = "resolve" => Spares /\ Reached
    /\ stage \in {"test", "parents", "open"} => Spares /\ target = judged
    /\ stage = "done" => did.at = judged /\ (did.replaced => action.approved)

LEMMA InitSteady == Init => Steady
BY TreesAssumption DEF Init, Steady

\* A file is in a directory: the walk to it meets no link and never stops before it.
LEMMA FileAhead ==
  ASSUME TypeOK, NEW path \in Locations, Follows(cur, rest, path), rest # <<>>,
         FileAt(path), InDirectories(fs, path)
  PROVE  /\ Head(rest) # ".." /\ ~LinkHere /\ (Lookup(Here).kind = "dir" \/ Len(rest) = 1)
         /\ Follows(Here, Tail(rest), path)
<1>1. PICK n \in 1..Len(path) : Here = SubSeq(path, 1, n) /\ (n = Len(path) => Len(rest) = 1)
  BY FollowsHere
<1>2. Head(rest) # ".." /\ Follows(Here, Tail(rest), path)
  BY FollowsHere
<1>3. path \in Seq(Names) /\ Len(path) \in Nat
  <2>1. path \in Seq(Names)
    BY DEF Locations
  <2> QED BY <2>1
<1>4. CASE n = Len(path)
  <2>1. Here = path
    BY <1>1, <1>3, <1>4, SubSeqFull
  <2>2. Lookup(Here) = File
    BY <2>1 DEF FileAt, Lookup
  <2> QED BY <1>1, <1>2, <1>4, <2>2, SetFacts DEF LinkHere
<1>5. CASE n # Len(path)
  <2>1. n \in 0..(Len(path) - 1)
    BY <1>3, <1>5
  <2>2. Lookup(Here) = Dir
    BY <1>1, <2>1 DEF InDirectories, Lookup
  <2> QED BY <1>2, <2>2, SetFacts DEF LinkHere
<1> QED BY <1>4, <1>5

\* What the call has found stays so while the tree does.
LEMMA UndisturbedWalk ==
  ASSUME TypeOK, Safe, Steady, StepWalk, UNCHANGED <<action, disturbed>>, disturbed = "none"
  PROVE  Steady'
<1>0. UNCHANGED <<action, disturbed, stage, judged, target, did>> /\ stage \in Calls
  BY DEF StepWalk
<1>1. CASE MakeDir
  <2>1. stage = "parents" /\ fs' = Put(Here, Dir, fs) /\ Here \in Locations
    <3>1. cur \in Seq(Names) /\ rest \in Seq(Names \cup {".."}) /\ rest # <<>> /\ Head(rest) # ".."
      BY <1>1 DEF TypeOK, Locations, Paths, MakeDir, Down
    <3>2. Head(rest) \in Names
      BY <3>1, SeqFacts
    <3> QED BY <1>1, <3>1, <3>2, AppendFacts DEF MakeDir, Here, Locations
  <2>2. Lookup(judged)' \in {Dir, Lookup(judged)}
    BY <1>0, <2>1, PutFacts, SetFacts
  <2>3. Spares /\ target = judged
    BY <2>1 DEF Steady
  <2>4. Spares'
    BY <1>0, <2>2, <2>3, SetFacts DEF Spares
  <2> QED BY <1>0, <2>1, <2>3, <2>4 DEF Steady
<1>2. CASE GoUp \/ FollowLink \/ GiveUp \/ Enter
  <2>0. fs' = fs /\ following' = Unfinished
    BY <1>2 DEF StepWalk, GoUp, FollowLink, GiveUp, Enter
  <2>1. CASE stage = "recheck"
    <3>1. Leads(fs, Start, Place) /\ \A l \in DOMAIN fs : InDirectories(fs, l)
      BY <2>1 DEF Steady
    <3>2. Goes(Place) /\ Place' = Then(fs, Place)
      BY <1>2, <2>0, <2>1, ResolveStep DEF Resolving
    <3>3. Leads(fs, Start, Then(fs, Place))
      BY <3>1, <3>2, LeadsOn
    <3>4. Start' = Start
      BY <1>0 DEF Start
    <3>5. Leads(fs, Start, Place)'
      BY <2>0, <3>2, <3>3, <3>4 DEF Leads
    <3> QED BY <1>0, <2>0, <2>1, <3>1, <3>5 DEF Steady
  <2>2. CASE stage = "look"
    <3>1. /\ FoundOnce /\ judged \in Locations /\ action.tool = "write_file"
          /\ FileAt(judged) => Follows(cur, rest, judged)
          /\ \A l \in DOMAIN fs : InDirectories(fs, l)
      BY <2>2 DEF Steady, FoundOnce
    <3>2. ASSUME FileAt(judged) PROVE Follows(cur', rest', judged)
      <4>1. rest # <<>> /\ InDirectories(fs, judged) /\ Follows(cur, rest, judged)
        BY <1>2, <3>1, <3>2 DEF FileAt, GoUp, FollowLink, GiveUp, Enter, Down
      <4>2. Head(rest) # ".." /\ ~LinkHere /\ Follows(Here, Tail(rest), judged)
        BY <3>1, <3>2, <4>1, FileAhead
      <4>3. cur' = Here /\ rest' = Tail(rest)
        BY <1>2, <4>2 DEF GoUp, FollowLink, GiveUp, Enter
      <4> QED BY <4>2, <4>3
    <3>3. FoundOnce' /\ (FileAt(judged)' => FileAt(judged))
      BY <1>0, <2>0, <3>1 DEF FoundOnce, FileAt, Start, Judged
    <3> QED BY <1>0, <2>0, <2>2, <3>1, <3>2, <3>3 DEF Steady
  <2>3. CASE stage = "resolve"
    <3>1. Spares /\ Reached
      BY <2>3 DEF Steady
    <3>2. PICK h : Leads(fs, Place, Judged(h))
      BY <3>1 DEF Reached
    <3>3. Goes(Place) /\ Place' = Then(fs, Place)
      BY <1>2, <2>0, <2>3, ResolveStep DEF Resolving
    <3>4. Place \in Places /\ Place # Judged(h)
      BY <3>3 DEF Place, Places, TypeOK, Goes, Judged
    <3>5. Leads(fs, Then(fs, Place), Judged(h))
      BY <3>2, <3>4, LeadsFrom
    <3>6. Judged(h)' = Judged(h)
      BY <1>0 DEF Judged
    <3>7. Leads(fs, Place, Judged(h))'
      BY <2>0, <3>3, <3>5, <3>6 DEF Leads
    <3>8. Reached'
      BY <3>7 DEF Reached
    <3>9. Spares'
      BY <1>0, <2>0, <3>1 DEF Spares, Lookup
    <3> QED BY <1>0, <2>3, <3>8, <3>9 DEF Steady
  <2>4. CASE stage \in {"test", "parents", "open"}
    <3>1. Spares /\ target = judged
      BY <2>4 DEF Steady
    <3>2. Spares'
      BY <1>0, <2>0, <3>1 DEF Spares, Lookup
    <3> QED BY <1>0, <2>4, <3>1, <3>2 DEF Steady
  <2> QED BY <1>0, <2>1, <2>2, <2>3, <2>4 DEF Calls, Handling
<1> QED BY <1>1, <1>2 DEF StepWalk

\* A file is found.
LEMMA FileFound ==
  ASSUME TypeOK, judged \in Locations, FileAt(judged) => Follows(cur, rest, judged), stage = "look", Over,
         \A l \in DOMAIN fs : InDirectories(fs, l)
  PROVE  Lookup(judged).kind = "file" => Found = "file"
<1> SUFFICES ASSUME Lookup(judged).kind = "file" PROVE Found = "file"
  OBVIOUS
<1>1. FileAt(judged) /\ InDirectories(fs, judged)
  <2>1. judged \in DOMAIN fs /\ fs[judged].kind = "file"
    BY SetFacts DEF Lookup
  <2>2. fs[judged] = File
    BY <2>1, SetFacts DEF TypeOK, Nodes, Links
  <2> QED BY <2>1, <2>2 DEF FileAt
<1>2. Follows(cur, rest, judged)
  BY <1>1
<1>3. CASE Arrived
  <2>1. cur = judged
    BY <1>2, <1>3, RetracesArrived DEF Retraces
  <2> QED BY <1>3, <2>1 DEF Found
<1>4. CASE ~Arrived
  <2>1. ~LinkHere /\ (Lookup(Here).kind = "dir" \/ Len(rest) = 1)
    BY <1>1, <1>2, <1>4, FileAhead DEF Arrived
  <2>2. CanEnter
    BY <2>1 DEF CanEnter
  <2> QED BY <1>4, <2>1, <2>2 DEF Over, Stuck
<1> QED BY <1>3, <1>4

\* Path.resolve() again leads where it led before.
LEMMA ResolveAgain ==
  ASSUME NEW h, Leads(fs, Start, Judged(h)), Resolve("resolve"),
         UNCHANGED <<fs, action>>, judged' = judged
  PROVE  Reached'
<1>1. Place' = Start /\ Judged(h)' = Judged(h)
  BY DEF Resolve, Walk, Place, Start, Judged
<1>2. Leads(fs, Place, Judged(h))'
  BY <1>1 DEF Leads
<1> QED BY <1>2 DEF Reached

LEMMA NextSteady ==
  ASSUME TypeOK, Safe, Steady, [Next]_vars
  PROVE  Steady'
<1> SUFFICES ASSUME disturbed' = "none" PROVE Steady'
  BY DEF Steady
<1>0. disturbed = "none" /\ (Act \/ UNCHANGED vars)
  <2>1. CASE Act
    BY <2>1 DEF Act
  <2>2. CASE Disturb
    BY <2>2 DEF Disturb, Calls, Handling
  <2>3. CASE UNCHANGED vars
    BY <2>3 DEF vars
  <2> QED BY <2>1, <2>2, <2>3 DEF Next
<1>1. CASE Recheck /\ UNCHANGED <<action, disturbed>>
  <2>1. CASE stage' = "denied"
    BY <2>1 DEF Steady
  <2>2. CASE Resolve("recheck")
    <3>1. Place' = Start /\ cur' = <<>> /\ stage' = "recheck" /\ fs' = fs /\ action' = action
          /\ stage = "asked"
      BY <1>1, <2>2 DEF Recheck, Resolve, Walk, Place, Start
    <3>2. Leads(fs', Start', Place')
      BY <3>1, LeadsStart DEF Start
    <3>3. \A l \in DOMAIN fs : InDirectories(fs, l)
      BY <1>0, <3>1 DEF Steady
    <3> QED BY <3>1, <3>2, <3>3 DEF Steady
  <2> QED BY <1>1, <2>1, <2>2 DEF Recheck, End
<1>2. CASE StepWalk /\ UNCHANGED <<action, disturbed>>
  BY <1>0, <1>2, UndisturbedWalk
<1>3. CASE Rechecked /\ UNCHANGED <<action, disturbed>>
  <2>1. CASE stage' = "denied"
    BY <2>1 DEF Steady
  <2>2. CASE stage' # "denied"
    <3>1. /\ Inside(Candidate) /\ judged' = cur /\ fs' = fs /\ stage = "recheck"
          /\ rest = <<>> /\ Leads(fs, Start, Place) /\ cur \in Locations
          /\ \A l \in DOMAIN fs : InDirectories(fs, l)
      BY <1>0, <1>3, <2>2 DEF Rechecked, End, Inside, Arrived, Steady, Candidate, TypeOK
    <3>2. PICK h : h = following
      OBVIOUS
    <3>3. Judged(h)' = Place /\ Start' = Start
      BY <1>3, <3>1, <3>2 DEF Judged, Place, Start
    <3>4. Leads(fs, Start, Judged(h))'
      BY <3>1, <3>3 DEF Leads
    <3>8. CASE action.tool = "write_file"
      <4>1. Walk("look", cur) /\ stage' = "look"
        BY <1>3, <3>1, <3>8 DEF Rechecked, Walk, Candidate
      <4>2. Follows(cur', rest', judged')
        <5>1. cur \in Paths
          BY <3>1, SetFacts
        <5>2. Follows(cur', rest', cur)
          BY <4>1, <5>1, FollowsStart
        <5> QED BY <3>1, <5>2
      <4>3. FoundOnce'
        BY <3>1, <3>4 DEF FoundOnce
      <4> QED BY <1>3, <3>1, <3>8, <4>1, <4>2, <4>3 DEF Steady
    <3>9. CASE action.tool # "write_file"
      <4>1. Resolve("resolve") /\ stage' = "resolve" /\ Place' = Start
        BY <1>3, <3>1, <3>9 DEF Rechecked, Resolve, Walk, Place, Start
      <4>2. Leads(fs, Place, Judged(h))'
        BY <3>3, <3>4, <4>1 DEF Leads
      <4>3. Reached' /\ Spares'
        BY <1>3, <3>9, <4>2 DEF Reached, Spares
      <4> QED BY <4>1, <4>3 DEF Steady
    <3> QED BY <3>8, <3>9
  <2> QED BY <2>1, <2>2
<1>4. CASE Looked /\ UNCHANGED <<action, disturbed>>
  <2>1. CASE End("denied")
    BY <2>1 DEF End, Steady
  <2>2. CASE Resolve("resolve") /\ (Found # "file" \/ action.approved)
    <3>1. /\ FoundOnce /\ stage = "look" /\ UNCHANGED <<fs, judged, action>> /\ Over
          /\ FileAt(judged) => Follows(cur, rest, judged)
          /\ \A l \in DOMAIN fs : InDirectories(fs, l)
      BY <1>0, <1>4 DEF Looked, Steady
    <3>2. PICK h : Leads(fs, Start, Judged(h))
      BY <3>1 DEF FoundOnce
    <3>3. Reached'
      BY <2>2, <3>1, <3>2, ResolveAgain
    <3>4. Lookup(judged).kind = "file" => action.approved
      BY <2>2, <3>1, FileFound DEF FoundOnce
    <3>5. Spares'
      BY <3>1, <3>4 DEF Spares, Lookup
    <3>6. stage' = "resolve"
      BY <2>2 DEF Resolve, Walk
    <3> QED BY <3>3, <3>5, <3>6 DEF Steady
  <2>3. \/ End("denied")
        \/ Resolve("resolve") /\ (Found # "file" \/ action.approved)
    BY <1>4 DEF Looked
  <2> QED BY <2>1, <2>2, <2>3
<1>5. CASE Resolved /\ UNCHANGED <<action, disturbed>>
  <2>1. CASE stage' = "failed"
    BY <2>1 DEF Steady
  <2>2. CASE stage' # "failed"
    <3>1. /\ rest = <<>> /\ target' = Candidate /\ UNCHANGED <<fs, judged, action>>
          /\ stage' = "test" /\ Spares /\ Reached
      BY <1>0, <1>5, <2>2 DEF Resolved, End, Walk, Inside, Arrived, Steady
    <3>2. PICK h : Leads(fs, Place, Judged(h))
      BY <3>1 DEF Reached
    <3>3. Place \in Places /\ ~Goes(Place)
      BY <3>1 DEF Place, Places, TypeOK, Goes
    <3>4. Judged(h) = Place
      BY <3>2, <3>3, LeadsEnd
    <3>5. judged = cur
      BY <3>4 DEF Judged, Place
    <3>6. target' = judged'
      BY <3>1, <3>5 DEF Candidate
    <3>7. Spares'
      BY <3>1 DEF Spares, Lookup
    <3> QED BY <3>1, <3>6, <3>7 DEF Steady
  <2> QED BY <2>1, <2>2
<1>6. CASE Tested /\ UNCHANGED <<action, disturbed>>
  <2>1. stage' \in {"failed", "parents", "open"} /\ UNCHANGED <<fs, judged, target, action>>
        /\ Spares /\ target = judged
    BY <1>0, <1>6 DEF Tested, End, Walk, Steady
  <2>2. Spares' /\ target' = judged'
    BY <2>1 DEF Spares, Lookup
  <2> QED BY <2>1, <2>2 DEF Steady
<1>7. CASE ParentsMade /\ UNCHANGED <<action, disturbed>>
  <2>1. stage' \in {"failed", "open"} /\ UNCHANGED <<fs, judged, target, action>>
        /\ Spares /\ target = judged
    BY <1>0, <1>7 DEF ParentsMade, End, Walk, Steady
  <2>2. Spares' /\ target' = judged'
    BY <2>1 DEF Spares, Lookup
  <2> QED BY <2>1, <2>2 DEF Steady
<1>8. CASE Opened /\ UNCHANGED <<action, disturbed>>
  <2>1. CASE stage' = "failed"
    BY <2>1 DEF Steady
  <2>2. CASE stage' # "failed"
    <3>1. /\ Arrived /\ stage' = "done" /\ UNCHANGED <<judged, action>> /\ Spares /\ target = judged
          /\ did'.at = cur
      BY <1>0, <1>8, <2>2 DEF Opened, End, Steady
    <3>2. target \in Locations /\ Retraces(cur, rest, target)
      BY <1>0, <1>8 DEF Opened, Safe, CandidateHeld, Handling
    <3>3. cur = target
      BY <3>1, <3>2, RetracesArrived
    <3>4. did'.replaced => action.approved
      <4> DEFINE replaced == action.tool = "write_file" /\ Found = "file"
      <4>1. replaced => action.approved
        BY <3>1, <3>3 DEF Spares, Found
      <4>2. did' = [at |-> cur, replaced |-> replaced]
        BY <1>8, <2>2 DEF Opened, End
      <4> HIDE DEF replaced
      <4> QED BY <4>1, <4>2
    <3> QED BY <3>1, <3>3, <3>4 DEF Steady
  <2> QED BY <2>1, <2>2
<1>9. CASE UNCHANGED vars
  BY <1>0, <1>9 DEF vars, Steady, Follows, FileAt, Lookup, FoundOnce, Reached, Spares, Place, Start, Judged
<1> QED BY <1>0, <1>1, <1>2, <1>3, <1>4, <1>5, <1>6, <1>7, <1>8, <1>9 DEF Act

\* The location that a tool opens is the one that the recheck judged, and a file is
\* replaced only with the caller's approval, if no other process changes the tree
\* (policy.py:79-99, 115-134, executor.py:46-52, 102-114).
THEOREM ToolsActAsChecked == Spec => []ActsAsChecked
<1>1. Init => IInv /\ Steady
  BY InitTypes, InitSafe, InitSteady DEF IInv
<1>2. (IInv /\ Steady) /\ [Next]_vars => (IInv /\ Steady)'
  BY NextTypes, NextSafe, NextSteady DEF IInv
<1>3. IInv /\ Steady => ActsAsChecked
  BY DEF Steady, ActsAsChecked
<1> QED BY <1>1, <1>2, <1>3, PTL DEF Spec
=============================================================================
