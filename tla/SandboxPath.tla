------------------------------ MODULE SandboxPath ------------------------------
(***************************************************************************)
(* What a sandboxed file tool does to the file system: the executor's      *)
(* recheck (DeterministicPolicy.check, control/policy.py) and the handlers *)
(* of SandboxToolRegistry (tools/executor.py), for one approved or         *)
(* unapproved action.                                                      *)
(*                                                                         *)
(* Path.resolve() and every system call look names up one by one, and      *)
(* other processes may change the tree between any two lookups; each       *)
(* lookup is one step here.  The handlers are given the path twice over:   *)
(* the recheck judges one walk through the tree, the tool takes another.   *)
(***************************************************************************)
EXTENDS Naturals, SequencesExt

CONSTANTS Names,       \* names of files and directories
          Root,        \* the location of the sandbox, without links when it was configured
          Trees,       \* the file systems an action may find
          Raws,        \* the paths that actions name
          Changes,     \* what another process may put where: <<location, node>>
          MaxHops      \* links that a system call follows before it gives up

Locations == Seq(Names)
Paths == Seq(Names \cup {".."})

Nothing == [kind |-> "none"]
Dir == [kind |-> "dir"]
File == [kind |-> "file"]
Links == [kind: {"link"}, top: BOOLEAN, to: Paths]  \* from the top, or from where it is
Nodes == {Dir, File} \cup Links

\* What is in a tree is in a directory, which is in a directory.
InDirectories(tree, l) ==
  \A n \in 0..(Len(l) - 1) : SubSeq(l, 1, n) \in DOMAIN tree /\ tree[SubSeq(l, 1, n)] = Dir

ASSUME RootAssumption == Root \in Locations
ASSUME MaxHopsAssumption == MaxHops \in Nat
ASSUME ParentAssumption == ".." \notin Names
ASSUME RawsAssumption == Raws \subseteq [form: {"relative", "absolute", "null"}, parts: Paths]
ASSUME ChangesAssumption == Changes \subseteq Locations \X (Nodes \cup {Nothing})
ASSUME TreesAssumption ==
  \A tree \in Trees : /\ DOMAIN tree \subseteq Locations
                      /\ \A l \in DOMAIN tree : tree[l] \in Nodes /\ InDirectories(tree, l)

VARIABLES
  fs,         \* the file system: existing location -> node
  action,     \* the action: its tool, path, and whether the caller approved it
  stage,      \* the call in progress, or how the action ended
  cur,        \* where its walk is,
  rest,       \* the names it has still to look up,
  hops,       \* how many links it has followed (a system call),
  following,  \* and which it is following, with the names that are left behind each
  judged,     \* the candidate of the recheck
  target,     \* the candidate that the handler works on
  did,        \* history: the location that was opened, and whether a file was replaced
  disturbed   \* history: the call under which the tree changed, or "none"

vars == <<fs, action, stage, cur, rest, hops, following, judged, target, did, disturbed>>
walk == <<cur, rest, hops, following>>

Resolving == {"recheck", "resolve"}
Handling == {"resolve", "test", "parents", "open"}
Calls == {"recheck", "look"} \cup Handling
Ends == {"denied", "failed", "done"}

-----------------------------------------------------------------------------
(* Walking through the tree *)

Lookup(l) == IF l \in DOMAIN fs THEN fs[l] ELSE Nothing

Put(l, node, tree) == [k \in DOMAIN tree \cup {l} |-> IF k = l THEN node ELSE tree[k]]

Here == Append(cur, Head(rest))

Down == rest # <<>> /\ Head(rest) # ".."

\* Faulty variant: the last name is not resolved.
LinkBefore == Lookup(Here).kind = "link" /\ (stage \in Resolving => Len(rest) > 1)

LinkHere == Lookup(Here).kind = "link"

\* Path.resolve() stops only at a link that it is following already.
InLoop == stage \in Resolving /\ \E x \in following : x[1] = Here

CanFollow == IF stage \in Resolving THEN ~InLoop ELSE hops < MaxHops

\* Path.resolve() takes any names after what is no directory as they are; the
\* kernel does not.
CanEnter ==
  LET kind == Lookup(Here).kind
  IN /\ ~LinkHere
     /\ stage \in Resolving \/ kind = "dir" \/ (Len(rest) = 1 /\ stage # "parents")

GoUp ==
  /\ rest # <<>> /\ Head(rest) = ".."
  /\ cur' = IF cur = <<>> THEN <<>> ELSE Front(cur)
  /\ rest' = Tail(rest)
  /\ UNCHANGED <<hops, fs>>

FollowLink ==
  /\ Down /\ LinkHere /\ CanFollow
  /\ LET link == Lookup(Here)
     IN /\ cur' = IF link.top THEN <<>> ELSE cur
        /\ rest' = link.to \o Tail(rest)
  /\ hops' = IF stage \in Resolving THEN hops ELSE hops + 1
  /\ UNCHANGED fs

\* On a loop Path.resolve() raises (Python < 3.13: Stuck), or takes the link for
\* what it is and goes on behind it.
GiveUp ==
  /\ Down /\ LinkHere /\ InLoop
  /\ cur' = Here /\ rest' = Tail(rest)
  /\ UNCHANGED <<hops, fs>>

Enter ==
  /\ Down /\ CanEnter
  /\ cur' = Here /\ rest' = Tail(rest)
  /\ UNCHANGED <<hops, fs>>

\* Path.mkdir(parents=True): what is missing is made, but for the target of a
\* link (a name behind a link may be either).
MakeDir ==
  /\ Down /\ stage = "parents" /\ Lookup(Here) = Nothing
  /\ fs' = Put(Here, Dir, fs)
  /\ cur' = Here /\ rest' = Tail(rest)
  /\ UNCHANGED hops

Stuck ==
  /\ Down
  /\ IF LinkHere THEN ~CanFollow
     ELSE ~CanEnter /\ ~(stage = "parents" /\ Lookup(Here) = Nothing /\ hops = 0)

Arrived == rest = <<>>
Over == Arrived \/ Stuck
Found == IF Arrived THEN Lookup(cur).kind ELSE "none"

-----------------------------------------------------------------------------
(* The calls of an action, each with its walk *)

Walk(call, path) ==
  /\ stage' = call
  /\ cur' = <<>> /\ rest' = path /\ hops' = 0 /\ following' = {}

End(how) == stage' = how /\ UNCHANGED walk

\* _resolve_sandbox_path, before and after it resolves.
WellFormed(raw) == raw.form = "relative" /\ ~\E i \in DOMAIN raw.parts : raw.parts[i] = ".."

Resolve(call) == Walk(call, Root \o action.raw.parts)

Candidate == cur

\* Faulty variant: the resolved path is not compared with the root.
Anywhere(candidate) == Arrived

Inside(candidate) == Arrived /\ IsPrefix(Root, candidate)

Recheck ==
  /\ stage = "asked"
  /\ IF WellFormed(action.raw) THEN Resolve("recheck") ELSE End("denied")
  /\ UNCHANGED <<fs, judged, target, did>>

Rechecked ==
  /\ stage = "recheck" /\ Over
  /\ IF ~Inside(Candidate) THEN End("denied") /\ UNCHANGED judged
     ELSE /\ judged' = Candidate
          /\ IF action.tool = "write_file" THEN Walk("look", Candidate) ELSE Resolve("resolve")
  /\ UNCHANGED <<fs, target, did>>

\* exists() and is_dir(): a directory is not replaced, and a file only when the
\* caller approved.
Looked ==
  /\ stage = "look" /\ Over
  /\ \/ Found = "dir" /\ End("denied")
     \/ Found = "file" /\ ~action.approved /\ End("denied")
     \/ Found = "none" /\ Resolve("resolve")
     \/ Found = "file" /\ action.approved /\ Resolve("resolve")
  /\ UNCHANGED <<fs, judged, target, did>>

\* Faulty variant: the recheck is trusted, the error of the second resolution is
\* not raised.
ResolvedUnchecked ==
  /\ stage = "resolve" /\ Over
  /\ IF Arrived THEN target' = Candidate /\ Walk("test", Candidate)
     ELSE End("failed") /\ UNCHANGED target
  /\ UNCHANGED <<fs, judged, did>>

\* resolve_for_execution
Resolved ==
  /\ stage = "resolve" /\ Over
  /\ IF Inside(Candidate) THEN target' = Candidate /\ Walk("test", Candidate)
     ELSE End("failed") /\ UNCHANGED target
  /\ UNCHANGED <<fs, judged, did>>

\* What a handler takes: _list_files, _read_file, _write_file.
Takes == [list_files |-> {"dir"}, read_file |-> {"file"}, write_file |-> {"file", "none"}]

Tested ==
  /\ stage = "test" /\ Over
  /\ IF Found \notin Takes[action.tool] THEN End("failed")
     ELSE IF action.tool = "write_file" THEN Walk("parents", Front(target))
     ELSE Walk("open", target)
  /\ UNCHANGED <<fs, judged, target, did>>

ParentsMade ==
  /\ stage = "parents" /\ Over
  /\ IF Arrived THEN Walk("open", target) ELSE End("failed")
  /\ UNCHANGED <<fs, judged, target, did>>

\* iterdir(), read_text() and write_text() open the path that was tested.
Opened ==
  /\ stage = "open" /\ Over
  /\ IF Arrived /\ Found \in Takes[action.tool]
     THEN /\ did' = [at |-> cur, replaced |-> action.tool = "write_file" /\ Found = "file"]
          /\ fs' = IF action.tool = "write_file" THEN Put(cur, File, fs) ELSE fs
          /\ End("done")
     ELSE End("failed") /\ UNCHANGED <<fs, did>>
  /\ UNCHANGED <<judged, target>>

-----------------------------------------------------------------------------
(* Other processes *)

\* One change, of one location whose parent is a directory (bound).
Disturb ==
  /\ stage \in Calls /\ disturbed = "none"
  /\ \E change \in Changes :
       LET l == change[1]
           kept == Restrict(fs, {k \in DOMAIN fs : ~IsPrefix(l, k)})
       IN /\ l # <<>> /\ Lookup(Front(l)) = Dir /\ Lookup(l) # change[2]
          /\ fs' = IF change[2] = Nothing THEN kept ELSE Put(l, change[2], kept)
  /\ disturbed' = stage
  /\ UNCHANGED <<action, stage, cur, rest, hops, following, judged, target, did>>

-----------------------------------------------------------------------------
Init ==
  /\ fs \in Trees
  /\ action \in [tool: {"list_files", "read_file", "write_file"}, raw: Raws, approved: BOOLEAN]
  /\ stage = "asked"
  /\ cur = <<>> /\ rest = <<>> /\ hops = 0 /\ following = {}
  /\ judged = <<>> /\ target = <<>>
  /\ did = [at |-> <<>>, replaced |-> FALSE]
  /\ disturbed = "none"

\* The link here is followed, if it is one, and links whose target's names have
\* all been looked up are not any more.
Unfinished == {x \in following \cup {<<Here, Len(rest) - 1>>} : x[2] < Len(rest')}

StepWalk ==
  /\ stage \in Calls
  /\ GoUp \/ FollowLink \/ GiveUp \/ Enter \/ MakeDir
  /\ following' = Unfinished
  /\ UNCHANGED <<stage, judged, target, did>>

Act ==
  /\ Recheck \/ StepWalk \/ Rechecked \/ Looked \/ Resolved \/ Tested \/ ParentsMade \/ Opened
  /\ UNCHANGED <<action, disturbed>>

Next == Act \/ Disturb

Spec == Init /\ [][Next]_vars

-----------------------------------------------------------------------------
(* Properties *)

\* A path as it was resolved and accepted, or none yet.
Accepted(l) == l \in Locations /\ (l = <<>> \/ IsPrefix(Root, l))

\* Type invariant.  The paths that the recheck and the handler accept are locations
\* in the sandbox, each by its own resolution: however the tree changed in between,
\* the handler does not inherit a path from the recheck (policy.py:108-113).
TypeOK ==
  /\ DOMAIN fs \subseteq Locations /\ \A l \in DOMAIN fs : fs[l] \in Nodes
  /\ action \in [tool: {"list_files", "read_file", "write_file"}, raw: Raws, approved: BOOLEAN]
  /\ stage \in {"asked"} \cup Calls \cup Ends
  /\ cur \in Locations /\ rest \in Paths /\ hops \in 0..MaxHops
  /\ following \subseteq Locations \X Nat
  /\ Accepted(judged) /\ Accepted(target)
  /\ did \in [at: Locations, replaced: BOOLEAN]
  /\ disturbed \in {"none"} \cup Calls

\* Whatever links the tree holds, inside the sandbox or on the way to it, what a
\* tool lists, reads or writes lies in the sandbox, unless another process
\* changed the tree under the handler; a change before that, while the recheck
\* ran, is seen (policy.py:127-133, executor.py:34-52).
Confined ==
  stage = "done" => disturbed \in Handling \/ IsPrefix(Root, did.at)

\* The tool opens the location that the recheck judged, although it resolves the
\* path again, makes directories and looks again before it does; so a file is
\* replaced only with the caller's approval (executor.py:46-52, 102-114).
ActsAsChecked ==
  stage = "done" /\ disturbed = "none" => did.at = judged /\ (did.replaced => action.approved)
=============================================================================
