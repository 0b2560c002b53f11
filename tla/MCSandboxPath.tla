----------------------------- MODULE MCSandboxPath -----------------------------
(* Instance of SandboxPath for TLC: a sandbox s next to a directory o. *)
EXTENDS SandboxPath

MCRoot == <<"s">>

Link(top, to) == [kind |-> "link", top |-> top, to |-> to]

\* To a place in the sandbox, out of it, back into it, to itself or another link, and
\* through what may be a loop.
MCLinks ==
  {Link(FALSE, <<"b">>), Link(FALSE, <<"a">>), Link(TRUE, <<"o", "a">>),
   Link(FALSE, <<"..", "s", "a", "b">>), Link(FALSE, <<"a", "..", "b">>)}

Ground == (<<>> :> Dir) @@ (<<"s">> :> Dir)
At(l, nodes) == {<<>>} \cup {l :> n : n \in nodes}

\* Entries a and b of the sandbox and o, the directory beside it: each is missing,
\* a directory, a file or a link.
MCTrees ==
  {Ground @@ a @@ b @@ o :
     a \in At(<<"s", "a">>, {File} \cup MCLinks)
          \cup {(<<"s", "a">> :> Dir) @@ ab : ab \in At(<<"s", "a", "b">>, {File, Link(TRUE, <<"o">>)})},
     b \in At(<<"s", "b">>, {Dir, File} \cup MCLinks),
     o \in {<<>>, <<"o">> :> Dir, (<<"o">> :> Dir) @@ (<<"o", "a">> :> File)}}
    \cup {(<<>> :> Dir) @@ (<<"s">> :> Link(FALSE, <<"o">>)) @@ (<<"o">> :> Dir)}

MCRaws ==
  [form: {"relative"}, parts: {<<>>, <<"a">>, <<"a", "b">>, <<"b", "a", "o">>, <<"..", "o">>}]
    \cup {[form |-> "absolute", parts |-> <<"o", "a">>]}

\* The target is replaced or removed, or the sandbox itself becomes a link.
MCChanges ==
  {<<<<"s", "a">>, n>> : n \in {Nothing, Dir, File, Link(TRUE, <<"o">>), Link(FALSE, <<"b">>)}}
    \cup {<<<<"s">>, Link(FALSE, <<"o">>)>>, <<<<"o">>, Dir>>}
==============================================================================
