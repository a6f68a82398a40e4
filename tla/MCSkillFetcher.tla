--------------------------- MODULE MCSkillFetcher ---------------------------
(* Instances of SkillFetcher: skills below skills, files in directories    *)
(* below a skill, links, directories that cannot be listed, and a path     *)
(* that is no directory.                                                   *)
EXTENDS SkillFetcher, TLC

MCNames == <<"SKILL.md", "a", "b">>
MCSize == [v1 |-> 1, v2 |-> 2]
MCValid == {"v1"}

Is(content) == [kind |-> "file", is |-> content]
Other(kind) == [kind |-> kind, is |-> ""]
Entry(skill, a, b) ==
    [n \in ToSet(MCNames) |->
        IF n = "SKILL.md" THEN skill ELSE IF n = "a" THEN a ELSE b]
None == Other("none")
Bare == Entry(None, None, None)

Root == <<"r">>
A == <<"r", "a">>
AA == <<"r", "a", "a">>
B == <<"r", "b">>
Below == Other("dir")

\* All places, a directory's entries behind its own place.
RECURSIVE From(_, _)
From(dirs, d) ==
    FlattenSeq([i \in DOMAIN MCNames |->
        <<[dir |-> d, name |-> MCNames[i]]>>
        \o IF Append(d, MCNames[i]) \in ToSet(dirs)
           THEN From(dirs, Append(d, MCNames[i])) ELSE <<>>])

Tree(dirs, unreadable, entries) ==
    [dirs |-> dirs, unreadable |-> unreadable, disk |-> entries,
     order |-> IF dirs = <<>> THEN <<>> ELSE From(dirs, dirs[1])]

\* A bundle, at both limits, with a skill among its files, then a skill of
\* SKILL.md alone.
Nested ==
    Tree(<<Root, A, AA, B>>, {},
         (Root :> Entry(None, Below, Below)) @@
         (A :> Entry(Is("v1"), Below, Is("v2"))) @@
         (AA :> Entry(Is("v1"), None, None)) @@
         (B :> Entry(Is("v1"), None, None)))

\* A bundle for a file in a directory below it, which an editor may remove; the
\* directory behind it can be listed, or cannot.
Deep(unreadable) ==
    Tree(<<Root, A, B>>, unreadable,
         (Root :> Entry(Is("v1"), Below, Below)) @@
         (A :> Entry(None, Is("v2"), None)) @@
         (B :> Bare))

\* SKILL.md as a link, out of the tree and to another file; a skill in
\* a directory that cannot be listed.
Linked ==
    Tree(<<Root, A, B>>, {B},
         (Root :> Entry(Other("out"), Below, Below)) @@
         (A :> Entry([kind |-> "in", is |-> "a"], Is("v1"), None)) @@
         (B :> Entry(Is("v1"), None, None)))

Blocked ==
    Tree(<<Root, A>>, {A},
         (Root :> Entry(None, Below, None)) @@ (A :> Bare))

NoTree == Tree(<<>>, {}, <<>>)

MCTrees == {Nested, Deep({}), Deep({B}), Linked, Blocked, NoTree}
=============================================================================
