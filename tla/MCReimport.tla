----------------------------- MODULE MCReimport -----------------------------
(* Instances of Reimport: a server imported with and without debugging and *)
(* once as the file of a dry run, and by force; a skill twice in one       *)
(* import; records without a version or a name; a directory with other     *)
(* bodies, versions and modules under the name, and an enriched copy.      *)
EXTENDS Reimport

Rec(n, v, m, b, t) ==
    [name |-> n, version |-> v, module |-> m, body |-> b, created |-> 0,
     debug |-> FALSE, taxonomy |-> t]

MCForeign ==
    {Rec("x", "1", "mcp", "b1", "old"), Rec("x", "1", "mcp", "b2", "old"),
     Rec("x", "", "mcp", "b1", "old"), Rec("x", "1", "skill", "b1", "none")}

Of(kind, n, v) ==
    [kind |-> kind,
     record |-> Rec(n, v, IF kind = "skill" THEN "skill" ELSE "mcp", "b1", "none")]
X == Of("mcp", "x", "1")
Skill == Of("skill", "x", "1")
Bad == [kind |-> "bad"]
File == [kind |-> "file"]

An(force, debug, dry, buf, items) ==
    [force |-> force, debug |-> debug, dry |-> dry, buffer |-> buf,
     modules |-> {items[1].kind} \cap {"mcp", "skill"}, items |-> items]

MCHistories ==
    {<<An(FALSE, TRUE, FALSE, 0, <<X>>), An(FALSE, FALSE, FALSE, 0, <<X>>)>>,
     <<An(FALSE, TRUE, TRUE, 0, <<X>>), An(FALSE, TRUE, FALSE, 0, <<X>>),
       An(FALSE, FALSE, FALSE, 0, <<File>>)>>,
     <<An(FALSE, FALSE, FALSE, 0, <<Skill, Bad, Skill>>)>>,
     <<An(TRUE, TRUE, FALSE, 0, <<X>>),
       An(FALSE, FALSE, FALSE, 1, <<Of("oasf", "x", ""), Of("oasf", "", "1")>>)>>}
=============================================================================
