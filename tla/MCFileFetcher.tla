--------------------------- MODULE MCFileFetcher ----------------------------
(* Instances of FileFetcher: directories of files, good and bad.           *)
EXTENDS FileFetcher

File(elems) == [readable |-> TRUE, parses |-> TRUE, elems |-> elems]
Unreadable == [readable |-> FALSE, parses |-> TRUE, elems |-> <<"ok">>]
Unparsable == [readable |-> TRUE, parses |-> FALSE, elems |-> <<>>]

\* Two sources of A2A or OASF files and of MCP files, and every source of up to
\* two inputs of up to two elements.
MCInputs ==
    {Unreadable, Unparsable}
    \cup {File(elems) : elems \in BoundedSeq({"ok", "nameless", "garbled"}, 2)}

MCSources ==
    {[kind |-> "struct",
      inputs |-> <<File(<<"ok", "garbled", "nameless", "ok">>), Unreadable,
                   File(<<"garbled">>), File(<<"ok">>)>>],
     [kind |-> "mcp",
      inputs |-> <<File(<<"ok", "garbled">>), Unparsable, File(<<"nameless">>),
                   File(<<"ok", "nameless", "ok">>)>>]}
    \cup [kind : {"struct", "mcp"}, inputs : BoundedSeq(MCInputs, 2)]
=============================================================================
