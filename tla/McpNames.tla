------------------------------- MODULE McpNames -------------------------------
(***************************************************************************)
(* The names of tools behind the MCP gateway (app/api/mcp.py): a tool of a *)
(* server is listed as "{server}__{tool}", and a call is taken apart again *)
(* at the first separator.  A name is a sequence of characters here, since *)
(* where the separator falls is what matters.                              *)
(***************************************************************************)
EXTENDS Naturals, Sequences

NAMESPACE_SEP == <<"_", "_">>

Namespaced(server, tool) == server \o NAMESPACE_SEP \o tool

\* Where the separator occurs; occurrences may overlap.
SepsOf(name) == {i \in 1 .. Len(name) - 1 : SubSeq(name, i, i + 1) = NAMESPACE_SEP}

FirstSep(name) == CHOOSE i \in SepsOf(name) : \A j \in SepsOf(name) : i <= j

\* str.partition
ServerOf(name) == SubSeq(name, 1, FirstSep(name) - 1)
ToolOf(name) == SubSeq(name, FirstSep(name) + 2, Len(name))

\* Mutant: a server may be given any name.
NameAllowed_Any(server) == TRUE

\* "server name may not contain '__'"
NameAllowed(server) == SepsOf(server) = {}
===============================================================================
