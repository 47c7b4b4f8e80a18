------------------------------ MODULE ToolName ------------------------------
(***************************************************************************)
(* The names under which tools are listed and called: namespaced_tool and  *)
(* parse_namespaced_tool at the end of                                     *)
(* crates/oxidized-mcp-core/src/router.rs.                                 *)
(*                                                                         *)
(* A name is a sequence of characters, of which only the colon matters.    *)
(***************************************************************************)
EXTENDS Integers, Sequences

CONSTANTS
    Char,
    SkillName, ToolName      \* sets of names

ASSUME ToolNameAssumption ==
    /\ ":" \in Char
    /\ SkillName \subseteq Seq(Char)
    /\ ToolName \subseteq Seq(Char)

TOOL_NAMESPACE_SEP == <<":", ":">>

InvalidToolName == <<>>

namespaced_tool(skill, tool) == skill \o TOOL_NAMESPACE_SEP \o tool

Separators(name) ==
    {i \in 1 .. Len(name) - 1 : name[i] = ":" /\ name[i + 1] = ":"}

\* Bug: rsplit_once.
LastSeparator(name) ==
    CHOOSE i \in Separators(name) : \A j \in Separators(name) : j <= i

\* split_once
FirstSeparator(name) ==
    CHOOSE i \in Separators(name) : \A j \in Separators(name) : i <= j

\* The skill and the tool of a name, neither of which is empty.
parse_namespaced_tool(name) ==
    IF Separators(name) = {} THEN InvalidToolName
    ELSE LET i == FirstSeparator(name)
             skill == SubSeq(name, 1, i - 1)
             tool == SubSeq(name, i + 2, Len(name))
         IN  IF skill = <<>> \/ tool = <<>> THEN InvalidToolName
             ELSE <<skill, tool>>

\* A skill name that is safe to put before the separator. That it holds no
\* separator is not enough: of "a:::t" the first two colons are the separator.
Clean(skill) ==
    /\ skill # <<>>
    /\ Separators(skill) = {}
    /\ skill[Len(skill)] # ":"
=============================================================================
