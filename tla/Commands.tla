------------------------------ MODULE Commands ------------------------------
(***************************************************************************)
(* The commands that end by themselves: `discover`, `list-tools` and       *)
(* `health` (crates/oxidized-mcp/src/main.rs). Each resolves the registry, *)
(* refreshes a mesh that had no snapshot before, prints line by line with  *)
(* say! to a reader that may go away, and exits with a code that scripts   *)
(* and CI gates look at. What list-tools prints are names to be called.    *)
(***************************************************************************)
EXTENDS ToolName, FiniteSets

LOCAL INSTANCE FiniteSetsExt

CONSTANTS
    MaxTools,    \* bound on the tools of a skill
    Registries   \* the sequences of entries that a registry may hold

\* EXIT_FAILURE is what an error that main returns exits with.
EXIT_HEALTHY == 0
EXIT_FAILURE == 1
EXIT_SKILL_DOWN == 2
EXIT_REGISTRY_UNREACHABLE == 3
Running == 255

Command == {"discover", "list-tools", "health", "health --json"}

\* Where the user may have put a registry: --registry or OXIDIZED_MCP_REGISTRY,
\* OXIDIZED_MCP_REGISTRY_URL, a default file that exists.
Source == {"flag", "url", "default"}

\* An entry of a registry, with what its probe will answer: a number of tools,
\* or None for an error.
None == MaxTools + 1
Entry == [name : SkillName, enabled : BOOLEAN, tools : 0 .. None]

ASSUME CommandsAssumption == MaxTools \in Nat /\ Registries \subseteq Seq(Entry)

VARIABLES
    command,
    given,       \* the sources that the user gave
    readable,    \* those of them that can be read and parsed
    pc,
    source,      \* the source that was resolved
    refresh_ok,
    manifest,    \* the entries that were read
    health,      \* SkillMesh::health(): the status by name
    lines,       \* lines still to print
    pipe,        \* somebody reads stdout
    code         \* the exit code, Running before

input == <<command, given, readable>>
vars == <<command, given, readable, pc, source, refresh_ok, manifest, health,
          lines, pipe, code>>

NoHealth == [n \in {} |-> "healthy"]

Init ==
    /\ command \in Command
    /\ given \in SUBSET Source
    /\ readable \in SUBSET given
    /\ pc = "resolve"
    /\ source = "none"
    /\ refresh_ok = FALSE
    /\ manifest = <<>>
    /\ health = NoHealth
    /\ lines = 0
    /\ pipe = TRUE
    /\ code = Running

exit(c) == pc' = "exited" /\ code' = c

Strongest(sources) ==
    IF "flag" \in sources THEN "flag"
    ELSE IF "url" \in sources THEN "url"
    ELSE "default"

\* Bug: a source that cannot be read is passed over.
LenientResolve ==
    /\ pc = "resolve"
    /\ \/ readable = {} /\ exit(EXIT_FAILURE) /\ UNCHANGED source
       \/ /\ readable # {}
          /\ source' = Strongest(readable)
          /\ pc' = "refresh"
          /\ UNCHANGED code
    /\ UNCHANGED <<input, refresh_ok, manifest, health, lines, pipe>>

\* resolve_registry: the strongest source that was given, readable or not.
Resolve ==
    /\ pc = "resolve"
    /\ \/ given = {} /\ exit(EXIT_FAILURE) /\ UNCHANGED source
       \/ /\ given # {}
          /\ source' = Strongest(given)
          /\ pc' = "refresh"
          /\ UNCHANGED code
    /\ UNCHANGED <<input, refresh_ok, manifest, health, lines, pipe>>

\* Bug: a disabled skill is probed too.
all_skills(entries) == DOMAIN entries

\* The places of the entries that a refresh probes and a call may reach.
active_skills(entries) == {i \in DOMAIN entries : entries[i].enabled}

Named(entries, name) == {i \in active_skills(entries) : entries[i].name = name}

\* build_snapshot: an entry's probe replaces what an earlier entry of its name
\* left in the health, and adds its tools to those of the others.
LastNamed(entries, i) == \A j \in Named(entries, entries[i].name) : j <= i
HealthOf(entries) ==
    [n \in {entries[i].name : i \in active_skills(entries)} |->
        IF \E i \in Named(entries, n) : LastNamed(entries, i) /\ entries[i].tools = None
        THEN "down" ELSE "healthy"]
ToolsOf(entries) ==
    MapThenSumSet(LAMBDA i : IF entries[i].tools = None THEN 0 ELSE entries[i].tools,
                  active_skills(entries))

\* A call goes to the first of the entries of its name.
resolve_skill_entry_in(entries, name) ==
    entries[CHOOSE i \in Named(entries, name) :
                \A j \in Named(entries, name) : i <= j]

\* discover prints one line, list-tools one for each tool. The table of health
\* is a header and a line per skill, or the one line that says there is none;
\* its JSON is one write.
Report(h, tools) ==
    CASE command = "list-tools" -> tools
      [] command = "health" /\ DOMAIN h # {} -> 1 + Cardinality(DOMAIN h)
      [] OTHER -> 1

RefreshOk ==
    /\ pc = "refresh" /\ source \in readable
    /\ refresh_ok' = TRUE
    /\ manifest' \in Registries
    /\ health' = HealthOf(manifest')
    /\ lines' = Report(health', ToolsOf(manifest'))
    /\ pc' = "print"
    /\ UNCHANGED <<input, source, pipe, code>>

\* health goes on with the empty snapshot, the others return the error.
RefreshFails ==
    /\ pc = "refresh" /\ source \notin readable
    /\ IF command \in {"health", "health --json"}
       THEN /\ lines' = Report(health, 0)
            /\ pc' = "print"
            /\ UNCHANGED code
       ELSE exit(EXIT_FAILURE) /\ UNCHANGED lines
    /\ UNCHANGED <<input, source, refresh_ok, manifest, health, pipe>>

PipeBreaks ==
    /\ pipe /\ pc # "exited"
    /\ pipe' = FALSE
    /\ UNCHANGED <<input, pc, source, refresh_ok, manifest, health, lines, code>>

\* A line that cannot be written for another reason is lost.
PrintLine ==
    /\ pc = "print" /\ lines > 0 /\ pipe
    /\ lines' = lines - 1
    /\ UNCHANGED <<input, pc, source, refresh_ok, manifest, health, pipe, code>>

\* The BrokenPipe branch of say!.
PrintBroken ==
    /\ pc = "print" /\ lines > 0 /\ ~pipe
    /\ exit(EXIT_HEALTHY)
    /\ UNCHANGED <<input, source, refresh_ok, manifest, health, lines, pipe>>

AnyDown == \E s \in DOMAIN health : health[s] = "down"

\* Bug: a registry that cannot be reached looks like an empty one.
ColdExit ==
    /\ pc = "print" /\ lines = 0
    /\ exit(IF AnyDown THEN EXIT_SKILL_DOWN ELSE EXIT_HEALTHY)
    /\ UNCHANGED <<input, source, refresh_ok, manifest, health, lines, pipe>>

\* The other commands end with success whatever they printed. An error of the
\* flush of health is ignored.
Exit ==
    /\ pc = "print" /\ lines = 0
    /\ exit(IF command \notin {"health", "health --json"} THEN EXIT_HEALTHY
            ELSE IF ~refresh_ok /\ DOMAIN health = {} THEN EXIT_REGISTRY_UNREACHABLE
            ELSE IF AnyDown THEN EXIT_SKILL_DOWN
            ELSE EXIT_HEALTHY)
    /\ UNCHANGED <<input, source, refresh_ok, manifest, health, lines, pipe>>

Next ==
    \/ Resolve
    \/ RefreshOk
    \/ RefreshFails
    \/ PipeBreaks
    \/ PrintLine
    \/ PrintBroken
    \/ Exit

Spec == Init /\ [][Next]_vars

-----------------------------------------------------------------------------
(* Properties *)

UniqueNames(entries) ==
    \A i, j \in DOMAIN entries : entries[i].name = entries[j].name => i = j

\* What the user chose: a flag before the environment, and both before a file
\* that happens to be there.
Chosen ==
    CHOOSE s \in given : \/ s = "flag"
                         \/ s = "url" /\ "flag" \notin given
                         \/ given = {"default"}

\* With a reader that stays, exit code 0 says that the registry the user chose
\* was read, and of health that the probe of every enabled skill succeeded
\* ("rather than the false-green exit 0", the comment on its refresh). Of the
\* skills it says nothing where two entries share a name: one may be down unseen.
NoFalseGreen ==
    code = EXIT_HEALTHY /\ pipe =>
        /\ given # {} /\ Chosen \in readable
        /\ command \in {"health", "health --json"} /\ UniqueNames(manifest) =>
             \A i \in DOMAIN manifest :
                 manifest[i].enabled => manifest[i].tools # None

\* A skill is reported down, or a registry unreachable, only if it is so: no
\* gate is red over a healthy mesh, whatever the pipe does.
NoFalseRed ==
    /\ code = EXIT_SKILL_DOWN =>
         \E i \in DOMAIN manifest :
             manifest[i].enabled /\ manifest[i].tools = None
    /\ code = EXIT_REGISTRY_UNREACHABLE => Chosen \notin readable

\* A listed name leads back: if the skills' names differ and that of an entry is
\* clean, a call of any of its tools under the name list-tools prints reaches that
\* entry, with the tool's own name, whatever the tool is called (build_snapshot
\* against parse_namespaced_tool and resolve_skill_entry_in).
NamesRouteBack ==
    UniqueNames(manifest) =>
        \A i \in active_skills(manifest), tool \in ToolName \ {<<>>} :
            Clean(manifest[i].name) =>
                LET name == parse_namespaced_tool(
                                namespaced_tool(manifest[i].name, tool))
                IN  /\ name = <<manifest[i].name, tool>>
                    /\ resolve_skill_entry_in(manifest, name[1]) = manifest[i]

\* The parts of the inductive invariant. A source is resolved once, to the one
\* that was chosen, and a refresh that succeeded has read it.
SourceChosen ==
    /\ pc \in {"refresh", "print"} => source # "none"
    /\ source # "none" => given # {} /\ source = Chosen
    /\ refresh_ok => source \in readable
    /\ pc = "print" /\ ~refresh_ok =>
         source \notin readable /\ command \in {"health", "health --json"}

\* The health is that of the entries that were read, and of none before.
HealthKnown ==
    /\ manifest \in Seq(Entry)
    /\ pc \in {"resolve", "refresh"} => ~refresh_ok
    /\ health = IF refresh_ok THEN HealthOf(manifest) ELSE NoHealth

\* The inductive invariant of the commands.
CommandInv ==
    /\ readable \subseteq given /\ given \subseteq Source
    /\ pc \in {"resolve", "refresh", "print", "exited"}
    /\ refresh_ok \in BOOLEAN
    /\ pc # "exited" => code = Running
    /\ SourceChosen /\ HealthKnown /\ NoFalseGreen /\ NoFalseRed

\* A panic on EPIPE "would mask a real skill down exit code (2)" (the comment
\* on say!): the exit that replaces it masks the code with 0.
PipeKeepsExitCode ==
    code = EXIT_HEALTHY /\ command \in {"health", "health --json"} => ~AnyDown
=============================================================================
