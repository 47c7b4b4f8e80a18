--------------------------- MODULE Commands_proofs ---------------------------
(***************************************************************************)
(* Proofs about the commands, for any registries: what their exit codes    *)
(* say, and that the names they list can be called.                        *)
(***************************************************************************)
EXTENDS Commands, ToolName_proofs

\* The places of a registry with different names hold one entry of each.
LEMMA OneOfItsName ==
  ASSUME NEW entries, UniqueNames(entries), NEW i \in active_skills(entries)
  PROVE  Named(entries, entries[i].name) = {i}
  BY DEF UniqueNames, Named, active_skills

\* A skill that is reported down has an entry whose probe failed.
LEMMA DownIsDown ==
  ASSUME NEW entries, NEW n \in DOMAIN HealthOf(entries),
         HealthOf(entries)[n] = "down"
  PROVE  \E i \in DOMAIN entries : entries[i].enabled /\ entries[i].tools = None
  BY DEF HealthOf, Named, active_skills

\* An enabled entry whose probe failed is reported down if no other has its name.
LEMMA UpIsUp ==
  ASSUME NEW entries \in Seq(Entry), UniqueNames(entries),
         \A n \in DOMAIN HealthOf(entries) : HealthOf(entries)[n] # "down",
         NEW i \in DOMAIN entries, entries[i].enabled
  PROVE  entries[i].tools # None
  <1>1. i \in active_skills(entries)
    BY DEF active_skills
  <1>2. Named(entries, entries[i].name) = {i}
    BY <1>1, OneOfItsName
  <1>3. i \in Int
    OBVIOUS
  <1>4. LastNamed(entries, i)
    BY <1>2, <1>3 DEF LastNamed
  <1>5. entries[i].name \in DOMAIN HealthOf(entries)
    BY <1>1 DEF HealthOf
  <1>6. entries[i].tools = None => HealthOf(entries)[entries[i].name] = "down"
    BY <1>1, <1>2, <1>4 DEF HealthOf
  <1> QED BY <1>5, <1>6

\* The strongest of the sources that were given is the chosen one.
LEMMA StrongestIsChosen ==
  ASSUME given \subseteq Source, given # {}
  PROVE  Strongest(given) = Chosen /\ Strongest(given) \in Source
  <1>1. CASE "flag" \in given
    BY <1>1 DEF Strongest, Chosen, Source
  <1>2. CASE "flag" \notin given /\ "url" \in given
    BY <1>2 DEF Strongest, Chosen, Source
  <1>3. CASE "flag" \notin given /\ "url" \notin given
    <2>1. given = {"default"}
      BY <1>3 DEF Source
    <2> QED BY <1>3, <2>1 DEF Strongest, Chosen, Source
  <1> QED BY <1>1, <1>2, <1>3

\* The exit codes differ.
LEMMA CodesDiffer ==
  /\ EXIT_FAILURE \notin {EXIT_HEALTHY, EXIT_SKILL_DOWN, EXIT_REGISTRY_UNREACHABLE}
  /\ EXIT_SKILL_DOWN \notin {EXIT_HEALTHY, EXIT_REGISTRY_UNREACHABLE}
  /\ EXIT_HEALTHY # EXIT_REGISTRY_UNREACHABLE
  BY DEF EXIT_FAILURE, EXIT_HEALTHY, EXIT_SKILL_DOWN, EXIT_REGISTRY_UNREACHABLE

\* The commands start in the invariant.
LEMMA InitInv == Init => CommandInv
  <1> SUFFICES ASSUME Init PROVE CommandInv
    OBVIOUS
  <1>1. SourceChosen
    BY DEF Init, SourceChosen
  <1>2. HealthKnown
    BY DEF Init, HealthKnown
  <1>3. NoFalseGreen /\ NoFalseRed
    BY DEF Init, NoFalseGreen, NoFalseRed, Running, EXIT_HEALTHY, EXIT_SKILL_DOWN,
       EXIT_REGISTRY_UNREACHABLE
  <1>4. readable \subseteq given /\ given \subseteq Source
    BY DEF Init
  <1> QED BY <1>1, <1>2, <1>3, <1>4 DEF Init, CommandInv

\* A command that has not ended says nothing with its exit code.
LEMMA RunningSaysNothing ==
  ASSUME code' = Running
  PROVE  NoFalseGreen' /\ NoFalseRed'
  BY DEF NoFalseGreen, NoFalseRed, Running, EXIT_HEALTHY, EXIT_SKILL_DOWN,
         EXIT_REGISTRY_UNREACHABLE

LEMMA StepInv == CommandInv /\ [Next]_vars => CommandInv'
  <1> SUFFICES ASSUME CommandInv, [Next]_vars PROVE CommandInv'
    OBVIOUS
  <1> USE DEF CommandInv
  <1>1. CASE Resolve
    <2>1. CASE given = {} /\ exit(EXIT_FAILURE) /\ UNCHANGED source
      BY <1>1, <2>1 DEF Resolve, exit, input, SourceChosen, HealthKnown, NoFalseGreen,
         NoFalseRed, Running, EXIT_HEALTHY, EXIT_SKILL_DOWN, EXIT_FAILURE,
         EXIT_REGISTRY_UNREACHABLE, Chosen
    <2>2. CASE /\ given # {} /\ source' = Strongest(given)
               /\ pc' = "refresh" /\ UNCHANGED code
      <3>1. source' = Chosen /\ source' \in Source
        BY <2>2, StrongestIsChosen
      <3>2. Chosen' = Chosen
        BY <1>1 DEF Resolve, input, Chosen
      <3>3. SourceChosen'
        BY <1>1, <2>2, <3>1, <3>2 DEF Resolve, input, SourceChosen, HealthKnown, Source
      <3>4. HealthKnown'
        BY <1>1, <2>2 DEF Resolve, HealthKnown
      <3>5. NoFalseGreen' /\ NoFalseRed'
        BY <1>1, <2>2, RunningSaysNothing DEF Resolve
      <3> QED BY <1>1, <2>2, <3>3, <3>4, <3>5 DEF Resolve, input
    <2> QED BY <1>1, <2>1, <2>2 DEF Resolve
  <1>2. CASE RefreshOk
    <2>1. Chosen' = Chosen
      BY <1>2 DEF RefreshOk, input, Chosen
    <2>2. SourceChosen'
      BY <1>2, <2>1 DEF RefreshOk, input, SourceChosen
    <2>3. HealthKnown'
      BY <1>2, CommandsAssumption DEF RefreshOk, HealthKnown
    <2>4. NoFalseGreen' /\ NoFalseRed'
      BY <1>2, RunningSaysNothing DEF RefreshOk
    <2> QED BY <1>2, <2>2, <2>3, <2>4 DEF RefreshOk, input
  <1>3. CASE RefreshFails
    <2>1. Chosen' = Chosen
      BY <1>3 DEF RefreshFails, input, Chosen
    <2>2. SourceChosen' /\ HealthKnown'
      BY <1>3, <2>1 DEF RefreshFails, input, exit, SourceChosen, HealthKnown
    <2>3. NoFalseGreen' /\ NoFalseRed'
      <3>1. code' \in {code, EXIT_FAILURE} /\ code = Running
        BY <1>3 DEF RefreshFails, exit
      <3>2. code' = EXIT_FAILURE => NoFalseGreen' /\ NoFalseRed'
        BY CodesDiffer DEF NoFalseGreen, NoFalseRed
      <3> QED BY <3>1, <3>2, RunningSaysNothing
    <2> QED BY <1>3, <2>2, <2>3 DEF RefreshFails, input, exit
  <1>4. CASE PipeBreaks
    <2>1. Chosen' = Chosen
      BY <1>4 DEF PipeBreaks, input, Chosen
    <2>2. SourceChosen' /\ HealthKnown'
      BY <1>4, <2>1 DEF PipeBreaks, input, SourceChosen, HealthKnown
    <2>3. NoFalseGreen' /\ NoFalseRed'
      BY <1>4, RunningSaysNothing DEF PipeBreaks
    <2> QED BY <1>4, <2>2, <2>3 DEF PipeBreaks, input
  <1>5. CASE PrintLine
    <2>1. Chosen' = Chosen
      BY <1>5 DEF PrintLine, input, Chosen
    <2>2. SourceChosen' /\ HealthKnown'
      BY <1>5, <2>1 DEF PrintLine, input, SourceChosen, HealthKnown
    <2>3. NoFalseGreen' /\ NoFalseRed'
      BY <1>5, RunningSaysNothing DEF PrintLine
    <2> QED BY <1>5, <2>2, <2>3 DEF PrintLine, input
  <1>6. CASE PrintBroken
    <2>1. Chosen' = Chosen
      BY <1>6 DEF PrintBroken, input, Chosen
    <2>2. SourceChosen' /\ HealthKnown'
      BY <1>6, <2>1 DEF PrintBroken, input, exit, SourceChosen, HealthKnown
    <2>3. NoFalseGreen' /\ NoFalseRed'
      <3>1. code' = EXIT_HEALTHY /\ ~pipe'
        BY <1>6 DEF PrintBroken, exit
      <3> QED BY <3>1, CodesDiffer DEF NoFalseGreen, NoFalseRed
    <2> QED BY <1>6, <2>2, <2>3 DEF PrintBroken, input, exit
  <1>7. CASE Exit
    <2> USE DEF Exit
    <2>1. Chosen' = Chosen
      BY <1>7 DEF input, Chosen
    <2>2. SourceChosen' /\ HealthKnown'
      BY <1>7, <2>1 DEF input, exit, SourceChosen, HealthKnown
    <2>3. source = Chosen /\ given # {} /\ (refresh_ok => Chosen \in readable)
          /\ (~refresh_ok => Chosen \notin readable
                             /\ command \in {"health", "health --json"})
      BY <1>7 DEF SourceChosen
    <2>4. health = IF refresh_ok THEN HealthOf(manifest) ELSE NoHealth
      BY DEF HealthKnown
    <2>5. DOMAIN NoHealth = {}
      BY DEF NoHealth
    <2> DEFINE health_command == command \in {"health", "health --json"}
               unreachable == ~refresh_ok /\ DOMAIN health = {}
    <2>8. /\ health_command /\ unreachable => code' = EXIT_REGISTRY_UNREACHABLE
          /\ health_command /\ ~unreachable /\ AnyDown => code' = EXIT_SKILL_DOWN
          /\ health_command /\ ~unreachable /\ ~AnyDown => code' = EXIT_HEALTHY
          /\ ~health_command => code' = EXIT_HEALTHY
      BY <1>7 DEF exit
    <2>6. NoFalseGreen'
      <3> SUFFICES ASSUME code' = EXIT_HEALTHY
                   PROVE  /\ given # {} /\ Chosen \in readable
                          /\ command \in {"health", "health --json"} /\ UniqueNames(manifest) =>
                               \A i \in DOMAIN manifest :
                                   manifest[i].enabled => manifest[i].tools # None
        BY <1>7, <2>1 DEF NoFalseGreen, input
      <3>1. refresh_ok
        <4>1. CASE command \in {"health", "health --json"}
          BY <2>4, <2>5, <2>8, <4>1, CodesDiffer
        <4>2. CASE command \notin {"health", "health --json"}
          BY <2>3, <4>2
        <4> QED BY <4>1, <4>2
      <3>2. command \in {"health", "health --json"} => ~AnyDown
        BY <2>8, <3>1, CodesDiffer
      <3>3. manifest \in Seq(Entry)
        BY DEF HealthKnown
      <3>4. ASSUME command \in {"health", "health --json"}, UniqueNames(manifest),
                   NEW i \in DOMAIN manifest, manifest[i].enabled
            PROVE  manifest[i].tools # None
        <4>1. \A n \in DOMAIN HealthOf(manifest) : HealthOf(manifest)[n] # "down"
          BY <2>4, <3>1, <3>2, <3>4 DEF AnyDown
        <4> QED BY <3>3, <3>4, <4>1, UpIsUp
      <3> QED BY <2>3, <3>1, <3>4
    <2>7. NoFalseRed'
      <3>1. ASSUME code' = EXIT_SKILL_DOWN
            PROVE  \E i \in DOMAIN manifest :
                       manifest[i].enabled /\ manifest[i].tools = None
        <4>1. AnyDown
          BY <2>8, <3>1, CodesDiffer
        <4>2. PICK n \in DOMAIN health : health[n] = "down"
          BY <4>1 DEF AnyDown
        <4>3. health = HealthOf(manifest)
          BY <2>4, <2>5, <4>2
        <4> QED BY <4>2, <4>3, DownIsDown
      <3>2. code' = EXIT_REGISTRY_UNREACHABLE => Chosen \notin readable
        BY <2>3, <2>8, CodesDiffer
      <3> QED BY <1>7, <2>1, <3>1, <3>2 DEF NoFalseRed, input
    <2> QED BY <1>7, <2>2, <2>6, <2>7 DEF input, exit
  <1>8. CASE UNCHANGED vars
    <2>1. Chosen' = Chosen
      BY <1>8 DEF vars, input, Chosen
    <2>2. SourceChosen' /\ HealthKnown'
      BY <1>8, <2>1 DEF vars, input, SourceChosen, HealthKnown
    <2>3. NoFalseGreen' /\ NoFalseRed'
      BY <1>8, <2>1 DEF vars, input, NoFalseGreen, NoFalseRed
    <2> QED BY <1>8, <2>2, <2>3 DEF vars, input
  <1> QED BY <1>1, <1>2, <1>3, <1>4, <1>5, <1>6, <1>7, <1>8 DEF Next

\* The inductive invariant of the commands: the source resolved is the chosen one
\* and the health is that of the entries read from it (main and resolve_registry).
THEOREM Invariant == Spec => []CommandInv
  <1>1. Init => CommandInv
    BY InitInv
  <1>2. CommandInv /\ [Next]_vars => CommandInv'
    BY StepInv
  <1> QED BY <1>1, <1>2, PTL DEF Spec

\* Exit code 0 is never a false green: with a reader that stays, the chosen
\* registry was read, and health has seen every enabled skill up.
THEOREM GreenIsTrue == Spec => []NoFalseGreen
  <1>1. CommandInv => NoFalseGreen
    BY DEF CommandInv
  <1> QED BY <1>1, Invariant, PTL

\* Exit codes 2 and 3 are never a false red (the exit of the health command).
THEOREM RedIsTrue == Spec => []NoFalseRed
  <1>1. CommandInv => NoFalseRed
    BY DEF CommandInv
  <1> QED BY <1>1, Invariant, PTL

\* Every listed name of an entry with a clean name that no other entry has leads
\* back to the entry and the tool (build_snapshot, parse_namespaced_tool and
\* resolve_skill_entry_in).
THEOREM ListedNamesRouteBack == Spec => []NamesRouteBack
  <1>1. CommandInv => NamesRouteBack
    <2> SUFFICES ASSUME manifest \in Seq(Entry), UniqueNames(manifest),
                        NEW i \in active_skills(manifest),
                        NEW tool \in ToolName \ {<<>>}, Clean(manifest[i].name)
                 PROVE  LET name == parse_namespaced_tool(
                                        namespaced_tool(manifest[i].name, tool))
                        IN  /\ name = <<manifest[i].name, tool>>
                            /\ resolve_skill_entry_in(manifest, name[1]) = manifest[i]
      BY DEF CommandInv, HealthKnown, NamesRouteBack
    <2>1. manifest[i].name \in Seq(Char) /\ tool \in Seq(Char)
      <3>1. manifest[i] \in Entry
        BY DEF active_skills
      <3> QED BY <3>1, ToolNameAssumption DEF Entry
    <2>2. parse_namespaced_tool(namespaced_tool(manifest[i].name, tool))
            = <<manifest[i].name, tool>>
      BY <2>1, ListedCanBeCalled
    <2>3. resolve_skill_entry_in(manifest, manifest[i].name) = manifest[i]
      <3>1. Named(manifest, manifest[i].name) = {i}
        BY OneOfItsName
      <3>2. i \in Int
        BY DEF active_skills
      <3> QED BY <3>1, <3>2 DEF resolve_skill_entry_in
    <2> QED BY <2>2, <2>3
  <1> QED BY <1>1, Invariant, PTL
=============================================================================
