---------------------------- MODULE RefreshCycle ----------------------------
(***************************************************************************)
(* What the readers of the skill mesh may rely on, whoever refreshes it    *)
(* and however: refreshes come one after the other, and each of them       *)
(* replaces the view once at most, by one that is coherent and that keeps  *)
(* the tool counts of the skills that went down.                           *)
(***************************************************************************)
CONSTANTS
    Skill, Absent,
    Size(_)        \* the number of tools in a set

VARIABLES
    view,   \* manifest, aggregated_tools, health, refreshed
    phase   \* "free", "working" or "done"

cycleVars == <<view, phase>>

\* Health names exactly the active skills; a healthy skill lists as many tools
\* as its count says; a skill that is down or absent lists none.
Coherent(v) ==
    \A s \in Skill :
        /\ v.health[s] = Absent <=> v.manifest[s] = Absent
        /\ v.health[s] = Absent => v.aggregated_tools[s] = {}
        /\ v.health[s] # Absent =>
             \/ /\ v.health[s].status = "healthy"
                /\ v.health[s].tools_count = Size(v.aggregated_tools[s])
             \/ /\ v.health[s].status = "down"
                /\ v.aggregated_tools[s] = {}

\* Only a health that was already there has a count to carry forward.
CarriesCounts(old, new) ==
    \A s \in Skill :
        new.health[s] # Absent /\ new.health[s].status = "down" =>
            new.health[s].tools_count =
                IF old.health[s] = Absent THEN 0 ELSE old.health[s].tools_count

Init ==
    /\ view = [manifest |-> [s \in Skill |-> Absent],
               aggregated_tools |-> [s \in Skill |-> {}],
               health |-> [s \in Skill |-> Absent],
               refreshed |-> FALSE]
    /\ phase = "free"

Begin ==
    /\ phase = "free" /\ phase' = "working"
    /\ UNCHANGED view

Replace ==
    /\ phase = "working" /\ phase' = "done"
    /\ view'.refreshed /\ Coherent(view') /\ CarriesCounts(view, view')

\* The registry was unreachable, or the view turned out to be fresh.
Keep ==
    /\ phase = "working" /\ phase' = "done"
    /\ UNCHANGED view

End ==
    /\ phase = "done" /\ phase' = "free"
    /\ UNCHANGED view

Next == Begin \/ Replace \/ Keep \/ End

Spec == Init /\ [][Next]_cycleVars
=============================================================================
