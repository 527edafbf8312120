----------------------------- MODULE AgentSkills -----------------------------
(***************************************************************************)
(* How the tools of an agent's machine become skills at the server: an     *)
(* agent started with --auto-detect-skills looks for them, or trusts the   *)
(* file in which it kept what it found last, and registers the names; the  *)
(* server keeps them in a column of the agent and, for operators, in rows  *)
(* of their own, which later registrations leave alone.                    *)
(***************************************************************************)
EXTENDS Naturals, FiniteSets

CONSTANTS
    Tool,         \* tools with a skill definition
    CacheLife,    \* SKILL_CACHE_TTL_HOURS
    LastHour      \* bound of the clock

ASSUME SkillAssumption == CacheLife \in Nat /\ LastHour \in Nat

VARIABLES
    hour,         \* the clock
    tools,        \* what the machine has now
    was,          \* [hour -> what it had at some moment of that hour]
    skillFile,    \* skills_cache.json: what was found, and when; none: no skills
    skillColumn,  \* the agent's skills at the server
    takenAt,      \* when the server last took them over
    skillRows     \* [Tool -> the agent's row: "none", "enabled" or "disabled"]

skillVars == <<hour, tools, was, skillFile, skillColumn, takenAt, skillRows>>

Hour == 0 .. LastHour
NoSkillFile == [skills |-> {}, at |-> 0]

\* The server has no row of the agent before its first registration.
Unregistered == LastHour + 1

SkillInit ==
    /\ hour = 0 /\ tools \in SUBSET Tool
    /\ was = [h \in Hour |-> IF h = 0 THEN tools ELSE {}]
    /\ skillFile = NoSkillFile
    /\ skillColumn = {} /\ takenAt = Unregistered
    /\ skillRows = [t \in Tool |-> "none"]

HourPasses ==
    /\ hour < LastHour /\ hour' = hour + 1
    /\ was' = [was EXCEPT ![hour + 1] = tools]
    /\ UNCHANGED <<tools, skillFile, skillColumn, takenAt, skillRows>>

ToolChanges(t) ==
    /\ tools' = IF t \in tools THEN tools \ {t} ELSE tools \union {t}
    /\ was' = [was EXCEPT ![hour] = @ \union tools']
    /\ UNCHANGED <<hour, skillFile, skillColumn, takenAt, skillRows>>

\* An empty file is no reason not to look again.
FileKept(force) == ~force /\ skillFile.skills # {}
FileValid(force) == ~force /\ skillFile.skills # {} /\ hour - skillFile.at <= CacheLife

\* A probe that fails or takes too long finds nothing.
Probed(found) == found \subseteq tools

\* The file is written if that works, and may be left unreadable.
FileSaved(found) == skillFile' \in {[skills |-> found, at |-> hour], skillFile, NoSkillFile}

\* detect_all.  Its health check reads a field its results do not have, and
\* changes nothing.
Detected(force, found) ==
    IF FileValid(force) THEN found = skillFile.skills /\ UNCHANGED skillFile
    ELSE Probed(found) /\ FileSaved(found)

\* register_agent: rows only for a new agent; no skills do not replace any.
TakeOver(found) ==
    IF takenAt = Unregistered
    THEN /\ skillColumn' = found /\ takenAt' = hour
         /\ skillRows' = [t \in Tool |-> IF t \in found THEN "enabled" ELSE "none"]
    ELSE /\ IF found # {} THEN skillColumn' = found /\ takenAt' = hour
                          ELSE UNCHANGED <<skillColumn, takenAt>>
         /\ UNCHANGED skillRows

\* The registration arrives, or the agent gives up.
Registers(found) == TakeOver(found) \/ UNCHANGED <<skillColumn, takenAt, skillRows>>

StartWithSkills(force) ==
    /\ \E found \in SUBSET Tool :
          /\ Detected(force, found)
          /\ Registers(found)
    /\ UNCHANGED <<hour, tools, was>>

\* --clear-cache, which also forces the detection that follows.
ClearSkillFile ==
    /\ skillFile' = NoSkillFile
    /\ UNCHANGED <<hour, tools, was, skillColumn, takenAt, skillRows>>

\* auto_detect_agent_skills finds what the server's machine has; it adds rows,
\* and removes and enables none.
AutoDetect ==
    /\ takenAt # Unregistered
    /\ \E found \in SUBSET Tool :
          skillRows' = [t \in Tool |-> IF t \in found /\ skillRows[t] = "none" THEN "enabled"
                                       ELSE skillRows[t]]
    /\ UNCHANGED <<hour, tools, was, skillFile, skillColumn, takenAt>>

AddAgentSkill(t) ==
    /\ takenAt # Unregistered
    /\ skillRows' = [skillRows EXCEPT ![t] = IF @ = "none" THEN "enabled" ELSE @]
    /\ UNCHANGED <<hour, tools, was, skillFile, skillColumn, takenAt>>

UpdateAgentSkill(t) ==
    /\ skillRows[t] # "none"
    /\ \E state \in {"enabled", "disabled"} : skillRows' = [skillRows EXCEPT ![t] = state]
    /\ UNCHANGED <<hour, tools, was, skillFile, skillColumn, takenAt>>

DeleteAgentSkill(t) ==
    /\ skillRows[t] # "none"
    /\ skillRows' = [skillRows EXCEPT ![t] = "none"]
    /\ UNCHANGED <<hour, tools, was, skillFile, skillColumn, takenAt>>

SkillNext ==
    \/ HourPasses \/ ClearSkillFile \/ AutoDetect
    \/ \E force \in BOOLEAN : StartWithSkills(force)
    \/ \E t \in Tool : \/ ToolChanges(t) \/ AddAgentSkill(t)
                       \/ UpdateAgentSkill(t) \/ DeleteAgentSkill(t)

SkillSpec == SkillInit /\ [][SkillNext]_skillVars

-----------------------------------------------------------------------------
(* Properties. *)

SkillTypeOK ==
    /\ hour \in Hour /\ tools \subseteq Tool /\ was \in [Hour -> SUBSET Tool]
    /\ skillFile \in [skills : SUBSET Tool, at : Hour]
    /\ skillColumn \subseteq Tool /\ takenAt \in Hour \union {Unregistered}
    /\ skillRows \in [Tool -> {"none", "enabled", "disabled"}]

\* What the server took over as the agent's skills was on the machine no
\* longer than the life of the file before: through a file that was found
\* valid, a failed write or an unanswered registration, no older finding ever
\* passes for the machine's.
SkillsAreRecent ==
    takenAt # Unregistered =>
        \A t \in skillColumn : \E h \in Hour : h <= takenAt /\ takenAt <= h + CacheLife /\ t \in was[h]
=============================================================================
