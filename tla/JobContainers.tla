--------------------------- MODULE JobContainers ---------------------------
(***************************************************************************)
(* Containers on an agent's machine: DockerExecutor, which runs one job in *)
(* a container and removes it, and ServiceContainerManager, which starts   *)
(* services beside a build and stops them.  Every call of the runtime may  *)
(* time out, with or without having had its effect.                        *)
(***************************************************************************)
EXTENDS Naturals, FiniteSets

CONSTANTS
    JobRun,       \* the containers of jobs: the names are fresh
    Service,      \* names of services
    SvcBuild,     \* builds; a service container is named after both
    NoContainer

SvcContainer == SvcBuild \X Service

ASSUME ContainerAssumption == NoContainer \notin JobRun \union SvcContainer

VARIABLES
    host,        \* the runtimes that answer on the machine
    runtime,     \* CI_CONTAINER_RUNTIME of the process
    available,   \* DockerExecutor._available, remembered for the process
    running,     \* the job in its container, or NoContainer
    used,        \* job containers ever started
    up,          \* containers that are up
    active,      \* [Service -> the container _active_services names, or NoContainer]
    lost         \* containers that a call, a name or a process was lost for

containerVars == <<host, runtime, available, running, used, up, active, lost>>

ContainerInit ==
    /\ host \in SUBSET {"docker", "podman"} /\ runtime \in {"docker", "podman", "containerd"}
    /\ available = "unknown"
    /\ running = NoContainer /\ used = {} /\ up = {} /\ lost = {}
    /\ active = [n \in Service |-> NoContainer]

\* Services are started by a manager made for docker.  Containers of docker die
\* with its daemon; podman has none.
Engine(c) == IF c \in SvcContainer THEN "docker" ELSE runtime

HostChanges ==
    /\ host' \in SUBSET {"docker", "podman"} /\ host' # host
    /\ up' = {c \in up : Engine(c) = "docker" => "docker" \in host'}
    /\ UNCHANGED <<runtime, available, running, used, active, lost>>

\* The process dies; the containers it started and knew stay up.
Remembered == {active[n] : n \in Service} \ {NoContainer}

ProcessDies ==
    /\ running' = NoContainer /\ active' = [n \in Service |-> NoContainer]
    /\ available' = "unknown" /\ lost' = lost \union Remembered \union ({running} \ {NoContainer})
    /\ UNCHANGED <<host, runtime, used, up>>

-----------------------------------------------------------------------------
(* DockerExecutor. *)

\* Any of the two runtimes makes it available; asking may time out.
Availability ==
    IF available # "unknown" THEN {available} ELSE IF host = {} THEN {"no"} ELSE {"yes", "no"}

\* Without a runtime the command runs on the machine itself; when another one
\* answers than the process is set to use, the call raises and the job fails.
RunWithoutContainer(c) ==
    /\ running = NoContainer /\ c \notin used /\ used' = used \union {c}
    /\ available' \in Availability
    /\ available' = "no" \/ runtime \notin host
    /\ UNCHANGED <<host, runtime, running, up, active, lost>>

RunContainer(c) ==
    /\ running = NoContainer /\ c \notin used /\ used' = used \union {c}
    /\ "yes" \in Availability /\ available' = "yes" /\ runtime \in host
    /\ running' = c /\ up' = up \union {c}
    /\ UNCHANGED <<host, runtime, active, lost>>

\* The command ends, and --rm removes the container.
ContainerEnds ==
    /\ running # NoContainer /\ running' = NoContainer /\ up' = up \ {running}
    /\ UNCHANGED <<host, runtime, available, used, active, lost>>

\* After a timeout, and once more on the way out, the container is removed by
\* force, unless both of these calls time out as well.
LeftAfterTimeout == UNCHANGED <<up, lost>>
RemovedAfterTimeout == \E done \in SUBSET {1, 2} :
    IF done = {} THEN lost' = lost \union {running} /\ UNCHANGED up
                 ELSE up' = up \ {running} /\ UNCHANGED lost

ContainerTimesOut ==
    /\ running # NoContainer /\ running' = NoContainer
    /\ RemovedAfterTimeout
    /\ UNCHANGED <<host, runtime, available, used, active>>

-----------------------------------------------------------------------------
(* ServiceContainerManager. *)

\* start_services, for one service: docker refuses a name that is in use.  A
\* start that times out may have started it; it is not remembered.  A service of
\* another build under a name that is active overwrites the entry, and nobody
\* will stop the container it named.
StartService(b, n) ==
    LET c == <<b, n>> IN
    /\ "docker" \in host /\ c \notin up /\ up' = up \union {c}
    /\ \/ /\ active' = [active EXCEPT ![n] = c]
          /\ lost' = (lost \ {c}) \union ({active[n]} \ {NoContainer, c})
       \/ /\ lost' = lost \union {c}
          /\ UNCHANGED active
    /\ UNCHANGED <<host, runtime, available, running, used>>

\* A service whose image ends by itself; --rm removes the container.
ServiceEnds(c) ==
    /\ c \in up \intersect SvcContainer /\ up' = up \ {c}
    /\ UNCHANGED <<host, runtime, available, running, used, active, lost>>

\* stop_services removes what it remembers and forgets it, removed or not.
StopServices ==
    /\ \E stuck \in SUBSET Remembered :
          up' = up \ (Remembered \ stuck) /\ lost' = lost \union stuck
    /\ active' = [n \in Service |-> NoContainer]
    /\ UNCHANGED <<host, runtime, available, running, used>>

ContainerNext ==
    \/ HostChanges \/ ProcessDies
    \/ \E c \in JobRun : RunWithoutContainer(c) \/ RunContainer(c)
    \/ ContainerEnds \/ ContainerTimesOut
    \/ \E b \in SvcBuild, n \in Service : StartService(b, n)
    \/ \E c \in SvcContainer : ServiceEnds(c)
    \/ StopServices

ContainerSpec == ContainerInit /\ [][ContainerNext]_containerVars

-----------------------------------------------------------------------------
(* Properties. *)

ContainerTypeOK ==
    /\ host \subseteq {"docker", "podman"} /\ runtime \in {"docker", "podman", "containerd"}
    /\ available \in {"unknown", "yes", "no"}
    /\ used \subseteq JobRun /\ running \in used \union {NoContainer}
    /\ up \subseteq used \union SvcContainer /\ lost \subseteq used \union SvcContainer
    /\ active \in [Service -> SvcContainer \union {NoContainer}]

\* A container that is up is the running job's, or a service the manager will
\* stop, or a lost one: a call for it timed out, another build started a service
\* of the same name, or the process died.  Nothing else is left behind.
LeftoversAreLost ==
    \A c \in up : c = running \/ c \in Remembered \/ c \in lost
=============================================================================
