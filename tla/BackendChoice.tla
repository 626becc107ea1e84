--------------------------- MODULE BackendChoice ---------------------------
(***************************************************************************)
(* Which sandbox a run gets and what it may be held to                     *)
(* (internal/sandbox/detect.go, backend.go).  The level the manifest names *)
(* is a minimum; only a level the operator accepts by name                 *)
(* (--accept-isolation) lets a run start behind a weaker boundary.         *)
(*                                                                         *)
(* A host is [docker, missing]: whether the Docker daemon answers, and the *)
(* set of the things Firecracker needs that are not there.                 *)
(***************************************************************************)
EXTENDS Agentfile

Backends == {"docker", "firecracker"}

\* The level a backend delivers, whatever was asked of it.
Provides(backend) ==
  CASE backend = "firecracker" -> "kernel"
    [] backend = "docker"      -> "network"
    [] OTHER                   -> "none"

\* firecrackerUnavailableReason gives none.
FirecrackerUsable(host) ==
  {"linux", "kvm", "tools", "guest kernel", "rootfs", "root"} \cap host.missing = {}

\* The backend tried: the one asked for, if it is usable; otherwise Firecracker
\* where Docker falls short and Firecracker is usable, and Docker where it answers.
Candidate(host, required, override) ==
  CASE override = "docker"      -> IF host.docker THEN "docker" ELSE "none"
    [] override = "firecracker" -> IF FirecrackerUsable(host) THEN "firecracker" ELSE "none"
    [] override = ""            ->
         IF ~Satisfies(Provides("docker"), required) /\ FirecrackerUsable(host) THEN "firecracker"
         ELSE IF host.docker THEN "docker" ELSE "none"
    [] OTHER                    -> "none"

\* applyIsolationContract: the minimum is met, or the boundary is no weaker than
\* the one the operator accepted.
ContractHolds(backend, required, accepted) ==
  \/ Satisfies(Provides(backend), required)
  \/ accepted # "" /\ Satisfies(Provides(backend), accepted)

\* DetectBestBackend finds a backend for a valid level and an acceptance that is
\* a downgrade.
Selectable(host, required, override, accepted) ==
  /\ IsValid(required)
  /\ accepted # "" => ~Satisfies(accepted, required)
  /\ Candidate(host, required, override) \in Backends
  /\ ContractHolds(Candidate(host, required, override), required, accepted)

\* The outcome, as run_started records it.
Selection(host, required, override) ==
  LET backend == Candidate(host, required, override)
  IN [backend    |-> backend,
      requested  |-> required,
      achieved   |-> Provides(backend),
      downgraded |-> ~Satisfies(Provides(backend), required)]
=============================================================================
