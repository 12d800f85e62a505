------------------------------ MODULE TestClient ------------------------------
(***************************************************************************)
(* The user-space program of test_client.cpp, one process per client: it   *)
(* looks the service up, opens it, releases the service handle, closes the *)
(* connection and exits.  The process may also be killed at any point; the *)
(* kernel then releases what it held, and closes its connection as soon    *)
(* as the user client has started.                                         *)
(***************************************************************************)
EXTENDS NVIDIADriverUserClient

VARIABLES
  tc,        \* per client: where main() is
  service,   \* per client: main() holds an io_service_t
  kr         \* per client: the result of IOServiceOpen was KERN_SUCCESS

tcVars == <<tc, service, kr>>

stackVars == <<driverVars, ucVars, tcVars>>

TcSteps == {"match", "find", "open", "opening", "release", "close", "exit"}

TcTypeOK ==
  /\ tc \in [Clients -> TcSteps]
  /\ service \in [Clients -> BOOLEAN]
  /\ kr \in [Clients -> BOOLEAN]

TcInit ==
  /\ tc = [c \in Clients |-> "match"]
  /\ service = [c \in Clients |-> FALSE]
  /\ kr = [c \in Clients |-> FALSE]

TcGoto(c, from, to) == tc[c] = from /\ tc' = [tc EXCEPT ![c] = to]

-----------------------------------------------------------------------------
\* IOServiceMatching returns a dictionary or NULL.
TcMatch(c) ==
  /\ TcGoto(c, "match", "find") \/ TcGoto(c, "match", "exit")
  /\ UNCHANGED <<driverVars, ucVars, service, kr>>

\* IOServiceGetMatchingService returns a handle if the service is published.
TcFind(c) ==
  /\ TcGoto(c, "find", IF Published THEN "open" ELSE "exit")
  /\ service' = [service EXCEPT ![c] = Published]
  /\ UNCHANGED <<driverVars, ucVars, kr>>

\* IOServiceOpen creates the user client and blocks while it starts; it fails
\* at once if the service is no longer published or the user client's init fails.
TcOpen(c) ==
  \/ /\ TcGoto(c, "open", "opening")
     /\ UcCreate(c, TRUE)
     /\ UNCHANGED <<service, kr>>
  \/ /\ TcGoto(c, "open", "release")
     /\ UcCreate(c, FALSE) \/ (~Published /\ UNCHANGED <<driverVars, ucVars>>)
     /\ UNCHANGED <<service, kr>>

TcOpenReturn(c) ==
  /\ uc[c] \in {"connected", "stopped", "failed"} \cup InStop
  /\ TcGoto(c, "opening", "release")
  /\ kr' = [kr EXCEPT ![c] = uc[c] # "failed"]
  /\ UNCHANGED <<driverVars, ucVars, service>>

\* Mutation of TcRelease: main() returns on an error before IOObjectRelease.
TcRelease_ReturnsFirst(c) ==
  /\ TcGoto(c, "release", IF kr[c] THEN "close" ELSE "exit")
  /\ service' = [service EXCEPT ![c] = service[c] /\ ~kr[c]]
  /\ UNCHANGED <<driverVars, ucVars, kr>>

\* The handle is released whatever IOServiceOpen returned.
TcRelease(c) ==
  /\ TcGoto(c, "release", IF kr[c] THEN "close" ELSE "exit")
  /\ service' = [service EXCEPT ![c] = FALSE]
  /\ UNCHANGED <<driverVars, ucVars, kr>>

TcClose(c) ==
  /\ TcGoto(c, "close", "exit")
  /\ UcClose(c)
  /\ UNCHANGED <<service, kr>>

TcStep(c) ==
  TcMatch(c) \/ TcFind(c) \/ TcOpen(c) \/ TcOpenReturn(c) \/ TcRelease(c) \/ TcClose(c)

TcKilled(c) ==
  /\ tc[c] # "exit"
  /\ tc' = [tc EXCEPT ![c] = "exit"]
  /\ service' = [service EXCEPT ![c] = FALSE]
  /\ UNCHANGED <<driverVars, ucVars, kr>>

\* The kernel closes the connection that a dead process has left.
TcReap(c) ==
  /\ tc[c] = "exit"
  /\ uc[c] = "connected"
  /\ UcClose(c)
  /\ UNCHANGED tcVars
=============================================================================
