---------------------------- MODULE AppServerClient ----------------------------
(***************************************************************************)
(* The JSON-RPC client of a Codex app-server process: requests go one at a *)
(* time through writeTail into the process's stdin, an answer, a timeout,  *)
(* a broken transport, the end of the process or close() settles each, and *)
(* an error says whether its request may have been written.  There is at   *)
(* most one request of a method at a time.                                 *)
(*                                                                         *)
(* The client and the process are modelled together, because the truth of  *)
(* "not written" is in the pipe: wire holds the requests whose bytes the   *)
(* process may still read, even after the client gave them up.             *)
(***************************************************************************)
CONSTANT Methods

VARIABLES
  conn,   \* the client's state and what is known of its process
  rpc,    \* of each method: where its last request is, or how it ended
  wire,   \* requests in the pipe
  owed    \* requests that the process has read and not answered

clientVars == <<conn, rpc, wire, owed>>

\* "broken": the transport failed and SIGTERM was sent; "closed": the process
\* group and the pipes are gone; "unconfirmed": they outlived SIGKILL.
ConnState == {"none", "running", "broken", "exited", "closing", "closed",
              "unconfirmed"}

\* "unwritten" is the only failure that proves the request never left;
\* "refused" is an RPC error or an answer that cannot be used.
RpcState == {"idle", "queued", "written", "ok", "refused", "unwritten", "unknown"}
Failures == {"refused", "unwritten", "unknown"}

ClientTypeOK ==
  /\ conn \in ConnState
  /\ rpc \in [Methods -> RpcState]
  /\ wire \subseteq Methods
  /\ owed \subseteq Methods

ClientInit ==
  /\ conn = "none"
  /\ rpc = [m \in Methods |-> "idle"]
  /\ wire = {}
  /\ owed = {}

ServerAlive == conn \in {"running", "broken", "closing", "unconfirmed"}
Settled(m) == rpc[m] \in {"ok"} \cup Failures

\* ensureRunning() throws an error that proves nothing about the request.
Asked(m) == [rpc EXCEPT ![m] = IF conn = "running" THEN "queued" ELSE "unknown"]

\* What becomes of the requests that are pending when the transport ends.
RejectAllForTransport ==
  [m \in Methods |-> CASE rpc[m] = "queued" -> "unwritten"
                       [] rpc[m] = "written" -> "unknown"
                       [] OTHER -> rpc[m]]

RejectAll ==
  [m \in Methods |-> IF rpc[m] \in {"queued", "written"} THEN "unknown" ELSE rpc[m]]

\* A new process, with requests of its own.
Spawn ==
  /\ conn' = "running"
  /\ rpc' = [m \in Methods |-> "idle"]
  /\ wire' = {}
  /\ owed' = {}

CloseClient ==
  IF conn \in {"running", "broken", "exited"}
  THEN conn' = "closing" /\ rpc' = RejectAll
  ELSE UNCHANGED <<conn, rpc>>

-----------------------------------------------------------------------------
\* A request is marked written before the write is tried: a write that fails
\* may have put the bytes in the pipe.  A request that timed out while earlier
\* writes were stuck is skipped.
Write(m) ==
  /\ conn = "running"
  /\ rpc[m] = "queued"
  /\ \/ rpc' = [rpc EXCEPT ![m] = "written"] /\ wire' = wire \cup {m}
     \/ rpc' = [rpc EXCEPT ![m] = "unknown"] /\ wire' \in {wire, wire \cup {m}}
  /\ UNCHANGED <<conn, owed>>

Receive(m) ==
  /\ ServerAlive
  /\ m \in wire
  /\ wire' = wire \ {m}
  /\ owed' = owed \cup {m}
  /\ UNCHANGED <<conn, rpc>>

\* The answer to a request that is no longer pending is dropped.
HandleResponse(m, outcome) ==
  /\ conn = "running"
  /\ m \in owed
  /\ owed' = owed \ {m}
  /\ rpc' = [rpc EXCEPT ![m] = IF @ = "written" THEN outcome ELSE @]
  /\ UNCHANGED <<conn, wire>>

RequestTimeout_Unwritten(m) ==   \* (mutant) written is set when the write ends
  /\ rpc[m] \in {"queued", "written"}
  /\ rpc' = [rpc EXCEPT ![m] = "unwritten"]
  /\ UNCHANGED <<conn, wire, owed>>

RequestTimeout(m) ==
  /\ rpc[m] \in {"queued", "written"}
  /\ rpc' = [rpc EXCEPT ![m] = IF @ = "queued" THEN "unwritten" ELSE "unknown"]
  /\ UNCHANGED <<conn, wire, owed>>

\* Standard output is closed, too long a line or not NDJSON, or the process
\* asks something without an id.
FailTransport ==
  /\ conn = "running"
  /\ conn' = "broken"
  /\ rpc' = RejectAllForTransport
  /\ UNCHANGED <<wire, owed>>

\* The owner may close the client in the same step.
HandleExit(next) ==
  /\ conn \in {"running", "broken"}
  /\ conn' = next
  /\ rpc' = RejectAllForTransport
  /\ wire' = {}
  /\ owed' = {}

\* SIGTERM, and SIGKILL after closeTimeoutMs, end the group and its pipes, or
\* close() reports that they could not be confirmed.
AwaitCloseReceipt ==
  /\ conn = "closing"
  /\ \/ conn' = "closed" /\ wire' = {} /\ owed' = {}
     \/ conn' = "unconfirmed" /\ UNCHANGED <<wire, owed>>
  /\ UNCHANGED rpc
=============================================================================
