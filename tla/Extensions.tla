----------------------------- MODULE Extensions -----------------------------
(***************************************************************************)
(* CapabilityRegistry, McpToolAdapter and McpServerStore (extensions.py):  *)
(* which tools of which MCP servers are registered, bound to which client  *)
(* process.  One thread connects, refreshes and disconnects; tool calls of *)
(* the runtime come in between.  A tool is registered under a name made of *)
(* its server's and its own; the registry refuses a name twice.            *)
(***************************************************************************)
EXTENDS Naturals

CONSTANTS
    Servers,   \* server names
    Tools,     \* tool names a server may list
    Allowed,   \* the tools the allowlist lets through
    MaxClients \* bound: processes ever started

VARIABLES
    registry, \* the client each server's tool is bound to, 0: not registered
    conn,     \* _clients: each server's client, 0: not connected
    names,    \* names of a connected server's record
    process,  \* each client's process: "none", "up", "exited" or "closed"
    saved,    \* servers with a record in mcp_servers.json
    op,       \* the operation under way: none, or one on a server
    left,     \* tools of its listing that are still to register
    done,     \* tools of its listing that are registered
    repeats,  \* whether its listing has a name twice
    partial   \* history: servers and clients of registrations cut short

vars == <<registry, conn, names, process, saved, op, left, done, repeats, partial>>

Clients == 1..MaxClients
NoOp == [kind |-> "none", server |-> "none", client |-> 0]

Init ==
    /\ registry = [s \in Servers |-> [t \in Tools |-> 0]]
    /\ conn = [s \in Servers |-> 0] /\ names = [s \in Servers |-> {}]
    /\ process = [c \in Clients |-> "none"]
    /\ saved = {}
    /\ op = NoOp /\ left = {} /\ done = {} /\ repeats = FALSE
    /\ partial = {}

Bind(s, tools, c) ==
    registry' = [registry EXCEPT ![s] = [t \in Tools |-> IF t \in tools THEN c ELSE @[t]]]

\* connect_stdio_server, and restore_trusted of a record whose fingerprint
\* the caller confirms; a connected server is refused.
Start(s) ==
    /\ op = NoOp /\ conn[s] = 0
    /\ \E c \in Clients :
         /\ process[c] = "none" /\ \A b \in 1..(c - 1) : process[b] # "none"
         /\ process' = [process EXCEPT ![c] = "up"]
         /\ op' = [kind |-> "connect", server |-> s, client |-> c]
    /\ UNCHANGED <<registry, conn, names, saved, left, done, repeats, partial>>

\* load and save of a server's record.
Trusted(s) == s \in saved
SaveRecord(s) == saved' = saved \cup {s}

Connect(s) == Start(s)
Restore(s) == Trusted(s) /\ Start(s)

\* refresh: the names of the record are unregistered before the server is
\* asked.
Refresh(s) ==
    /\ op = NoOp /\ conn[s] # 0
    /\ Bind(s, names[s], 0)
    /\ op' = [kind |-> "refresh", server |-> s, client |-> conn[s]]
    /\ UNCHANGED <<conn, names, process, saved, left, done, repeats, partial>>

\* tools/list answers; names outside the allowlist are passed over.
List ==
    /\ op # NoOp /\ op.kind \in {"connect", "refresh"} /\ process[op.client] = "up"
    /\ \E listing \in SUBSET Tools, twice \in BOOLEAN :
         left' = listing \cap Allowed /\ repeats' = (twice /\ listing \cap Allowed # {})
    /\ op' = [op EXCEPT !.kind = IF @ = "connect" THEN "connecting" ELSE "refreshing"]
    /\ UNCHANGED <<registry, conn, names, process, saved, done, partial>>

\* Mutant: a client whose first request failed is not closed.
ListFailsOpen ==
    /\ op.kind \in {"connect", "refresh"}
    /\ \E timedOut \in BOOLEAN :
         process' = [process EXCEPT ![op.client] = IF timedOut THEN "closed" ELSE @]
    /\ op' = NoOp
    /\ UNCHANGED <<registry, conn, names, saved, left, done, repeats, partial>>

\* It fails: connect closes the client; refresh leaves the server connected
\* without tools, its process stopped if the request timed out.
ListFails ==
    /\ op.kind \in {"connect", "refresh"}
    /\ \E timedOut \in BOOLEAN :
         process' = [process EXCEPT ![op.client] =
                        IF timedOut \/ op.kind = "connect" THEN "closed" ELSE @]
    /\ op' = NoOp
    /\ UNCHANGED <<registry, conn, names, saved, left, done, repeats, partial>>

Register ==
    /\ op.kind \in {"connecting", "refreshing"}
    /\ \E t \in left :
         /\ registry[op.server][t] = 0
         /\ Bind(op.server, {t}, op.client)
         /\ left' = left \ {t} /\ done' = done \cup {t}
    /\ UNCHANGED <<conn, names, process, saved, op, repeats, partial>>

\* An exception outside the try statement leaves what is registered, the
\* process and the old record.
CutShort ==
    /\ partial' = partial \cup {<<op.server, op.client>>}
    /\ op' = NoOp /\ left' = {} /\ done' = {} /\ repeats' = FALSE
    /\ UNCHANGED <<registry, conn, names, process, saved>>

\* A registered name comes again, or was left by a cut registration.
Refused ==
    /\ op.kind \in {"connecting", "refreshing"}
    /\ \/ repeats /\ done # {}
       \/ \E t \in left : registry[op.server][t] # 0
    /\ CutShort

\* The answered listing is no list, or an entry of it no object: connect finds
\* out in the fingerprint, before it registers; refresh as it goes.
Malformed ==
    /\ \/ op.kind = "connecting" /\ done = {}
       \/ op.kind = "refreshing"
    /\ CutShort

Finish ==
    /\ op.kind \in {"connecting", "refreshing"} /\ left = {} /\ ~repeats
    /\ conn' = [conn EXCEPT ![op.server] = op.client]
    /\ names' = [names EXCEPT ![op.server] = done]
    /\ SaveRecord(op.server)
    /\ op' = NoOp /\ done' = {}
    /\ UNCHANGED <<registry, process, left, repeats, partial>>

Disconnect(s) ==
    /\ op = NoOp /\ conn[s] # 0
    /\ Bind(s, names[s], 0)
    /\ process' = [process EXCEPT ![conn[s]] = "closed"]
    /\ conn' = [conn EXCEPT ![s] = 0]
    /\ names' = [names EXCEPT ![s] = {}]
    /\ UNCHANGED <<saved, op, left, done, repeats, partial>>

\* A call of a registered tool that times out stops the client; the tool
\* stays advertised, and its next call raises.
CallTimesOut(s) ==
    /\ \E t \in Tools :
         /\ registry[s][t] # 0
         /\ process[registry[s][t]] = "up"
         /\ process' = [process EXCEPT ![registry[s][t]] = "closed"]
    /\ UNCHANGED <<registry, conn, names, saved, op, left, done, repeats, partial>>

ServerExits ==
    /\ \E c \in Clients : process[c] = "up" /\ process' = [process EXCEPT ![c] = "exited"]
    /\ UNCHANGED <<registry, conn, names, saved, op, left, done, repeats, partial>>
-----------------------------------------------------------------------------
Next ==
    \/ \E s \in Servers : Connect(s) \/ Restore(s) \/ Refresh(s) \/ Disconnect(s) \/ CallTimesOut(s)
    \/ List \/ ListFails \/ Register \/ Refused \/ Malformed \/ Finish \/ ServerExits

\* The type of every variable.
TypeOK ==
    /\ \A s \in Servers : conn[s] \in 0..MaxClients /\ names[s] \subseteq Allowed
    /\ \A s \in Servers, t \in Tools : registry[s][t] \in 0..MaxClients
    /\ \A c \in Clients : process[c] \in {"none", "up", "exited", "closed"}
    /\ saved \subseteq Servers /\ partial \subseteq Servers \X Clients
    /\ left \subseteq Allowed /\ done \subseteq Allowed
    /\ op # NoOp => op.server \in Servers /\ op.client \in Clients

\* "without retaining stale tools" (refresh) and "so a server cannot expose a
\* new authority without registration": a registered tool is allowed; unless a
\* repeated name or a malformed listing cut a registration of the server short
\* (extensions.py:202-210, 235-240), it is in the record of its connected server
\* and bound to its client, and a process that runs belongs to a connected
\* server or to the operation under way.
RegistryIsBacked ==
    /\ \A s \in Servers, t \in Tools : registry[s][t] # 0 =>
         /\ t \in Allowed
         /\ \/ registry[s][t] = conn[s] /\ t \in names[s]
            \/ op.server = s /\ registry[s][t] = op.client /\ t \in done
            \/ <<s, registry[s][t]>> \in partial
    /\ \A c \in Clients : process[c] = "up" =>
         \/ \E s \in Servers : conn[s] = c
         \/ op.client = c
         \/ \E s \in Servers : <<s, c>> \in partial
=============================================================================
