---------------------------- MODULE McpTransport ----------------------------
(***************************************************************************)
(* StdioMcpClient (extensions.py): threads that share one child process    *)
(* and ask it one request at a time over its stdin and stdout.  The server *)
(* is external: it may answer in any order or never, send notices, lines   *)
(* that are no object, and requests of its own, numbered by its own count, *)
(* and exit.                                                               *)
(*                                                                         *)
(* A line is read by a thread of its own, started for one request; what a  *)
(* reader gets after its request gave up is dropped.                       *)
(***************************************************************************)
EXTENDS Naturals, Sequences

CONSTANTS
    Callers,     \* threads that call request
    MaxRequests, \* bound: requests in all
    MaxNotices   \* bound: lines that answer no request

VARIABLES
    server,  \* the process: "up", "exited", or "closed" with its streams
    inbox,   \* requests the server has yet to answer
    out,     \* lines written and not read: the request and the form
    owner,   \* who holds _lock
    pc,      \* where each caller is
    rid,     \* request_id of each caller
    lastId,  \* _id
    readers, \* requests whose reader thread still waits for a line
    got,     \* what each caller's last request came to
    notices  \* bound: notices so far

vars == <<server, inbox, out, owner, pc, rid, lastId, readers, got, notices>>

Answers == {"result", "error"}
Forms == Answers \cup {"notice", "request", "garbled"}
Line(i, form) == [id |-> i, form |-> form]
Pending == [kind |-> "pending", id |-> 0]
Raised  == [kind |-> "raised", id |-> 0]

Init ==
    /\ server = "up" /\ inbox = {} /\ out = <<>>
    /\ owner = "none"
    /\ pc = [c \in Callers |-> "idle"] /\ rid = [c \in Callers |-> 0]
    /\ lastId = 0 /\ readers = {}
    /\ got = [c \in Callers |-> Pending]
    /\ notices = 0

\* The request of c ends, and with it the hold of the lock.
End(c, outcome) ==
    /\ got' = [got EXCEPT ![c] = outcome]
    /\ pc' = [pc EXCEPT ![c] = "idle"]
    /\ owner' = "none"

\* Writing to a process that is gone, or to a closed stream, raises.
Request(c) ==
    /\ pc[c] = "idle" /\ owner = "none" /\ lastId < MaxRequests
    /\ lastId' = lastId + 1
    /\ rid' = [rid EXCEPT ![c] = lastId + 1]
    /\ IF server = "up"
       THEN /\ inbox' = inbox \cup {lastId + 1}
            /\ readers' = readers \cup {lastId + 1}
            /\ got' = [got EXCEPT ![c] = Pending]
            /\ pc' = [pc EXCEPT ![c] = "reading"]
            /\ owner' = c
       ELSE End(c, Raised) /\ UNCHANGED <<inbox, readers>>
    /\ UNCHANGED <<server, out, notices>>

\* A line with another id or none is skipped, and a new reader is started; one
\* that does not parse ends the request.  Only the id is looked at: a request
\* of the server with the caller's id is taken for an answer, with result {}.
Receive(c) ==
    /\ pc[c] = "reading" /\ rid[c] \in readers /\ out # <<>>
    /\ LET line == Head(out) IN
         IF line.form # "garbled" /\ line.id # rid[c]
         THEN UNCHANGED <<got, pc, owner, readers>>
         ELSE /\ End(c, CASE line.form = "result"  -> [kind |-> "result", id |-> line.id]
                           [] line.form = "request" -> [kind |-> "taken", id |-> line.id]
                           [] OTHER -> Raised)
              /\ readers' = readers \ {rid[c]}
    /\ out' = Tail(out)
    /\ UNCHANGED <<server, inbox, rid, lastId, notices>>

EndOfFile(c) ==
    /\ pc[c] \in {"reading", "grace"} /\ server # "up" /\ out = <<>>
    /\ readers' = readers \ {rid[c]}
    /\ End(c, Raised)
    /\ UNCHANGED <<server, inbox, out, rid, lastId, notices>>

\* The time-out of one line passes: the server is asked to cancel.
LineTimeout(c) ==
    /\ pc[c] = "reading"
    /\ pc' = [pc EXCEPT ![c] = "grace"]
    /\ UNCHANGED <<server, inbox, out, owner, rid, lastId, readers, got, notices>>

\* A reader whose request no longer waits drops its line.  In the grace
\* period that is the request's own reader, and the process is kept.
LateLine(r) ==
    /\ r \in readers /\ out # <<>>
    /\ \A c \in Callers : ~(pc[c] = "reading" /\ rid[c] = r)
    /\ out' = Tail(out)
    /\ readers' = readers \ {r}
    /\ LET waiting == {c \in Callers : pc[c] = "grace" /\ rid[c] = r} IN
         /\ got' = [c \in Callers |-> IF c \in waiting THEN Raised ELSE got[c]]
         /\ pc'  = [c \in Callers |-> IF c \in waiting THEN "idle" ELSE pc[c]]
         /\ owner' = IF owner \in waiting THEN "none" ELSE owner
    /\ UNCHANGED <<server, inbox, rid, lastId, notices>>

\* Mutant: after the grace period the request gives up and stops nothing.
GiveUp(c) ==
    /\ pc[c] = "grace"
    /\ End(c, Raised)
    /\ UNCHANGED <<server, inbox, out, rid, lastId, readers, notices>>

\* After the grace period the process is stopped and its streams are closed.
HardStop(c) ==
    /\ pc[c] = "grace"
    /\ server' = "closed" /\ out' = <<>> /\ readers' = {}
    /\ End(c, Raised)
    /\ UNCHANGED <<inbox, rid, lastId, notices>>

\* disconnect closes the client without taking its lock.
Close ==
    /\ server # "closed"
    /\ server' = "closed" /\ out' = <<>>
    /\ UNCHANGED <<inbox, owner, pc, rid, lastId, readers, got, notices>>
-----------------------------------------------------------------------------
\* The server process.
Answer ==
    /\ server = "up"
    /\ \E i \in inbox, form \in Answers :
         /\ out' = Append(out, Line(i, form))
         /\ inbox' = inbox \ {i}
    /\ UNCHANGED <<server, owner, pc, rid, lastId, readers, got, notices>>

Notify ==
    /\ server = "up" /\ notices < MaxNotices
    /\ \E i \in 0..MaxRequests, form \in {"notice", "request", "garbled"} :
         (i # 0 <=> form = "request") /\ out' = Append(out, Line(i, form))
    /\ notices' = notices + 1
    /\ UNCHANGED <<server, inbox, owner, pc, rid, lastId, readers, got>>

Exit ==
    /\ server = "up" /\ server' = "exited"
    /\ UNCHANGED <<inbox, out, owner, pc, rid, lastId, readers, got, notices>>
-----------------------------------------------------------------------------
Next ==
    \/ \E c \in Callers : Request(c) \/ Receive(c) \/ EndOfFile(c) \/ LineTimeout(c) \/ HardStop(c)
    \/ \E r \in readers : LateLine(r)
    \/ Close \/ Answer \/ Notify \/ Exit

\* The type of every variable.
TypeOK ==
    /\ server \in {"up", "exited", "closed"}
    /\ inbox \subseteq 1..MaxRequests /\ readers \subseteq 1..MaxRequests
    /\ \A i \in DOMAIN out : out[i] \in [id : 0..MaxRequests, form : Forms]
    /\ \A c \in Callers : pc[c] \in {"idle", "reading", "grace"}
    /\ \A c \in Callers : pc[c] # "idle" <=> owner = c

\* request: a result answers the caller's own request, unless a request of the
\* server with that id was taken for it (extensions.py:278-280), and the answer
\* the server has written is still there for the request that waits for it: no
\* reader of an earlier request took it.
AnswersArrive ==
    /\ \A c \in Callers : got[c].kind = "result" => got[c].id = rid[c]
    /\ \A c \in Callers :
         pc[c] = "reading" /\ rid[c] \notin inbox /\ server # "closed"
           => \E i \in DOMAIN out : out[i].form \in Answers /\ out[i].id = rid[c]
=============================================================================
