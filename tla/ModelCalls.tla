----------------------------- MODULE ModelCalls -----------------------------
(***************************************************************************)
(* One request to the model: ResilientModel (resilience.py) over chat      *)
(* providers that answer whole or as a stream of frames (providers.py).    *)
(* The answer is one tool call in Frames frames: after the first its name  *)
(* is known, and its arguments parse unless they are there in part.  The   *)
(* provider is external: it may stop anywhere, with [DONE], by closing the *)
(* connection, or by saying nothing more.  Comments and frames without     *)
(* choices, a provider's error frame among them, are skipped and left out. *)
(***************************************************************************)
EXTENDS Naturals

CONSTANTS
    Providers, \* how many models, in the order of fallback
    Retries,   \* retries_per_model
    Frames     \* frames of one whole answer

VARIABLES
    pc,       \* "request", "stream", "returned", "raised" or "escaped"
    provider, \* the model that is asked
    attempt,  \* attempt_index
    sent,     \* frames the provider has sent on this attempt's connection
    ended,    \* whether the provider has ended this attempt's answer
    got,      \* frames assembled
    tries     \* history: failed attempts at each provider

vars == <<pc, provider, attempt, sent, ended, got, tries>>

Init ==
    /\ pc = "request" /\ provider = 1 /\ attempt = 0
    /\ sent = 0 /\ ended = FALSE /\ got = 0
    /\ tries = [p \in 1..Providers |-> 0]

\* No frame at all is an answer without calls; a name alone has arguments {}.
Parses(n) == n \in {0, 1, Frames}

FailKeeping(n) ==
    /\ tries' = [tries EXCEPT ![provider] = @ + 1]
    /\ sent' = 0 /\ ended' = FALSE /\ got' = n
    /\ IF attempt < Retries
       THEN pc' = "request" /\ attempt' = attempt + 1 /\ UNCHANGED provider
       ELSE IF provider < Providers
            THEN pc' = "request" /\ attempt' = 0 /\ provider' = provider + 1
            ELSE pc' = "raised" /\ UNCHANGED <<attempt, provider>>

\* Mutant: what a failed attempt assembled is kept for the next one.
FailedKeeps == FailKeeping(got)

\* An OSError, TimeoutError, ValueError or KeyError: the same model again
\* after a delay, then the next one, then no answer.
Failed == FailKeeping(0)

\* Without streaming the answer is whole, or the request fails.
Whole ==
    /\ pc = "request" /\ pc' = "returned"
    /\ sent' = Frames /\ ended' = TRUE /\ got' = Frames
    /\ UNCHANGED <<provider, attempt, tries>>

RequestFails == pc = "request" /\ Failed

OpenStream ==
    /\ pc = "request" /\ pc' = "stream"
    /\ UNCHANGED <<provider, attempt, sent, ended, got, tries>>

\* The provider: another frame, or the end of its answer, complete or not.
Send ==
    /\ pc = "stream" /\ ~ended /\ sent < Frames
    /\ sent' = sent + 1
    /\ UNCHANGED <<pc, provider, attempt, ended, got, tries>>

End ==
    /\ pc = "stream" /\ ~ended
    /\ ended' = TRUE
    /\ UNCHANGED <<pc, provider, attempt, sent, got, tries>>

Frame ==
    /\ pc = "stream" /\ got < sent
    /\ got' = got + 1
    /\ UNCHANGED <<pc, provider, attempt, sent, ended, tries>>

\* [DONE] ends the loop over lines, and so does a closed connection: what
\* there is counts if its calls parse, whatever is missing.
Done ==
    /\ pc = "stream" /\ ended /\ got >= sent
    /\ IF Parses(got)
       THEN pc' = "returned" /\ UNCHANGED <<provider, attempt, sent, ended, got, tries>>
       ELSE Failed

\* The idle time-out becomes ProviderStalledError; a reset is an OSError.
Stall == pc = "stream" /\ Failed

\* A frame or a body of another shape is a RuntimeError or an AttributeError:
\* no retry, no fallback.
BadFrame ==
    /\ pc \in {"request", "stream"} /\ pc' = "escaped"
    /\ UNCHANGED <<provider, attempt, sent, ended, got, tries>>
-----------------------------------------------------------------------------
Next ==
    \/ Whole \/ RequestFails
    \/ OpenStream \/ Send \/ End \/ Frame \/ Done \/ Stall \/ BadFrame

\* The type of every variable.
TypeOK ==
    /\ pc \in {"request", "stream", "returned", "raised", "escaped"}
    /\ provider \in 1..Providers /\ attempt \in 0..Retries
    /\ sent \in 0..Frames /\ ended \in BOOLEAN /\ got \in 0..Frames
    /\ \A p \in 1..Providers : tries[p] \in 0..(Retries + 1)

\* ResilientModel.respond: an answer is what one attempt's provider sent until
\* it ended the answer itself, no frame of it lost and none of an earlier
\* attempt among them, however that attempt stalled, was reset or did not
\* parse; it comes only after every model before it has failed all its
\* attempts, and an error means that every model has.
AnswerIsOneAttempts ==
    /\ pc = "returned" =>
         /\ ended /\ got = sent
         /\ \A p \in 1..Providers : tries[p] = IF p < provider THEN Retries + 1
                                               ELSE IF p = provider THEN attempt ELSE 0
    /\ pc = "raised" => \A p \in 1..Providers : tries[p] = Retries + 1
=============================================================================
