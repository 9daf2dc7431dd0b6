------------------------------ MODULE Gateway ------------------------------
(***************************************************************************)
(* Provider selection in the LLM gateway of Flow: the circuit breaker of   *)
(* each provider, the verdicts of the latency tracker, and the requests    *)
(* that walk their chain of candidates with retries and fallback.          *)
(*                                                                         *)
(* A request consults is_open and is_degraded for each candidate.  A       *)
(* streaming request reports every attempt to the breaker; any other       *)
(* request reports once, at its end, and only about its first candidate.   *)
(* If its answer breaks the output contract, the handler then asks its     *)
(* first candidate once more, and reports nothing of that attempt.         *)
(* The handler's future is dropped when the client goes away, which can    *)
(* happen only while it waits for a provider.                              *)
(***************************************************************************)
EXTENDS Naturals, Sequences, FiniteSets

CONSTANTS
  Requests,     \* requests in progress at once (recycled)
  Providers,
  Chains,       \* the candidate chains in use, as sequences of providers
  NoProvider,
  MinRequests,  \* min_requests
  MaxRetries,   \* FallbackConfig::max_retries
  MaxWindow,    \* bound: outcomes kept in a window
  MaxCancels    \* bound: requests whose client goes away

ASSUME ChainsAssumption == \A c \in Chains : c \in Seq(Providers) /\ c # << >>
ASSUME ProviderAssumption == NoProvider \notin Providers
ASSUME GatewayBounds ==
  /\ MinRequests \in Nat \ {0} /\ MaxRetries \in Nat /\ MaxCancels \in Nat
  /\ MaxWindow \in Nat /\ MaxWindow >= MinRequests

VARIABLES
  circ,      \* CircuitBreaker::circuits; "cooled": the cooldown is over
  degraded,  \* providers whose cached P99 exceeds the threshold
  req,       \* requests: next step, chain, candidate, mode, retries, who answered
  admitted,  \* history: requests is_open let through since the circuit is half-open
  cancels

vars == <<circ, degraded, req, admitted, cancels>>

NewCircuit == [st |-> "closed", probe |-> FALSE, cooled |-> FALSE, win |-> << >>]
NoRequest ==
  [pc |-> "idle", chain |-> << >>, i |-> 0, stream |-> FALSE, again |-> FALSE, tries |-> 0,
   ans |-> NoProvider]

-----------------------------------------------------------------------------
(* CircuitBreaker. *)

\* Mutant: the request that turns the circuit half-open is not marked as probe.
is_open_unmarked(c) ==
  [open |-> \/ c.st = "open" /\ ~c.cooled
            \/ c.st = "half" /\ c.probe,
   then |-> IF c.st = "open" /\ c.cooled THEN [c EXCEPT !.st = "half"]
            ELSE IF c.st = "half" THEN [c EXCEPT !.probe = TRUE] ELSE c]

\* The answer for a circuit, and what asking makes of it.
is_open(c) ==
  [open |-> \/ c.st = "open" /\ ~c.cooled
            \/ c.st = "half" /\ c.probe,
   then |-> IF c.st = "half" \/ (c.st = "open" /\ c.cooled)
            THEN [c EXCEPT !.st = "half", !.probe = TRUE] ELSE c]

\* The windows a new outcome may give: expired outcomes, the oldest, go.
Pushes(win, ok) ==
  {Append(SubSeq(win, k + 1, Len(win)), ok) : k \in {j \in 0..Len(win) : Len(win) - j < MaxWindow}}

Failures(win) == Cardinality({i \in 1..Len(win) : ~win[i]})

\* The error rate is at least one half, over enough requests.
TooManyErrors(win) == Len(win) >= MinRequests /\ 2 * Failures(win) >= Len(win)

\* Only a closed circuit reads its window, and closing clears it: the outcomes
\* an open or half-open circuit collects are left out.
Opened == [st |-> "open", probe |-> FALSE, cooled |-> FALSE, win |-> << >>]
Collect(c, win) == IF c.st = "closed" THEN [c EXCEPT !.win = win] ELSE c

record_success(c, win) == IF c.st = "half" THEN NewCircuit ELSE Collect(c, win)

record_failure(c, win) ==
  IF c.st = "half" \/ (c.st = "closed" /\ TooManyErrors(win))
  THEN Opened ELSE Collect(c, win)

\* A call of record_success or record_failure for provider p.
Record(p, ok) ==
  \E win \in Pushes(circ[p].win, ok) :
    LET c == IF ok THEN record_success(circ[p], win) ELSE record_failure(circ[p], win)
    IN  /\ circ' = [circ EXCEPT ![p] = c]
        /\ admitted' = [admitted EXCEPT ![p] = IF c.st = "half" THEN @ ELSE 0]

\* The cooldown of an open circuit ends.
CoolDown(p) ==
  /\ circ[p].st = "open" /\ ~circ[p].cooled
  /\ circ' = [circ EXCEPT ![p].cooled = TRUE]
  /\ UNCHANGED <<degraded, req, admitted, cancels>>

\* LatencyTracker: the periodic refresh stores new percentiles, provider by
\* provider.  They depend on the provider and the traffic: the verdict on a
\* provider may turn at any time.
Refresh(p) ==
  /\ degraded' = IF p \in degraded THEN degraded \ {p} ELSE degraded \cup {p}
  /\ UNCHANGED <<circ, req, admitted, cancels>>

-----------------------------------------------------------------------------
(* Requests. *)

Candidate(r) == req[r].chain[req[r].i]

\* resolve_provider_chain, then the streaming or the plain execution.
Start(r, chain, stream) ==
  /\ req[r].pc = "idle"
  /\ req' = [req EXCEPT ![r] = [NoRequest EXCEPT !.pc = "check", !.chain = chain, !.i = 1,
                                                 !.stream = stream]]
  /\ UNCHANGED <<circ, degraded, admitted, cancels>>

\* The request is over: a plain one has still to report, unless it has done so.
Finished(r, ans) ==
  IF req[r].stream \/ req[r].again THEN NoRequest ELSE [req[r] EXCEPT !.pc = "end", !.ans = ans]

\* Mutant: one candidate too many.
FollowingPastEnd(r) ==
  IF req[r].i <= Len(req[r].chain)
  THEN [req[r] EXCEPT !.pc = "check", !.i = @ + 1, !.tries = 0]
  ELSE Finished(r, NoProvider)

\* On to the next candidate, or out of candidates.
Following(r) ==
  IF req[r].i < Len(req[r].chain)
  THEN [req[r] EXCEPT !.pc = "check", !.i = @ + 1, !.tries = 0]
  ELSE Finished(r, NoProvider)

\* is_open and is_degraded of the candidate; is_open is asked in any case, and
\* makes the request the probe even if the provider is then skipped as slow.
Check(r) ==
  /\ req[r].pc = "check"
  /\ LET p == Candidate(r)
         answer == is_open(circ[p])
     IN /\ circ' = [circ EXCEPT ![p] = answer.then]
        /\ admitted' = [admitted EXCEPT ![p] =
                          IF answer.then.st = "half" /\ ~answer.open THEN @ + 1 ELSE @]
        /\ req' = [req EXCEPT ![r] = IF answer.open \/ p \in degraded
                                     THEN Following(r) ELSE [@ EXCEPT !.pc = "call"]]
  /\ UNCHANGED <<degraded, cancels>>

\* What a provider may answer, by what the gateway does about it: "transient"
\* is retried, "denied" falls back at once, "bad" (a 400, a missing key) ends
\* the request.
Answers == {"ok", "transient", "denied", "bad"}
is_retryable_error(o) == o = "transient"
should_fallback(o) == o \in {"transient", "denied"}

\* retry_with_backoff: try again after a delay.
Retry(r) ==
  /\ req[r].pc = "call" /\ req[r].tries < MaxRetries
  /\ \E o \in Answers : is_retryable_error(o)
  /\ req' = [req EXCEPT ![r].tries = @ + 1]
  /\ UNCHANGED <<circ, degraded, admitted, cancels>>

\* The candidate answers, or fails for good: a streaming request reports it.
Answer(r) ==
  /\ req[r].pc = "call"
  /\ \E o \in Answers :
       /\ is_retryable_error(o) => req[r].tries = MaxRetries
       /\ req' = [req EXCEPT ![r] =
                    CASE o = "ok"           -> Finished(r, Candidate(r))
                      [] should_fallback(o) -> Following(r)
                      [] OTHER              -> Finished(r, NoProvider)]
       /\ IF req[r].stream THEN Record(Candidate(r), o = "ok") ELSE UNCHANGED <<circ, admitted>>
  /\ UNCHANGED <<degraded, cancels>>

\* enforce_output_contract: an answer, whoever gave it, may break the contract of
\* the prompt; then the first candidate alone is executed again.
Enforced(r) ==
  {NoRequest} \cup
    IF req[r].ans = NoProvider THEN {}
    ELSE {[NoRequest EXCEPT !.pc = "check", !.chain = <<req[r].chain[1]>>, !.i = 1, !.again = TRUE]}

\* Mutants: any answer counts for the first candidate; a fallback is no news.
ReportAnyAnswer(r) ==
  /\ req[r].pc = "end"
  /\ Record(req[r].chain[1], req[r].ans # NoProvider)
  /\ \E x \in Enforced(r) : req' = [req EXCEPT ![r] = x]
  /\ UNCHANGED <<degraded, cancels>>

ReportAttempts(r) ==
  /\ req[r].pc = "end"
  /\ IF req[r].i > 1 THEN UNCHANGED <<circ, admitted>>
     ELSE Record(req[r].chain[1], req[r].ans # NoProvider)
  /\ \E x \in Enforced(r) : req' = [req EXCEPT ![r] = x]
  /\ UNCHANGED <<degraded, cancels>>

\* A plain request reports on its first candidate: a success if that candidate
\* answered, else a failure, also when it was only skipped.  An answer that
\* breaks the contract counts as one; what the second attempt gives is not told.
Report(r) ==
  /\ req[r].pc = "end"
  /\ LET fallback_used == req[r].i > 1
     IN  Record(req[r].chain[1], req[r].ans # NoProvider /\ ~fallback_used)
  /\ \E x \in Enforced(r) : req' = [req EXCEPT ![r] = x]
  /\ UNCHANGED <<degraded, cancels>>

\* The client goes away; nothing is reported.
Cancel(r) ==
  /\ req[r].pc = "call" /\ cancels < MaxCancels
  /\ cancels' = cancels + 1
  /\ req' = [req EXCEPT ![r] = NoRequest]
  /\ UNCHANGED <<circ, degraded, admitted>>

-----------------------------------------------------------------------------
Init ==
  /\ circ = [p \in Providers |-> NewCircuit]
  /\ degraded = {}
  /\ req = [r \in Requests |-> NoRequest]
  /\ admitted = [p \in Providers |-> 0]
  /\ cancels = 0

Progress(r) == Check(r) \/ Retry(r) \/ Answer(r) \/ Report(r)

Next ==
  \/ \E r \in Requests :
       \/ \E chain \in Chains, stream \in BOOLEAN : Start(r, chain, stream)
       \/ Progress(r) \/ Cancel(r)
  \/ \E p \in Providers : CoolDown(p) \/ Refresh(p)

Spec == Init /\ [][Next]_vars

\* Providers answer or time out, the clock runs, and plain traffic of every
\* chain keeps coming.
FairSpec ==
  /\ Spec
  /\ \A r \in Requests : WF_vars(Progress(r))
  /\ \A p \in Providers : WF_vars(CoolDown(p))
  /\ \A c \in Chains : SF_vars(\E r \in Requests : Start(r, c, FALSE))

-----------------------------------------------------------------------------
(* Properties. *)

Circuits ==
  [st : {"closed", "open", "half"}, probe : BOOLEAN, cooled : BOOLEAN, win : Seq(BOOLEAN)]

\* The chains requests walk: those in use, and a first candidate asked again.
Walks == Chains \cup {<<c[1]>> : c \in Chains}

RequestStates ==
  [pc : {"idle", "check", "call", "end"}, chain : Walks \cup {<< >>}, i : Nat,
   stream : BOOLEAN, again : BOOLEAN, tries : 0..MaxRetries, ans : Providers \cup {NoProvider}]

\* Every variable keeps to its domain, and a request in progress to its chain.
TypeOK ==
  /\ circ \in [Providers -> Circuits]
  /\ \A p \in Providers : Len(circ[p].win) <= MaxWindow
  /\ degraded \subseteq Providers
  /\ req \in [Requests -> RequestStates]
  /\ \A r \in Requests :
       req[r].pc # "idle" => req[r].chain \in Walks /\ req[r].i \in 1..Len(req[r].chain)
  /\ admitted \in [Providers -> Nat]
  /\ cancels \in 0..MaxCancels

\* While a circuit is half-open exactly one request was let through to the
\* provider, whichever requests ask at once, are skipped, cancelled or report
\* late (is_open, circuit_breaker.rs: "only one probe at a time").
OneProbePerEpisode ==
  \A p \in Providers : admitted[p] = IF circ[p].st = "half" THEN 1 ELSE 0

\* A half-open circuit closes only on the report of a request that was answered
\* by that very provider: no fallback's answer and no skipped candidate can
\* close it (handler in routes/mod.rs, execution.rs).
ClosesOnlyOnAnswer ==
  [][\A p \in Providers :
       circ[p].st = "half" /\ circ'[p].st = "closed"
         => \E r \in Requests :
              \/ req[r].pc = "end" /\ req[r].ans = p /\ req[r].chain[1] = p
              \/ req[r].pc = "call" /\ req[r].stream /\ Candidate(r) = p]_vars

\* The half-open state of a provider that is the first choice of continuing
\* plain traffic does not last, even if its probe was cancelled, skipped as
\* slow, or sent for the output contract and never reported: it closes, or it
\* opens again on the report of a request that the probe flag turned away.
\* (For a provider that is only a fallback a lost probe is never made good.)
PrimarySettles ==
  \A c \in Chains : (circ[c[1]].st = "half") ~> (circ[c[1]].st # "half")

=============================================================================
