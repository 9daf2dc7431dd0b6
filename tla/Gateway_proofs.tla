--------------------------- MODULE Gateway_proofs ---------------------------
(***************************************************************************)
(* Proofs about the circuit breaker and the fallback chains of the LLM     *)
(* gateway, for any number of requests and providers, any chains and any   *)
(* thresholds.                                                             *)
(***************************************************************************)
EXTENDS Gateway, TLAPS

-----------------------------------------------------------------------------
(* The inductive invariant. *)

\* A half-open circuit has a probe in flight: is_open never turns a circuit
\* half-open without marking the request that asked.
HalfOpenIsMarked == \A p \in Providers : circ[p].st = "half" => circ[p].probe

\* A request that was answered was answered by the candidate it stands at.
AnsweredByCandidate ==
  \A r \in Requests : req[r].pc = "end" /\ req[r].ans # NoProvider => req[r].ans = Candidate(r)

GatewayInv == TypeOK /\ OneProbePerEpisode /\ HalfOpenIsMarked /\ AnsweredByCandidate

-----------------------------------------------------------------------------
(* The operators of the circuit breaker. *)

\* A candidate of a request in progress is a provider.
LEMMA ChainType ==
  ASSUME NEW c \in Walks, NEW i \in 1..Len(c)
  PROVE  /\ c \in Seq(Providers) /\ c[i] \in Providers
         /\ 1 \in 1..Len(c) /\ c[1] \in Providers
         /\ <<c[1]>> \in Walks /\ Len(c) \in Nat
<1>1. c \in Seq(Providers) /\ c # << >>
  <2>1. CASE c \in Chains
    BY <2>1, ChainsAssumption
  <2>2. ASSUME NEW d \in Chains, c = <<d[1]>>
        PROVE  c \in Seq(Providers) /\ c # << >>
    <3>1. d \in Seq(Providers) /\ d # << >>
      BY ChainsAssumption
    <3>2. d[1] \in Providers
      BY <3>1
    <3> QED
      BY <2>2, <3>2
  <2> QED
    BY <2>1, <2>2 DEF Walks
<1>2. Len(c) \in Nat /\ Len(c) # 0
  BY <1>1
<1>3. <<c[1]>> \in Walks
  <2>1. ASSUME NEW d \in Chains, c = <<d[1]>> PROVE c[1] = d[1]
    BY <2>1
  <2> QED
    BY <2>1 DEF Walks
<1> QED
  BY <1>1, <1>2, <1>3

\* A window stays a bounded sequence of outcomes.
LEMMA PushType ==
  ASSUME NEW win \in Seq(BOOLEAN), NEW ok \in BOOLEAN, NEW w \in Pushes(win, ok)
  PROVE  w \in Seq(BOOLEAN) /\ Len(w) <= MaxWindow
<1>1. PICK k \in 0..Len(win) : /\ Len(win) - k < MaxWindow
                              /\ w = Append(SubSeq(win, k + 1, Len(win)), ok)
  BY DEF Pushes
<1> DEFINE s == SubSeq(win, k + 1, Len(win))
<1>2. s \in Seq(BOOLEAN) /\ Len(s) = Len(win) - k
  BY <1>1
<1> HIDE DEF s
<1>3. w = Append(s, ok)
  BY <1>1 DEF s
<1>4. Append(s, ok) \in Seq(BOOLEAN) /\ Len(Append(s, ok)) = Len(s) + 1
  BY <1>2
<1> QED
  BY <1>1, <1>2, <1>3, <1>4, GatewayBounds

\* What a report makes of a circuit: a half-open circuit closes on a success
\* and opens on a failure, and no report turns a circuit half-open.
Reported(c, ok, win) == IF ok THEN record_success(c, win) ELSE record_failure(c, win)

\* A report gives a circuit that is closed or open; it closes on a success only.
LEMMA ReportedCircuit ==
  ASSUME NEW c \in Circuits, Len(c.win) <= MaxWindow,
         NEW ok \in BOOLEAN, NEW win \in Pushes(c.win, ok)
  PROVE  /\ Reported(c, ok, win) \in Circuits
         /\ Len(Reported(c, ok, win).win) <= MaxWindow
         /\ Reported(c, ok, win).st # "half"
         /\ c.st = "half" /\ Reported(c, ok, win).st = "closed" => ok
<1>1. win \in Seq(BOOLEAN) /\ Len(win) <= MaxWindow
  BY PushType DEF Circuits
<1>2. << >> \in Seq(BOOLEAN) /\ Len(<< >>) <= MaxWindow
  BY GatewayBounds
<1> DEFINE e == << >>
<1>3. NewCircuit \in Circuits /\ NewCircuit.st = "closed" /\ Len(NewCircuit.win) <= MaxWindow
  BY <1>2 DEF NewCircuit, Circuits
<1>4. Opened \in Circuits /\ Opened.st = "open" /\ Len(Opened.win) <= MaxWindow
  BY <1>2 DEF Opened, Circuits
<1>5. c.st # "half" => /\ Collect(c, win) \in Circuits /\ Collect(c, win).st = c.st
                      /\ Len(Collect(c, win).win) <= MaxWindow
  BY <1>1 DEF Collect, Circuits
<1> QED
  BY <1>3, <1>4, <1>5 DEF Reported, record_success, record_failure

\* What asking makes of a circuit: the request that gets through a half-open
\* circuit is the one that turned it half-open.
LEMMA AskedCircuit ==
  ASSUME NEW c \in Circuits, c.st = "half" => c.probe
  PROVE  /\ is_open(c).then \in Circuits /\ is_open(c).then.win = c.win
         /\ is_open(c).then.st = "half" => is_open(c).then.probe
         /\ is_open(c).then.st = "half" /\ ~is_open(c).open <=> c.st = "open" /\ c.cooled
         /\ c.st = "half" <=> is_open(c).then.st = "half" /\ is_open(c).open
         /\ c.st = "half" \/ is_open(c).then.st # "closed" \/ c.st = "closed"
BY DEF is_open, Circuits

-----------------------------------------------------------------------------
(* The two kinds of change a step makes. *)

\* A report on provider p keeps the circuits' part of the invariant, and closes
\* a half-open circuit only if it is a success, and only the one of p.
CircuitInv ==
  /\ circ \in [Providers -> Circuits]
  /\ \A p \in Providers : Len(circ[p].win) <= MaxWindow
  /\ admitted \in [Providers -> Nat]
  /\ OneProbePerEpisode /\ HalfOpenIsMarked

\* A report keeps the circuits good, and closes a half-open one only on a success.
LEMMA RecordStep ==
  ASSUME CircuitInv, NEW p \in Providers, NEW ok \in BOOLEAN, Record(p, ok)
  PROVE  /\ CircuitInv'
         /\ \A q \in Providers : circ[q].st = "half" /\ circ'[q].st = "closed" => q = p /\ ok
<1>1. PICK win \in Pushes(circ[p].win, ok) :
        /\ circ' = [circ EXCEPT ![p] = Reported(circ[p], ok, win)]
        /\ admitted' = [admitted EXCEPT ![p] = IF Reported(circ[p], ok, win).st = "half"
                                               THEN @ ELSE 0]
  BY DEF Record, Reported
<1> DEFINE c == Reported(circ[p], ok, win)
<1>2. /\ c \in Circuits /\ Len(c.win) <= MaxWindow /\ c.st # "half"
      /\ circ[p].st = "half" /\ c.st = "closed" => ok
  BY ReportedCircuit DEF CircuitInv
<1> HIDE DEF c
<1>3. circ' = [circ EXCEPT ![p] = c] /\ admitted' = [admitted EXCEPT ![p] = 0]
  BY <1>1, <1>2 DEF c
<1>4. \A q \in Providers : /\ circ'[q] = IF q = p THEN c ELSE circ[q]
                          /\ admitted'[q] = IF q = p THEN 0 ELSE admitted[q]
  BY <1>3 DEF CircuitInv
<1>5. CircuitInv'
  BY <1>2, <1>3, <1>4 DEF CircuitInv, OneProbePerEpisode, HalfOpenIsMarked
<1> QED
  BY <1>2, <1>4, <1>5 DEF CircuitInv

\* The part of the invariant about requests, for one request.
RequestInv(x) ==
  /\ x \in RequestStates
  /\ x.pc # "idle" => x.chain \in Walks /\ x.i \in 1..Len(x.chain)
  /\ x.pc = "end" /\ x.ans # NoProvider => x.ans = x.chain[x.i]

\* The invariant is what it says about circuits and about each request.
LEMMA InvSplit ==
  GatewayInv <=> /\ CircuitInv
                 /\ req \in [Requests -> RequestStates] /\ \A r \in Requests : RequestInv(req[r])
                 /\ degraded \subseteq Providers /\ cancels \in 0..MaxCancels
BY DEF GatewayInv, CircuitInv, TypeOK, RequestInv, AnsweredByCandidate, Candidate

\* The same of the state after a step.
LEMMA InvJoin ==
  ASSUME CircuitInv', req' \in [Requests -> RequestStates], \A r \in Requests : RequestInv(req'[r]),
         degraded' \subseteq Providers, cancels' \in 0..MaxCancels
  PROVE  GatewayInv'
BY DEF GatewayInv, CircuitInv, TypeOK, RequestInv, AnsweredByCandidate, Candidate

\* No request at all is a good request.
LEMMA NoRequestInv == RequestInv(NoRequest)
BY GatewayBounds DEF RequestInv, NoRequest, RequestStates

\* A request that ends, or goes on to its next candidate, stays well-formed.
LEMMA FollowingInv ==
  ASSUME NEW r, RequestInv(req[r]), req[r].pc \in {"check", "call"}
  PROVE  /\ RequestInv(Finished(r, NoProvider))
         /\ RequestInv(Finished(r, Candidate(r)))
         /\ RequestInv(Following(r))
<1> DEFINE x == req[r]
<1>1. x \in RequestStates /\ x.chain \in Walks /\ x.i \in 1..Len(x.chain)
  BY DEF RequestInv
<1>2. Candidate(r) \in Providers /\ Candidate(r) = x.chain[x.i] /\ Len(x.chain) \in Nat
  <2>1. req[r].chain \in Walks /\ req[r].i \in 1..Len(req[r].chain)
    BY <1>1
  <2>2. req[r].chain[req[r].i] \in Providers /\ Len(req[r].chain) \in Nat
    BY <2>1, ChainType
  <2> QED
    BY <2>2 DEF Candidate
<1> HIDE DEF x
<1>3. \A a \in {NoProvider, Candidate(r)} : RequestInv([x EXCEPT !.pc = "end", !.ans = a])
  BY <1>1, <1>2 DEF RequestInv, RequestStates
<1>4. x.i < Len(x.chain) => RequestInv([x EXCEPT !.pc = "check", !.i = @ + 1, !.tries = 0])
  <2> SUFFICES ASSUME x.i < Len(x.chain)
               PROVE  RequestInv([x EXCEPT !.pc = "check", !.i = @ + 1, !.tries = 0])
    OBVIOUS
  <2>1. x.i + 1 \in 1..Len(x.chain) /\ x.i + 1 \in Nat /\ 0 \in 0..MaxRetries
    BY <1>1, <1>2, GatewayBounds
  <2>2. [x EXCEPT !.pc = "check", !.i = @ + 1, !.tries = 0] \in RequestStates
    BY <1>1, <2>1 DEF RequestStates
  <2> QED
    BY <1>1, <2>1, <2>2 DEF RequestInv, RequestStates
<1>5. \A a \in {NoProvider, Candidate(r)} : RequestInv(Finished(r, a))
  BY <1>3, NoRequestInv DEF Finished, x
<1> QED
  BY <1>4, <1>5 DEF Following, x

\* A request that has reported is over, or asks its first candidate once more.
LEMMA EnforcedInv ==
  ASSUME NEW r, RequestInv(req[r]), req[r].pc = "end", NEW x \in Enforced(r)
  PROVE  RequestInv(x)
<1> DEFINE c == <<req[r].chain[1]>>
           again(d) == [NoRequest EXCEPT !.pc = "check", !.chain = d, !.i = 1, !.again = TRUE]
<1>1. req[r].chain \in Walks /\ req[r].i \in 1..Len(req[r].chain)
  BY DEF RequestInv
<1>2. c \in Walks /\ Len(c) = 1
  BY <1>1, ChainType
<1>3. x \in {NoRequest, again(c)}
  BY DEF Enforced
<1> HIDE DEF c
<1>4. 0 \in 0..MaxRetries /\ 1 \in 1..Len(c) /\ 1 \in Nat
  BY <1>2, GatewayBounds
<1>5. RequestInv(again(c))
  BY <1>2, <1>4 DEF RequestInv, RequestStates, NoRequest
<1> QED
  BY <1>3, <1>5, NoRequestInv

\* A step that changes one request, to a good one, keeps all requests good.
LEMMA RequestStep ==
  ASSUME req \in [Requests -> RequestStates], \A r \in Requests : RequestInv(req[r]),
         NEW r \in Requests, NEW x, RequestInv(x), req' = [req EXCEPT ![r] = x]
  PROVE  req' \in [Requests -> RequestStates] /\ \A q \in Requests : RequestInv(req'[q])
<1>1. x \in RequestStates
  BY DEF RequestInv
<1>2. req' \in [Requests -> RequestStates]
  BY <1>1
<1>3. \A q \in Requests : req'[q] = IF q = r THEN x ELSE req[q]
  OBVIOUS
<1> QED
  BY <1>2, <1>3

-----------------------------------------------------------------------------
(* Induction. *)

\* All circuits are closed and no request is in progress at the start.
LEMMA InitGateway == Init => GatewayInv
<1> SUFFICES ASSUME Init PROVE GatewayInv
  OBVIOUS
<1>1. NewCircuit \in Circuits /\ Len(NewCircuit.win) <= MaxWindow /\ NewCircuit.st = "closed"
  BY GatewayBounds DEF NewCircuit, Circuits
<1>2. circ \in [Providers -> Circuits] /\ \A p \in Providers : circ[p] = NewCircuit
  BY <1>1 DEF Init
<1>3. CircuitInv
  BY <1>1, <1>2 DEF Init, CircuitInv, OneProbePerEpisode, HalfOpenIsMarked
<1>4. RequestInv(NoRequest) /\ NoRequest \in RequestStates
  BY NoRequestInv DEF RequestInv
<1>5. req \in [Requests -> RequestStates] /\ \A r \in Requests : RequestInv(req[r])
  BY <1>4 DEF Init
<1>6. degraded \subseteq Providers /\ cancels \in 0..MaxCancels
  BY GatewayBounds DEF Init
<1> QED
  BY <1>3, <1>5, <1>6, InvSplit

\* is_open, and the step the request takes on its answer.
LEMMA CheckKeeps ==
  ASSUME GatewayInv, NEW r \in Requests, Check(r)
  PROVE  GatewayInv' /\ \A p \in Providers : ~(circ[p].st = "half" /\ circ'[p].st = "closed")
<1>1. /\ CircuitInv /\ RequestInv(req[r]) /\ req[r].pc = "check"
      /\ req \in [Requests -> RequestStates] /\ \A q \in Requests : RequestInv(req[q])
  BY InvSplit DEF Check
<1> DEFINE p == Candidate(r)
           c == is_open(circ[p])
           x == IF c.open \/ p \in degraded THEN Following(r) ELSE [req[r] EXCEPT !.pc = "call"]
<1>2. p \in Providers
  BY <1>1, ChainType DEF RequestInv, Candidate
<1>3. RequestInv(x)
  BY <1>1, FollowingInv DEF RequestInv, RequestStates
<1>4. /\ circ' = [circ EXCEPT ![p] = c.then] /\ req' = [req EXCEPT ![r] = x]
      /\ admitted' = [admitted EXCEPT ![p] =
                        IF c.then.st = "half" /\ ~c.open THEN admitted[p] + 1 ELSE admitted[p]]
      /\ UNCHANGED <<degraded, cancels>>
  BY <1>1 DEF Check
<1>5. /\ c.then \in Circuits /\ c.then.win = circ[p].win
      /\ c.then.st = "half" => c.then.probe
      /\ c.then.st = "half" /\ ~c.open <=> circ[p].st = "open" /\ circ[p].cooled
      /\ circ[p].st = "half" <=> c.then.st = "half" /\ c.open
  BY <1>1, <1>2, AskedCircuit DEF CircuitInv, HalfOpenIsMarked
<1>6. req' \in [Requests -> RequestStates] /\ \A q \in Requests : RequestInv(req'[q])
  BY <1>1, <1>3, <1>4, RequestStep
<1> HIDE DEF p, c, x
<1>7. \A q \in Providers :
        /\ circ'[q] = IF q = p THEN c.then ELSE circ[q]
        /\ admitted'[q] = IF q = p /\ c.then.st = "half" /\ ~c.open THEN admitted[q] + 1
                          ELSE admitted[q]
  BY <1>1, <1>2, <1>4 DEF CircuitInv
<1>8. circ' \in [Providers -> Circuits] /\ admitted' \in [Providers -> Nat]
  BY <1>1, <1>2, <1>4, <1>5 DEF CircuitInv
<1>9. OneProbePerEpisode' /\ HalfOpenIsMarked'
  BY <1>1, <1>2, <1>5, <1>7 DEF CircuitInv, OneProbePerEpisode, HalfOpenIsMarked
<1>10. CircuitInv'
  BY <1>1, <1>2, <1>5, <1>7, <1>8, <1>9 DEF CircuitInv
<1>11. GatewayInv'
  BY <1>4, <1>6, <1>10, InvSplit, InvJoin
<1>12. \A q \in Providers : ~(circ[q].st = "half" /\ circ'[q].st = "closed")
  BY <1>5, <1>7
<1> QED
  BY <1>11, <1>12

\* The answer of a provider; a streaming request reports it.
LEMMA AnswerKeeps ==
  ASSUME GatewayInv, NEW r \in Requests, Answer(r)
  PROVE  /\ GatewayInv'
         /\ \A p \in Providers : circ[p].st = "half" /\ circ'[p].st = "closed"
                                   => req[r].pc = "call" /\ req[r].stream /\ Candidate(r) = p
<1>1. /\ CircuitInv /\ RequestInv(req[r]) /\ req[r].pc = "call"
      /\ req \in [Requests -> RequestStates] /\ \A q \in Requests : RequestInv(req[q])
  BY InvSplit DEF Answer
<1>2. Candidate(r) \in Providers
  BY <1>1, ChainType DEF RequestInv, Candidate
<1>3. PICK o \in Answers :
        /\ req' = [req EXCEPT ![r] =
                     CASE o = "ok"           -> Finished(r, Candidate(r))
                       [] should_fallback(o) -> Following(r)
                       [] OTHER              -> Finished(r, NoProvider)]
        /\ IF req[r].stream THEN Record(Candidate(r), o = "ok") ELSE UNCHANGED <<circ, admitted>>
  BY DEF Answer
<1>4. PICK x : RequestInv(x) /\ req' = [req EXCEPT ![r] = x]
  <2>1. RequestInv(CASE o = "ok"           -> Finished(r, Candidate(r))
                     [] should_fallback(o) -> Following(r)
                     [] OTHER              -> Finished(r, NoProvider))
    BY <1>1, FollowingInv
  <2> QED
    BY <1>3, <2>1
<1>5. req' \in [Requests -> RequestStates] /\ \A q \in Requests : RequestInv(req'[q])
  BY <1>1, <1>4, RequestStep
<1>6. UNCHANGED <<degraded, cancels>>
  BY DEF Answer
<1>7. /\ CircuitInv'
      /\ \A p \in Providers : circ[p].st = "half" /\ circ'[p].st = "closed"
                                => req[r].stream /\ Candidate(r) = p
  <2>1. CASE req[r].stream
    <3>1. Record(Candidate(r), o = "ok")
      BY <1>3, <2>1
    <3> QED
      BY <1>1, <1>2, <2>1, <3>1, RecordStep
  <2>2. CASE ~req[r].stream
    <3>1. UNCHANGED <<circ, admitted>>
      BY <1>3, <2>2
    <3> QED
      BY <1>1, <3>1 DEF CircuitInv, OneProbePerEpisode, HalfOpenIsMarked
  <2> QED
    BY <2>1, <2>2
<1> QED
  BY <1>1, <1>5, <1>6, <1>7, InvSplit, InvJoin

\* The report of a plain request.
LEMMA ReportKeeps ==
  ASSUME GatewayInv, NEW r \in Requests, Report(r)
  PROVE  /\ GatewayInv'
         /\ \A p \in Providers : circ[p].st = "half" /\ circ'[p].st = "closed"
                                   => req[r].pc = "end" /\ req[r].ans = p /\ req[r].chain[1] = p
<1>1. /\ CircuitInv /\ RequestInv(req[r]) /\ req[r].pc = "end"
      /\ req \in [Requests -> RequestStates] /\ \A q \in Requests : RequestInv(req[q])
  BY InvSplit DEF Report
<1>2. /\ req[r].chain[1] \in Providers /\ req[r].i \in Nat /\ req[r].i >= 1
      /\ req[r].ans # NoProvider => req[r].ans = req[r].chain[req[r].i]
  <2>1. /\ req[r].chain \in Walks /\ req[r].i \in 1..Len(req[r].chain)
        /\ req[r].ans # NoProvider => req[r].ans = req[r].chain[req[r].i]
    BY <1>1 DEF RequestInv
  <2>2. req[r].chain[1] \in Providers /\ Len(req[r].chain) \in Nat
    BY <2>1, ChainType
  <2> QED
    BY <2>1, <2>2
<1>3. PICK x \in Enforced(r) :
        /\ Record(req[r].chain[1], req[r].ans # NoProvider /\ ~(req[r].i > 1))
        /\ req' = [req EXCEPT ![r] = x] /\ UNCHANGED <<degraded, cancels>>
  BY DEF Report
<1>4. req' \in [Requests -> RequestStates] /\ \A q \in Requests : RequestInv(req'[q])
  BY <1>1, <1>3, RequestStep, EnforcedInv
<1>5. /\ CircuitInv'
      /\ \A p \in Providers : circ[p].st = "half" /\ circ'[p].st = "closed"
             => p = req[r].chain[1] /\ req[r].ans # NoProvider /\ ~(req[r].i > 1)
  BY <1>1, <1>2, <1>3, RecordStep
<1>6. ~(req[r].i > 1) => req[r].i = 1
  BY <1>2
<1> QED
  BY <1>1, <1>2, <1>3, <1>4, <1>5, <1>6, InvSplit, InvJoin

\* The steps that report nothing: they leave the circuits alone, but for the
\* cooldown of an open one.
LEMMA QuietKeeps ==
  ASSUME GatewayInv,
         \/ \E r \in Requests : \/ Retry(r) \/ Cancel(r)
                                \/ \E chain \in Chains, stream \in BOOLEAN : Start(r, chain, stream)
         \/ \E p \in Providers : CoolDown(p) \/ Refresh(p)
         \/ UNCHANGED vars
  PROVE  GatewayInv' /\ \A p \in Providers : ~(circ[p].st = "half" /\ circ'[p].st = "closed")
<1>1. /\ CircuitInv /\ degraded \subseteq Providers /\ cancels \in 0..MaxCancels
      /\ req \in [Requests -> RequestStates] /\ \A q \in Requests : RequestInv(req[q])
  BY InvSplit
<1>2. ASSUME UNCHANGED <<circ, admitted>>
      PROVE  CircuitInv' /\ \A p \in Providers : ~(circ[p].st = "half" /\ circ'[p].st = "closed")
  BY <1>1, <1>2 DEF CircuitInv, OneProbePerEpisode, HalfOpenIsMarked
<1>3. ASSUME NEW r \in Requests, NEW chain \in Chains, NEW stream \in BOOLEAN,
             Start(r, chain, stream)
      PROVE  GatewayInv' /\ UNCHANGED circ
  <2> DEFINE x == [NoRequest EXCEPT !.pc = "check", !.chain = chain, !.i = 1, !.stream = stream]
  <2>1. 1 \in 1..Len(chain) /\ 1 \in Nat /\ 0 \in 0..MaxRetries
    <3>1. chain \in Seq(Providers) /\ chain # << >>
      BY ChainsAssumption
    <3> QED
      BY <3>1, GatewayBounds
  <2>2. RequestInv(x)
    BY <2>1 DEF RequestInv, RequestStates, NoRequest, Walks
  <2>3. req' = [req EXCEPT ![r] = x] /\ UNCHANGED <<circ, degraded, admitted, cancels>>
    BY <1>3 DEF Start
  <2> HIDE DEF x
  <2>4. req' \in [Requests -> RequestStates] /\ \A q \in Requests : RequestInv(req'[q])
    BY <1>1, <2>2, <2>3, RequestStep
  <2> QED
    BY <1>1, <1>2, <2>3, <2>4, InvSplit, InvJoin
<1>4. ASSUME NEW r \in Requests, Retry(r)
      PROVE  GatewayInv' /\ UNCHANGED circ
  <2> DEFINE x == [req[r] EXCEPT !.tries = @ + 1]
  <2>1. req[r] \in RequestStates /\ RequestInv(req[r]) /\ req[r].tries < MaxRetries
    BY <1>1, <1>4 DEF Retry, RequestInv
  <2>2. req[r].tries + 1 \in 0..MaxRetries
    BY <2>1, GatewayBounds DEF RequestStates
  <2>3. x \in RequestStates
    BY <2>1, <2>2 DEF RequestStates
  <2>4. /\ x.pc = req[r].pc /\ x.chain = req[r].chain /\ x.i = req[r].i /\ x.ans = req[r].ans
    BY <2>1 DEF RequestStates
  <2>5. req' = [req EXCEPT ![r] = x] /\ UNCHANGED <<circ, degraded, admitted, cancels>>
    BY <1>1, <1>4 DEF Retry
  <2> HIDE DEF x
  <2>6. RequestInv(x)
    BY <2>1, <2>3, <2>4 DEF RequestInv
  <2>7. req' \in [Requests -> RequestStates] /\ \A q \in Requests : RequestInv(req'[q])
    BY <1>1, <2>5, <2>6, RequestStep
  <2> QED
    BY <1>1, <1>2, <2>5, <2>7, InvSplit, InvJoin
<1>5. ASSUME NEW r \in Requests, Cancel(r)
      PROVE  GatewayInv' /\ UNCHANGED circ
  <2>1. /\ req' = [req EXCEPT ![r] = NoRequest] /\ UNCHANGED <<circ, degraded, admitted>>
        /\ cancels' \in 0..MaxCancels
    BY <1>1, <1>5, GatewayBounds DEF Cancel
  <2>2. req' \in [Requests -> RequestStates] /\ \A q \in Requests : RequestInv(req'[q])
    BY <1>1, <2>1, NoRequestInv, RequestStep
  <2> QED
    BY <1>1, <1>2, <2>1, <2>2, InvSplit, InvJoin
<1>6. ASSUME NEW p \in Providers, CoolDown(p)
      PROVE  GatewayInv' /\ \A q \in Providers : circ'[q].st = circ[q].st
  <2>1. /\ circ[p] \in Circuits /\ circ[p].st = "open"
        /\ circ' = [circ EXCEPT ![p].cooled = TRUE]
        /\ UNCHANGED <<degraded, req, admitted, cancels>>
    BY <1>1, <1>6 DEF CoolDown, CircuitInv
  <2>2. \A q \in Providers :
          /\ circ'[q] \in Circuits /\ circ'[q].st = circ[q].st
          /\ circ'[q].probe = circ[q].probe /\ circ'[q].win = circ[q].win
    BY <1>1, <2>1 DEF CircuitInv, Circuits
  <2>3. circ' \in [Providers -> Circuits]
    BY <1>1, <2>1, <2>2 DEF CircuitInv
  <2>4. CircuitInv'
    BY <1>1, <2>1, <2>2, <2>3 DEF CircuitInv, OneProbePerEpisode, HalfOpenIsMarked
  <2> QED
    BY <1>1, <2>1, <2>2, <2>4, InvSplit, InvJoin
<1>7. ASSUME NEW p \in Providers, Refresh(p)
      PROVE  GatewayInv' /\ UNCHANGED circ
  <2>1. UNCHANGED <<circ, req, admitted, cancels>> /\ degraded' \subseteq Providers
    BY <1>1, <1>7 DEF Refresh
  <2> QED
    BY <1>1, <1>2, <2>1, InvSplit, InvJoin
<1>8. ASSUME UNCHANGED vars
      PROVE  GatewayInv' /\ UNCHANGED circ
  BY <1>1, <1>2, <1>8, InvSplit, InvJoin DEF vars
<1> QED
  BY <1>3, <1>4, <1>5, <1>6, <1>7, <1>8

\* Every step is one of those.
LEMMA StepCases ==
  [Next]_vars
    => \/ \E r \in Requests : Check(r) \/ Answer(r) \/ Report(r)
       \/ \E r \in Requests : \/ Retry(r) \/ Cancel(r)
                              \/ \E chain \in Chains, stream \in BOOLEAN : Start(r, chain, stream)
       \/ \E p \in Providers : CoolDown(p) \/ Refresh(p)
       \/ UNCHANGED vars
BY DEF Next, Progress

\* The invariant is inductive.
LEMMA NextGateway == GatewayInv /\ [Next]_vars => GatewayInv'
BY StepCases, CheckKeeps, AnswerKeeps, ReportKeeps, QuietKeeps

\* The invariant holds in every reachable state.
THEOREM GatewayInvariant == Spec => []GatewayInv
BY InitGateway, NextGateway, PTL DEF Spec

\* Every variable of the gateway keeps to its domain, windows stay bounded and a
\* request in progress stays within its chain of candidates.
THEOREM GatewayTypeCorrect == Spec => []TypeOK
<1>1. GatewayInv => TypeOK
  BY DEF GatewayInv
<1> QED
  BY <1>1, GatewayInvariant, PTL

\* is_open lets exactly one request through a half-open circuit, for any number
\* of concurrent requests.
THEOREM OneProbe == Spec => []OneProbePerEpisode
<1>1. GatewayInv => OneProbePerEpisode
  BY DEF GatewayInv
<1> QED
  BY <1>1, GatewayInvariant, PTL

\* A half-open circuit closes only on the report of a request that the very
\* provider answered (record_success, from execution.rs or routes/mod.rs).
THEOREM ClosesOnAnswer == Spec => ClosesOnlyOnAnswer
<1>1. ASSUME GatewayInv, [Next]_vars
      PROVE  [\A p \in Providers :
               circ[p].st = "half" /\ circ'[p].st = "closed"
                 => \E r \in Requests :
                      \/ req[r].pc = "end" /\ req[r].ans = p /\ req[r].chain[1] = p
                      \/ req[r].pc = "call" /\ req[r].stream /\ Candidate(r) = p]_vars
  <2> SUFFICES ASSUME NEW p \in Providers, circ[p].st = "half", circ'[p].st = "closed"
               PROVE  \E r \in Requests :
                        \/ req[r].pc = "end" /\ req[r].ans = p /\ req[r].chain[1] = p
                        \/ req[r].pc = "call" /\ req[r].stream /\ Candidate(r) = p
    OBVIOUS
  <2>1. ASSUME NEW r \in Requests, Check(r) PROVE FALSE
    BY <1>1, <2>1, CheckKeeps
  <2>2. ASSUME NEW r \in Requests, Answer(r)
        PROVE  req[r].pc = "call" /\ req[r].stream /\ Candidate(r) = p
    BY <1>1, <2>2, AnswerKeeps
  <2>3. ASSUME NEW r \in Requests, Report(r)
        PROVE  req[r].pc = "end" /\ req[r].ans = p /\ req[r].chain[1] = p
    BY <1>1, <2>3, ReportKeeps
  <2> QED
    BY <1>1, <2>1, <2>2, <2>3, StepCases, QuietKeeps
<1> QED
  BY <1>1, GatewayInvariant, PTL DEF Spec, ClosesOnlyOnAnswer

=============================================================================
