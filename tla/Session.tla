---- MODULE Session ----
(***************************************************************************)
(* Session.Do (session.go) and what Indeterminate (errors.go) lets a       *)
(* caller conclude: callers that each perform one request, an order or a   *)
(* read, through authentication, pacing, transport and decoding, over a    *)
(* network that delays and loses requests and answers.                     *)
(*                                                                         *)
(* A caller whose order failed follows the documentation of Indeterminate: *)
(* it submits the same order again if that reports false and leaves the    *)
(* order alone otherwise.  The exchange acts on every order that reaches   *)
(* it, in its own time.  Pacing (Limiter) is a wait that may be cut short. *)
(* The specification's names carry Do, so that a module can extend both.   *)
(***************************************************************************)
EXTENDS Naturals, FiniteSets

CONSTANTS
  Writers,    \* callers that submit an order, with POST
  Readers,    \* callers that read, with GET
  Retries,    \* s.retries; -1 and below is given as 0
  MaxSubmits  \* bound: calls of Do per caller

ASSUME SessionAssumption ==
  /\ Writers \cap Readers = {}
  /\ Retries \in Nat /\ MaxSubmits \in Nat \ {0}

Clients == Writers \cup Readers

VARIABLES
  step,     \* where each caller's Do is
  submit,   \* how often each caller has called Do
  attempt,  \* send's counter
  reply,    \* the status line each caller has been sent and not read
  err,      \* the error of each caller's last Do
  wire,     \* requests on their way to the exchange
  applied   \* how often the exchange has acted on each caller's request

doVars == <<step, submit, attempt, reply, err, wire, applied>>

NoReply == 0
Statuses == {200, 400, 500}

(* Errors by what errors.Is and errors.As find in them: the sentinels, an  *)
(* Error with its status, or none of these.                                *)
Nil == [is |-> "nil"]
NotSent == [is |-> "ErrNotSent"]
NoSigner == [is |-> "ErrNoSigner"]
NoCredentials == [is |-> "ErrNoCredentials"]
Other == [is |-> "other"]
Answered(status) == [is |-> "Error", status |-> status]

(* Mutant of Indeterminate: every answer is taken for a refusal. *)
IndeterminateUnanswered(e) == e.is = "other"

Indeterminate(e) == e.is = "other" \/ (e.is = "Error" /\ e.status >= 500)

(* Mutant of ExtraAttempts: the method is not looked at. *)
ExtraAttemptsAlways(c) == Retries

(* send: only a GET is tried again. *)
ExtraAttempts(c) == IF c \in Readers THEN Retries ELSE 0

Request(c, n) == [caller |-> c, submit |-> submit[c], attempt |-> n]

DoInit ==
  /\ step = [c \in Clients |-> "idle"]
  /\ submit = [c \in Clients |-> 0]
  /\ attempt = [c \in Clients |-> 0]
  /\ reply = [c \in Clients |-> NoReply]
  /\ err = [c \in Clients |-> Nil]
  /\ wire = {}
  /\ applied = [c \in Clients |-> 0]

(* Do ends; its caller holds the error. *)
Return(c, e) ==
  /\ step' = [step EXCEPT ![c] = IF e = Nil THEN "succeeded" ELSE "failed"]
  /\ err' = [err EXCEPT ![c] = e]

(* A call of Do: the first, or again after an error that is determinate. *)
Call(c) ==
  /\ \/ step[c] = "idle"
     \/ step[c] = "failed" /\ ~Indeterminate(err[c])
  /\ submit[c] < MaxSubmits
  /\ step' = [step EXCEPT ![c] = "preparing"]
  /\ submit' = [submit EXCEPT ![c] = @ + 1]
  /\ attempt' = [attempt EXCEPT ![c] = 0]
  /\ UNCHANGED <<reply, err, wire, applied>>

(* The body is encoded, the headers are signed and the request is built. *)
Prepare(c) ==
  /\ step[c] = "preparing"
  /\ step' = [step EXCEPT ![c] = "pacing"]
  /\ UNCHANGED <<submit, attempt, reply, err, wire, applied>>

(* Encoding or building the request fails. *)
PrepareFails(c) ==
  /\ step[c] = "preparing"
  /\ Return(c, NotSent)
  /\ UNCHANGED <<submit, attempt, reply, wire, applied>>

(* authHeaders fails: something is missing, or the Signer or the           *)
(* L2Authenticator, which may be a remote service, reports an error.       *)
AuthFails(c) ==
  /\ step[c] = "preparing"
  /\ \E e \in {NoSigner, NoCredentials, Other} : Return(c, e)
  /\ UNCHANGED <<submit, attempt, reply, wire, applied>>

(* limiter.Wait returns nil, and send makes its first attempt. *)
Paced(c) ==
  /\ step[c] = "pacing"
  /\ step' = [step EXCEPT ![c] = "sending"]
  /\ wire' = wire \cup {Request(c, 0)}
  /\ UNCHANGED <<submit, attempt, reply, err, applied>>

PaceCut(c) ==
  /\ step[c] = "pacing"
  /\ Return(c, NotSent)
  /\ UNCHANGED <<submit, attempt, reply, wire, applied>>

(* The exchange gets to a request.  A refusal has no effect, a failure may *)
(* have had one.  Its answer finds a caller that still waits, or nobody.   *)
Serve(m) ==
  /\ wire' = wire \ {m}
  /\ \E status \in Statuses, acted \in BOOLEAN :
       /\ status = 200 => acted
       /\ status = 400 => ~acted
       /\ applied' = IF acted THEN [applied EXCEPT ![m.caller] = @ + 1] ELSE applied
       /\ reply' = IF step[m.caller] = "sending" /\ Request(m.caller, attempt[m.caller]) = m
                   THEN [reply EXCEPT ![m.caller] = status]
                   ELSE reply
  /\ UNCHANGED <<step, submit, attempt, err>>

(* The attempt ends without an answer: a refused dial, a reset, a timeout, *)
(* the caller's context.  The exchange may or may not have the request.    *)
Broken(c) ==
  /\ step[c] = "sending"
  /\ reply' = [reply EXCEPT ![c] = NoReply]
  /\ \/ /\ attempt[c] < ExtraAttempts(c)
        /\ step' = [step EXCEPT ![c] = "retrying"]
        /\ UNCHANGED err
     \/ Return(c, Other)
  /\ UNCHANGED <<submit, attempt, wire, applied>>

(* Mutant of Retry: the attempt is not counted. *)
RetryUncounted(c) ==
  /\ step[c] = "retrying"
  /\ step' = [step EXCEPT ![c] = "sending"]
  /\ wire' = wire \cup {Request(c, attempt[c])}
  /\ UNCHANGED <<submit, attempt, reply, err, applied>>

(* The pause is over: the next attempt goes out, past the limiter. *)
Retry(c) ==
  /\ step[c] = "retrying"
  /\ step' = [step EXCEPT ![c] = "sending"]
  /\ attempt' = [attempt EXCEPT ![c] = @ + 1]
  /\ wire' = wire \cup {Request(c, attempt[c] + 1)}
  /\ UNCHANGED <<submit, reply, err, applied>>

(* The context ends during the pause. *)
RetryCut(c) ==
  /\ step[c] = "retrying"
  /\ Return(c, Other)
  /\ UNCHANGED <<submit, attempt, reply, wire, applied>>

(* The answer is read to its end and decoded; either may fail. *)
Receive(c) ==
  /\ step[c] = "sending"
  /\ reply[c] # NoReply
  /\ reply' = [reply EXCEPT ![c] = NoReply]
  /\ \/ Return(c, IF reply[c] < 300 THEN Nil ELSE Answered(reply[c]))
     \/ Return(c, Other)
  /\ UNCHANGED <<submit, attempt, wire, applied>>

Step(c) == \/ Prepare(c) \/ PrepareFails(c) \/ AuthFails(c)
           \/ Paced(c) \/ PaceCut(c)
           \/ Broken(c) \/ Retry(c) \/ RetryCut(c) \/ Receive(c)

DoNext == (\E c \in Clients : Call(c) \/ Step(c)) \/ (\E m \in wire : Serve(m))

(* A Do under way goes on: the limiter lets it go (WindowWait), and the    *)
(* http.Client's timeout ends an attempt that is not answered.             *)
DoFairness == \A c \in Clients : WF_doVars(Step(c))

DoSpec == DoInit /\ [][DoNext]_doVars /\ DoFairness
---------------------------------------------------------------------------
Ended == {"idle", "succeeded", "failed"}
Steps == Ended \cup {"preparing", "pacing", "sending", "retrying"}
Errors == {Nil, NotSent, NoSigner, NoCredentials, Other} \cup {Answered(s) : s \in Statuses}

(* The state keeps its shape: attempts stay within send's limit, only a    *)
(* caller waiting for an answer has one, and Do fails with an error.       *)
DoTypeOK ==
  /\ step \in [Clients -> Steps]
  /\ submit \in [Clients -> Nat]
  /\ attempt \in [Clients -> 0..Retries]
  /\ reply \in [Clients -> Statuses \cup {NoReply}]
  /\ err \in [Clients -> Errors]
  /\ wire \subseteq [caller : Clients, submit : Nat, attempt : Nat]
  /\ applied \in [Clients -> Nat]
  /\ \A c \in Clients : reply[c] # NoReply => step[c] = "sending"
  /\ \A c \in Clients : step[c] = "failed" => err[c] # Nil
  /\ \A c \in Clients : step[c] = "retrying" => attempt[c] < ExtraAttempts(c)

(* Nothing of caller c's order has left, or all that did was refused. *)
Untouched(c) == applied[c] = 0 /\ \A m \in wire : m.caller # c

MayCall(c) == step[c] = "idle" \/ (step[c] = "failed" /\ ~Indeterminate(err[c]))

(* The inductive invariant.  One submission at a time is out: while it is  *)
(* on the wire nothing has been acted on or answered, a refusal it was     *)
(* answered with means it was not acted on, and a caller that may submit   *)
(* has nothing out.                                                        *)
OneOut(c) ==
  /\ attempt[c] = 0 /\ step[c] # "retrying"
  /\ applied[c] \in {0, 1}
  /\ \A m \in wire : m.caller = c =>
       m = Request(c, 0) /\ applied[c] = 0 /\ reply[c] = NoReply
  /\ MayCall(c) \/ step[c] \in {"preparing", "pacing"} => Untouched(c)
  /\ reply[c] = 400 => applied[c] = 0

DoInv == DoTypeOK /\ \A c \in Writers : OneOut(c)

(* "Resending an order submission that may already have been received is   *)
(* how an account ends up holding a position it asked for once": a caller  *)
(* that resubmits whenever Indeterminate says it may never has one order   *)
(* acted on twice, however requests and answers are delayed or lost.       *)
AtMostOnce == \A c \in Writers : applied[c] <= 1

(* Errors that are not Indeterminate "definitely had no effect": the       *)
(* exchange has not acted on the order and no copy of it is on its way.    *)
RefusedMeansNothing ==
  \A c \in Writers :
    step[c] = "failed" /\ ~Indeterminate(err[c]) => Untouched(c)

(* Every Do ends, though the network may fail for ever. *)
DoEnds == \A c \in Clients : step[c] = "preparing" ~> step[c] \in Ended
====
