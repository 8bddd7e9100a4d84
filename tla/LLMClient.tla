----------------------------- MODULE LLMClient -----------------------------
(***************************************************************************)
(* One call of llm_service.generate_json at a time, as the analysis of an  *)
(* audit makes it: send the prompt, once more after an HTTP 503, then      *)
(* clean, repair, parse and validate what came back.  The call returns a   *)
(* payload with the required keys or raises; there is no third way.        *)
(*                                                                         *)
(* A step is one HTTP request or the work on one answer.  Of an answer the *)
(* model keeps what decides its fate: whether JSON repair changed it, and  *)
(* whether it is unrepairable, not JSON, not an object, or a reply with    *)
(* the keys it has and the keys whose values are no good.  Replies also    *)
(* carry whatever the callers read from them.                              *)
(***************************************************************************)
EXTENDS Naturals

CONSTANTS
  Settings,     \* what the environment configures
  Replies       \* the JSON objects the provider may answer with

VARIABLES
  conf,         \* the settings of this process
  call,         \* the call under way
  requests,     \* HTTP requests sent, by all calls
  waited,       \* tenths of a second slept before requests and calls
  debris        \* files kept of the answer the call last parsed

clientVars == <<conf, call, requests, waited, debris>>

RequiredKeys == {"summary", "findings", "compliance_score"}

\* An answer that yields no JSON object, and one that does: a reply, of form
\* "object", with the required keys it has and those without a usable value.
Rejected == [form : {"unrepairable", "not_json", "not_object"}]

\* validate_json_payload accepts the reply.
Valid(reply) == reply.keys = RequiredKeys /\ reply.bad = {}

NoAnswer == [form |-> "none"]
Idle == [state |-> "idle", attempt |-> 0, retried |-> FALSE,
         model |-> "primary", answer |-> NoAnswer]

\* Bounds: the two counters count no further.
RequestCap == 9
WaitCap == 999
Count(n, more, cap) == IF n + more < cap THEN n + more ELSE cap

ClientTypeOK ==
  /\ conf \in Settings
  /\ call \in [state : {"idle", "request", "parse", "returned", "raised"},
               attempt : 0..3, retried : BOOLEAN, model : {"primary", "fallback"},
               answer : Replies \cup Rejected \cup {NoAnswer}]
  /\ requests \in 0..RequestCap
  /\ waited \in 0..WaitCap
  /\ debris \in 0..2

ClientInit ==
  /\ conf \in Settings
  /\ call = Idle
  /\ requests = 0
  /\ waited = 0
  /\ debris = 0

-----------------------------------------------------------------------------
(* Mutants: plausible bugs in the definitions below. *)

\* Overloaded, without a limit.
AlwaysOverloaded == conf.gemini

\* Kept, saving at every complaint.
KeptTwice(repaired, rejected, first, second) ==
  (IF repaired /\ first THEN 1 ELSE 0) + (IF rejected /\ second THEN 1 ELSE 0)
-----------------------------------------------------------------------------
\* The fallback model is for the third attempt, and only for the one primary
\* model it is meant to replace.
ModelForAttempt(attempt) ==
  IF attempt >= 3 /\ conf.lite /\ conf.fallback THEN "fallback" ELSE "primary"

\* generate_json begins: without key, URL or a known provider it raises
\* before anything is sent.
Generate(attempt) ==
  /\ call' = [state |-> IF conf.configured THEN "request" ELSE "raised",
              attempt |-> attempt, retried |-> FALSE,
              model |-> IF conf.gemini THEN ModelForAttempt(attempt) ELSE "primary",
              answer |-> NoAnswer]
  /\ debris' = 0

\* A first 503 of Gemini is waited out; any other failure is the caller's.
Overloaded == conf.gemini /\ ~call.retried

Send ==
  /\ call.state = "request"
  /\ requests' = Count(requests, 1, RequestCap)
  /\ \/ /\ \E answer \in Replies \cup Rejected :
             call' = [call EXCEPT !.state = "parse", !.answer = answer]
        /\ UNCHANGED waited
     \/ /\ Overloaded
        /\ call' = [call EXCEPT !.retried = TRUE]
        /\ waited' = Count(waited, 50 * call.attempt, WaitCap)
     \/ /\ call' = [call EXCEPT !.state = "raised"]
        /\ UNCHANGED waited
  /\ UNCHANGED <<conf, debris>>

\* Files kept of an answer: one when repair changed it, else one when it is
\* rejected; a file that could not be written is tried again at the next
\* complaint.  first and second: whether the two writes succeed.
Kept(repaired, rejected, first, second) ==
  IF repaired /\ first THEN 1
  ELSE IF rejected /\ second THEN 1 ELSE 0

\* parse_json_response and validate_json_payload.  An answer that could not
\* be repaired is saved once, and repair cannot have changed it.
Parse ==
  LET answer == call.answer
      accepted == answer.form = "object" /\ Valid(answer)
  IN /\ call.state = "parse"
     /\ \E repaired \in BOOLEAN, first, second \in {TRUE, ~conf.diskMayFail} :
          /\ answer.form = "unrepairable" => ~repaired
          /\ debris' = Kept(repaired, ~accepted, first, second)
     /\ call' = [call EXCEPT !.state = IF accepted THEN "returned" ELSE "raised"]
     /\ UNCHANGED <<conf, requests, waited>>

ClientStep == Send \/ Parse
-----------------------------------------------------------------------------
(***************************************************************************)
(* A call returns nothing the callers cannot read: all required keys, with *)
(* a summary, a list of findings and a finite score.  Of an answer that    *)
(* was rejected one raw copy is kept for inspection, or none when the disk *)
(* refused it; never two.                                                  *)
(***************************************************************************)
AnswersJudged ==
  /\ call.state = "returned" =>
       /\ call.answer.form = "object"
       /\ RequiredKeys \subseteq call.answer.keys \ call.answer.bad
  /\ debris <= 1
  /\ call.state = "raised" /\ call.answer # NoAnswer /\ ~conf.diskMayFail => debris = 1
=============================================================================
