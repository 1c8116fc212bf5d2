------------------------------- MODULE RunLedger -------------------------------
(***************************************************************************)
(* What an owner run promises, without files, processes or deaths.  It      *)
(* takes observations one after another, and each opens a version.  Under   *)
(* a version the runtime is written to until one write is on record,        *)
(* which is then never joined by another; the record is reviewed once,      *)
(* and the run concluded once.  A conclusion goes only to make room for a   *)
(* new version, as long as that has nothing on record.  Callers are         *)
(* answered with the conclusion there is, as one about the latest           *)
(* observation; a FINALIZED that the record of that observation does not    *)
(* bear is not passed on, whereas a BLOCKED or FAILED left by the version   *)
(* before is.                                                               *)
(***************************************************************************)
EXTENDS Naturals

CONSTANTS Caller, Request, NoRequest, Step, Reviewed

VARIABLES
  version, request,  \* the latest observation, and how many there were
  written,           \* how often each step was written to the runtime
  recorded,          \* the steps on record
  verdict,           \* the review of each step, or "none"
  conclusion,        \* what the run ended with, or "none"
  answered           \* what each caller was told last

observation == <<version, request>>
record == <<written, recorded, verdict>>
lvars == <<observation, record, conclusion, answered>>

LInit ==
  /\ version = 0 /\ request = NoRequest
  /\ written = [s \in Step |-> 0]
  /\ recorded = {}
  /\ verdict = [s \in Step |-> "none"]
  /\ conclusion = "none"
  /\ answered = [c \in Caller |-> [result |-> "none", request |-> NoRequest, version |-> 0]]

OnRecord == {s \in recorded : s.version = version}
Bears(s) == written[s] > 0 /\ (Reviewed => verdict[s] = "passed")

\* Left by the version before: the process that opened this one died early.
Stale == conclusion = "FINALIZED" /\ OnRecord = {}

Observe(r) ==
  /\ r # request
  /\ request' = r /\ version' = version + 1
  /\ UNCHANGED <<record, conclusion, answered>>

Withdraw ==
  /\ OnRecord = {}
  /\ conclusion' = "none"
  /\ UNCHANGED <<observation, record, answered>>

Open(s) == s.version = version /\ conclusion = "none"

Write(s) ==
  /\ Open(s) /\ OnRecord = {}
  /\ written' = [written EXCEPT ![s] = @ + 1]
  /\ UNCHANGED <<observation, recorded, verdict, conclusion, answered>>

Register(s) ==
  /\ Open(s) /\ OnRecord = {} /\ written[s] > 0
  /\ recorded' = recorded \cup {s}
  /\ UNCHANGED <<observation, written, verdict, conclusion, answered>>

Review(s, v) ==
  /\ Open(s) /\ s \in recorded /\ verdict[s] = "none"
  /\ verdict' = [verdict EXCEPT ![s] = v]
  /\ UNCHANGED <<observation, written, recorded, conclusion, answered>>

Finish(c) ==
  /\ conclusion = "none" /\ conclusion' = c
  /\ c = "FINALIZED" => \E s \in OnRecord : Bears(s)
  /\ UNCHANGED <<observation, record, answered>>

\* The run may also raise, and says nothing then.
Answer(c, result) ==
  /\ \/ result = "raised"
     \/ result # "none" /\ result = (IF Stale THEN "FAILED" ELSE conclusion)
  /\ answered' = [answered EXCEPT ![c] =
       [result |-> result, request |-> request, version |-> version]]
  /\ UNCHANGED <<observation, record, conclusion>>

LNext ==
  \/ \E r \in Request : Observe(r)
  \/ Withdraw
  \/ \E s \in Step : \/ Write(s) \/ Register(s)
                     \/ \E v \in {"passed", "failed"} : Review(s, v)
  \/ \E c \in {"FINALIZED", "BLOCKED", "FAILED"} : Finish(c)
  \/ \E c \in Caller : Answer(c, answered'[c].result)

LSpec == LInit /\ [][LNext]_lvars
================================================================================
