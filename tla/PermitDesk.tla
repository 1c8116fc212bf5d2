------------------------------ MODULE PermitDesk ------------------------------
(***************************************************************************)
(* What the dispatch of a batch promises, without locks, processes, rows or  *)
(* files.  A permit is granted at most once, while it is valid, to a run     *)
(* that carries it, and a grant that was withdrawn is never given back.  A   *)
(* run is admitted to the guarded steps of its batch one by one, each time   *)
(* on a grant that stands; losing the grant does not undo the admission it   *)
(* has.  After them it rewrites the store, and for that it needs no grant.   *)
(* Then it finishes.  A caller is answered once, with what a finished run of *)
(* the same payload produced.                                                *)
(***************************************************************************)
EXTENDS Naturals

CONSTANTS Runs, Permits, NoRun, Calls, Steps, Expiring

VARIABLES
  call,      \* the permit and the payload each run carries
  expired,   \* permits that are no longer valid
  granted,   \* the run each permit was granted to, or NoRun
  standing,  \* permits whose grant was not withdrawn
  admitted,  \* runs let into their next guarded step
  taken,     \* steps each run has taken, the rewrite included
  finished,  \* runs that came to their end
  answer     \* the run whose result each caller was given, or NoRun

permits == <<call, expired>>
grants == <<granted, standing>>
work == <<admitted, taken, finished>>
dvars == <<permits, grants, work, answer>>

DInit ==
  /\ call \in Calls /\ expired = {}
  /\ granted = [p \in Permits |-> NoRun] /\ standing = {}
  /\ admitted = {} /\ taken = [r \in Runs |-> 0] /\ finished = {}
  /\ answer = [r \in Runs |-> NoRun]

Mine(r) == call[r].permit
InForce(r) == granted[Mine(r)] = r /\ Mine(r) \in standing \ expired

Expire(p) ==
  /\ p \in Expiring \ expired /\ expired' = expired \cup {p}
  /\ UNCHANGED <<call, grants, work, answer>>

Grant(r) ==
  /\ granted[Mine(r)] = NoRun /\ Mine(r) \notin expired
  /\ granted' = [granted EXCEPT ![Mine(r)] = r]
  /\ standing' = standing \cup {Mine(r)}
  /\ UNCHANGED <<permits, work, answer>>

Withdraw(revoked) ==
  /\ standing' = standing \ revoked
  /\ UNCHANGED <<permits, granted, work, answer>>

Admit(r) ==
  /\ InForce(r) /\ taken[r] < Steps /\ r \notin finished
  /\ admitted' = admitted \cup {r}
  /\ UNCHANGED <<permits, grants, taken, finished, answer>>

Take(r) ==
  /\ r \in admitted /\ admitted' = admitted \ {r}
  /\ taken' = [taken EXCEPT ![r] = @ + 1]
  /\ UNCHANGED <<permits, grants, finished, answer>>

Drop(r) ==
  /\ admitted' = admitted \ {r}
  /\ UNCHANGED <<permits, grants, taken, finished, answer>>

Rewrite(r) ==
  /\ taken[r] = Steps /\ taken' = [taken EXCEPT ![r] = @ + 1]
  /\ UNCHANGED <<permits, grants, admitted, finished, answer>>

Finish(r) ==
  /\ taken[r] = Steps + 1 /\ finished' = finished \cup {r}
  /\ UNCHANGED <<permits, grants, admitted, taken, answer>>

Answer(caller, r) ==
  /\ answer[caller] = NoRun
  /\ r \in finished /\ call[r].payload = call[caller].payload
  /\ answer' = [answer EXCEPT ![caller] = r]
  /\ UNCHANGED <<permits, grants, work>>

DNext ==
  \/ \E p \in Permits : Expire(p)
  \/ \E revoked \in SUBSET Permits : Withdraw(revoked)
  \/ \E r \in Runs : Grant(r) \/ Admit(r) \/ Take(r) \/ Drop(r) \/ Rewrite(r) \/ Finish(r)
  \/ \E caller, r \in Runs : Answer(caller, r)

DSpec == DInit /\ [][DNext]_dvars
=============================================================================
