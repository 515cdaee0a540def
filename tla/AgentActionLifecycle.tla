------------------------ MODULE AgentActionLifecycle ------------------------
(***************************************************************************)
(* What the agent control plane promises of an action, without requests,   *)
(* transactions or locks: it is proposed once, for a mutation no other     *)
(* open or completed action is about, and then in one step either its      *)
(* mutation is made and it succeeds, or nothing is made and it fails, or   *)
(* it expires.  Nothing happens to it after that.  Only a mutation that    *)
(* can turn out to have nothing to do succeeds with nothing made.          *)
(***************************************************************************)
CONSTANTS
  Actions,
  Mutations,  \* what a fingerprint identifies
  MayBeEmpty  \* those of them that may turn out to have nothing to do

VARIABLES
  life,   \* the stage of each action
  what,   \* the mutations each action is about: one, or none before it exists
  made    \* the actions whose mutation has been made

lvars == <<life, what, made>>

Stages == {"none", "pending", "done", "failed", "expired"}

LifecycleTypeOK ==
  /\ life \in [Actions -> Stages]
  /\ what \in [Actions -> SUBSET Mutations]
  /\ made \in SUBSET Actions

LifecycleInit ==
  /\ life = [a \in Actions |-> "none"]
  /\ what = [a \in Actions |-> {}]
  /\ made = {}

Propose(a) ==
  /\ life[a] = "none"
  /\ life' = [life EXCEPT ![a] = "pending"]
  /\ \E m \in Mutations :
       /\ what' = [what EXCEPT ![a] = {m}]
       /\ \A b \in Actions : life[b] \in {"pending", "done"} => m \notin what[b]
  /\ UNCHANGED made

Settle(a, stage) ==
  /\ life[a] = "pending"
  /\ life' = [life EXCEPT ![a] = stage]
  /\ UNCHANGED what

Succeed(a) == Settle(a, "done") /\ made' = made \cup {a}

SucceedEmpty(a) ==
  Settle(a, "done") /\ what[a] \subseteq MayBeEmpty /\ UNCHANGED made

Fail(a)    == Settle(a, "failed") /\ UNCHANGED made

(* Several actions may run out at once.                                    *)
Expire ==
  /\ \E S \in SUBSET {a \in Actions : life[a] = "pending"} :
       life' = [a \in Actions |-> IF a \in S THEN "expired" ELSE life[a]]
  /\ UNCHANGED <<what, made>>

LifecycleNext ==
  /\ life' # life
  /\ Expire \/ \E a \in Actions : Propose(a) \/ Succeed(a) \/ SucceedEmpty(a) \/ Fail(a)

LifecycleSpec == LifecycleInit /\ [][LifecycleNext]_lvars
=============================================================================
