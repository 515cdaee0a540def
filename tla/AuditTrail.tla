----------------------------- MODULE AuditTrail -----------------------------
(***************************************************************************)
(* The hash chains of activity_logs.  recordMutation takes the advisory    *)
(* lock of the entry's chain (its school, or `platform'), reads the newest *)
(* entry by createdAt and id, and inserts an entry that carries its hash.  *)
(* A hash stands for the one entry it was computed from.  In production    *)
(* the lock is held, and the entry is invisible to others, to the end of   *)
(* the request's transaction.                                              *)
(***************************************************************************)
EXTENDS Naturals, FiniteSets

CONSTANTS
  Chains,
  Subjects,    \* what an entry can be about
  Values,      \* the states of a subject an entry records before and after
  Retention,   \* age at which entries are purged
  MaxTime      \* bound: the clock

ASSUME TrailAssumption == Retention \in Nat /\ MaxTime \in Nat

VARIABLES
  log,         \* the committed entries
  issued,      \* the ids handed out: they grow within a process
  now          \* the clock that createdAt is taken from

trail == <<log, issued, now>>

EntryType == [no : Nat \ {0}, chain : Chains, prev : Nat, time : Nat,
              about : Subjects, before : Values, after : Values]

Earlier(e, f) == e.time < f.time \/ (e.time = f.time /\ e.no < f.no)

OfChain(S, c) == {e \in S : e.chain = c}

(* n is the id of the newest entry of chain c in S, 0 where there is none. *)
IsNewest(S, c, n) ==
  \/ OfChain(S, c) = {} /\ n = 0
  \/ \E e \in OfChain(S, c) :
       n = e.no /\ \A f \in OfChain(S, c) \ {e} : Earlier(f, e)

Entry(c, prev, about, before, after) ==
  [no |-> issued + 1, chain |-> c, prev |-> prev, time |-> now,
   about |-> about, before |-> before, after |-> after]

TrailInit == log = {} /\ issued = 0 /\ now = 0

Tick == now < MaxTime /\ now' = now + 1 /\ UNCHANGED <<log, issued>>

(* purgeOldAuditLogs, of all chains at once.                               *)
Purge ==
  /\ \E e \in log : e.time + Retention < now
  /\ log' = {e \in log : e.time + Retention >= now}
  /\ UNCHANGED <<issued, now>>

---------------------------------------------------------------------------
(* The entries of S form one line in each chain: in the order they are     *)
(* read in, each carries the hash of the one before it.  The oldest may    *)
(* refer to one that was purged.                                           *)
Line(S) ==
  \A e, f \in S :
    /\ e.chain = f.chain /\ Earlier(f, e)
    /\ \A g \in OfChain(S, e.chain) : ~(Earlier(f, g) /\ Earlier(g, e))
    => e.prev = f.no

(* No fork and no gap in what is kept of any chain, with any number of     *)
(* writers, rolled back or not: a verifier that walks it finds every link. *)
ChainIsLine == Line(log)

TrailTypeOK == log \subseteq EntryType /\ issued \in Nat /\ now \in Nat
=============================================================================
