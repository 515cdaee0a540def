----------------------------- MODULE YearCache -----------------------------
(***************************************************************************)
(* The cached active year of a school.  resolveActiveYear looks into the   *)
(* cache and, on a miss, reads the active year and stores it for 24 hours. *)
(* A process keeps it in Redis while it is connected, and in its own       *)
(* memory otherwise; which of the two is asked and which is written is     *)
(* decided at each call.  Nothing ever removes an entry but its age.       *)
(***************************************************************************)
CONSTANTS
  Processes,
  Redis,
  NoYear,      \* nothing is cached, or no resolution is under way
  Missed       \* the cache was asked in vain, and the database not yet

VARIABLES
  cache,       \* the entry in Redis and in the memory of each process
  connected,   \* the processes with a connection to Redis
  resolving    \* per process: the year a resolution has read

cached == <<cache, connected, resolving>>

Stores == Processes \cup {Redis}

Store(p) == IF p \in connected THEN Redis ELSE p

CacheInit ==
  /\ cache = [st \in Stores |-> NoYear]
  /\ connected = Processes
  /\ resolving = [p \in Processes |-> NoYear]

Miss(p) ==
  /\ resolving[p] = NoYear /\ cache[Store(p)] = NoYear
  /\ resolving' = [resolving EXCEPT ![p] = Missed]
  /\ UNCHANGED <<cache, connected>>

ReadYear(p, y) ==
  /\ resolving[p] = Missed
  /\ resolving' = [resolving EXCEPT ![p] = y]
  /\ UNCHANGED <<cache, connected>>

Fill(p) ==
  /\ resolving[p] \notin {NoYear, Missed}
  /\ cache' = [cache EXCEPT ![Store(p)] = resolving[p]]
  /\ resolving' = [resolving EXCEPT ![p] = NoYear]
  /\ UNCHANGED connected

(* Mutant: an entry of the memory is kept without an end.                  *)
LapseInRedis(st) ==
  /\ st = Redis /\ cache[st] # NoYear
  /\ cache' = [cache EXCEPT ![st] = NoYear]
  /\ UNCHANGED <<connected, resolving>>

(* An entry is 24 hours old.                                               *)
Lapse(st) ==
  /\ cache[st] # NoYear
  /\ cache' = [cache EXCEPT ![st] = NoYear]
  /\ UNCHANGED <<connected, resolving>>

(* The connection to Redis goes, or comes back.                            *)
Switch(p) ==
  /\ connected' = IF p \in connected THEN connected \ {p} ELSE connected \cup {p}
  /\ UNCHANGED <<cache, resolving>>
=============================================================================
