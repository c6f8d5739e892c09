---------------------------- MODULE PinnedMemory ----------------------------
(***************************************************************************)
(* The process-wide budget of pinned memory: the lock-free counter of      *)
(* src/core/pinned_ledger.cpp and the registered regions charged to it     *)
(* (src/ucx/registered_memory.cpp).  One step is one access to the counter *)
(* or one call of UCX; any number of regions come and go concurrently.     *)
(*                                                                         *)
(* An amount of memory is a finite set of bytes and its size the set's     *)
(* cardinality: what a region is charged for and what UCX pinned for it    *)
(* can then be compared without summing over regions.                      *)
(***************************************************************************)
EXTENDS Integers, FiniteSets

CONSTANTS
  Region, Byte,
  Length,       \* the lengths a caller may ask for
  limit,        \* the pinned_limit each region is created with
  U64           \* 2^64

VARIABLES
  total,        \* the counter
  at,           \* where each region is in its life
  call,         \* the locals of its try_reserve() or release()
  charge,       \* its Reservation
  pages         \* what UCX has mapped for it

vars == <<total, at, call, charge, pages>>

Size(S) == Cardinality(S)

\* Bytes of nobody.
Fresh(S) ==
  /\ S \subseteq Byte /\ IsFiniteSet(S)
  /\ \A r \in Region : S \cap (charge[r] \cup pages[r]) = {}

NoCall == [bytes |-> 0, observed |-> 0]

Init ==
  /\ total = 0
  /\ at = [r \in Region |-> "none"]
  /\ call = [r \in Region |-> NoCall]
  /\ charge = [r \in Region |-> {}]
  /\ pages = [r \in Region |-> {}]

-----------------------------------------------------------------------------
(* try_reserve(), from acquire() and from extend()                         *)

Refused(r) ==
  LET c == call[r] IN
  \/ c.bytes > limit[r] \/ c.observed > limit[r] - c.bytes
  \/ at[r] = "admitting" /\ c.bytes = 0
  \/ at[r] = "extending" /\ Size(charge[r]) > U64 - 1 - c.bytes

\* acquire(): nothing is charged before this.
try_acquire(r) ==
  /\ at[r] = "none"
  /\ at' = [at EXCEPT ![r] = "admitting"]
  /\ \E n \in Length : call' = [call EXCEPT ![r] = [bytes |-> n, observed |-> total]]
  /\ UNCHANGED <<total, charge, pages>>

reserve_swap(r) ==
  /\ at[r] \in {"admitting", "extending"} /\ ~Refused(r) /\ total = call[r].observed
  /\ total' = call[r].observed + call[r].bytes
  /\ IF at[r] = "admitting"
       THEN \E S \in SUBSET Byte :
              /\ Fresh(S) /\ Size(S) = call[r].bytes
              /\ charge' = [charge EXCEPT ![r] = S]
              /\ at' = [at EXCEPT ![r] = "mapping"]
       ELSE /\ charge' = [charge EXCEPT ![r] = pages[r]]
            /\ at' = [at EXCEPT ![r] = "ready"]
  /\ call' = [call EXCEPT ![r] = NoCall]
  /\ UNCHANGED pages

\* The exchange is a weak one: it may fail for no reason.
reserve_again(r) ==
  /\ at[r] \in {"admitting", "extending"} /\ ~Refused(r)
  /\ call' = [call EXCEPT ![r].observed = total]
  /\ UNCHANGED <<total, at, charge, pages>>

reserve_refused(r) ==
  /\ at[r] \in {"admitting", "extending"} /\ Refused(r)
  /\ at' = [at EXCEPT ![r] = IF @ = "admitting" THEN "none" ELSE "unmapping"]
  /\ call' = [call EXCEPT ![r] = NoCall]
  /\ UNCHANGED <<total, charge, pages>>

-----------------------------------------------------------------------------
(* ucx_allocated() and adopted()                                           *)

\* UCX may pin more than it is asked for.
ucp_mem_map(r) ==
  /\ at[r] = "mapping"
  /\ \E extra \in SUBSET Byte :
       /\ Fresh(extra)
       /\ pages' = [pages EXCEPT ![r] = charge[r] \cup extra]
  /\ at' = [at EXCEPT ![r] = "querying"]
  /\ UNCHANGED <<total, call, charge>>

\* A caller's buffer is mapped as it is, and not asked about.
ucp_mem_map_adopted(r) ==
  /\ at[r] = "mapping"
  /\ pages' = [pages EXCEPT ![r] = charge[r]]
  /\ at' = [at EXCEPT ![r] = "ready"]
  /\ UNCHANGED <<total, call, charge>>

ucp_mem_map_failed(r) ==
  /\ at[r] = "mapping"
  /\ at' = [at EXCEPT ![r] = "unmapping"]
  /\ UNCHANGED <<total, call, charge, pages>>

ucp_mem_query(r) ==
  /\ at[r] = "querying"
  /\ IF Size(pages[r]) > Size(charge[r])
       THEN /\ at' = [at EXCEPT ![r] = "extending"]
            /\ call' = [call EXCEPT ![r] =
                 [bytes |-> Size(pages[r]) - Size(charge[r]), observed |-> total]]
       ELSE at' = [at EXCEPT ![r] = "ready"] /\ UNCHANGED call
  /\ UNCHANGED <<total, charge, pages>>

\* The query fails, or reports less than was asked for.
ucp_mem_query_failed(r) ==
  /\ at[r] = "querying"
  /\ at' = [at EXCEPT ![r] = "unmapping"]
  /\ UNCHANGED <<total, call, charge, pages>>

\* The region moves to another object; what is moved from is empty.
move(r, s) ==
  /\ at[r] = "ready" /\ at[s] = "none"
  /\ at' = [at EXCEPT ![r] = "none", ![s] = "ready"]
  /\ charge' = [charge EXCEPT ![r] = {}, ![s] = charge[r]]
  /\ pages' = [pages EXCEPT ![r] = {}, ![s] = pages[r]]
  /\ UNCHANGED <<total, call>>

-----------------------------------------------------------------------------
(* RegisteredMemory::release()                                             *)

release(r) ==
  /\ at[r] = "ready"
  /\ at' = [at EXCEPT ![r] = "unmapping"]
  /\ UNCHANGED <<total, call, charge, pages>>

\* ucp_mem_unmap(), if something was mapped, and the first look of reset().
ucp_mem_unmap(r) ==
  /\ at[r] = "unmapping"
  /\ pages' = [pages EXCEPT ![r] = {}]
  /\ at' = [at EXCEPT ![r] = "discharging"]
  /\ call' = [call EXCEPT ![r] = [bytes |-> Size(charge[r]), observed |-> total]]
  /\ UNCHANGED <<total, charge>>

discharge_swap(r) ==
  /\ at[r] = "discharging" /\ total = call[r].observed
  /\ total' = IF call[r].observed < call[r].bytes THEN 0 ELSE call[r].observed - call[r].bytes
  /\ charge' = [charge EXCEPT ![r] = {}]
  /\ at' = [at EXCEPT ![r] = "none"]
  /\ call' = [call EXCEPT ![r] = NoCall]
  /\ UNCHANGED pages

discharge_again(r) ==
  /\ at[r] = "discharging"
  /\ call' = [call EXCEPT ![r].observed = total]
  /\ UNCHANGED <<total, at, charge, pages>>

Step(r) ==
  \/ try_acquire(r) \/ reserve_swap(r) \/ reserve_again(r) \/ reserve_refused(r)
  \/ ucp_mem_map(r) \/ ucp_mem_map_adopted(r) \/ ucp_mem_map_failed(r)
  \/ ucp_mem_query(r) \/ ucp_mem_query_failed(r)
  \/ release(r) \/ ucp_mem_unmap(r) \/ discharge_swap(r) \/ discharge_again(r)

Next == \E r \in Region : Step(r) \/ \E s \in Region : move(r, s)

Spec == Init /\ [][Next]_vars

-----------------------------------------------------------------------------

Charged == UNION {charge[r] : r \in Region}
Pinned == UNION {pages[r] : r \in {s \in Region : at[s] = "ready"}}

\* Whatever the interleaving of reservations, failures and releases, the
\* counter is exactly what the regions are charged for (so release() never
\* meets its clamp to zero), it never passes the largest limit, and what UCX
\* has pinned for the regions handed out is covered by it.
WithinBudget(budget) ==
  /\ total = Size(Charged) /\ total <= budget
  /\ Pinned \subseteq Charged /\ Size(Pinned) <= total
  /\ \A r \in Region : at[r] = "discharging" => call[r].bytes <= total

-----------------------------------------------------------------------------

TypeOK ==
  /\ total \in Nat
  /\ at \in [Region -> {"none", "admitting", "mapping", "querying", "extending", "ready",
                        "unmapping", "discharging"}]
  /\ call \in [Region -> [bytes : Nat, observed : Nat]]
  /\ charge \in [Region -> SUBSET Byte] /\ pages \in [Region -> SUBSET Byte]

\* The inductive invariant: the bytes of two regions are different ones, and
\* what a region has follows from where it is.
Apart ==
  \A r, s \in Region : r # s => (charge[r] \cup pages[r]) \cap (charge[s] \cup pages[s]) = {}

Holds(r) ==
  /\ IsFiniteSet(charge[r]) /\ IsFiniteSet(pages[r])
  /\ at[r] \in {"none", "admitting"} => charge[r] = {} /\ pages[r] = {}
  /\ at[r] \in {"mapping", "discharging"} => pages[r] = {}
  /\ at[r] \in {"querying", "extending"} => charge[r] \subseteq pages[r]
  /\ at[r] = "extending" => call[r].bytes = Size(pages[r]) - Size(charge[r])
  /\ at[r] = "ready" => pages[r] \subseteq charge[r]
  /\ at[r] = "discharging" => call[r].bytes = Size(charge[r])

Inv(budget) ==
  /\ TypeOK /\ Apart /\ \A r \in Region : Holds(r)
  /\ IsFiniteSet(Charged) /\ total = Size(Charged) /\ total <= budget
=============================================================================
