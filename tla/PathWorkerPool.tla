--------------------------- MODULE PathWorkerPool ---------------------------
(***************************************************************************)
(* The off-thread searches of simulation/navigation/path_worker_pool.py.   *)
(* A job is known by the key it was requested under.  Its search is looked *)
(* at one turn at a time, each on the map as it is when the thread gets    *)
(* there: the thread reads the grid that the main thread writes.           *)
(***************************************************************************)
EXTENDS PathSearch

CONSTANTS
  MaxRequests  \* bound: how often the pool is asked

ASSUME PoolAssumption == MaxRequests \in Nat

VARIABLES
  executor,  \* whether there is a thread pool (_executor)
  pending,   \* _pending: the search behind each future
  results,   \* _results: paths of searches made in the calling thread
  requests   \* stats["requests"]

poolVars == <<executor, pending, results, requests>>

PoolInit ==
  /\ executor \in BOOLEAN      \* the argument deterministic
  /\ pending = <<>>
  /\ results = <<>>
  /\ requests = 0

Without(f, k) == [j \in DOMAIN f \ {k} |-> f[j]]

\* A key that is asked for again gets the new search; the old one goes on
\* unheard.
Request(tiles, key) ==
  /\ requests < MaxRequests
  /\ requests' = requests + 1
  /\ IF executor
     THEN /\ pending' = With(pending, key, Began(key.start, key.goal))
          /\ UNCHANGED results
     ELSE /\ results' = With(results, key, Searched(tiles, key.start, key.goal))
          /\ UNCHANGED pending
  /\ UNCHANGED executor

Running(key) == key \in DOMAIN pending /\ ~ pending[key].done

\* A thread does one turn of its search.
Work(tiles, key) ==
  /\ Running(key)
  /\ UNCHANGED <<executor, results, requests>>
  /\ pending' = [pending EXCEPT ![key] = Turned(tiles, @)]

\* take: a search that found nothing looks like one that is not ready.
TakeResult(key) ==
  /\ key \in DOMAIN results
  /\ results' = Without(results, key)
  /\ UNCHANGED <<executor, pending, requests>>

TakeDone(key) ==
  /\ key \in DOMAIN pending \ DOMAIN results
  /\ pending[key].done
  /\ pending' = Without(pending, key)
  /\ UNCHANGED <<executor, results, requests>>

\* Searches under way end unheard; later requests are answered at once.
Shutdown ==
  /\ executor \/ pending # <<>> \/ results # <<>>
  /\ executor' = FALSE
  /\ pending' = <<>>
  /\ results' = <<>>
  /\ UNCHANGED requests

=============================================================================
