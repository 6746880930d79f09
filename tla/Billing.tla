------------------------------- MODULE Billing ------------------------------
(***************************************************************************)
(* externals/oracle/billing.cpp: a pool of database sessions, which        *)
(* Billing shares among threads, and BillingInstance, which a thread has   *)
(* while it asks the database something.  The Exporter is one; the query   *)
(* functions are there for others.                                         *)
(*                                                                         *)
(* A user is a thread that creates an instance, queries, and destroys it,  *)
(* as often as it likes.  The pool, the statements and the result sets are *)
(* Oracle's: any of their calls may throw an SQLException.                 *)
(***************************************************************************)
EXTENDS Naturals, Sequences

CONSTANTS
  Users,      (* the threads                                               *)
  Sessions,   (* the sessions the pool may have: 15 in the code            *)
  None,       (* the null pointer                                          *)
  MaxRows,    (* bound: rows of a result                                   *)
  MaxParams   (* bound: parameters of an SQL()                             *)

(* A query function: the calls in its try block, in their order, and whether
   the terminateStatement() behind it has a try block too.  "next" stands for
   the loop that appends a row to _rv per turn. *)
Rows == <<"executeQuery", "next", "closeResultSet">>
Prepare(n) ==
  <<"createStatement", "setAutoCommit">> \o [i \in 1..n |-> "setString"]

queryOnline == [calls |-> Prepare(1) \o Rows, guarded |-> TRUE]
queryIsgServices == [calls |-> Prepare(1) \o Rows, guarded |-> TRUE]
queryStaticIP == [calls |-> Prepare(2) \o Rows, guarded |-> TRUE]
SQLRows(n) == [calls |-> Prepare(n) \o Rows, guarded |-> FALSE]
SQL(n) == [calls |-> Prepare(n) \o <<"execute">>, guarded |-> FALSE]

Queries == {queryOnline, queryIsgServices, queryStaticIP}
             \cup {SQLRows(n) : n \in 0..MaxParams}
             \cup {SQL(n) : n \in 0..MaxParams}

ASSUME BillingAssumption ==
  /\ None \notin Sessions \cup Users \cup Nat \cup Queries
  /\ MaxRows \in Nat /\ MaxParams \in Nat

VARIABLES
  mutex,     (* who has Billing::__mutex                                   *)
  idle,      (* the sessions in the pool                                   *)
  open,      (* the sessions with a statement that is not terminated       *)
  pc,        (* where each user is                                         *)
  conn,      (* BillingInstance::_conn                                     *)
  query,     (* the function it is in, or was in last                      *)
  at,        (* the call it is at                                          *)
  sth,       (* is its statement non-null?                                 *)
  retval,    (* 0, or 1 for any error code                                 *)
  left,      (* the rows it has not got yet, None before the execution     *)
  refused    (* history: the sessions on which terminateStatement() threw  *)

queryVars == <<query, at, sth, retval, left>>
vars == <<mutex, idle, open, pc, conn, queryVars, refused>>

(* Outside the constructor a user without a connection is in no function; in a
   query function it is at one of the calls. *)
Located ==
  \A u \in Users :
    /\ pc[u] \in {"out", "get"} => conn[u] = None
    /\ pc[u] \notin {"out", "get", "unlock", "in"} => conn[u] # None
    /\ pc[u] \in {"query", "terminate"} => query[u] # None
    /\ pc[u] = "query" => at[u] \in 1..Len(query[u].calls)

TypeOK ==
  /\ mutex \in Users \cup {None}
  /\ idle \subseteq Sessions /\ open \subseteq Sessions
  /\ refused \subseteq Sessions
  /\ pc \in [Users -> {"out", "get", "unlock", "in", "query", "terminate",
                       "lock", "put", "release"}]
  /\ conn \in [Users -> Sessions \cup {None}]
  /\ query \in [Users -> Queries \cup {None}]
  /\ at \in [Users -> Nat]
  /\ sth \in [Users -> BOOLEAN] /\ retval \in [Users -> {0, 1}]
  /\ left \in [Users -> Nat \cup {None}]
  /\ Located

(* connect(): the pool opens its sessions when they are asked for. *)
Init ==
  /\ mutex = None /\ idle = Sessions /\ open = {} /\ refused = {}
  /\ pc = [u \in Users |-> "out"] /\ conn = [u \in Users |-> None]
  /\ query = [u \in Users |-> None] /\ at = [u \in Users |-> 0]
  /\ sth = [u \in Users |-> FALSE] /\ retval = [u \in Users |-> 0]
  /\ left = [u \in Users |-> None]

Goes(u, from, to) == pc[u] = from /\ pc' = [pc EXCEPT ![u] = to]

----------------------------------------------------------------------------
(* BillingInstance::BillingInstance and yieldConnection().                 *)

(* Mutant: the result of trylock is not looked at. *)
TryLockUnchecked(u) ==
  /\ Goes(u, "out", "get")
  /\ mutex' = u
  /\ UNCHANGED <<idle, open, conn, queryVars, refused>>

(* pthread_mutex_trylock(): when somebody else is in the pool the instance gets
   no connection, even if there is one. *)
TryLock(u) ==
  /\ IF mutex = None THEN Goes(u, "out", "get") /\ mutex' = u
                     ELSE Goes(u, "out", "in") /\ UNCHANGED mutex
  /\ UNCHANGED <<idle, open, conn, queryVars, refused>>

(* Mutant: a failure returns at once. *)
GetFailsReturns(u) ==
  /\ Goes(u, "get", "in")
  /\ UNCHANGED <<mutex, idle, open, conn, queryVars, refused>>

(* getConnection(), which does not wait: it throws when all sessions are in
   use, and whenever the database cannot be reached. *)
Get(u, s) ==
  /\ Goes(u, "get", "unlock")
  /\ s \in idle
  /\ idle' = idle \ {s} /\ conn' = [conn EXCEPT ![u] = s]
  /\ UNCHANGED <<mutex, open, queryVars, refused>>

GetFails(u) ==
  /\ Goes(u, "get", "unlock")
  /\ UNCHANGED <<mutex, idle, open, conn, queryVars, refused>>

Unlock(u) ==
  /\ Goes(u, "unlock", "in")
  /\ mutex' = None
  /\ UNCHANGED <<idle, open, conn, queryVars, refused>>

----------------------------------------------------------------------------
(* The query functions.                                                    *)

(* Without a connection a query returns 0 and does nothing. *)
Begin(u, q) ==
  /\ conn[u] # None
  /\ Goes(u, "in", "query")
  /\ query' = [query EXCEPT ![u] = q] /\ at' = [at EXCEPT ![u] = 1]
  /\ sth' = [sth EXCEPT ![u] = FALSE] /\ retval' = [retval EXCEPT ![u] = 0]
  /\ left' = [left EXCEPT ![u] = None]
  /\ UNCHANGED <<mutex, idle, open, conn, refused>>

Current(u) == query[u].calls[at[u]]

(* What a call that succeeds does; executions choose the size of the result. *)
Effect(u) ==
  /\ IF Current(u) = "createStatement"
     THEN sth' = [sth EXCEPT ![u] = TRUE] /\ open' = open \cup {conn[u]}
     ELSE UNCHANGED <<sth, open>>
  /\ IF Current(u) = "executeQuery"
     THEN \E n \in 0..MaxRows : left' = [left EXCEPT ![u] = n]
     ELSE IF Current(u) = "execute" THEN left' = [left EXCEPT ![u] = 0]
          ELSE UNCHANGED left

(* Mutant: rs->next() is asked again after the last row. *)
FetchStuck(u) ==
  /\ pc[u] = "query" /\ Current(u) = "next"
  /\ left' = [left EXCEPT ![u] = IF @ > 1 THEN @ - 1 ELSE MaxRows]
  /\ UNCHANGED <<mutex, idle, open, pc, conn, query, at, sth, retval, refused>>

(* rs->next() has a row. *)
Fetch(u) ==
  /\ pc[u] = "query" /\ Current(u) = "next" /\ left[u] > 0
  /\ left' = [left EXCEPT ![u] = @ - 1]
  /\ UNCHANGED <<mutex, idle, open, pc, conn, query, at, sth, retval, refused>>

(* Any other call, or the rs->next() that has none. *)
Proceed(u) ==
  /\ pc[u] = "query" /\ ~(Current(u) = "next" /\ left[u] > 0)
  /\ Effect(u)
  /\ IF at[u] < Len(query[u].calls)
     THEN at' = [at EXCEPT ![u] = @ + 1] /\ UNCHANGED pc
     ELSE Goes(u, "query", "terminate") /\ at' = [at EXCEPT ![u] = 0]
  /\ UNCHANGED <<mutex, idle, conn, query, retval, refused>>

(* Mutants: retval = 0 behind the try block; a failed query returns at once. *)
ThrowForgotten(u) ==
  /\ Goes(u, "query", IF sth[u] THEN "terminate" ELSE "in")
  /\ at' = [at EXCEPT ![u] = 0]
  /\ UNCHANGED <<mutex, idle, open, conn, query, sth, left, refused, retval>>
ThrowReturns(u) ==
  /\ Goes(u, "query", "in")
  /\ at' = [at EXCEPT ![u] = 0] /\ retval' = [retval EXCEPT ![u] = 1]
  /\ UNCHANGED <<mutex, idle, open, conn, query, sth, left, refused>>

(* A call throws; the rows that were appended to _rv stay there. *)
Throw(u) ==
  /\ Goes(u, "query", IF sth[u] THEN "terminate" ELSE "in")
  /\ at' = [at EXCEPT ![u] = 0] /\ retval' = [retval EXCEPT ![u] = 1]
  /\ UNCHANGED <<mutex, idle, open, conn, query, sth, left, refused>>

(* cancelRequest() from another thread: OCIBreak() makes the call that is
   being executed fail, and OCIReset() makes the session usable again.  At any
   other time the two have no effect. *)
Cancel(u) == Current(u) \in {"executeQuery", "execute", "next"} /\ Throw(u)

Terminate(u) ==
  /\ Goes(u, "terminate", "in")
  /\ open' = open \ {conn[u]} /\ sth' = [sth EXCEPT ![u] = FALSE]
  /\ UNCHANGED <<mutex, idle, conn, query, at, retval, left, refused>>

(* terminateStatement() throws.  The two SQL() do not catch that: the caller's
   stack is unwound, and its instance destroyed. *)
TerminateThrows(u) ==
  /\ Goes(u, "terminate", IF query[u].guarded THEN "in" ELSE "lock")
  /\ retval' = [retval EXCEPT ![u] = 1] /\ sth' = [sth EXCEPT ![u] = FALSE]
  /\ refused' = refused \cup {conn[u]}
  /\ UNCHANGED <<mutex, idle, open, conn, query, at, left>>

----------------------------------------------------------------------------
(* BillingInstance::~BillingInstance and releaseConnection().              *)

(* What is left of the instance. *)
Forget(u) ==
  /\ query' = [query EXCEPT ![u] = None] /\ at' = [at EXCEPT ![u] = 0]
  /\ sth' = [sth EXCEPT ![u] = FALSE] /\ retval' = [retval EXCEPT ![u] = 0]
  /\ left' = [left EXCEPT ![u] = None]

Destroy(u) ==
  /\ Goes(u, "in", IF conn[u] = None THEN "out" ELSE "lock")
  /\ UNCHANGED <<mutex, idle, open, conn, queryVars, refused>>

Lock(u) ==
  /\ Goes(u, "lock", "put")
  /\ mutex = None /\ mutex' = u
  /\ UNCHANGED <<idle, open, conn, queryVars, refused>>

(* The pool takes the session back; if that throws, the session is lost. *)
Put(u) ==
  /\ Goes(u, "put", "release")
  /\ idle' \in {idle, idle \cup {conn[u]}}
  /\ UNCHANGED <<mutex, open, conn, queryVars, refused>>

(* Mutant: the instance is used after its session was given back. *)
ReleaseKeeps(u) ==
  /\ Goes(u, "release", "in")
  /\ mutex' = None
  /\ UNCHANGED <<idle, open, conn, queryVars, refused>>

Release(u) ==
  /\ Goes(u, "release", "out")
  /\ mutex' = None /\ conn' = [conn EXCEPT ![u] = None]
  /\ Forget(u)
  /\ UNCHANGED <<idle, open, refused>>

----------------------------------------------------------------------------
(* What a user cannot put off: everything but a new instance, a new query and
   the end of an instance. *)
Step(u) ==
  \/ \E s \in Sessions : Get(u, s)
  \/ GetFails(u) \/ Unlock(u) \/ Fetch(u) \/ Proceed(u) \/ Throw(u)
  \/ Terminate(u) \/ TerminateThrows(u) \/ Lock(u) \/ Put(u) \/ Release(u)

Next ==
  \E u \in Users :
    \/ TryLock(u) \/ Destroy(u) \/ Step(u)
    \/ \E q \in Queries : Begin(u, q)
    \/ pc[u] = "query" /\ Cancel(u)

Spec == Init /\ [][Next]_vars

(* Every thread keeps being scheduled, and the database answers. *)
FairSpec == Spec /\ \A u \in Users : WF_vars(Step(u))
----------------------------------------------------------------------------
(* Inside yieldConnection() or releaseConnection(), with the mutex. *)
InPool(u) == pc[u] \in {"get", "unlock", "put", "release"}

(* A user has a session from getConnection() to the pool's
   releaseConnection(). *)
Held == [u \in Users |-> IF pc[u] = "release" THEN None ELSE conn[u]]

Pool == INSTANCE SessionPool WITH free <- idle, held <- Held

(* Whatever throws and whoever is cancelled, a session passes from the pool to
   one instance and back once: all of yieldConnection() and the destructor
   looks like one indivisible step each. *)
Implements == Pool!Spec

(* No two instances have the same session, not even while one of them is about
   to give up the mutex behind which it has put its session back. *)
Exclusive ==
  \A u, v \in Users : u # v /\ conn[u] # None => conn[u] # conn[v]

(* A query function that returns 0 on a connection has executed its statement
   and appended every row of the result: neither an exception nor a
   cancelRequest() between two rows passes for the end of the result. *)
Complete ==
  \A u \in Users :
    pc[u] = "in" /\ query[u] # None /\ retval[u] = 0 => left[u] = 0

(* No statement stays open when its query is over, except where the database
   refused to terminate it: the session goes back to the pool clean. *)
StatementsTerminated ==
  \A s \in open \ refused :
    \E u \in Users : conn[u] = s /\ sth[u] /\ pc[u] \in {"query", "terminate"}

(* Who has the mutex gives it back, also when the pool throws. *)
MutexReturned == \A u \in Users : mutex = u ~> mutex # u

(* Every query function returns, or unwinds. *)
QueryReturns ==
  \A u \in Users : pc[u] = "query" ~> pc[u] \in {"in", "lock"}
=============================================================================
