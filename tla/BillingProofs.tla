--------------------------- MODULE BillingProofs ----------------------------
(***************************************************************************)
(* Billing, proved for any number of users, sessions, rows and parameters: *)
(* its types, that no session is in two hands, that it implements          *)
(* SessionPool, that a 0 means a complete result, and that statements are  *)
(* terminated.                                                             *)
(***************************************************************************)
EXTENDS Billing, SequenceTheorems, TLAPS

Calls == {"createStatement", "setAutoCommit", "setString", "executeQuery",
          "execute", "next", "closeResultSet"}

(* The calls of Prepare(n) \o Rows and of Prepare(n) \o <<"execute">>. *)
LEMMA PrepareShape ==
  ASSUME NEW n \in Nat
  PROVE  /\ Prepare(n) \in Seq(Calls) /\ Len(Prepare(n)) = n + 2
         /\ \A i \in 1..(n + 2) :
              Prepare(n)[i] \in {"createStatement", "setAutoCommit", "setString"}
<1> DEFINE A == <<"createStatement", "setAutoCommit">>
           B == [i \in 1..n |-> "setString"]
<1>1. A \in Seq(Calls) /\ Len(A) = 2
           /\ A[1] = "createStatement" /\ A[2] = "setAutoCommit"
  BY DEF Calls
<1>2. B \in Seq(Calls) /\ Len(B) = n /\ \A i \in 1..n : B[i] = "setString"
  BY DEF Calls
<1> HIDE DEF A, B
<1>3. /\ A \o B \in Seq(Calls) /\ Len(A \o B) = n + 2
      /\ \A i \in 1..(n + 2) :
           (A \o B)[i] = IF i <= 2 THEN A[i] ELSE B[i - 2]
  <2>1. /\ A \o B \in Seq(Calls) /\ Len(A \o B) = Len(A) + Len(B)
        /\ \A i \in 1..(Len(A) + Len(B)) :
             (A \o B)[i] = IF i <= Len(A) THEN A[i] ELSE B[i - Len(A)]
    BY <1>1, <1>2, ConcatProperties
  <2> QED BY <2>1, <1>1, <1>2
<1>4. \A i \in 1..(n + 2) :
        (A \o B)[i] \in {"createStatement", "setAutoCommit", "setString"}
  <2> TAKE i \in 1..(n + 2)
  <2>1. CASE i <= 2
    <3>1. i = 1 \/ i = 2
      BY <2>1
    <3>2. A[i] \in {"createStatement", "setAutoCommit"}
      BY <3>1, <1>1
    <3>3. (A \o B)[i] = A[i]
      BY <1>3, <2>1
    <3> QED BY <3>2, <3>3
  <2>2. CASE i > 2
    <3>1. i - 2 \in 1..n
      BY <2>2
    <3>2. B[i - 2] = "setString"
      BY <3>1, <1>2
    <3>3. (A \o B)[i] = B[i - 2]
      BY <1>3, <2>2
    <3> QED BY <3>2, <3>3
  <2>3. i <= 2 \/ i > 2
    OBVIOUS
  <2> QED BY <2>1, <2>2, <2>3
<1>5. Prepare(n) = A \o B
  BY DEF Prepare, A, B
<1> QED BY <1>3, <1>4, <1>5

(* What the proofs need to know of a query function: where its loop is, and
   that its last call is behind the loop or executes the statement. *)
Shaped(q) ==
  /\ q.calls \in Seq(Calls) /\ Len(q.calls) \in Nat /\ Len(q.calls) >= 1
  /\ q.guarded \in BOOLEAN
  /\ q.calls[1] \notin {"next", "closeResultSet"}
  /\ q.calls[Len(q.calls)] \in {"execute", "closeResultSet"}
  /\ \A i \in 1..(Len(q.calls) - 1) :
       /\ q.calls[i + 1] = "closeResultSet" => q.calls[i] = "next"
       /\ q.calls[i + 1] = "next" => q.calls[i] = "executeQuery"

LEMMA RowsShape ==
  ASSUME NEW n \in Nat, NEW g \in BOOLEAN
  PROVE  Shaped([calls |-> Prepare(n) \o Rows, guarded |-> g])
<1> DEFINE P == Prepare(n)
           c == P \o Rows
<1>1. /\ P \in Seq(Calls) /\ Len(P) = n + 2
      /\ \A i \in 1..(n + 2) :
           P[i] \in {"createStatement", "setAutoCommit", "setString"}
  BY PrepareShape
<1>2. /\ Rows \in Seq(Calls) /\ Len(Rows) = 3 /\ Rows[1] = "executeQuery"
      /\ Rows[2] = "next" /\ Rows[3] = "closeResultSet"
  BY DEF Rows, Calls
<1> HIDE DEF P
<1>3. /\ c \in Seq(Calls) /\ Len(c) = n + 5
      /\ \A i \in 1..(n + 2) : c[i] = P[i]
      /\ c[n + 3] = "executeQuery" /\ c[n + 4] = "next"
      /\ c[n + 5] = "closeResultSet"
  <2>1. /\ P \o Rows \in Seq(Calls) /\ Len(P \o Rows) = Len(P) + Len(Rows)
        /\ \A i \in 1..(Len(P) + Len(Rows)) :
             (P \o Rows)[i] = IF i <= Len(P) THEN P[i] ELSE Rows[i - Len(P)]
    BY <1>1, <1>2, ConcatProperties
  <2>2. n + 2 \in Nat /\ \A i \in 1..(n + 2) : i \in 1..(Len(P) + Len(Rows)) /\ i <= n + 2
    BY <1>1, <1>2
  <2> QED BY <2>1, <2>2, <1>1, <1>2
<1> HIDE DEF c
<1>4. ASSUME NEW i \in 1..(Len(c) - 1)
      PROVE  /\ c[i + 1] = "closeResultSet" => c[i] = "next"
             /\ c[i + 1] = "next" => c[i] = "executeQuery"
  <2>1. CASE i + 1 \in 1..(n + 2)
    BY <2>1, <1>1, <1>3
  <2>2. CASE i + 1 \in {n + 3, n + 4, n + 5}
    BY <2>2, <1>3
  <2> QED BY <2>1, <2>2, <1>3
<1>5. c[1] \notin {"next", "closeResultSet"}
  BY <1>1, <1>3
<1>6. Shaped([calls |-> c, guarded |-> g])
  BY <1>3, <1>4, <1>5 DEF Shaped
<1> QED BY <1>6 DEF c, P

LEMMA UpdateShape ==
  ASSUME NEW n \in Nat
  PROVE  Shaped(SQL(n))
<1> DEFINE P == Prepare(n)
           X == <<"execute">>
           c == P \o X
<1>1. /\ P \in Seq(Calls) /\ Len(P) = n + 2
      /\ \A i \in 1..(n + 2) :
           P[i] \in {"createStatement", "setAutoCommit", "setString"}
  BY PrepareShape
<1>2. X \in Seq(Calls) /\ Len(X) = 1 /\ X[1] = "execute"
  BY DEF Calls
<1> HIDE DEF P, X
<1>3. /\ c \in Seq(Calls) /\ Len(c) = n + 3
      /\ \A i \in 1..(n + 2) : c[i] = P[i]
      /\ c[n + 3] = "execute"
  <2>1. /\ P \o X \in Seq(Calls) /\ Len(P \o X) = Len(P) + Len(X)
        /\ \A i \in 1..(Len(P) + Len(X)) :
             (P \o X)[i] = IF i <= Len(P) THEN P[i] ELSE X[i - Len(P)]
    BY <1>1, <1>2, ConcatProperties
  <2>2. n + 2 \in Nat /\ \A i \in 1..(n + 2) : i \in 1..(Len(P) + Len(X)) /\ i <= n + 2
    BY <1>1, <1>2
  <2> QED BY <2>1, <2>2, <1>1, <1>2
<1> HIDE DEF c
<1>4. ASSUME NEW i \in 1..(Len(c) - 1)
      PROVE  /\ c[i + 1] = "closeResultSet" => c[i] = "next"
             /\ c[i + 1] = "next" => c[i] = "executeQuery"
  <2>1. CASE i + 1 \in 1..(n + 2)
    BY <2>1, <1>1, <1>3
  <2>2. CASE i + 1 = n + 3
    BY <2>2, <1>3
  <2> QED BY <2>1, <2>2, <1>3
<1>5. c[1] \notin {"next", "closeResultSet"}
  BY <1>1, <1>3
<1>6. Shaped([calls |-> c, guarded |-> FALSE])
  BY <1>3, <1>4, <1>5 DEF Shaped
<1> QED BY <1>6 DEF c, P, X, SQL

LEMMA QueryShape == \A q \in Queries : Shaped(q)
<1> USE BillingAssumption
<1>1. 0..MaxParams \subseteq Nat /\ 1 \in Nat /\ 2 \in Nat
  OBVIOUS
<1>2. Shaped(queryOnline) /\ Shaped(queryIsgServices) /\ Shaped(queryStaticIP)
  BY RowsShape DEF queryOnline, queryIsgServices, queryStaticIP
<1>3. \A n \in 0..MaxParams : Shaped(SQLRows(n)) /\ Shaped(SQL(n))
  BY RowsShape, UpdateShape, <1>1 DEF SQLRows
<1> QED BY <1>2, <1>3 DEF Queries

----------------------------------------------------------------------------
(* The loop has its number of rows, and what is behind it has none left. *)
LoopInv ==
  \A u \in Users :
    /\ pc[u] = "query" =>
         /\ Current(u) = "next" => left[u] \in Nat
         /\ Current(u) = "closeResultSet" => left[u] = 0
    /\ pc[u] = "terminate" /\ retval[u] = 0 => left[u] = 0
    /\ conn[u] = None \/ pc[u] = "unlock" => query[u] = None

Types ==
  /\ mutex \in Users \cup {None} /\ idle \subseteq Sessions
  /\ open \subseteq Sessions /\ refused \subseteq Sessions
  /\ pc \in [Users -> {"out", "get", "unlock", "in", "query", "terminate",
                       "lock", "put", "release"}]
  /\ conn \in [Users -> Sessions \cup {None}]
  /\ query \in [Users -> Queries \cup {None}] /\ at \in [Users -> Nat]
  /\ sth \in [Users -> BOOLEAN] /\ retval \in [Users -> {0, 1}]
  /\ left \in [Users -> Nat \cup {None}]

TypeInv == TypeOK /\ LoopInv /\ Complete

LEMMA TypeInit == Init => TypeInv
BY BillingAssumption DEF Init, TypeInv, TypeOK, Located, LoopInv, Complete

(* Every step keeps the types; what it does with the rows is in Proceed. *)
LEMMA TypeStep ==
  ASSUME TypeInv, [Next]_vars
  PROVE  TypeInv'
<1> USE BillingAssumption DEF Goes
<1>1. \A q \in Queries : Shaped(q)
  BY QueryShape
<1>2. Types /\ Located /\ LoopInv /\ Complete
  BY DEF TypeInv, TypeOK, Types
<1>3. ASSUME NEW u \in Users, TryLock(u) PROVE TypeInv'
  <2>1. Types'
    BY <1>3, <1>2 DEF Types, TryLock, queryVars
  <2>2. Located'
    BY <1>3, <1>2 DEF Types, Located, TryLock, queryVars
  <2>3. LoopInv'
    BY <1>3, <1>2 DEF Types, Located, LoopInv, TryLock, queryVars, Current
  <2>4. Complete'
    BY <1>3, <1>2 DEF Types, Located, Complete, LoopInv, TryLock, queryVars
  <2> QED BY <2>1, <2>2, <2>3, <2>4 DEF TypeInv, TypeOK, Types
<1>4. ASSUME NEW u \in Users, Destroy(u) PROVE TypeInv'
  <2>1. Types'
    BY <1>4, <1>2 DEF Types, Destroy, queryVars
  <2>2. Located'
    BY <1>4, <1>2 DEF Types, Located, Destroy, queryVars
  <2>3. LoopInv'
    BY <1>4, <1>2 DEF Types, Located, LoopInv, Destroy, queryVars, Current
  <2>4. Complete'
    BY <1>4, <1>2 DEF Types, Located, Complete, LoopInv, Destroy, queryVars
  <2> QED BY <2>1, <2>2, <2>3, <2>4 DEF TypeInv, TypeOK, Types
<1>5. ASSUME NEW u \in Users, NEW s \in Sessions, Get(u, s) PROVE TypeInv'
  <2>1. Types'
    BY <1>5, <1>2 DEF Types, Get, queryVars
  <2>2. Located'
    BY <1>5, <1>2 DEF Types, Located, Get, queryVars
  <2>3. LoopInv'
    BY <1>5, <1>2 DEF Types, Located, LoopInv, Get, queryVars, Current
  <2>4. Complete'
    BY <1>5, <1>2 DEF Types, Located, Complete, LoopInv, Get, queryVars
  <2> QED BY <2>1, <2>2, <2>3, <2>4 DEF TypeInv, TypeOK, Types
<1>6. ASSUME NEW u \in Users, GetFails(u) PROVE TypeInv'
  <2>1. Types'
    BY <1>6, <1>2 DEF Types, GetFails, queryVars
  <2>2. Located'
    BY <1>6, <1>2 DEF Types, Located, GetFails, queryVars
  <2>3. LoopInv'
    BY <1>6, <1>2 DEF Types, Located, LoopInv, GetFails, queryVars, Current
  <2>4. Complete'
    BY <1>6, <1>2 DEF Types, Located, Complete, LoopInv, GetFails, queryVars
  <2> QED BY <2>1, <2>2, <2>3, <2>4 DEF TypeInv, TypeOK, Types
<1>7. ASSUME NEW u \in Users, Unlock(u) PROVE TypeInv'
  <2>1. Types'
    BY <1>7, <1>2 DEF Types, Unlock, queryVars
  <2>2. Located'
    BY <1>7, <1>2 DEF Types, Located, Unlock, queryVars
  <2>3. LoopInv'
    BY <1>7, <1>2 DEF Types, Located, LoopInv, Unlock, queryVars, Current
  <2>4. Complete'
    BY <1>7, <1>2 DEF Types, Located, Complete, LoopInv, Unlock, queryVars
  <2> QED BY <2>1, <2>2, <2>3, <2>4 DEF TypeInv, TypeOK, Types
<1>8. ASSUME NEW u \in Users, NEW q \in Queries, Begin(u, q) PROVE TypeInv'
  <2>1. Shaped(q)
    BY <1>8, <1>1, <1>2 DEF Begin, Types, Located
  <2>2. Types'
    BY <1>8, <1>2 DEF Types, Begin
  <2>3. Located'
    BY <1>8, <1>2, <2>1 DEF Types, Located, Begin, Shaped
  <2>4. LoopInv'
    BY <1>8, <1>2, <2>1 DEF Types, Located, LoopInv, Begin, Current, Shaped
  <2>5. Complete'
    BY <1>8, <1>2 DEF Types, Located, Complete, LoopInv, Begin
  <2> QED BY <2>2, <2>3, <2>4, <2>5 DEF TypeInv, TypeOK, Types
<1>9. ASSUME NEW u \in Users, Fetch(u) PROVE TypeInv'
  <2>1. Types'
    BY <1>9, <1>2 DEF Types, Located, LoopInv, Fetch
  <2>2. Located'
    BY <1>9, <1>2 DEF Types, Located, Fetch
  <2>3. LoopInv'
    BY <1>9, <1>2 DEF Types, Located, LoopInv, Fetch, Current
  <2>4. Complete'
    BY <1>9, <1>2 DEF Types, Located, Complete, LoopInv, Fetch
  <2> QED BY <2>1, <2>2, <2>3, <2>4 DEF TypeInv, TypeOK, Types
<1>10. ASSUME NEW u \in Users, Proceed(u) PROVE TypeInv'
  <2> DEFINE q == query[u]
             last == at[u] = Len(q.calls)
  <2>1. /\ Shaped(q) /\ q \in Queries /\ conn[u] \in Sessions
        /\ at[u] \in 1..Len(q.calls) /\ pc[u] = "query"
    BY <1>10, <1>1, <1>2 DEF Proceed, Types, Located
  <2>2. UNCHANGED <<mutex, idle, conn, query, retval, refused>>
    BY <1>10 DEF Proceed
  <2>3. open' \subseteq Sessions /\ sth' \in [Users -> BOOLEAN]
    BY <1>10, <1>2, <2>1 DEF Proceed, Effect, Types
  <2>4. /\ left' \in [Users -> Nat \cup {None}]
        /\ \A v \in Users \ {u} : left'[v] = left[v]
    <3>1. left' = left \/ \E r \in Nat : left' = [left EXCEPT ![u] = r]
      BY <1>10 DEF Proceed, Effect
    <3>2. left \in [Users -> Nat \cup {None}]
      BY <1>2 DEF Types
    <3> QED BY <3>1, <3>2
  <2>5. /\ Current(u) = "executeQuery" => left'[u] \in Nat
        /\ Current(u) = "execute" => left'[u] = 0
        /\ Current(u) \in {"next", "closeResultSet"} => left'[u] = 0
    BY <1>10, <1>2, <2>1 DEF Proceed, Effect, Types, LoopInv
  <2>6. /\ at' \in [Users -> Nat] /\ \A v \in Users \ {u} : at'[v] = at[v]
        /\ \A v \in Users \ {u} : pc'[v] = pc[v]
    <3>1. at' = [at EXCEPT ![u] = at[u] + 1] \/ at' = [at EXCEPT ![u] = 0]
      BY <1>10 DEF Proceed
    <3>2. pc' = pc \/ pc' = [pc EXCEPT ![u] = "terminate"]
      BY <1>10 DEF Proceed
    <3>3. at \in [Users -> Nat] /\ pc = [v \in Users |-> pc[v]]
      BY <1>2 DEF Types
    <3> QED BY <3>1, <3>2, <3>3
  <2>7. IF last THEN pc'[u] = "terminate"
                ELSE pc'[u] = "query" /\ at'[u] = at[u] + 1
    BY <1>10, <1>2, <2>1 DEF Proceed, Types, Shaped
  <2>8. Types'
    BY <1>10, <1>2, <2>2, <2>3, <2>4, <2>6 DEF Types, Proceed
  <2>9. Located'
    BY <1>2, <2>1, <2>2, <2>6, <2>7 DEF Located, Types, Shaped
  <2>10. LoopInv'
    <3>1. ASSUME last PROVE left'[u] = 0
      BY <3>1, <2>1, <2>5 DEF Current, Shaped
    <3>2. ASSUME ~last
          PROVE  /\ q.calls[at[u] + 1] = "next" => left'[u] \in Nat
                 /\ q.calls[at[u] + 1] = "closeResultSet" => left'[u] = 0
      <4>1. at[u] \in 1..(Len(q.calls) - 1)
        BY <3>2, <2>1 DEF Shaped
      <4> QED BY <4>1, <2>1, <2>5 DEF Current, Shaped
    <3>3. query[u] # None /\ conn[u] # None
      BY <1>2, <2>1 DEF Located
    <3> QED
      BY <1>2, <2>1, <2>2, <2>4, <2>6, <2>7, <3>1, <3>2, <3>3
         DEF LoopInv, Current, Types
  <2>11. Complete'
    BY <1>2, <2>2, <2>4, <2>6, <2>7 DEF Complete
  <2> QED BY <2>8, <2>9, <2>10, <2>11 DEF TypeInv, TypeOK, Types
<1>11. ASSUME NEW u \in Users, Throw(u) PROVE TypeInv'
  <2>1. Types'
    BY <1>11, <1>2 DEF Types, Throw
  <2>2. Located'
    BY <1>11, <1>2 DEF Types, Located, Throw
  <2>3. LoopInv'
    BY <1>11, <1>2 DEF Types, Located, LoopInv, Throw, Current
  <2>4. Complete'
    BY <1>11, <1>2 DEF Types, Located, Complete, LoopInv, Throw
  <2> QED BY <2>1, <2>2, <2>3, <2>4 DEF TypeInv, TypeOK, Types
<1>12. ASSUME NEW u \in Users, Terminate(u) PROVE TypeInv'
  <2>1. Types'
    BY <1>12, <1>2 DEF Types, Terminate
  <2>2. Located'
    BY <1>12, <1>2 DEF Types, Located, Terminate
  <2>3. LoopInv'
    BY <1>12, <1>2 DEF Types, Located, LoopInv, Terminate, Current
  <2>4. Complete'
    BY <1>12, <1>2 DEF Types, Located, Complete, LoopInv, Terminate
  <2> QED BY <2>1, <2>2, <2>3, <2>4 DEF TypeInv, TypeOK, Types
<1>13. ASSUME NEW u \in Users, TerminateThrows(u) PROVE TypeInv'
  <2>1. Types'
    BY <1>13, <1>2 DEF Types, Located, TerminateThrows
  <2>2. Located'
    BY <1>13, <1>2 DEF Types, Located, TerminateThrows
  <2>3. LoopInv'
    BY <1>13, <1>2 DEF Types, Located, LoopInv, TerminateThrows, Current
  <2>4. Complete'
    BY <1>13, <1>2 DEF Types, Located, Complete, LoopInv, TerminateThrows
  <2> QED BY <2>1, <2>2, <2>3, <2>4 DEF TypeInv, TypeOK, Types
<1>14. ASSUME NEW u \in Users, Lock(u) PROVE TypeInv'
  <2>1. Types'
    BY <1>14, <1>2 DEF Types, Lock, queryVars
  <2>2. Located'
    BY <1>14, <1>2 DEF Types, Located, Lock, queryVars
  <2>3. LoopInv'
    BY <1>14, <1>2 DEF Types, Located, LoopInv, Lock, queryVars, Current
  <2>4. Complete'
    BY <1>14, <1>2 DEF Types, Located, Complete, LoopInv, Lock, queryVars
  <2> QED BY <2>1, <2>2, <2>3, <2>4 DEF TypeInv, TypeOK, Types
<1>15. ASSUME NEW u \in Users, Put(u) PROVE TypeInv'
  <2>1. Types'
    BY <1>15, <1>2 DEF Types, Located, Put, queryVars
  <2>2. Located'
    BY <1>15, <1>2 DEF Types, Located, Put, queryVars
  <2>3. LoopInv'
    BY <1>15, <1>2 DEF Types, Located, LoopInv, Put, queryVars, Current
  <2>4. Complete'
    BY <1>15, <1>2 DEF Types, Located, Complete, LoopInv, Put, queryVars
  <2> QED BY <2>1, <2>2, <2>3, <2>4 DEF TypeInv, TypeOK, Types
<1>16. ASSUME NEW u \in Users, Release(u) PROVE TypeInv'
  <2>1. Types'
    BY <1>16, <1>2 DEF Types, Release, Forget
  <2>2. Located'
    BY <1>16, <1>2 DEF Types, Located, Release, Forget
  <2>3. LoopInv'
    BY <1>16, <1>2 DEF Types, Located, LoopInv, Release, Forget, Current
  <2>4. Complete'
    BY <1>16, <1>2 DEF Types, Located, Complete, LoopInv, Release, Forget
  <2> QED BY <2>1, <2>2, <2>3, <2>4 DEF TypeInv, TypeOK, Types
<1>17. ASSUME UNCHANGED vars PROVE TypeInv'
  <2>1. Types'
    BY <1>17, <1>2 DEF Types, vars, queryVars
  <2>2. Located'
    BY <1>17, <1>2 DEF Types, Located, vars, queryVars
  <2>3. LoopInv'
    BY <1>17, <1>2 DEF Types, Located, LoopInv, vars, queryVars, Current
  <2>4. Complete'
    BY <1>17, <1>2 DEF Types, Located, Complete, LoopInv, vars, queryVars
  <2> QED BY <2>1, <2>2, <2>3, <2>4 DEF TypeInv, TypeOK, Types
<1> QED
  BY <1>3, <1>4, <1>5, <1>6, <1>7, <1>8, <1>9, <1>10,
     <1>11, <1>12, <1>13, <1>14, <1>15, <1>16, <1>17 DEF Next, Step, Cancel

(* The types of the billing connection, and where the rows of a result are. *)
THEOREM TypeCorrect == Spec => []TypeOK
<1>1. Spec => []TypeInv
  BY TypeInit, TypeStep, PTL DEF Spec
<1>2. TypeInv => TypeOK
  BY DEF TypeInv
<1> QED BY <1>1, <1>2, PTL

(* A query that returned 0 on a connection has all of its rows: a failure of
   any call, or a cancelRequest() at any time, shows in retval. *)
THEOREM ResultsComplete == Spec => []Complete
<1>1. Spec => []TypeInv
  BY TypeInit, TypeStep, PTL DEF Spec
<1>2. TypeInv => Complete
  BY DEF TypeInv
<1> QED BY <1>1, <1>2, PTL

----------------------------------------------------------------------------
(* Who is between lock and unlock has the mutex, a session in somebody's hands
   is not in the pool, and what is open belongs to a query. *)
MutexInv == \A u \in Users : InPool(u) <=> mutex = u

HandsInv ==
  \A u \in Users : conn[u] # None /\ pc[u] # "release" => conn[u] \notin idle

SessionsInv == MutexInv /\ HandsInv /\ Exclusive

LEMMA SessionsStep ==
  ASSUME TypeInv, SessionsInv, [Next]_vars
  PROVE  SessionsInv'
<1> USE BillingAssumption DEF Goes, InPool, Types, SessionsInv
<1>1. Types /\ Located
  BY DEF TypeInv, TypeOK
<1>2. ASSUME NEW u \in Users, TryLock(u) PROVE SessionsInv'
  BY <1>1, <1>2 DEF TryLock, MutexInv, HandsInv, Exclusive
<1>3. ASSUME NEW u \in Users, NEW s \in Sessions, Get(u, s)
      PROVE  SessionsInv'
  <2>1. mutex = u /\ s \in idle /\ pc[u] = "get"
    BY <1>1, <1>3 DEF Get, MutexInv
  <2>2. ASSUME NEW v \in Users PROVE conn[v] # s
    BY <1>1, <2>1, <2>2 DEF MutexInv, HandsInv
  <2>3. MutexInv'
    BY <1>1, <1>3 DEF Get, MutexInv
  <2>4. HandsInv'
    BY <1>1, <1>3, <2>2 DEF Get, HandsInv
  <2>5. Exclusive'
    BY <1>1, <1>3, <2>2 DEF Get, Exclusive
  <2> QED BY <2>3, <2>4, <2>5
<1>4. ASSUME NEW u \in Users, GetFails(u) \/ Unlock(u) \/ Lock(u) \/ Destroy(u)
      PROVE  SessionsInv'
  BY <1>1, <1>4
     DEF GetFails, Unlock, Lock, Destroy, MutexInv, HandsInv, Exclusive
<1>5. ASSUME NEW u \in Users, Put(u) PROVE SessionsInv'
  <2>1. MutexInv'
    BY <1>1, <1>5 DEF Put, MutexInv
  <2>2. ASSUME NEW v \in Users, conn[v] # None, v # u PROVE conn[v] # conn[u]
    BY <2>2 DEF Exclusive
  <2>3. HandsInv'
    BY <1>1, <1>5, <2>2 DEF Put, HandsInv, MutexInv
  <2>4. Exclusive'
    BY <1>5 DEF Put, Exclusive
  <2> QED BY <2>1, <2>3, <2>4
<1>6. ASSUME NEW u \in Users, Release(u) PROVE SessionsInv'
  BY <1>1, <1>6 DEF Release, Forget, MutexInv, HandsInv, Exclusive
<1>7. ASSUME NEW u \in Users,
             \/ (\E q \in Queries : Begin(u, q)) \/ Fetch(u) \/ Proceed(u)
             \/ Throw(u) \/ Terminate(u) \/ TerminateThrows(u)
      PROVE  SessionsInv'
  <2>1. /\ UNCHANGED <<mutex, idle, conn>>
        /\ \A v \in Users \ {u} : pc'[v] = pc[v]
        /\ pc[u] \in {"in", "query", "terminate"}
        /\ pc'[u] \in {"in", "query", "terminate", "lock"}
    BY <1>1, <1>7
       DEF Begin, Fetch, Proceed, Throw, Terminate, TerminateThrows
  <2> QED BY <2>1, <1>1 DEF MutexInv, HandsInv, Exclusive
<1>8. ASSUME UNCHANGED vars PROVE SessionsInv'
  BY <1>8 DEF vars, MutexInv, HandsInv, Exclusive
<1> QED
  BY <1>2, <1>3, <1>4, <1>5, <1>6, <1>7, <1>8 DEF Next, Step, Cancel

LEMMA SessionsCorrect == Spec => [](TypeInv /\ SessionsInv)
<1>1. Init => SessionsInv
  BY BillingAssumption
     DEF Init, SessionsInv, MutexInv, HandsInv, Exclusive, InPool
<1> QED BY <1>1, TypeInit, TypeStep, SessionsStep, PTL DEF Spec

(* No two instances have the same session, whatever throws. *)
THEOREM SessionsExclusive == Spec => []Exclusive
<1>1. SessionsInv => Exclusive
  BY DEF SessionsInv
<1> QED BY <1>1, SessionsCorrect, PTL

----------------------------------------------------------------------------
LEMMA StatementsStep ==
  ASSUME TypeInv, SessionsInv, StatementsTerminated, [Next]_vars
  PROVE  StatementsTerminated'
<1> USE BillingAssumption DEF Goes, Types
<1>1. Types /\ Located /\ Exclusive
  BY DEF TypeInv, TypeOK, SessionsInv
<1>2. ASSUME NEW u \in Users,
             \/ TryLock(u) \/ GetFails(u) \/ Unlock(u) \/ Lock(u)
             \/ Destroy(u) \/ Put(u) \/ Release(u)
             \/ \E s \in Sessions : Get(u, s)
      PROVE  StatementsTerminated'
  <2>1. /\ UNCHANGED <<open, refused>>
        /\ \A v \in Users \ {u} : pc'[v] = pc[v] /\ sth'[v] = sth[v]
        /\ \A v \in Users \ {u} : conn'[v] = conn[v]
        /\ pc[u] \notin {"query", "terminate"}
    BY <1>1, <1>2 DEF TryLock, GetFails, Unlock, Lock, Destroy, Put, Release,
                      Forget, Get, queryVars
  <2> QED BY <2>1 DEF StatementsTerminated
<1>3. ASSUME NEW u \in Users, NEW q \in Queries, Begin(u, q)
      PROVE  StatementsTerminated'
  BY <1>1, <1>3 DEF Begin, StatementsTerminated
<1>4. ASSUME NEW u \in Users, Fetch(u) PROVE StatementsTerminated'
  BY <1>1, <1>4 DEF Fetch, StatementsTerminated
<1>5. ASSUME NEW u \in Users, Proceed(u) PROVE StatementsTerminated'
  <2>1. /\ UNCHANGED <<conn, refused>>
        /\ \/ open' = open /\ sth' = sth
           \/ open' = open \cup {conn[u]} /\ sth' = [sth EXCEPT ![u] = TRUE]
    BY <1>5 DEF Proceed, Effect
  <2>2. /\ \A v \in Users \ {u} : pc'[v] = pc[v]
        /\ pc[u] = "query" /\ pc'[u] \in {"query", "terminate"}
    BY <1>1, <1>5 DEF Proceed
  <2>3. sth \in [Users -> BOOLEAN]
    BY <1>1
  <2> QED BY <2>1, <2>2, <2>3 DEF StatementsTerminated
<1>6. ASSUME NEW u \in Users, Throw(u) PROVE StatementsTerminated'
  <2>1. /\ UNCHANGED <<conn, open, refused, sth>>
        /\ \A v \in Users \ {u} : pc'[v] = pc[v]
        /\ sth[u] => pc'[u] = "terminate"
    BY <1>1, <1>6 DEF Throw
  <2> QED BY <2>1 DEF StatementsTerminated
<1>7. ASSUME NEW u \in Users, Terminate(u) \/ TerminateThrows(u)
      PROVE  StatementsTerminated'
  <2>1. /\ UNCHANGED conn
        /\ open' \ refused' \subseteq (open \ refused) \ {conn[u]}
        /\ \A v \in Users \ {u} : pc'[v] = pc[v] /\ sth'[v] = sth[v]
    BY <1>1, <1>7 DEF Terminate, TerminateThrows
  <2> QED BY <2>1 DEF StatementsTerminated
<1>8. ASSUME UNCHANGED vars PROVE StatementsTerminated'
  BY <1>8 DEF vars, queryVars, StatementsTerminated
<1> QED
  BY <1>2, <1>3, <1>4, <1>5, <1>6, <1>7, <1>8 DEF Next, Step, Cancel

(* A session goes back to the pool without an open statement, unless the
   database refused to terminate it. *)
THEOREM StatementsEnd == Spec => []StatementsTerminated
<1>1. Init => StatementsTerminated
  BY DEF Init, StatementsTerminated
<1> QED BY <1>1, SessionsCorrect, StatementsStep, PTL DEF Spec

----------------------------------------------------------------------------
LEMMA PoolStep ==
  ASSUME TypeInv, SessionsInv, [Next]_vars
  PROVE  [Pool!Next]_<<idle, Held>>
<1> USE BillingAssumption DEF Goes, Types
<1>1. Types /\ Located
  BY DEF TypeInv, TypeOK
<1>2. ASSUME NEW u \in Users, NEW s \in Sessions, Get(u, s)
      PROVE  Pool!Take(u, s)
  <2>1. Held[u] = None /\ Held' = [Held EXCEPT ![u] = s]
    BY <1>1, <1>2 DEF Get, Held, Located
  <2> QED BY <1>2, <2>1 DEF Get, Pool!Take
<1>3. ASSUME NEW u \in Users, Put(u) PROVE Pool!Give(u)
  <2>1. Held[u] = conn[u] /\ conn[u] # None
    BY <1>1, <1>3 DEF Put, Held, Located
  <2>2. Held' = [Held EXCEPT ![u] = None]
    BY <1>1, <1>3 DEF Put, Held
  <2> QED BY <1>3, <2>1, <2>2 DEF Put, Pool!Give
<1>4. ASSUME NEW u \in Users, Release(u) PROVE UNCHANGED <<idle, Held>>
  BY <1>1, <1>4 DEF Release, Held
<1>5. ASSUME NEW u \in Users,
             \/ TryLock(u) \/ GetFails(u) \/ Unlock(u) \/ Lock(u)
             \/ Destroy(u) \/ Fetch(u) \/ Proceed(u)
             \/ Throw(u) \/ Terminate(u) \/ TerminateThrows(u)
             \/ \E q \in Queries : Begin(u, q)
      PROVE  UNCHANGED <<idle, Held>>
  <2>1. /\ UNCHANGED <<idle, conn>>
        /\ \A v \in Users : pc'[v] = "release" <=> pc[v] = "release"
    BY <1>1, <1>5
       DEF TryLock, GetFails, Unlock, Lock, Destroy, Begin, Fetch, Proceed,
           Throw, Terminate, TerminateThrows
  <2> QED BY <2>1 DEF Held
<1>6. ASSUME UNCHANGED vars PROVE UNCHANGED <<idle, Held>>
  BY <1>6 DEF vars, Held
<1> QED
  BY <1>2, <1>3, <1>4, <1>5, <1>6 DEF Next, Step, Cancel, Pool!Next

(* The mutex, the exceptions and the two ways out of a query function make of
   the code no more than the atomic pool of SessionPool. *)
THEOREM ImplementsPool == Spec => Implements
<1>1. Init => Pool!Init
  BY DEF Init, Pool!Init, Held
<1> QED
  BY <1>1, SessionsCorrect, PoolStep, PTL DEF Spec, Implements, Pool!Spec

----------------------------------------------------------------------------
(* What a step does to a query. *)
Query(u) == <<pc[u], query[u], at[u], left[u]>>

(* It comes to the next call of its function, or its loop to the next row, of
   which there is one less. *)
Advances(u) ==
  /\ pc'[u] = "query" /\ query'[u] = query[u]
  /\ \/ at'[u] = at[u] + 1 /\ at'[u] <= Len(query[u].calls)
     \/ at'[u] = at[u] /\ left'[u] \in Nat /\ left[u] = left'[u] + 1

(* Each step of an instance in a query function brings it on or out of it, and no
   other instance and no cancelRequest() sets it back. *)
QueryGetsOn ==
  \A u \in Users : pc[u] = "query" =>
    IF Step(u) THEN Advances(u) \/ pc'[u] \in {"terminate", "in"}
    ELSE Query(u)' = Query(u)

LEMMA StepQuery ==
  ASSUME TypeInv, [Next]_vars
  PROVE  QueryGetsOn
<1> USE BillingAssumption DEF Goes
<1> SUFFICES ASSUME NEW u \in Users, pc[u] = "query"
             PROVE  IF Step(u) THEN Advances(u) \/ pc'[u] \in {"terminate", "in"}
                    ELSE Query(u)' = Query(u)
  BY DEF QueryGetsOn
<1>1. Types /\ Located /\ LoopInv
  BY DEF TypeInv, TypeOK, Types
<1>2. CASE Step(u)
  <2>1. CASE Fetch(u)
    <3>1. left[u] \in Nat /\ left[u] > 0
      BY <1>1, <2>1 DEF LoopInv, Fetch
    <3>2. left'[u] = left[u] - 1 /\ pc' = pc /\ query' = query /\ at' = at
      BY <1>1, <2>1 DEF Fetch, Types
    <3> QED  BY <1>2, <3>1, <3>2 DEF Advances
  <2>2. CASE Proceed(u)
    <3>1. CASE at[u] < Len(query[u].calls)
      <4>1. /\ at'[u] = at[u] + 1 /\ pc' = pc /\ query' = query
        BY <1>1, <2>2, <3>1 DEF Proceed, Types
      <4>2. at[u] \in 1..Len(query[u].calls) /\ query[u] \in Queries
        BY <1>1 DEF Located, Types
      <4>3. Len(query[u].calls) \in Nat
        BY <4>2, QueryShape DEF Shaped
      <4>4. at'[u] <= Len(query[u].calls)
        BY <3>1, <4>1, <4>2, <4>3
      <4> QED  BY <1>2, <4>1, <4>4 DEF Advances
    <3>2. CASE ~(at[u] < Len(query[u].calls))
      BY <1>1, <1>2, <2>2, <3>2 DEF Proceed, Types
    <3> QED  BY <3>1, <3>2
  <2>3. CASE Throw(u)
    BY <1>1, <1>2, <2>3 DEF Throw, Types
  <2>4. Fetch(u) \/ Proceed(u) \/ Throw(u)
    BY <1>2 DEF Step, Get, GetFails, Unlock, Terminate, TerminateThrows, Lock,
       Put, Release
  <2> QED  BY <2>1, <2>2, <2>3, <2>4
<1>3. CASE ~Step(u)
  <2>1. ASSUME NEW v \in Users, v # u,
               \/ TryLock(v) \/ Destroy(v) \/ Step(v)
               \/ \E q \in Queries : Begin(v, q)
               \/ pc[v] = "query" /\ Cancel(v)
        PROVE  Query(u)' = Query(u)
    <3>1. CASE TryLock(v) \/ Destroy(v)
      BY <1>1, <2>1, <3>1 DEF Types, TryLock, Destroy, queryVars, Query
    <3>2. CASE \E s \in Sessions : Get(v, s)
      BY <1>1, <2>1, <3>2 DEF Types, Get, queryVars, Query
    <3>3. CASE GetFails(v) \/ Unlock(v) \/ Lock(v) \/ Put(v)
      BY <1>1, <2>1, <3>3 DEF Types, GetFails, Unlock, Lock, Put, queryVars, Query
    <3>4. CASE Fetch(v)
      BY <1>1, <2>1, <3>4 DEF Types, Fetch, Query
    <3>5. CASE Proceed(v)
      <4>1. pc'[u] = pc[u] /\ at'[u] = at[u] /\ query'[u] = query[u]
        BY <1>1, <2>1, <3>5 DEF Types, Proceed
      <4>2. left'[u] = left[u]
        BY <1>1, <2>1, <3>5 DEF Types, Proceed, Effect
      <4> QED  BY <4>1, <4>2 DEF Query
    <3>6. CASE Throw(v) \/ Cancel(v)
      BY <1>1, <2>1, <3>6 DEF Types, Throw, Cancel, Query
    <3>7. CASE Terminate(v) \/ TerminateThrows(v)
      BY <1>1, <2>1, <3>7 DEF Types, Terminate, TerminateThrows, Query
    <3>8. CASE Release(v)
      BY <1>1, <2>1, <3>8 DEF Types, Release, Forget, Query
    <3>9. CASE \E q \in Queries : Begin(v, q)
      BY <1>1, <2>1, <3>9 DEF Types, Begin, Query
    <3> QED  BY <2>1, <3>1, <3>2, <3>3, <3>4, <3>5, <3>6, <3>7, <3>8, <3>9
             DEF Step
  <2>2. ~ \/ TryLock(u) \/ Destroy(u) \/ Step(u)
          \/ \E q \in Queries : Begin(u, q)
          \/ pc[u] = "query" /\ Cancel(u)
    BY <1>3 DEF TryLock, Destroy, Begin, Cancel, Step
  <2>3. CASE Next
    BY <2>1, <2>2, <2>3, <1>3 DEF Next
  <2>4. CASE UNCHANGED vars
    BY <1>3, <2>4 DEF vars, queryVars, Query
  <2> QED  BY <2>3, <2>4
<1> QED  BY <1>2, <1>3

(* No query function runs for ever, however many rows there are, as long as the
   database answers: this is the measure by which QueryReturns holds. *)
THEOREM QueriesGetOn == Spec => [][QueryGetsOn]_vars
<1>1. TypeInv /\ [Next]_vars => [QueryGetsOn]_vars
  BY StepQuery
<1>2. Spec => []TypeInv
  BY TypeInit, TypeStep, PTL DEF Spec
<1> QED  BY <1>1, <1>2, PTL DEF Spec
=============================================================================
