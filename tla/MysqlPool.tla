------------------------------- MODULE MysqlPool -------------------------------
(***************************************************************************)
(* MysqlConnectionPool (src/Mysql.hpp): a queue of connections under a     *)
(* mutex.  popConn takes one out and wraps it in a MysqlConnection, whose  *)
(* destructor pushes it back; execute and query hold one for as long as    *)
(* they run, on whatever path they return.                                 *)
(***************************************************************************)
EXTENDS Naturals, Sequences

CONSTANTS
  User,                    \* threads that execute statements
  PoolSize,                \* connections init() tries to establish
  None                     \* no connection

Conn == 1 .. PoolSize

ASSUME PoolSizeAssumption == PoolSize \in Nat
ASSUME NoConnAssumption == None \notin Nat

VARIABLES
  established,             \* how many connections init() established
  idle,                    \* m_pool
  held,                    \* the connection each user has taken
  open                     \* the pool has not been destroyed

poolVars == <<established, idle, held, open>>

PoolTypeOK ==
  /\ established \in Conn
  /\ idle \in Seq(Conn)
  /\ held \in [User -> Conn \cup {None}]
  /\ open \in BOOLEAN

(* init() returned true: the first connection was established, and any     *)
(* number of the others.                                                   *)
PoolInit ==
  /\ established \in Conn
  /\ idle = [i \in 1 .. established |-> i]
  /\ held = [u \in User |-> None]
  /\ open = TRUE

(* Mutant: the connection is looked at and not taken out. *)
PopConnPeeks(u) ==
  /\ open /\ held[u] = None /\ idle # <<>>
  /\ held' = [held EXCEPT ![u] = Head(idle)]
  /\ UNCHANGED <<established, idle, open>>

PopConn(u) ==
  /\ open /\ held[u] = None /\ idle # <<>>
  /\ held' = [held EXCEPT ![u] = Head(idle)]
  /\ idle' = Tail(idle)
  /\ UNCHANGED <<established, open>>

(* Mutant: the connection is not pushed back. *)
PushConnForgets(u) ==
  /\ open /\ held[u] # None
  /\ held' = [held EXCEPT ![u] = None]
  /\ UNCHANGED <<established, idle, open>>

(* The destructor of the MysqlConnection. *)
PushConn(u) ==
  /\ open /\ held[u] # None
  /\ idle' = Append(idle, held[u])
  /\ held' = [held EXCEPT ![u] = None]
  /\ UNCHANGED <<established, open>>

(* The destructor of the pool closes what is idle.  execute and query run  *)
(* on a pool their caller keeps, so none of them is halfway.               *)
ClosePool ==
  /\ open /\ \A u \in User : held[u] = None
  /\ idle' = <<>>
  /\ open' = FALSE
  /\ UNCHANGED <<established, held>>

PoolNext == (\E u \in User : PopConn(u) \/ PushConn(u)) \/ ClosePool

PoolSpec == PoolInit /\ [][PoolNext]_poolVars

-----------------------------------------------------------------------------
(* Every connection established is idle or in the hands of one user: no    *)
(* two users speak over one connection at a time, and none is lost while   *)
(* the pool lives.                                                         *)
ConnectionsConserved ==
  /\ \A i, j \in DOMAIN idle : idle[i] = idle[j] => i = j
  /\ \A u \in User, i \in DOMAIN idle : held[u] # idle[i]
  /\ \A u, v \in User : held[u] = held[v] /\ held[u] # None => u = v
  /\ open => \A c \in 1 .. established :
       (\E i \in DOMAIN idle : idle[i] = c) \/ (\E u \in User : held[u] = c)
=============================================================================
