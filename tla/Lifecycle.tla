------------------------------ MODULE Lifecycle ------------------------------
(* How one ProcessContext opens and closes its connections: connect and close
   of context.py, over the pool of store/postgres.py, which any operation opens
   when there is none, and the driver of projection/neo4j.py, which is best
   effort. *)
EXTENDS Naturals, FiniteSets

CONSTANTS
    MaxRetries,   \* _max_retries of PostgresStore
    NoDriver,     \* _driver is None
    MaxDrivers    \* bound: drivers created

VARIABLES
    pool,        \* _pool is not None
    pools,       \* pools that are open
    connected,   \* _connected
    driver,      \* _driver of the Neo4jStore
    drivers,     \* drivers that were created and are not closed
    created,     \* drivers created so far
    available,   \* _available of the projector
    replaced,    \* some driver was replaced by another one
    at           \* where the call is: its step, the attempt and what follows

poolVars == <<pool, pools>>
driverVars == <<driver, drivers, created, replaced>>
lifecycleVars == <<poolVars, driverVars, connected, available, at>>

Resting == [step |-> "idle"]

LifecycleInit == /\ pool = FALSE /\ pools = 0
                 /\ connected = FALSE /\ available = FALSE
                 /\ driver = NoDriver /\ drivers = {} /\ created = 0
                 /\ replaced = FALSE
                 /\ at = Resting

------------------------------------------------------------------------------
(* connect, or an operation of the store: both need the pool. *)
Begin(step) ==
    /\ at = Resting
    /\ at' = [step |-> "pool", attempt |-> 0, next |-> [step |-> step]]
    /\ UNCHANGED <<poolVars, driverVars, connected, available>>

HavePool ==
    /\ at.step = "pool" /\ pool
    /\ at' = at.next
    /\ UNCHANGED <<poolVars, driverVars, connected, available>>

\* Mutant: connect opens a pool whether there is one or not.
NeedsPoolAlways == TRUE
NeedsPool == ~pool

OpenPool ==
    /\ at.step = "pool" /\ NeedsPool
    /\ pool' = TRUE /\ pools' = pools + 1
    /\ at' = at.next
    /\ UNCHANGED <<driverVars, connected, available>>

(* The call raises when the last attempt fails. *)
PoolRefused ==
    /\ at.step = "pool" /\ NeedsPool
    /\ at' = IF at.attempt = MaxRetries - 1 THEN Resting
             ELSE [at EXCEPT !.attempt = @ + 1]
    /\ UNCHANGED <<poolVars, driverVars, connected, available>>

(* init_schema of the store; when it raises, so does connect: the pool stays
   open, and a with statement does not come to its __exit__. *)
InitSchema ==
    /\ at.step = "schema"
    /\ connected' = TRUE
    /\ at' = [step |-> "graph"]
    /\ UNCHANGED <<poolVars, driverVars, available>>

InitSchemaRaises ==
    /\ at.step = "schema"
    /\ at' = Resting
    /\ UNCHANGED <<poolVars, driverVars, connected, available>>

------------------------------------------------------------------------------
(* Neo4jProjector.connect: the store's connect keeps the new driver before it is
   verified and does not close the one it had. *)
CreateDriver ==
    /\ at.step = "graph"
    /\ created < MaxDrivers
    /\ created' = created + 1
    /\ driver' = created'
    /\ drivers' = drivers \cup {created'}
    /\ replaced' = (replaced \/ driver # NoDriver)
    /\ at' = [step |-> "verify"]
    /\ UNCHANGED <<poolVars, connected, available>>

(* verify_connectivity and init_schema of the graph. *)
Verified ==
    /\ at.step = "verify"
    /\ available' = TRUE
    /\ at' = Resting
    /\ UNCHANGED <<poolVars, driverVars, connected>>

(* There is no driver, or one of its first calls fails: connect goes on. *)
GraphUnavailable ==
    /\ at.step \in {"graph", "verify"}
    /\ available' = FALSE
    /\ at' = Resting
    /\ UNCHANGED <<poolVars, driverVars, connected>>

------------------------------------------------------------------------------
\* Mutant: the projector does not notice that its driver is closed.
StayAvailable == UNCHANGED available
BecomeUnavailable == available' = FALSE

(* close, in any state; what closing the driver raises is swallowed, and the
   store then keeps it. *)
Close(fails) ==
    /\ at = Resting
    /\ pool' = FALSE /\ pools' = IF pool THEN pools - 1 ELSE pools
    /\ connected' = FALSE /\ BecomeUnavailable
    /\ IF fails THEN driver # NoDriver /\ UNCHANGED <<driver, drivers>>
       ELSE driver' = NoDriver /\ drivers' = drivers \ {driver}
    /\ UNCHANGED <<created, replaced, at>>

LifecycleNext ==
    \/ \E step \in {"schema", "idle"} : Begin(step)
    \/ HavePool \/ OpenPool \/ PoolRefused
    \/ InitSchema \/ InitSchemaRaises
    \/ CreateDriver \/ Verified \/ GraphUnavailable
    \/ \E fails \in BOOLEAN : Close(fails)

------------------------------------------------------------------------------
(* An available projector has an open driver, of a context that is connected: no
   projection meets "Neo4jStore is not connected", however connects, failures
   and closes follow each other. *)
AvailableIsConnected ==
    available => driver \in drivers /\ connected

(* The connections that are open are those that close will close: a failed or
   repeated connect, or an operation after close, opens no second pool, and
   drivers pile up only if one is replaced. *)
OnlyHeldIsOpen ==
    /\ pools = IF pool THEN 1 ELSE 0
    /\ ~replaced => drivers = {driver} \ {NoDriver}
===============================================================================
